---------------------------- MODULE MCSearchSync ----------------------------
(* SearchSync on a small instance.                                            *)
EXTENDS SearchSync
=============================================================================
