----------------------------- MODULE MCAccounts -----------------------------
(* Accounts with a settled member and two newcomers.  An instance gets       *)
(* requests for one of four groups of operations, so that each group can be  *)
(* explored with two requests in flight.                                     *)
EXTENDS Accounts, TLC

Joining    == {"oauth", "request", "verify", "invite", "delete", "expire"}
Factoring  == {"request", "verify", "factor"}
Suspending == {"request", "verify", "token", "session", "suspend", "readmit", "delete"}
Alternate  == {"passkey", "oauth", "suspend", "readmit", "delete"}
AllTraffic == {Joining, Factoring, Suspending, Alternate}
Leaving    == {Joining}

AccountSymmetry == Permutations(Requests) \cup Permutations(Links) \cup Permutations(Sessions)
                     \cup Permutations(Accounts \ Settled)
=============================================================================
