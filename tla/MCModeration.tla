---------------------------- MODULE MCModeration ----------------------------
(* Moderation with one admin and two members, who are interchangeable.        *)
EXTENDS Moderation, TLC
ModSymmetry == Permutations(Users \ Admins) \cup Permutations(Posts)
                 \cup Permutations(Requests) \cup Permutations(Appeals)
=============================================================================
