---------------------------- MODULE ArrayFilter ----------------------------
(***************************************************************************)
(* Array.prototype.filter, as the clients use it: the items that are       *)
(* wanted, in their order.  A recursive function, so that it can be proved *)
(* about.                                                                  *)
(***************************************************************************)
EXTENDS Integers, Sequences

Items(seq) == {seq[i] : i \in DOMAIN seq}

Filter(items, wanted) ==
    LET upTo[n \in 0..Len(items)] ==
          IF n = 0 THEN <<>>
          ELSE IF items[n] \in wanted THEN Append(upTo[n - 1], items[n])
          ELSE upTo[n - 1]
    IN  upTo[Len(items)]
=============================================================================
