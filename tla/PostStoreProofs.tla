-------------------------- MODULE PostStoreProofs --------------------------
(***************************************************************************)
(* Type correctness and counter exactness of PostStore, for any number of  *)
(* accounts and posts.  The argument: the trigger is exact for every       *)
(* statement that neither moves a row to another author nor a reply to     *)
(* another parent, and every statement of the code is of that kind.        *)
(***************************************************************************)
EXTENDS PostStore, FiniteSetTheorems, TLAPS

\* The table without its counters: typed, finite, and with no dangling foreign key.
Shape ==
    /\ alive \subseteq Users
    /\ rows \subseteq Posts
    /\ IsFiniteSet(rows)
    /\ post \in [Posts -> PostRow]
    /\ \A p \in rows : /\ post[p].author \in Users
                       /\ post[p].parent \in rows \cup {None}

\* The counters, for every id: a post that has no row has no replies either.
Counts ==
    /\ postsCount \in [Users -> Nat]
    /\ repliesCount \in [Posts -> Nat]
    /\ \A u \in Users : postsCount[u] = Cardinality(AuthoredBy(u))
    /\ \A q \in Posts : repliesCount[q] = Cardinality(RepliesTo(q))

StoreInv == Shape /\ Counts

\* What every statement leaves alone in the rows it keeps.
KeepsColumns ==
    \A p \in rows \cap rows' : /\ post'[p].author = post[p].author
                               /\ post'[p].parent \in {post[p].parent, None}

----------------------------------------------------------------------------

\* The size of a set after some elements came and others went.
LEMMA CardinalityDelta ==
    ASSUME NEW A, NEW B, IsFiniteSet(A), IsFiniteSet(B)
    PROVE  /\ Cardinality(A) \in Nat
           /\ Cardinality(B) \in Nat
           /\ Cardinality(B) =
                Greatest0(Cardinality(A) + Cardinality(B \ A) - Cardinality(A \ B))
<1>1. /\ Cardinality(A) \in Nat
      /\ Cardinality(B) \in Nat
      /\ Cardinality(A \cap B) \in Nat
  BY FS_CardinalityType, FS_Intersection
<1>2. Cardinality(B \ A) = Cardinality(B) - Cardinality(B \cap A)
  BY FS_Difference
<1>3. Cardinality(A \ B) = Cardinality(A) - Cardinality(A \cap B)
  BY FS_Difference
<1>4. A \cap B = B \cap A
  OBVIOUS
<1>5. QED
  BY <1>1, <1>2, <1>3, <1>4 DEF Greatest0

\* trg_post_counts keeps both counters exact across one statement.
LEMMA TriggerExact ==
    ASSUME StoreInv, Shape', CountTrigger, KeepsColumns
    PROVE  Counts'
<1> USE DEF StoreInv
<1>1. ASSUME NEW u \in Users
      PROVE  /\ postsCount'[u] = Cardinality(AuthoredBy(u)')
             /\ Cardinality(AuthoredBy(u)') \in Nat
  <2>1. IsFiniteSet(AuthoredBy(u)) /\ IsFiniteSet(AuthoredBy(u)')
    BY FS_Subset DEF Shape, AuthoredBy
  <2>2. NewAuthored(u) = AuthoredBy(u)' \ AuthoredBy(u)
    BY DEF NewAuthored, AuthoredBy, Authored, Live, Undeleted, KeepsColumns
  <2>3. OldAuthored(u) = AuthoredBy(u) \ AuthoredBy(u)'
    BY DEF OldAuthored, AuthoredBy, Authored, Live, Undeleted, KeepsColumns
  <2>4. postsCount'[u] = Greatest0(Cardinality(AuthoredBy(u)) + Cardinality(NewAuthored(u))
                                                              - Cardinality(OldAuthored(u)))
    BY DEF CountTrigger, Counts
  <2>5. QED
    BY <2>1, <2>2, <2>3, <2>4, CardinalityDelta
<1>2. ASSUME NEW q \in Posts
      PROVE  /\ repliesCount'[q] = Cardinality(RepliesTo(q)')
             /\ Cardinality(RepliesTo(q)') \in Nat
  <2>1. IsFiniteSet(RepliesTo(q)) /\ IsFiniteSet(RepliesTo(q)')
    BY FS_Subset DEF Shape, RepliesTo
  <2>2. CASE q \notin rows'
    <3>1. RepliesTo(q)' = {}
      BY <2>2, StoreAssumption DEF Shape, RepliesTo
    <3>2. repliesCount'[q] = 0
      BY <2>2 DEF CountTrigger
    <3>3. QED
      BY <3>1, <3>2, FS_EmptySet
  <2>3. CASE q \in rows'
    <3>1. NewReplies(q) = RepliesTo(q)' \ RepliesTo(q)
      BY StoreAssumption
      DEF NewReplies, RepliesTo, Replying, Live, Undeleted, KeepsColumns
    <3>2. OldReplies(q) = RepliesTo(q) \ RepliesTo(q)'
      BY StoreAssumption
      DEF OldReplies, RepliesTo, Replying, Live, Undeleted, KeepsColumns
    <3>3. repliesCount'[q] = Greatest0(Cardinality(RepliesTo(q)) + Cardinality(NewReplies(q))
                                                                 - Cardinality(OldReplies(q)))
      BY <2>3 DEF CountTrigger, Counts
    <3>4. QED
      BY <2>1, <3>1, <3>2, <3>3, CardinalityDelta
  <2>4. QED
    BY <2>2, <2>3
<1>3. postsCount' \in [Users -> Nat]
  BY <1>1 DEF CountTrigger
<1>4. repliesCount' \in [Posts -> Nat]
  BY <1>2 DEF CountTrigger
<1>5. QED
  BY <1>1, <1>2, <1>3, <1>4 DEF Counts

----------------------------------------------------------------------------
(* Every statement is of the kind TriggerExact asks for.                    *)

\* A column update: same rows, same authors and parents.
LEMMA UpdateKeeps ==
    ASSUME Shape, rows' = rows, alive' = alive, post' \in [Posts -> PostRow],
           \A p \in rows : /\ post'[p].author = post[p].author
                           /\ post'[p].parent = post[p].parent
    PROVE  Shape' /\ KeepsColumns
BY DEF Shape, KeepsColumns

\* A hard delete nulls the references to the rows it takes.
LEMMA RemovalKeeps ==
    ASSUME Shape, alive' \subseteq Users, NEW S \in SUBSET rows, RemoveRows(S)
    PROVE  Shape' /\ KeepsColumns
<1>1. rows' = rows \ S
  BY DEF RemoveRows
<1>2. post' \in [Posts -> PostRow]
  <2> SUFFICES ASSUME NEW p \in Posts
               PROVE  post'[p] \in PostRow
    BY DEF RemoveRows
  <2>0. post[p] \in PostRow
    BY DEF Shape
  <2>1. CASE p \in S
    BY <2>0, <2>1 DEF RemoveRows, Tombstone, Unissued, PostRow, Visibility, ModState, Deletion
  <2>2. CASE p \notin S
    BY <2>0, <2>2 DEF RemoveRows, PostRow
  <2>3. QED
    BY <2>1, <2>2
<1>3. ASSUME NEW p \in rows'
      PROVE  /\ post'[p].author = post[p].author
             /\ post'[p].parent = IF post[p].parent \in S THEN None ELSE post[p].parent
  BY <1>1 DEF RemoveRows, Shape, PostRow
<1>4. IsFiniteSet(rows')
  BY <1>1, FS_Difference DEF Shape
<1>5. QED
  BY <1>1, <1>2, <1>3, <1>4 DEF Shape, KeepsColumns

LEMMA InsertKeeps ==
    ASSUME Shape,
           NEW p \in Posts, NEW u \in Users, NEW vis \in Visibility, NEW state \in ModState,
           NEW parent \in Posts \cup {None}, NEW repostOf \in Posts \cup {None},
           InsertPost(p, u, vis, parent, repostOf, state)
    PROVE  Shape' /\ KeepsColumns
<1>1. p \notin rows
  BY StoreAssumption DEF InsertPost, Issued, Shape
<1>2. post' \in [Posts -> PostRow]
  BY DEF InsertPost, Shape, PostRow, Deletion
<1>3. IsFiniteSet(rows')
  BY FS_AddElement DEF InsertPost, Shape
<1>4. QED
  BY <1>1, <1>2, <1>3 DEF InsertPost, Shape, KeepsColumns

----------------------------------------------------------------------------
(* The invariant, one step per statement.                                   *)

LEMMA StoreInitInv == StoreInit => StoreInv
<1> SUFFICES ASSUME StoreInit
             PROVE  StoreInv
  OBVIOUS
<1>1. Shape
  BY FS_EmptySet DEF StoreInit, Shape, PostRow, Unissued, Visibility, ModState, Deletion
<1>2. /\ \A u \in Users : AuthoredBy(u) = {}
      /\ \A q \in Posts : RepliesTo(q) = {}
  BY DEF StoreInit, AuthoredBy, RepliesTo
<1>3. QED
  BY <1>1, <1>2, FS_EmptySet DEF StoreInit, StoreInv, Counts

\* A row growing older, or nothing at all, moves no row in or out of a counted set.
LEMMA UncountedStep ==
    ASSUME StoreInv, UNCHANGED <<alive, rows, postsCount, repliesCount>>,
           post' \in [Posts -> PostRow],
           \A p \in rows : /\ post'[p].author = post[p].author
                           /\ post'[p].parent = post[p].parent
                           /\ post'[p].vis = post[p].vis
                           /\ post'[p].state = post[p].state
                           /\ post'[p].deleted = "no" <=> post[p].deleted = "no"
    PROVE  StoreInv'
<1>1. Shape'
  BY DEF StoreInv, Shape
<1>2. \A u \in Users : AuthoredBy(u)' = AuthoredBy(u)
  BY DEF AuthoredBy, Authored, Live, Undeleted
<1>3. \A q \in Posts : RepliesTo(q)' = RepliesTo(q)
  BY DEF RepliesTo, Replying, Live, Undeleted
<1>4. QED
  BY <1>1, <1>2, <1>3 DEF StoreInv, Counts

LEMMA SetStateInv ==
    ASSUME StoreInv, NEW p \in Posts, NEW from, NEW s \in ModState, SetState(p, from, s)
    PROVE  StoreInv'
<1>1. /\ post' \in [Posts -> PostRow]
      /\ \A q \in rows : /\ post'[q].author = post[q].author
                         /\ post'[q].parent = post[q].parent
  BY DEF StoreInv, Shape, SetState, PostRow
<1>2. Shape' /\ KeepsColumns
  BY <1>1, UpdateKeeps DEF StoreInv, SetState
<1>3. QED
  BY <1>2, TriggerExact DEF StoreInv, SetState

LEMMA SweepStateInv ==
    ASSUME StoreInv, NEW u \in Users, NEW from, NEW s \in ModState, SweepState(u, from, s)
    PROVE  StoreInv'
<1>1. /\ post' \in [Posts -> PostRow]
      /\ \A q \in rows : /\ post'[q].author = post[q].author
                         /\ post'[q].parent = post[q].parent
  BY DEF StoreInv, Shape, SweepState, PostRow
<1>2. Shape' /\ KeepsColumns
  BY <1>1, UpdateKeeps DEF StoreInv, SweepState
<1>3. QED
  BY <1>2, TriggerExact DEF StoreInv, SweepState

\* StoreInv is inductive.
LEMMA StoreStepInv == StoreInv /\ [StoreNext]_storeVars => StoreInv'
<1> SUFFICES ASSUME StoreInv, [StoreNext]_storeVars
             PROVE  StoreInv'
  OBVIOUS
<1>1. ASSUME NEW p \in Posts, NEW u \in Users, NEW vis \in Visibility,
             NEW parent \in Posts \cup {None}, NEW repostOf \in Posts \cup {None},
             NEW s \in ModState, InsertPost(p, u, vis, parent, repostOf, s)
      PROVE  StoreInv'
  <2>1. Shape' /\ KeepsColumns
    BY <1>1, InsertKeeps DEF StoreInv
  <2>2. QED
    BY <1>1, <2>1, TriggerExact DEF StoreInv, InsertPost
<1>2. ASSUME NEW p \in Posts, SoftDelete(p) \/ Undelete(p)
      PROVE  StoreInv'
  <2>1. /\ post' \in [Posts -> PostRow]
        /\ \A q \in rows : /\ post'[q].author = post[q].author
                           /\ post'[q].parent = post[q].parent
    BY <1>2 DEF StoreInv, Shape, SoftDelete, Undelete, PostRow, Deletion
  <2>2. Shape' /\ KeepsColumns
    BY <1>2, <2>1, UpdateKeeps DEF StoreInv, SoftDelete, Undelete
  <2>3. QED
    BY <1>2, <2>2, TriggerExact DEF StoreInv, SoftDelete, Undelete
<1>3. ASSUME NEW p \in Posts, Expire(p)
      PROVE  StoreInv'
  <2>1. /\ post' \in [Posts -> PostRow]
        /\ \A q \in rows : /\ post'[q].author = post[q].author
                           /\ post'[q].parent = post[q].parent
                           /\ post'[q].vis = post[q].vis
                           /\ post'[q].state = post[q].state
                           /\ post'[q].deleted = "no" <=> post[q].deleted = "no"
    BY <1>3 DEF StoreInv, Shape, Expire, PostRow, Deletion
  <2>2. QED
    BY <1>3, <2>1, UncountedStep DEF Expire
<1>4. ASSUME NEW p \in Posts, StateChange(p)
      PROVE  StoreInv'
  BY <1>4, SetStateInv DEF StateChange, ModState
<1>5. ASSUME NEW u \in Users, SweepState(u, "live", "shadow") \/ SweepState(u, "shadow", "live")
      PROVE  StoreInv'
  BY <1>5, SweepStateInv DEF ModState
<1>6. ASSUME NEW S \in SUBSET rows, alive' \subseteq Users, RemoveRows(S)
      PROVE  StoreInv'
  <2>1. Shape' /\ KeepsColumns
    BY <1>6, RemovalKeeps DEF StoreInv
  <2>2. QED
    BY <1>6, <2>1, TriggerExact DEF StoreInv, RemoveRows
<1>7. CASE PurgeTrash
  BY <1>6, <1>7 DEF PurgeTrash, Purgeable, StoreInv, Shape
<1>8. ASSUME NEW u \in Users, RemoveAccount(u)
      PROVE  StoreInv'
  BY <1>6, <1>8 DEF RemoveAccount, StoreInv, Shape
<1>9. CASE UNCHANGED storeVars
  BY <1>9, UncountedStep DEF storeVars, StoreInv, Shape
<1>10. QED
  <2>1. PostVis \subseteq Visibility /\ "public" \in Visibility /\ "live" \in ModState
    BY StoreAssumption DEF Visibility, ModState
  <2>2. QED
    BY <1>1, <1>2, <1>3, <1>4, <1>5, <1>7, <1>8, <1>9, <2>1 DEF StoreNext

LEMMA StoreInvariant == StoreSpec => []StoreInv
BY StoreInitInv, StoreStepInv, PTL DEF StoreSpec

\* Every variable keeps its type, for any set of accounts and posts.
THEOREM StoreTypeCorrect == StoreSpec => []StoreTypeOK
<1>1. StoreInv => StoreTypeOK
  BY DEF StoreInv, Shape, Counts, StoreTypeOK
<1>2. QED
  BY <1>1, StoreInvariant, PTL

\* The trigger's counters never drift, for any set of accounts and posts.
THEOREM CountersNeverDrift == StoreSpec => []CountersExact
<1>1. StoreInv => CountersExact
  BY DEF StoreInv, Shape, Counts, CountersExact
<1>2. QED
  BY <1>1, StoreInvariant, PTL

----------------------------------------------------------------------------
(* Action properties.                                                       *)

\* A statement that hard-deletes nothing removes no row and moves no reply.
LEMMA NonRemovalKeepsRows ==
    ASSUME StoreInv, StoreNext, ~PurgeTrash, \A u \in Users : ~RemoveAccount(u)
    PROVE  /\ rows \subseteq rows'
           /\ \A q \in rows : post'[q].parent = post[q].parent
<1> USE DEF StoreInv, Shape
<1>1. ASSUME NEW p \in Posts, NEW u \in Users, NEW vis, NEW parent, NEW repostOf, NEW s,
             InsertPost(p, u, vis, parent, repostOf, s)
      PROVE  /\ rows \subseteq rows'
             /\ \A q \in rows : post'[q].parent = post[q].parent
  BY <1>1, StoreAssumption DEF InsertPost, Issued
<1>2. ASSUME NEW p \in Posts, SoftDelete(p) \/ Undelete(p) \/ Expire(p)
      PROVE  rows' = rows /\ \A q \in rows : post'[q].parent = post[q].parent
  BY <1>2 DEF SoftDelete, Undelete, Expire, PostRow
<1>3. ASSUME NEW p \in Posts, StateChange(p)
      PROVE  rows' = rows /\ \A q \in rows : post'[q].parent = post[q].parent
  BY <1>3 DEF StateChange, SetState, PostRow
<1>4. ASSUME NEW u \in Users, NEW from, NEW s, SweepState(u, from, s)
      PROVE  rows' = rows /\ \A q \in rows : post'[q].parent = post[q].parent
  BY <1>4 DEF SweepState, PostRow
<1>5. QED
  BY <1>1, <1>2, <1>3, <1>4 DEF StoreNext

\* No purge ever makes a root post of an undeleted reply.
THEOREM ThreadsAlwaysSurvivePurge == StoreSpec => ThreadsSurvivePurge
<1>1. ASSUME StoreInv, [StoreNext]_storeVars, alive' = alive, NEW p \in rows,
             Undeleted(p), Undeleted(p)'
      PROVE  post'[p].parent = post[p].parent
  <2>1. CASE PurgeTrash
    <3>1. p \in rows' /\ p \in Posts /\ p \notin Purgeable
      BY <1>1, <2>1 DEF Undeleted, PurgeTrash, RemoveRows, StoreInv, Shape
    <3>2. post[p].parent \notin Purgeable
      BY <1>1 DEF Purgeable, Undeleted
    <3>3. post'[p] = [post[p] EXCEPT !.parent   = IF @ \in Purgeable THEN None ELSE @,
                                     !.repostOf = IF @ \in Purgeable THEN None ELSE @]
      BY <2>1, <3>1 DEF PurgeTrash, RemoveRows
    <3>4. post[p] \in PostRow
      BY <3>1, <1>1 DEF StoreInv, Shape
    <3>5. QED
      BY <3>2, <3>3, <3>4 DEF PostRow
  <2>2. CASE \E u \in Users : RemoveAccount(u)
    BY <1>1, <2>2 DEF RemoveAccount
  <2>3. CASE UNCHANGED storeVars
    BY <2>3 DEF storeVars
  <2>4. QED
    BY <1>1, <2>1, <2>2, <2>3, NonRemovalKeepsRows
<1>2. StoreInv /\ [StoreNext]_storeVars
        => [alive' = alive =>
              \A p \in rows : Undeleted(p) /\ Undeleted(p)' => post'[p].parent = post[p].parent
           ]_storeVars
  BY <1>1
<1>3. QED
  BY <1>2, StoreInvariant, PTL DEF StoreSpec, ThreadsSurvivePurge

\* A trashed row under 30 days old is only ever removed with its author's account.
THEOREM TrashAlwaysKept == StoreSpec => TrashIsKept
<1>1. ASSUME StoreInv, [StoreNext]_storeVars, NEW p \in rows,
             post[p].deleted = "trash", post[p].author \in alive'
      PROVE  p \in rows'
  <2>1. CASE PurgeTrash
    BY <1>1, <2>1 DEF PurgeTrash, Purgeable, RemoveRows
  <2>2. CASE \E u \in Users : RemoveAccount(u)
    BY <1>1, <2>2 DEF RemoveAccount, RemoveRows
  <2>3. CASE UNCHANGED storeVars
    BY <2>3 DEF storeVars
  <2>4. QED
    BY <1>1, <2>1, <2>2, <2>3, NonRemovalKeepsRows
<1>2. StoreInv /\ [StoreNext]_storeVars
        => [\A p \in rows : post[p].deleted = "trash" /\ post[p].author \in alive'
                               => p \in rows']_storeVars
  BY <1>1
<1>3. QED
  BY <1>2, StoreInvariant, PTL DEF StoreSpec, TrashIsKept
=============================================================================
