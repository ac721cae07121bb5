----------------------------- MODULE PostStore -----------------------------
(***************************************************************************)
(* The posts table of the service, the two counters its row trigger        *)
(* maintains (users.posts_count, posts.replies_count) and the accounts the *)
(* rows belong to.  One action stands for one SQL statement that changes a *)
(* row: Postgres runs each atomically, trigger included, so these are the  *)
(* steps the request handlers and the hourly cleanup interleave.           *)
(*                                                                         *)
(* Abstracted away: bodies, hashtags, media and timestamps other than      *)
(* deleted_at, of which only "younger / older than 30 days" is kept.       *)
(***************************************************************************)
EXTENDS Integers, FiniteSets

CONSTANTS Users,   \* account ids
          Posts,   \* post ids that may ever be issued
          None,    \* SQL NULL
          PostVis  \* the visibilities posts are created with

Visibility == {"private", "followers", "public"}

ASSUME StoreAssumption == /\ None \notin Users
                          /\ None \notin Posts
                          /\ PostVis \subseteq Visibility

VARIABLES alive,         \* rows of the users table
          rows,          \* rows of the posts table
          post,          \* column values, kept as a tombstone once a row is gone
          postsCount,    \* users.posts_count
          repliesCount   \* posts.replies_count

storeVars == <<alive, rows, post, postsCount, repliesCount>>

ModState   == {"live", "quarantine", "removed", "shadow"}
Deletion   == {"no", "trash", "expired"}   \* NULL, under 30 days, over 30 days

PostRow == [author   : Users \cup {None},
            vis      : Visibility,
            parent   : Posts \cup {None},
            repostOf : Posts \cup {None},
            state    : ModState,
            deleted  : Deletion]

\* An id no INSERT has returned yet.
Unissued == [author |-> None, vis |-> "private", parent |-> None,
             repostOf |-> None, state |-> "live", deleted |-> "no"]

\* What is remembered of a row after a hard delete: whose it was and how visible.
Tombstone(r) == [Unissued EXCEPT !.author = r.author, !.vis = r.vis]

Issued(p) == post[p].author # None

StoreTypeOK ==
    /\ alive \subseteq Users
    /\ rows \subseteq Posts
    /\ post \in [Posts -> PostRow]
    /\ postsCount \in [Users -> Nat]
    /\ repliesCount \in [Posts -> Nat]

StoreInit ==
    /\ alive = Users
    /\ rows = {}
    /\ post = [p \in Posts |-> Unissued]
    /\ postsCount = [u \in Users |-> 0]
    /\ repliesCount = [p \in Posts |-> 0]

----------------------------------------------------------------------------
(* The counter trigger.                                                    *)

Undeleted(p) == p \in rows /\ post[p].deleted = "no"
Live(p)      == Undeleted(p) /\ post[p].state = "live"

\* old_authored / new_authored and old_reply / new_reply of trg_post_counts.
Authored(p) == Live(p) /\ post[p].vis = "public"
Replying(p) == Live(p) /\ post[p].parent # None

AuthoredBy(u) == {p \in rows : Authored(p) /\ post[p].author = u}
RepliesTo(q)  == {p \in rows : Replying(p) /\ post[p].parent = q}

\* GREATEST(n, 0)
Greatest0(n) == IF n < 0 THEN 0 ELSE n

\* The rows the statement made count, and those it stopped counting.
\* NewAuthoredAnyReach, a mutant: posts of any visibility are counted.
NewAuthoredAnyReach(u) ==
                  {p \in rows' : Live(p)' /\ ~Live(p) /\ post'[p].author = u}
NewAuthored(u) == {p \in rows' : Authored(p)' /\ ~Authored(p) /\ post'[p].author = u}
OldAuthored(u) == {p \in rows  : Authored(p) /\ ~Authored(p)' /\ post[p].author = u}
NewReplies(q)  == {p \in rows' : Replying(p)' /\ ~Replying(p) /\ post'[p].parent = q}
OldReplies(q)  == {p \in rows  : Replying(p) /\ ~Replying(p)' /\ post[p].parent = q}

\* trg_post_counts, once for every row the statement touched.  A row that counted
\* before and still counts moves no counter, whatever else changed in it.  An
\* UPDATE of a row that is gone changes nothing, so a counter is kept for rows only.
CountTrigger ==
    /\ postsCount' =
         [u \in Users |-> Greatest0(postsCount[u] + Cardinality(NewAuthored(u))
                                                  - Cardinality(OldAuthored(u)))]
    /\ repliesCount' =
         [q \in Posts |-> IF q \in rows'
                          THEN Greatest0(repliesCount[q] + Cardinality(NewReplies(q))
                                                         - Cardinality(OldReplies(q)))
                          ELSE 0]

----------------------------------------------------------------------------
(* Statements.                                                             *)

\* Mutant of InsertPost: two columns of the same SQL type are bound in the wrong order.
InsertPostSwapped(p, u, vis, parent, repostOf, state) ==
    /\ ~Issued(p)
    /\ u \in alive
    /\ {parent, repostOf} \subseteq rows \cup {None}
    /\ rows' = rows \cup {p}
    /\ post' = [post EXCEPT ![p] = [author |-> u, vis |-> state, parent |-> parent,
                                    repostOf |-> repostOf, state |-> vis,
                                    deleted |-> "no"]]
    /\ CountTrigger
    /\ UNCHANGED alive

\* INSERT INTO posts: a fresh id, and foreign keys that refer to existing rows.
InsertPost(p, u, vis, parent, repostOf, state) ==
    /\ ~Issued(p)
    /\ u \in alive
    /\ {parent, repostOf} \subseteq rows \cup {None}
    /\ rows' = rows \cup {p}
    /\ post' = [post EXCEPT ![p] = [author |-> u, vis |-> vis, parent |-> parent,
                                    repostOf |-> repostOf, state |-> state,
                                    deleted |-> "no"]]
    /\ CountTrigger
    /\ UNCHANGED alive

\* UPDATE ... SET deleted_at = NOW() WHERE deleted_at IS NULL
SoftDelete(p) ==
    /\ Undeleted(p)
    /\ post' = [post EXCEPT ![p].deleted = "trash"]
    /\ rows' = rows
    /\ CountTrigger
    /\ UNCHANGED alive

\* UPDATE ... SET deleted_at = NULL, for a row trashed less than 30 days ago
Undelete(p) ==
    /\ p \in rows
    /\ post[p].deleted = "trash"
    /\ post' = [post EXCEPT ![p].deleted = "no"]
    /\ rows' = rows
    /\ CountTrigger
    /\ UNCHANGED alive

\* UPDATE ... SET moderation_state = s WHERE moderation_state IN from
SetState(p, from, s) ==
    /\ p \in rows
    /\ post[p].state \in from
    /\ post' = [post EXCEPT ![p].state = s]
    /\ rows' = rows
    /\ CountTrigger
    /\ UNCHANGED alive

\* Mutants of SweepState: trashed rows are left out; the old state is not looked at.
SweepStateUndeleted(u, from, s) ==
    /\ post' = [p \in Posts |-> IF /\ Undeleted(p)
                                   /\ post[p].author = u
                                   /\ post[p].state = from
                                THEN [post[p] EXCEPT !.state = s]
                                ELSE post[p]]
    /\ rows' = rows
    /\ CountTrigger
    /\ UNCHANGED alive
SweepStateAll(u, from, s) ==
    /\ post' = [p \in Posts |-> IF p \in rows /\ post[p].author = u
                                THEN [post[p] EXCEPT !.state = s]
                                ELSE post[p]]
    /\ rows' = rows
    /\ CountTrigger
    /\ UNCHANGED alive

\* The bulk form, over every row of one author, trashed rows included.
SweepState(u, from, s) ==
    /\ post' = [p \in Posts |-> IF /\ p \in rows
                                   /\ post[p].author = u
                                   /\ post[p].state = from
                                THEN [post[p] EXCEPT !.state = s]
                                ELSE post[p]]
    /\ rows' = rows
    /\ CountTrigger
    /\ UNCHANGED alive

\* Hard delete: reply_to_id and repost_of_id are ON DELETE SET NULL.
RemoveRows(S) ==
    /\ rows' = rows \ S
    /\ post' = [p \in Posts |->
                  IF p \in S THEN Tombstone(post[p])
                  ELSE [post[p] EXCEPT
                          !.parent   = IF @ \in S THEN None ELSE @,
                          !.repostOf = IF @ \in S THEN None ELSE @]]
    /\ CountTrigger

\* Mutants of Purgeable: replies are not looked at; neither is the age of the row.
PurgeableReplied == {p \in rows : post[p].deleted = "expired"}
PurgeableAnyAge  == {p \in rows : /\ post[p].deleted # "no"
                                  /\ ~\E c \in rows : post[c].parent = p /\ post[c].deleted = "no"}

\* The hourly purge: expired rows that no undeleted row replies to.
Purgeable == {p \in rows : /\ post[p].deleted = "expired"
                           /\ ~\E c \in rows : post[c].parent = p /\ post[c].deleted = "no"}
PurgeTrash ==
    /\ Purgeable # {}
    /\ RemoveRows(Purgeable)
    /\ UNCHANGED alive

\* DELETE FROM users, cascading to the author's posts.
RemoveAccount(u) ==
    /\ u \in alive
    /\ alive' = alive \ {u}
    /\ RemoveRows({p \in rows : post[p].author = u})

\* Thirty days pass since deleted_at.
Expire(p) ==
    /\ p \in rows
    /\ post[p].deleted = "trash"
    /\ post' = [post EXCEPT ![p].deleted = "expired"]
    /\ UNCHANGED <<alive, rows, postsCount, repliesCount>>

\* The moderation_state changes the code makes to one row: an admin's patch_post,
\* the report threshold, a granted appeal.
StateChange(p) ==
    \/ \E s \in ModState \ {"shadow"} : SetState(p, ModState, s)
    \/ SetState(p, {"live"}, "quarantine")
    \/ SetState(p, ModState \ {"live"}, "live")

StoreNext ==
    \/ \E p \in Posts, u \in Users, vis \in PostVis, parent \in Posts \cup {None},
          s \in ModState \ {"removed"} : InsertPost(p, u, vis, parent, None, s)
    \/ \E p, target \in Posts, u \in Users : InsertPost(p, u, "public", None, target, "live")
    \/ \E p \in Posts : SoftDelete(p) \/ Undelete(p) \/ Expire(p) \/ StateChange(p)
    \/ \E u \in Users : SweepState(u, "live", "shadow") \/ SweepState(u, "shadow", "live")
    \/ PurgeTrash
    \/ \E u \in Users : RemoveAccount(u)

StoreSpec == StoreInit /\ [][StoreNext]_storeVars

----------------------------------------------------------------------------
(* Properties.                                                             *)

\* Neither counter ever drifts: after every statement posts_count is the number of
\* live public undeleted posts of the account and replies_count the number of live
\* undeleted direct replies, as migration 0033 promises of its trigger.
CountersExact ==
    /\ \A u \in Users : postsCount[u] = Cardinality(AuthoredBy(u))
    /\ \A q \in rows : repliesCount[q] = Cardinality(RepliesTo(q))

\* The purge never turns an undeleted reply into a root post: a reply that is
\* undeleted on both sides of a step keeps its parent, unless an account was deleted.
ThreadsSurvivePurge ==
    [][alive' = alive =>
         \A p \in rows : Undeleted(p) /\ Undeleted(p)' => post'[p].parent = post[p].parent
      ]_storeVars

\* A trashed post stays restorable for 30 days: until it expires its row is not
\* removed by anything but the deletion of its author's account.
TrashIsKept ==
    [][\A p \in rows : post[p].deleted = "trash" /\ post[p].author \in alive'
                         => p \in rows']_storeVars
=============================================================================
