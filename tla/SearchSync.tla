---------------------------- MODULE SearchSync ----------------------------
(***************************************************************************)
(* The full-text index, kept beside the posts table by detached tasks.  A  *)
(* handler that changes what a reader may find spawns a task and answers   *)
(* at once; the task reads Postgres and calls Meilisearch, one HTTP call   *)
(* per step, and a call that fails is logged and forgotten.                *)
(*                                                                         *)
(* The index is the set of ids with a document.  Every document the code   *)
(* builds carries visibility "public" and moderation_state "live" as       *)
(* constants, so search_public's filter on those two finds all of them.    *)
(* Meilisearch itself is external: it applies calls in order of arrival.   *)
(***************************************************************************)
EXTENDS Moderation

CONSTANTS Tasks,    \* tasks that may be running at once
          Overlap,  \* whether a request may begin while others or tasks are running
          Loses     \* whether a call to Meilisearch may fail

ASSUME SearchAssumption == Overlap \in BOOLEAN /\ Loses \in BOOLEAN

VARIABLES index,  \* ids of the documents in the posts index
          task    \* the detached tasks

searchVars == <<index, task>>
allVars    == <<vars, searchVars>>

----------------------------------------------------------------------------
(* State.                                                                  *)

Plan == {"none", "drop_user", "sync_user", "index_user", "reindex"}

Job == [plan  : Plan,                  \* rows still to be selected
        user  : Users \cup {None},     \* whose
        syncs : SUBSET Posts,          \* ids to run sync_post_search on
        puts  : SUBSET Posts,          \* documents built, to be sent in one call
        drops : SUBSET Posts]          \* documents to delete, one call each

NoJob == [plan |-> "none", user |-> None, syncs |-> {}, puts |-> {}, drops |-> {}]

SearchTypeOK == /\ ModTypeOK
                /\ index \subseteq Posts
                /\ task \in [Tasks -> Job]

SearchInit == Init /\ index = {} /\ task = [t \in Tasks |-> NoJob]

\* Mutant of Eligible: the visibility is forgotten.
EligibleAnyReach(p) == Live(p) /\ role[post[p].author] # "suspended"

\* Rows sync_post_search, sync_user_search and reindex put in the index.
Eligible(p) == /\ Live(p)
               /\ post[p].vis = "public"
               /\ role[post[p].author] # "suspended"

UndeletedOf(u) == {p \in rows : Undeleted(p) /\ post[p].author = u}

Idling  == \A t \in Tasks : task[t] = NoJob
Settled == Quiet /\ Idling

----------------------------------------------------------------------------
(* Tasks.                                                                  *)

\* tokio::spawn.  Bound: a handler waits for a free task.
Spawn(job) ==
    /\ \E t \in Tasks : task[t] = NoJob /\ task' = [task EXCEPT ![t] = job]
    /\ UNCHANGED index

NoSpawn == UNCHANGED searchVars

PutJob(S)       == [NoJob EXCEPT !.puts = S]
DropJob(S)      == [NoJob EXCEPT !.drops = S]
SyncJob(S)      == [NoJob EXCEPT !.syncs = S]
UserJob(pl, u)  == [NoJob EXCEPT !.plan = pl, !.user = u]

\* The SELECT a task begins with.
Select(t) ==
    LET j == task[t] IN
    /\ j.plan # "none"
    /\ task' = [task EXCEPT ![t] =
                  CASE j.plan = "drop_user"  -> DropJob(UndeletedOf(j.user))
                    [] j.plan = "sync_user"  -> SyncJob(UndeletedOf(j.user))
                    [] j.plan = "index_user" -> PutJob({p \in UndeletedOf(j.user) : Eligible(p)})
                    [] j.plan = "reindex"    -> PutJob({p \in rows : Eligible(p)})]
    /\ UNCHANGED <<vars, index>>

\* sync_post_search reads one row and decides.
Sync(t) ==
    LET j == task[t] IN
    /\ j.puts = {} /\ j.drops = {}
    /\ \E p \in j.syncs :
          task' = [task EXCEPT ![t] =
                     IF Eligible(p) THEN [j EXCEPT !.syncs = @ \ {p}, !.puts = {p}]
                                    ELSE [j EXCEPT !.syncs = @ \ {p}, !.drops = {p}]]
    /\ UNCHANGED <<vars, index>>

\* index_post, index_many
Put(t) ==
    /\ task[t].puts # {}
    /\ \/ index' = index \cup task[t].puts
       \/ Loses /\ index' = index
    /\ task' = [task EXCEPT ![t].puts = {}]
    /\ UNCHANGED vars

\* Mutant of Drop: the task ends after its first call.
DropFirst(t) ==
    /\ \E p \in task[t].drops : /\ index' = index \ {p}
                                /\ task' = [task EXCEPT ![t].drops = {}]
    /\ UNCHANGED vars

\* delete_post
Drop(t) ==
    /\ \E p \in task[t].drops :
          /\ \/ index' = index \ {p}
             \/ Loses /\ index' = index
          /\ task' = [task EXCEPT ![t].drops = @ \ {p}]
    /\ UNCHANGED vars

Run(t) == Select(t) \/ Sync(t) \/ Put(t) \/ Drop(t)

----------------------------------------------------------------------------
(* The handlers, with the tasks they spawn.                                *)

\* create_post, edit_post and restore index what the author's fetch returned, when it
\* is public: also a post that a shadow ban hides from everyone else.
FetchAndIndex(r) ==
    LET u == req[r].user  p == req[r].post IN
    /\ Fetch(r)
    /\ \/ /\ Fetchable(u, p) /\ post[p].vis = "public"
          /\ Spawn(PutJob({p}))
       \/ /\ ~(Fetchable(u, p) /\ post[p].vis = "public")
          /\ NoSpawn

\* Mutants: the wrong id is passed to the task; a task is not spawned.
QuarantineAndSyncAuthor(r) ==
    ReportQuarantine(r) /\ Spawn(SyncJob({post[req[r].post].author}))
RevokeOnly(r)     == Revoke(r) /\ NoSpawn
UnhideOnly(r)     == Unhide(r) /\ NoSpawn

QuarantineAndSync(r) == ReportQuarantine(r) /\ Spawn(SyncJob({req[r].post}))
ReinstateAndSync(r)  == /\ Reinstate(r)
                        /\ IF At(r, "settle")' THEN Spawn(SyncJob({req[r].post})) ELSE NoSpawn
RevokeAndDrop(r)     == Revoke(r) /\ Spawn(UserJob("drop_user", req[r].user))
HideAndDrop(r)       == Hide(r) /\ Spawn(UserJob("drop_user", req[r].user))
UnhideAndSync(r)     == Unhide(r) /\ Spawn(UserJob("sync_user", req[r].user))
ReadmitAndIndex(r)   == /\ Readmit(r)
                        /\ IF role' = role THEN NoSpawn
                                           ELSE Spawn(UserJob("index_user", req[r].user))

StepAndSpawn(r) ==
    \/ FetchAndIndex(r) \/ QuarantineAndSync(r) \/ ReinstateAndSync(r)
    \/ RevokeAndDrop(r) \/ HideAndDrop(r) \/ UnhideAndSync(r) \/ ReadmitAndIndex(r)
    \/ /\ ~\E l \in {"fetch", "reinstate", "revoke", "hide", "unhide", "readmit"} : At(r, l)
       /\ ~(At(r, "quarantine") /\ Quarantinable(req[r].post))
       /\ Step(r)
       /\ NoSpawn

\* A request begins: only when all is settled, unless the instance lets them overlap.
MayBegin == Overlap \/ Settled

\* patch_post and patch_user spawn between their first and second statement, or at once.
ArriveAndSpawn(r) ==
    /\ MayBegin
    /\ \/ \E a \in Users, p \in Posts, s \in ModState :
             PatchPost(r, a, p, s) /\ Spawn(SyncJob({p}))
       \/ \E a, u \in Users :
             PatchUser(r, a, u, "member") /\ Spawn(UserJob("index_user", u))
       \/ /\ Arrive(r)
          /\ \E l \in Label \ {"idle", "settle"} : At(r, l)'
          /\ NoSpawn
       \/ \E a \in Users, i \in Appeals : ResolveAppeal(r, a, i, FALSE) /\ NoSpawn

SingleAndSpawn ==
    /\ MayBegin
    /\ \/ \E u \in Users, p \in Posts : DeletePost(u, p) /\ Spawn(DropJob({p}))
       \/ /\ \/ \E a, u \in Users, p \in Posts : ResolveReport(a, u, p)
             \/ \E u \in Users : DeleteAccount(u) \/ CoolDown(u)
             \/ \E p \in Posts : Age(p)
             \/ Purge
          /\ NoSpawn

\* The admin's reindex: one batch, read and then sent; it deletes nothing.
Reindex ==
    /\ Serves("reindex")
    /\ MayBegin
    /\ \E a \in Users : Administrator(a)
    /\ Spawn(UserJob("reindex", None))
    /\ UNCHANGED vars

SearchNext ==
    \/ SingleAndSpawn
    \/ Reindex
    \/ \E r \in Requests : ArriveAndSpawn(r) \/ StepAndSpawn(r) \/ (Cancel(r) /\ NoSpawn)
    \/ \E t \in Tasks : Run(t)

SearchSpec == SearchInit /\ [][SearchNext]_allVars

\* The runtime polls every task and every request that is not dropped.
FairSearchSpec == /\ SearchSpec
                  /\ \A r \in Requests : WF_allVars(StepAndSpawn(r))
                  /\ \A t \in Tasks : WF_allVars(Run(t))

----------------------------------------------------------------------------
(* Properties of every instance.                                           *)

\* "private/follower-only posts never leak via search": whatever overlaps, whatever call
\* is lost, only posts created public are ever in the index.
OnlyPublicIndexed == \A p \in index : Issued(p) /\ post[p].vis = "public"

----------------------------------------------------------------------------
(* Properties of instances without overlap and losses.                     *)

\* Once the tasks are done, every original post an anonymous reader may see is found.
IndexComplete ==
    Settled => \A p \in rows : Eligible(p) /\ post[p].repostOf = None => p \in index

\* Once the tasks are done, what is found may be seen, but for two kinds of posts the
\* code leaves in: those hidden by a shadow ban, and those of deleted accounts.
IndexSound ==
    Settled => \A p \in index : \/ Eligible(p)
                                \/ Undeleted(p) /\ post[p].state = "shadow"
                                \/ post[p].author \notin alive

\* Migration 0030: shadow content is hidden from search "for free ... zero leak surface".
ShadowNotSearchable ==
    Settled => \A p \in rows : post[p].state = "shadow" => p \notin index

\* A suspended account's posts leave the index, or the suspension is lifted.
SuspendedLeaveSearch ==
    \A u \in Users : role[u] = "suspended"
                       ~> \/ role[u] # "suspended"
                          \/ \A p \in index : post[p].author # u
=============================================================================
