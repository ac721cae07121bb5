---------------------------- MODULE SearchProofs ----------------------------
(***************************************************************************)
(* The search index, for any number of requests, tasks and lost calls:     *)
(* spawning tasks leaves the handlers what they were, so the theorems of   *)
(* ModerationProofs hold here too, and no document of a post that is not   *)
(* public is ever built, because the visibility of an issued post is fixed *)
(* and every place that builds a document looks at it.  Where requests do  *)
(* not overlap and calls succeed, the index is complete and sound once     *)
(* the tasks are done.                                                     *)
(***************************************************************************)
EXTENDS SearchSync, ModerationProofs

Public(p) == p \in Posts /\ Issued(p) /\ post[p].vis = "public"

\* Every document in the index or on its way there is of a public post.
PublicOnly ==
    /\ index \subseteq Posts
    /\ task \in [Tasks -> Job]
    /\ \A p \in index : Public(p)
    /\ \A t \in Tasks : \A p \in task[t].puts : Public(p)

----------------------------------------------------------------------------
(* The handlers with their tasks are the handlers.                          *)

LEMMA SearchStepRefines ==
    ASSUME SearchNext
    PROVE  Next \/ UNCHANGED vars
<1>1. ASSUME NEW r \in Requests, StepAndSpawn(r)
      PROVE  Next
  BY <1>1 DEF StepAndSpawn, FetchAndIndex, QuarantineAndSync, ReinstateAndSync, RevokeAndDrop,
              HideAndDrop, UnhideAndSync, ReadmitAndIndex, Next, Step
<1>2. ASSUME NEW r \in Requests, ArriveAndSpawn(r)
      PROVE  Next
  <2>1. ASSUME NEW a \in Users, NEW p \in Posts, NEW s \in ModState, PatchPost(r, a, p, s)
        PROVE  Arrive(r)
    BY <2>1 DEF Arrive
  <2>2. ASSUME NEW a \in Users, NEW u \in Users, PatchUser(r, a, u, "member")
        PROVE  Arrive(r)
    <3>1. "member" \in Roles
      BY DEF Roles
    <3>2. QED
      BY <2>2, <3>1 DEF Arrive
  <2>3. ASSUME NEW a \in Users, NEW i \in Appeals, ResolveAppeal(r, a, i, FALSE)
        PROVE  Arrive(r)
    <3>1. FALSE \in BOOLEAN
      OBVIOUS
    <3>2. QED
      BY <2>3, <3>1 DEF Arrive
  <2>4. QED
    BY <1>2, <2>1, <2>2, <2>3 DEF ArriveAndSpawn, Next
<1>3. CASE SingleAndSpawn
  BY <1>3 DEF SingleAndSpawn, Single, Next
<1>4. CASE Reindex
  BY <1>4 DEF Reindex
<1>5. ASSUME NEW r \in Requests, Cancel(r)
      PROVE  Next
  BY <1>5 DEF Next
<1>6. ASSUME NEW t \in Tasks, Run(t)
      PROVE  UNCHANGED vars
  BY <1>6 DEF Run, Select, Sync, Put, Drop
<1>7. QED
  BY <1>1, <1>2, <1>3, <1>4, <1>5, <1>6 DEF SearchNext

\* The tasks only watch: with them the handlers still behave as Moderation says.
THEOREM SearchImplementsModeration == SearchSpec => Spec
<1>1. SearchInit => Init
  BY DEF SearchInit
<1>2. [SearchNext]_allVars => [Next]_vars
  BY SearchStepRefines DEF allVars
<1>3. QED
  BY <1>1, <1>2, PTL DEF SearchSpec, Spec

----------------------------------------------------------------------------
(* Only public posts.                                                       *)

\* A public post stays public.
LEMMA PublicStays ==
    ASSUME StoreInv, Typed, Linked, [Next]_vars, NEW p, Public(p)
    PROVE  Public(p)'
<1>1. KeepsIssued
  BY NextRefines, StoreKeepsIssued DEF Linked
<1>2. QED
  BY <1>1 DEF KeepsIssued, Public

\* A row in the table is an issued post.
LEMMA RowPublic ==
    ASSUME StoreInv, NEW p \in rows, post[p].vis = "public"
    PROVE  Public(p)
BY StoreAssumption DEF StoreInv, Shape, Public, Issued

LEMMA SpawnKeeps ==
    ASSUME PublicOnly, \A p : Public(p) => Public(p)',
           NEW job \in Job, \A p \in job.puts : Public(p), Spawn(job)
    PROVE  PublicOnly'
BY DEF PublicOnly, Spawn

LEMMA NoSpawnKeeps ==
    ASSUME PublicOnly, \A p : Public(p) => Public(p)', NoSpawn
    PROVE  PublicOnly'
BY DEF PublicOnly, NoSpawn, searchVars

LEMMA RunKeeps ==
    ASSUME StoreInv, PublicOnly, NEW t \in Tasks, Run(t)
    PROVE  PublicOnly'
<1>0. /\ task[t] \in Job
      /\ UNCHANGED storeVars
      /\ rows \subseteq Posts
  BY DEF PublicOnly, Run, Select, Sync, Put, Drop, vars, StoreInv, Shape
<1>1. \A p : Public(p) => Public(p)'
  BY <1>0 DEF Public, Issued, storeVars
<1>2. ASSUME NEW j \in Job, \A p \in j.puts : Public(p), task' = [task EXCEPT ![t] = j],
             index' \subseteq Posts, \A p \in index' : Public(p)
      PROVE  PublicOnly'
  BY <1>1, <1>2 DEF PublicOnly
<1>3. CASE Select(t)
  <2>1. PICK j : /\ task' = [task EXCEPT ![t] = j]
                 /\ \/ j = DropJob(UndeletedOf(task[t].user))
                    \/ j = SyncJob(UndeletedOf(task[t].user))
                    \/ j = PutJob({p \in UndeletedOf(task[t].user) : Eligible(p)})
                    \/ j = PutJob({p \in rows : Eligible(p)})
    <3>1. task[t].plan \in Plan \ {"none"}
      BY <1>0, <1>3 DEF Select, Job
    <3>2. QED
      BY <1>3, <3>1 DEF Select, Plan
  <2>2. j \in Job /\ \A p \in j.puts : Public(p)
    BY <1>0, <2>1, RowPublic DEF DropJob, SyncJob, PutJob, NoJob, Job, Plan, UndeletedOf, Eligible
  <2>3. QED
    BY <1>2, <1>3, <2>1, <2>2 DEF Select, PublicOnly
<1>4. CASE Sync(t)
  <2>1. PICK p \in task[t].syncs :
          task' = [task EXCEPT ![t] =
                     IF Eligible(p) THEN [task[t] EXCEPT !.syncs = @ \ {p}, !.puts = {p}]
                                    ELSE [task[t] EXCEPT !.syncs = @ \ {p}, !.drops = {p}]]
    BY <1>4 DEF Sync
  <2>2. CASE Eligible(p)
    BY <1>0, <1>2, <1>4, <2>1, <2>2, RowPublic DEF Sync, Job, PublicOnly, Eligible, Live, Undeleted
  <2>3. CASE ~Eligible(p)
    BY <1>0, <1>2, <1>4, <2>1, <2>3 DEF Sync, Job, PublicOnly
  <2>4. QED
    BY <2>2, <2>3
<1>5. CASE Put(t)
  <2>1. [task[t] EXCEPT !.puts = {}] \in Job /\ [task[t] EXCEPT !.puts = {}].puts = {}
    BY <1>0 DEF Job
  <2>2. index' \subseteq index \cup task[t].puts /\ task[t].puts \subseteq Posts
    BY <1>0, <1>5 DEF Put, Job
  <2>3. QED
    BY <1>2, <1>5, <2>1, <2>2 DEF Put, PublicOnly
<1>6. CASE Drop(t)
  <2>1. PICK p \in task[t].drops : task' = [task EXCEPT ![t].drops = @ \ {p}]
    BY <1>6 DEF Drop
  <2>2. /\ [task[t] EXCEPT !.drops = @ \ {p}] \in Job
        /\ [task[t] EXCEPT !.drops = @ \ {p}].puts = task[t].puts
    BY <1>0 DEF Job
  <2>3. index' \subseteq index
    BY <1>6 DEF Drop
  <2>4. QED
    BY <1>2, <2>1, <2>2, <2>3 DEF PublicOnly
<1>7. QED
  BY <1>3, <1>4, <1>5, <1>6 DEF Run

LEMMA HandlersKeepPublic ==
    ASSUME StoreInv, Typed, PublicOnly, \A p : Public(p) => Public(p)',
           SearchNext, \A t \in Tasks : ~Run(t)
    PROVE  PublicOnly'
<1>1. ASSUME NEW job \in Job, job.puts = {}, Spawn(job)
      PROVE  PublicOnly'
  BY <1>1, SpawnKeeps
<1>2. ASSUME NEW S \in SUBSET Posts, Spawn(SyncJob(S)) \/ Spawn(DropJob(S))
      PROVE  PublicOnly'
  BY <1>1, <1>2 DEF SyncJob, DropJob, NoJob, Job, Plan
<1>3. ASSUME NEW u \in Users \cup {None}, NEW pl \in Plan, Spawn(UserJob(pl, u))
      PROVE  PublicOnly'
  BY <1>1, <1>3 DEF UserJob, NoJob, Job
<1>4. ASSUME NEW r \in Requests, FetchAndIndex(r)
      PROVE  PublicOnly'
  <2>1. CASE NoSpawn
    BY <2>1, NoSpawnKeeps
  <2>2. CASE /\ Fetchable(req[r].user, req[r].post) /\ post[req[r].post].vis = "public"
             /\ Spawn(PutJob({req[r].post}))
    <3>1. Public(req[r].post)
      BY <2>2, RowPublic DEF Fetchable, Undeleted
    <3>2. PutJob({req[r].post}) \in Job /\ PutJob({req[r].post}).puts = {req[r].post}
      BY <3>1 DEF Public, PutJob, NoJob, Job, Plan
    <3>3. QED
      BY <2>2, <3>1, <3>2, SpawnKeeps
  <2>3. QED
    BY <1>4, <2>1, <2>2 DEF FetchAndIndex
<1>5. ASSUME NEW r \in Requests, StepAndSpawn(r)
      PROVE  PublicOnly'
  <2>0. req[r].user \in Users \cup {None} /\ req[r].post \in Posts \cup {None}
    BY DEF Typed, ModTypes, Frame
  <2>1. CASE QuarantineAndSync(r)
    <3>1. req[r].post \in Posts
      BY <2>1 DEF QuarantineAndSync, ReportQuarantine, Quarantinable, StoreInv, Shape
    <3>2. QED
      BY <1>2, <2>1, <3>1 DEF QuarantineAndSync
  <2>2. CASE ReinstateAndSync(r)
    <3>1. CASE NoSpawn
      BY <3>1, NoSpawnKeeps
    <3>2. CASE At(r, "settle")' /\ Spawn(SyncJob({req[r].post}))
      <4>1. req[r].post \in Posts
        BY <2>2, <3>2 DEF ReinstateAndSync, Reinstate, SetState, At, Finish, Idle, Typed, ModTypes,
                          StoreInv, Shape
      <4>2. QED
        BY <1>2, <3>2, <4>1
    <3>3. QED
      BY <2>2, <3>1, <3>2 DEF ReinstateAndSync
  <2>3. CASE RevokeAndDrop(r) \/ HideAndDrop(r) \/ UnhideAndSync(r) \/ ReadmitAndIndex(r)
    BY <1>3, <2>0, <2>3, NoSpawnKeeps
    DEF RevokeAndDrop, HideAndDrop, UnhideAndSync, ReadmitAndIndex, Plan
  <2>4. CASE NoSpawn
    BY <2>4, NoSpawnKeeps
  <2>5. QED
    BY <1>4, <1>5, <2>1, <2>2, <2>3, <2>4 DEF StepAndSpawn
<1>6. ASSUME NEW r \in Requests, ArriveAndSpawn(r)
      PROVE  PublicOnly'
  BY <1>2, <1>3, <1>6, NoSpawnKeeps DEF ArriveAndSpawn, Plan
<1>7. CASE SingleAndSpawn
  BY <1>2, <1>7, NoSpawnKeeps DEF SingleAndSpawn
<1>8. CASE Reindex
  BY <1>3, <1>8 DEF Reindex, Plan
<1>9. QED
  BY <1>5, <1>6, <1>7, <1>8, NoSpawnKeeps DEF SearchNext

LEMMA PublicOnlyInvariant == SearchSpec => []PublicOnly
<1>1. SearchInit => PublicOnly
  BY DEF SearchInit, PublicOnly, NoJob, Job, Plan
<1>2. StoreInv /\ Typed /\ Linked /\ PublicOnly /\ [SearchNext]_allVars => PublicOnly'
  <2> SUFFICES ASSUME StoreInv, Typed, Linked, PublicOnly, [SearchNext]_allVars
               PROVE  PublicOnly'
    OBVIOUS
  <2>1. [Next]_vars
    BY SearchStepRefines DEF allVars
  <2>2. \A p : Public(p) => Public(p)'
    BY <2>1, PublicStays
  <2>3. CASE UNCHANGED allVars
    BY <2>2, <2>3, NoSpawnKeeps DEF allVars, searchVars, NoSpawn
  <2>4. QED
    BY <2>2, <2>3, RunKeeps, HandlersKeepPublic
<1>3. QED
  BY <1>1, <1>2, SearchImplementsModeration, TypedInvariant, LinkedInvariant, PTL DEF SearchSpec

\* Whatever overlaps, is lost or is cut off, only posts created public are in the index.
THEOREM SearchNeverLeaks == SearchSpec => []OnlyPublicIndexed
<1>1. PublicOnly => OnlyPublicIndexed
  BY DEF PublicOnly, OnlyPublicIndexed, Public
<1>2. QED
  BY <1>1, PublicOnlyInvariant, PTL

\* Type correctness, for any number of tasks and requests.
THEOREM SearchTypeCorrect == SearchSpec => []SearchTypeOK
<1>1. ModTypeOK /\ PublicOnly => SearchTypeOK
  BY DEF PublicOnly, SearchTypeOK
<1>2. QED
  BY <1>1, PublicOnlyInvariant, SearchImplementsModeration, ModTypeCorrect, PTL

----------------------------------------------------------------------------
(* The settled index, where a request begins when the tasks of the one      *)
(* before it are done and every call to Meilisearch succeeds.               *)

\* What may be in the index for good: IndexSound's three kinds.
MayStay(p) == \/ Eligible(p)
              \/ Undeleted(p) /\ post[p].state = "shadow"
              \/ post[p].author \notin alive

Downed(p) == p \in rows /\ post[p].state \in {"quarantine", "removed"}

\* Statements that run before the request has spawned a task, and those after it may have.
Early == {"stamp", "insert", "fetch", "count", "quarantine", "unflag", "unhide", "appeal",
          "readmit", "reinstate"}
Late  == {"offense", "suspend", "revoke", "flag", "hide"}

\* All that tasks are about to do is take posts out that a verdict took down.
TakingDown == \A t \in Tasks : /\ task[t].plan = "none"
                               /\ task[t].puts = {}
                               /\ \A p \in task[t].syncs \cup task[t].drops : Downed(p)

\* At most one request is in flight.
Alone == \A q, r \in Requests : req[q].at # "idle" /\ req[r].at # "idle" => q = r

\* Where a request stands: no task runs before it has spawned one, its later statements
\* meet only tasks that take posts out, and what it read still holds.
Paced(r) ==
    /\ req[r].at \in Early => Idling
    /\ req[r].at \in Late \/ (At(r, "settle") /\ req[r].state = "removed") => TakingDown
    /\ At(r, "fetch") => post[req[r].post].author = req[r].user
    /\ At(r, "revoke") => role[req[r].user] = "suspended"
    /\ ~At(r, "repost")

\* A job selects first; it has nothing in hand to put in or take out that should not be.
JobOK(j) ==
    /\ j.plan # "none" => j.syncs = {} /\ j.puts = {} /\ j.drops = {}
    /\ j.plan = "drop_user" => \A p \in UndeletedOf(j.user) : ~Eligible(p)
    /\ \A p \in j.puts : MayStay(p)
    /\ \A p \in j.drops : ~Eligible(p)

\* The job will take p out, should p not be eligible; it will put p in, should it be.
TakesOut(j, p) ==
    \/ p \in j.drops \cup j.syncs
    \/ j.plan \in {"drop_user", "sync_user"} /\ j.user = post[p].author /\ Undeleted(p)
PutsIn(j, p) ==
    \/ p \in j.puts \cup j.syncs
    \/ j.plan = "reindex"
    \/ j.plan \in {"sync_user", "index_user"} /\ j.user = post[p].author

\* A request is about to drop p's author from the index, or to read p and put it in.
Revoking(p) == \E r \in Requests : At(r, "revoke") /\ req[r].user = post[p].author /\ Undeleted(p)
Fetching(p) == \E r \in Requests : At(r, "fetch") /\ req[r].post = p

\* Wherever index and post disagree, a task or a request is about to mend it.
Followed(p) ==
    /\ p \in index => MayStay(p) \/ Revoking(p) \/ \E t \in Tasks : TakesOut(task[t], p)
    /\ Eligible(p) => p \in index \/ Fetching(p) \/ \E t \in Tasks : PutsIn(task[t], p)

SerialInv ==
    /\ Alone
    /\ \A r \in Requests : Paced(r)
    /\ \A t \in Tasks : JobOK(task[t])
    /\ \A p \in Posts : Followed(p)

\* The instances the two properties speak of.
OneAtATime == /\ ~Overlap
              /\ ~Loses
              /\ Cancels = {}
              /\ "repost" \notin Surface

\* What is in the index and what is eligible agree.
InStep == \A p \in Posts : /\ p \in index => MayStay(p)
                           /\ Eligible(p) => p \in index

LEMMA NoJobOK ==
    /\ NoJob \in Job /\ JobOK(NoJob)
    /\ \A p : ~TakesOut(NoJob, p) /\ ~PutsIn(NoJob, p)
BY DEF NoJob, Job, JobOK, TakesOut, PutsIn, Plan

LEMMA NoJobOKNext ==
    /\ JobOK(NoJob)'
    /\ \A p : ~TakesOut(NoJob, p)' /\ ~PutsIn(NoJob, p)'
BY DEF NoJob, JobOK, TakesOut, PutsIn, Plan

\* A job spawned when no task is running is the only one.
LEMMA SpawnedAlone ==
    ASSUME task \in [Tasks -> Job], Idling, NEW job, Spawn(job)
    PROVE  /\ index' = index
           /\ \A t \in Tasks : task'[t] \in {job, NoJob}
           /\ \E t \in Tasks : task'[t] = job
BY DEF Idling, Spawn

LEMMA NoneSpawned ==
    ASSUME Idling, NoSpawn
    PROVE  /\ index' = index
           /\ \A t \in Tasks : task'[t] = NoJob
           /\ Idling'
BY DEF Idling, NoSpawn, searchVars

\* The request r moves alone.
LEMMA MovesAlone ==
    ASSUME Typed, Alone, NEW r \in Requests, Quiet \/ req[r].at # "idle",
           NEW f, req' = [req EXCEPT ![r] = f]
    PROVE  /\ req'[r] = f
           /\ \A q \in Requests : q # r => req[q].at = "idle" /\ req'[q].at = "idle"
           /\ Alone'
BY DEF Typed, ModTypes, Alone, Quiet

LEMMA OthersPaced ==
    ASSUME NEW q, req'[q].at = "idle"
    PROVE  Paced(q)'
BY DEF Paced, Early, Late, At

\* Between requests, and before a request has spawned a task, index and posts agree.
LEMMA IdleInStep ==
    ASSUME SerialInv, Idling, \A q \in Requests : req[q].at \notin {"fetch", "revoke"}
    PROVE  InStep
<1> SUFFICES ASSUME NEW p \in Posts
             PROVE  (p \in index => MayStay(p)) /\ (Eligible(p) => p \in index)
  BY DEF InStep
<1>1. ~Revoking(p) /\ ~Fetching(p)
  BY DEF Revoking, Fetching, At
<1>2. \A t \in Tasks : ~TakesOut(task[t], p) /\ ~PutsIn(task[t], p)
  BY NoJobOK DEF Idling
<1>3. QED
  BY <1>1, <1>2 DEF SerialInv, Followed

\* A step taken while no task is running, and the one job it spawns, if any.
LEMMA FromIdle ==
    ASSUME Alone', \A r \in Requests : Paced(r)',
           index' = index,
           NEW job, \A t \in Tasks : task'[t] \in {job, NoJob},
           job = NoJob \/ \E t \in Tasks : task'[t] = job,
           JobOK(job)',
           \A p \in Posts : p \in index => MayStay(p)' \/ Revoking(p)' \/ TakesOut(job, p)',
           \A p \in Posts : Eligible(p)' => p \in index \/ Fetching(p)' \/ PutsIn(job, p)'
    PROVE  SerialInv'
<1>1. \A t \in Tasks : JobOK(task[t])'
  BY NoJobOKNext DEF JobOK
<1>2. ASSUME NEW p \in Posts
      PROVE  Followed(p)'
  <2>1. TakesOut(job, p)' => \E t \in Tasks : TakesOut(task[t], p)'
    BY NoJobOKNext DEF TakesOut
  <2>2. PutsIn(job, p)' => \E t \in Tasks : PutsIn(task[t], p)'
    BY NoJobOKNext DEF PutsIn
  <2>3. QED
    BY <2>1, <2>2 DEF Followed
<1>3. QED
  BY <1>1, <1>2 DEF SerialInv

----------------------------------------------------------------------------
(* Tasks.                                                                   *)

\* One step of one task: what its job is afterwards.
LEMMA JobMoves ==
    ASSUME task \in [Tasks -> Job], SerialInv, UNCHANGED vars,
           NEW t \in Tasks, task[t] # NoJob, NEW j, task' = [task EXCEPT ![t] = j],
           JobOK(j),
           TakingDown => j.plan = "none" /\ j.puts = {} /\ \A p \in j.syncs \cup j.drops : Downed(p),
           \A p \in Posts : p \in index' => p \in index \/ MayStay(p),
           \A p \in Posts : p \in index' /\ TakesOut(task[t], p) => MayStay(p) \/ TakesOut(j, p),
           \A p \in Posts : p \in index /\ Eligible(p) => p \in index',
           \A p \in Posts : Eligible(p) /\ PutsIn(task[t], p) => p \in index' \/ PutsIn(j, p)
    PROVE  SerialInv'
<1>0. UNCHANGED <<storeVars, modVars>>
  BY DEF vars
<1>1. /\ \A p : MayStay(p)' <=> MayStay(p)
      /\ \A p : Eligible(p)' <=> Eligible(p)
      /\ \A p : Revoking(p)' <=> Revoking(p)
      /\ \A p : Fetching(p)' <=> Fetching(p)
      /\ \A p : Downed(p)' <=> Downed(p)
  BY <1>0 DEF MayStay, Eligible, Live, Undeleted, Revoking, Fetching, Downed, At, storeVars, modVars
<1>2. Alone'
  BY <1>0 DEF SerialInv, Alone, modVars
<1>3. TakingDown => TakingDown'
  BY <1>1 DEF TakingDown
<1>4. ASSUME NEW r \in Requests
      PROVE  Paced(r)'
  <2>1. Paced(r) /\ ~Idling
    BY DEF SerialInv, Idling
  <2>2. UNCHANGED <<req, post, role>>
    BY <1>0 DEF storeVars, modVars
  <2>3. QED
    BY <1>3, <2>1, <2>2 DEF Paced, At
<1>5. ASSUME NEW x \in Tasks
      PROVE  JobOK(task[x])'
  <2>1. UNCHANGED <<rows, post>>
    BY <1>0 DEF storeVars
  <2>2. JobOK(task'[x])
    BY DEF SerialInv
  <2>3. QED
    BY <1>1, <2>1, <2>2 DEF JobOK, UndeletedOf, Undeleted
<1>6. ASSUME NEW p \in Posts
      PROVE  Followed(p)'
  <2>1. UNCHANGED <<rows, post>>
    BY <1>0 DEF storeVars
  <2>2. Followed(p)
    BY DEF SerialInv
  <2>3. /\ \A x \in Tasks : TakesOut(task[x], p)' <=> TakesOut(task'[x], p)
        /\ \A x \in Tasks : PutsIn(task[x], p)' <=> PutsIn(task'[x], p)
    BY <2>1 DEF TakesOut, PutsIn, Undeleted
  <2>4. p \in index' => MayStay(p) \/ Revoking(p) \/ \E x \in Tasks : TakesOut(task'[x], p)
    <3>1. SUFFICES ASSUME p \in index', NEW x \in Tasks, TakesOut(task[x], p)
                   PROVE  MayStay(p) \/ \E y \in Tasks : TakesOut(task'[y], p)
      BY <2>2 DEF Followed
    <3>2. QED
      BY <3>1
  <2>5. Eligible(p) => p \in index' \/ Fetching(p) \/ \E x \in Tasks : PutsIn(task'[x], p)
    <3>1. SUFFICES ASSUME Eligible(p), NEW x \in Tasks, PutsIn(task[x], p)
                   PROVE  p \in index' \/ \E y \in Tasks : PutsIn(task'[y], p)
      BY <2>2 DEF Followed
    <3>2. QED
      BY <3>1
  <2>6. QED
    BY <1>1, <2>3, <2>4, <2>5 DEF Followed
<1>7. QED
  BY <1>2, <1>4, <1>5, <1>6 DEF SerialInv

LEMMA RunSerial ==
    ASSUME StoreInv, PublicOnly, SerialInv, ~Loses, NEW t \in Tasks, Run(t)
    PROVE  SerialInv'
<1>0. /\ task \in [Tasks -> Job] /\ task[t] \in Job
      /\ JobOK(task[t])
      /\ UNCHANGED vars
  BY DEF PublicOnly, SerialInv, Run, Select, Sync, Put, Drop
<1>1. CASE Select(t)
  <2> DEFINE u == task[t].user
             S == UndeletedOf(u)
  <2>1. /\ task[t].plan # "none" /\ index' = index /\ task[t] # NoJob /\ ~TakingDown
        /\ task[t].syncs = {} /\ task[t].puts = {} /\ task[t].drops = {}
    BY <1>0, <1>1 DEF Select, TakingDown, NoJob, JobOK
  <2>2. CASE task[t].plan = "drop_user"
    <3>1. task' = [task EXCEPT ![t] = DropJob(S)]
      BY <1>1, <2>2 DEF Select
    <3>2. JobOK(DropJob(S)) /\ DropJob(S).drops = S
      BY <1>0, <2>2 DEF JobOK, DropJob, NoJob
    <3>3. \A p \in Posts : /\ TakesOut(task[t], p) => TakesOut(DropJob(S), p)
                           /\ ~PutsIn(task[t], p)
      BY <2>1, <2>2, <3>2 DEF TakesOut, PutsIn, UndeletedOf, Undeleted
    <3>4. QED
      BY <1>0, <2>1, <3>1, <3>2, <3>3, JobMoves
  <2>3. CASE task[t].plan = "sync_user"
    <3>1. task' = [task EXCEPT ![t] = SyncJob(S)]
      BY <1>1, <2>3 DEF Select
    <3>2. JobOK(SyncJob(S)) /\ SyncJob(S).syncs = S
      BY DEF JobOK, SyncJob, NoJob
    <3>3. \A p \in Posts : /\ TakesOut(task[t], p) => TakesOut(SyncJob(S), p)
                           /\ Eligible(p) /\ PutsIn(task[t], p) => PutsIn(SyncJob(S), p)
      BY <2>1, <2>3, <3>2 DEF TakesOut, PutsIn, UndeletedOf, Undeleted, Eligible, Live
    <3>4. QED
      BY <1>0, <2>1, <3>1, <3>2, <3>3, JobMoves
  <2>4. CASE task[t].plan = "index_user"
    <3> DEFINE E == {p \in S : Eligible(p)}
    <3>1. task' = [task EXCEPT ![t] = PutJob(E)]
      BY <1>1, <2>4 DEF Select
    <3>2. JobOK(PutJob(E)) /\ PutJob(E).puts = E
      BY DEF JobOK, PutJob, NoJob, MayStay
    <3>3. \A p \in Posts : /\ ~TakesOut(task[t], p)
                           /\ Eligible(p) /\ PutsIn(task[t], p) => PutsIn(PutJob(E), p)
      BY <2>1, <2>4, <3>2 DEF TakesOut, PutsIn, UndeletedOf, Undeleted, Eligible, Live
    <3>4. QED
      BY <1>0, <2>1, <3>1, <3>2, <3>3, JobMoves
  <2>5. CASE task[t].plan = "reindex"
    <3> DEFINE E == {p \in rows : Eligible(p)}
    <3>1. task' = [task EXCEPT ![t] = PutJob(E)]
      BY <1>1, <2>5 DEF Select
    <3>2. JobOK(PutJob(E)) /\ PutJob(E).puts = E
      BY DEF JobOK, PutJob, NoJob, MayStay
    <3>3. \A p \in Posts : /\ ~TakesOut(task[t], p)
                           /\ Eligible(p) => PutsIn(PutJob(E), p)
      BY <2>1, <2>5, <3>2 DEF TakesOut, PutsIn, Undeleted, Eligible, Live
    <3>4. QED
      BY <1>0, <2>1, <3>1, <3>2, <3>3, JobMoves
  <2>6. QED
    BY <1>0, <2>1, <2>2, <2>3, <2>4, <2>5 DEF Job, Plan
<1>2. CASE Sync(t)
  <2>1. PICK q \in task[t].syncs :
          task' = [task EXCEPT ![t] =
                     IF Eligible(q) THEN [task[t] EXCEPT !.syncs = @ \ {q}, !.puts = {q}]
                                    ELSE [task[t] EXCEPT !.syncs = @ \ {q}, !.drops = {q}]]
    BY <1>2 DEF Sync
  <2>2. /\ task[t].plan = "none" /\ task[t].puts = {} /\ task[t].drops = {}
        /\ task[t] # NoJob /\ index' = index
    BY <1>0, <1>2, <2>1 DEF Sync, JobOK, NoJob
  <2>3. CASE Eligible(q)
    <3> DEFINE j == [task[t] EXCEPT !.syncs = @ \ {q}, !.puts = {q}]
    <3>1. /\ j.plan = "none" /\ j.syncs = task[t].syncs \ {q} /\ j.puts = {q} /\ j.drops = {}
          /\ task' = [task EXCEPT ![t] = j]
      BY <1>0, <2>1, <2>2, <2>3 DEF Job
    <3> HIDE DEF j
    <3>2. JobOK(j) /\ MayStay(q)
      BY <2>3, <3>1 DEF JobOK, MayStay
    <3>3. ~TakingDown
      BY <2>1, <2>3 DEF TakingDown, Downed, Eligible, Live
    <3>4. \A p \in Posts : /\ TakesOut(task[t], p) => MayStay(p) \/ TakesOut(j, p)
                           /\ PutsIn(task[t], p) => PutsIn(j, p)
      BY <2>2, <3>1, <3>2 DEF TakesOut, PutsIn
    <3>5. QED
      BY <1>0, <2>2, <3>1, <3>2, <3>3, <3>4, JobMoves
  <2>4. CASE ~Eligible(q)
    <3> DEFINE j == [task[t] EXCEPT !.syncs = @ \ {q}, !.drops = {q}]
    <3>1. /\ j.plan = "none" /\ j.syncs = task[t].syncs \ {q} /\ j.puts = {} /\ j.drops = {q}
          /\ task' = [task EXCEPT ![t] = j]
      BY <1>0, <2>1, <2>2, <2>4 DEF Job
    <3> HIDE DEF j
    <3>2. JobOK(j)
      BY <2>4, <3>1 DEF JobOK
    <3>3. TakingDown => \A p \in j.syncs \cup j.drops : Downed(p)
      BY <2>1, <3>1 DEF TakingDown
    <3>4. \A p \in Posts : /\ TakesOut(task[t], p) => TakesOut(j, p)
                           /\ Eligible(p) /\ PutsIn(task[t], p) => PutsIn(j, p)
      BY <2>2, <2>4, <3>1 DEF TakesOut, PutsIn
    <3>5. QED
      BY <1>0, <2>2, <3>1, <3>2, <3>3, <3>4, JobMoves
  <2>5. QED
    BY <2>3, <2>4
<1>3. CASE Put(t)
  <2> DEFINE j == [task[t] EXCEPT !.puts = {}]
  <2>1. /\ j.plan = task[t].plan /\ j.syncs = task[t].syncs /\ j.puts = {}
        /\ j.drops = task[t].drops /\ j.user = task[t].user
        /\ task' = [task EXCEPT ![t] = j]
    BY <1>0, <1>3 DEF Put, Job
  <2> HIDE DEF j
  <2>2. /\ task[t].puts # {} /\ index' = index \cup task[t].puts
        /\ task[t] # NoJob /\ ~TakingDown
    BY <1>3 DEF Put, NoJob, TakingDown
  <2>3. JobOK(j) /\ \A p \in task[t].puts : MayStay(p)
    BY <1>0, <2>1 DEF JobOK
  <2>4. \A p \in Posts : /\ TakesOut(task[t], p) => TakesOut(j, p)
                         /\ PutsIn(task[t], p) => p \in index' \/ PutsIn(j, p)
    BY <2>1, <2>2 DEF TakesOut, PutsIn
  <2>5. QED
    BY <1>0, <2>1, <2>2, <2>3, <2>4, JobMoves
<1>4. CASE Drop(t)
  <2>1. PICK q \in task[t].drops : /\ index' = index \ {q}
                                   /\ task' = [task EXCEPT ![t].drops = @ \ {q}]
    BY <1>4 DEF Drop
  <2> DEFINE j == [task[t] EXCEPT !.drops = @ \ {q}]
  <2>2. /\ j.plan = task[t].plan /\ j.syncs = task[t].syncs /\ j.puts = task[t].puts
        /\ j.drops = task[t].drops \ {q} /\ j.user = task[t].user
        /\ task' = [task EXCEPT ![t] = j]
    BY <1>0, <2>1 DEF Job
  <2> HIDE DEF j
  <2>3. task[t] # NoJob /\ ~Eligible(q)
    BY <1>0, <2>1 DEF NoJob, JobOK
  <2>4. JobOK(j)
    BY <1>0, <2>2 DEF JobOK
  <2>5. TakingDown => j.plan = "none" /\ j.puts = {} /\ \A p \in j.syncs \cup j.drops : Downed(p)
    BY <2>2 DEF TakingDown
  <2>6. \A p \in Posts : /\ p \in index' /\ TakesOut(task[t], p) => TakesOut(j, p)
                         /\ PutsIn(task[t], p) => PutsIn(j, p)
    BY <2>1, <2>2 DEF TakesOut, PutsIn
  <2>7. QED
    BY <1>0, <2>1, <2>2, <2>3, <2>4, <2>5, <2>6, JobMoves
<1>5. QED
  BY <1>1, <1>2, <1>3, <1>4 DEF Run

----------------------------------------------------------------------------
(* Steps taken while no task is running.                                    *)

LEMMA SameView ==
    ASSUME UNCHANGED <<rows, post, role, alive>>
    PROVE  \A p : /\ MayStay(p)' <=> MayStay(p)
                  /\ Eligible(p)' <=> Eligible(p)
                  /\ Undeleted(p)' <=> Undeleted(p)
                  /\ Downed(p)' <=> Downed(p)
BY DEF MayStay, Eligible, Live, Undeleted, Downed

LEMMA IdleTakesDown ==
    /\ Idling => TakingDown
    /\ Idling' => TakingDown'
BY DEF Idling, TakingDown, NoJob

LEMMA InStepFromIdle ==
    ASSUME InStep, Alone', \A r \in Requests : Paced(r)',
           index' = index,
           NEW job, \A t \in Tasks : task'[t] \in {job, NoJob},
           job = NoJob \/ \E t \in Tasks : task'[t] = job,
           JobOK(job)',
           \A p \in Posts : p \in index /\ MayStay(p)
                              => MayStay(p)' \/ Revoking(p)' \/ TakesOut(job, p)',
           \A p \in Posts : Eligible(p)' => Eligible(p) \/ Fetching(p)' \/ PutsIn(job, p)'
    PROVE  SerialInv'
BY FromIdle DEF InStep

\* A step that no reader of the posts can tell, to a statement that has read nothing.
LEMMA IdleMoves ==
    ASSUME Typed, SerialInv, Idling, NoSpawn, UNCHANGED <<rows, post, role, alive>>,
           NEW r \in Requests, Quiet \/ req[r].at # "idle", req[r].at \notin {"fetch", "revoke"},
           NEW f, req' = [req EXCEPT ![r] = f],
           f.at \notin {"revoke", "repost"},
           f.at = "fetch" => post[f.post].author = f.user
    PROVE  SerialInv'
<1>1. /\ req'[r] = f
      /\ \A q \in Requests : q # r => req[q].at = "idle" /\ req'[q].at = "idle"
      /\ Alone'
  BY MovesAlone DEF SerialInv
<1>2. InStep
  BY <1>1, IdleInStep
<1>3. /\ index' = index
      /\ \A t \in Tasks : task'[t] \in {NoJob, NoJob}
      /\ Idling' /\ TakingDown'
  BY NoneSpawned, IdleTakesDown
<1>4. Paced(r)'
  BY <1>1, <1>3 DEF Paced, At
<1>5. \A q \in Requests : Paced(q)'
  BY <1>1, <1>4, OthersPaced
<1>6. QED
  BY <1>1, <1>2, <1>3, <1>5, InStepFromIdle, SameView, NoJobOKNext

LEMMA IdleStays ==
    ASSUME Typed, SerialInv, Idling, Quiet, NoSpawn, UNCHANGED <<rows, post, role, alive, req>>
    PROVE  SerialInv'
<1>1. Alone' /\ \A q \in Requests : Paced(q)'
  BY OthersPaced DEF Quiet, Alone
<1>2. InStep
  BY IdleInStep DEF Quiet
<1>3. /\ index' = index
      /\ \A t \in Tasks : task'[t] \in {NoJob, NoJob}
  BY NoneSpawned
<1>4. QED
  BY <1>1, <1>2, <1>3, InStepFromIdle, SameView, NoJobOKNext

\* A statement that leaves the accounts alone and sets columns of one row, p, or none.
OnlyRow(p) ==
    /\ UNCHANGED <<rows, alive, role>>
    /\ \A q \in Posts \ {p} : post'[q] = post[q]

\* A request begins or ends while nothing else is under way, spawning a job for one post.
LEMMA OneRowMoves ==
    ASSUME Typed, SerialInv, PublicOnly, Idling, NEW p \in Posts, OnlyRow(p),
           Alone', \A q \in Requests : Paced(q)',
           \A q \in Requests : req[q].at \notin {"fetch", "revoke"},
           NEW job, Spawn(job), JobOK(job)',
           TakesOut(job, p)' \/ MayStay(p)' \/ p \notin index,
           PutsIn(job, p)' \/ ~Eligible(p)'
    PROVE  SerialInv'
<1>1. InStep
  BY IdleInStep
<1>2. /\ index' = index
      /\ \A t \in Tasks : task'[t] \in {job, NoJob}
      /\ \E t \in Tasks : task'[t] = job
  BY SpawnedAlone DEF PublicOnly
<1>3. ASSUME NEW q \in Posts, q # p
      PROVE  (MayStay(q)' <=> MayStay(q)) /\ (Eligible(q)' <=> Eligible(q))
  BY <1>3 DEF OnlyRow, MayStay, Eligible, Live, Undeleted
<1>4. QED
  BY <1>1, <1>2, <1>3, InStepFromIdle

LEMMA ArriveSerial ==
    ASSUME StoreInv, Typed, PublicOnly, SerialInv, OneAtATime,
           NEW r \in Requests, ArriveAndSpawn(r)
    PROVE  SerialInv'
<1>0. /\ Quiet /\ Idling /\ InStep
      /\ post \in [Posts -> PostRow] /\ role \in [Users -> Roles]
      /\ rows \subseteq Posts
      /\ req \in [Requests -> Frame]
      /\ \A q \in Requests : req[q].at = "idle"
      /\ task \in [Tasks -> Job]
  <2>1. Quiet /\ Idling
    BY DEF ArriveAndSpawn, MayBegin, Settled, OneAtATime
  <2>2. InStep
    BY <2>1, IdleInStep DEF Quiet
  <2>3. QED
    BY <2>1, <2>2 DEF Quiet, StoreInv, Shape, Typed, ModTypes, PublicOnly
<1>1. ASSUME NEW a \in Users, NEW p \in Posts, NEW s \in ModState, PatchPost(r, a, p, s),
             Spawn(SyncJob({p}))
      PROVE  SerialInv'
  <2> DEFINE job == SyncJob({p})
  <2>1. /\ job.plan = "none" /\ job.syncs = {p} /\ job.puts = {} /\ job.drops = {}
        /\ NoJob.plan = "none" /\ NoJob.syncs = {} /\ NoJob.puts = {} /\ NoJob.drops = {}
    BY DEF SyncJob, NoJob
  <2>2. /\ OnlyRow(p) /\ p \in rows' /\ post'[p].state = s
        /\ s \in {"live", "quarantine", "removed"}
    BY <1>0, <1>1 DEF PatchPost, SetState, accountVars, OnlyRow, PostRow
  <2>3. \A t \in Tasks : task'[t] \in {job, NoJob}
    BY <1>0, <1>1, SpawnedAlone
  <2>4. s = "removed" => TakingDown'
    BY <2>1, <2>2, <2>3 DEF TakingDown, Downed
  <2>5. /\ \A q \in Requests : req'[q].at # "idle" => q = r
        /\ req'[r].at = "idle" \/ (req'[r].at = "settle" /\ req'[r].state = s)
    BY <1>0, <1>1 DEF PatchPost, Goto, Idle
  <2>6. Alone' /\ \A q \in Requests : Paced(q)'
    BY <2>4, <2>5, OthersPaced DEF Alone, Paced, Early, Late, At
  <2>7. JobOK(job)' /\ TakesOut(job, p)' /\ PutsIn(job, p)'
    BY <2>1 DEF JobOK, TakesOut, PutsIn
  <2>8. QED
    BY <1>0, <1>1, <2>2, <2>6, <2>7, OneRowMoves
<1>2. ASSUME NEW a \in Users, NEW u \in Users, PatchUser(r, a, u, "member"),
             Spawn(UserJob("index_user", u))
      PROVE  SerialInv'
  <2> DEFINE job == UserJob("index_user", u)
  <2>1. /\ job.plan = "index_user" /\ job.user = u
        /\ job.syncs = {} /\ job.puts = {} /\ job.drops = {}
    BY DEF UserJob, NoJob
  <2>2. /\ UNCHANGED <<rows, post, alive, req>>
        /\ role' = [role EXCEPT ![u] = "member"]
    BY <1>2 DEF PatchUser, storeVars
  <2>3. Alone' /\ \A q \in Requests : Paced(q)'
    BY <1>0, <2>2, OthersPaced DEF Alone
  <2>4. JobOK(job)'
    BY <2>1 DEF JobOK
  <2>5. /\ index' = index
        /\ \A t \in Tasks : task'[t] \in {job, NoJob}
        /\ \E t \in Tasks : task'[t] = job
    BY <1>0, <1>2, SpawnedAlone
  <2>6. \A p \in Posts : MayStay(p) => MayStay(p)'
    BY <1>0, <2>2 DEF MayStay, Eligible, Live, Undeleted
  <2>7. \A p \in Posts : Eligible(p)' => Eligible(p) \/ PutsIn(job, p)'
    BY <1>0, <2>1, <2>2 DEF PutsIn, Eligible, Live, Undeleted
  <2>8. QED
    BY <1>0, <2>3, <2>4, <2>5, <2>6, <2>7, InStepFromIdle
<1>3. ASSUME NEW u \in Users, NEW vis \in PostVis, NEW parent \in Posts \cup {None},
             BeginCreate(r, u, vis, parent), NoSpawn
      PROVE  SerialInv'
  <2> DEFINE f == [Idle EXCEPT !.at = "stamp", !.user = u, !.vis = vis, !.parent = parent]
  <2>1. f.at = "stamp" /\ req' = [req EXCEPT ![r] = f] /\ UNCHANGED <<rows, post, role, alive>>
    BY <1>3 DEF BeginCreate, Goto, Idle, storeVars, accountVars
  <2> HIDE DEF f
  <2>2. QED
    BY <1>0, <1>3, <2>1, IdleMoves
<1>4. ASSUME NEW u \in Users, NEW p \in Posts, EditPost(r, u, p), NoSpawn
      PROVE  SerialInv'
  <2> DEFINE f == [Idle EXCEPT !.at = "fetch", !.user = u, !.post = p]
  <2>1. /\ f.at = "fetch" /\ f.user = u /\ f.post = p /\ post[p].author = u
        /\ req' = [req EXCEPT ![r] = f] /\ UNCHANGED <<rows, post, role, alive>>
    BY <1>4 DEF EditPost, Goto, Idle, storeVars, accountVars
  <2> HIDE DEF f
  <2>2. QED
    BY <1>0, <1>4, <2>1, IdleMoves
<1>5. ASSUME NEW u \in Users, NEW p \in Posts, RestorePost(r, u, p), NoSpawn
      PROVE  SerialInv'
  <2> DEFINE f == [Idle EXCEPT !.at = "fetch", !.user = u, !.post = p]
  <2>1. f.at = "fetch" /\ f.user = u /\ f.post = p /\ req' = [req EXCEPT ![r] = f]
    BY <1>5 DEF RestorePost, Goto, Idle
  <2>2. /\ u \in alive /\ p \in rows /\ post[p].author = u /\ post[p].deleted = "trash"
        /\ UNCHANGED <<rows, alive, role>>
        /\ post' = [post EXCEPT ![p].deleted = "no"]
    BY <1>5 DEF RestorePost, Undelete, Active, accountVars
  <2> HIDE DEF f
  <2>3. post'[p].author = u
    BY <1>0, <2>2 DEF PostRow
  <2>4. /\ req'[r] = f
        /\ \A q \in Requests : q # r => req'[q].at = "idle"
        /\ Alone'
    BY <1>0, <2>1, MovesAlone DEF SerialInv
  <2>5. /\ index' = index
        /\ \A t \in Tasks : task'[t] \in {NoJob, NoJob}
        /\ Idling'
    BY <1>0, <1>5, NoneSpawned
  <2>6. \A q \in Requests : Paced(q)'
    BY <2>1, <2>3, <2>4, <2>5, OthersPaced DEF Paced, At, Late
  <2>7. Fetching(p)'
    BY <2>1, <2>4 DEF Fetching, At
  <2>8. \A q \in Posts : q # p => /\ MayStay(q) => MayStay(q)'
                                  /\ Eligible(q)' => Eligible(q)
    BY <1>0, <2>2 DEF MayStay, Eligible, Live, Undeleted
  <2>9. ~MayStay(p)
    BY <2>2 DEF MayStay, Eligible, Live, Undeleted
  <2>10. QED
    BY <1>0, <2>4, <2>5, <2>6, <2>7, <2>8, <2>9, InStepFromIdle, NoJobOKNext
<1>6. ASSUME NEW u \in Users, NEW p \in Posts, FileReport(r, u, p), NoSpawn
      PROVE  SerialInv'
  <2> DEFINE f == [Idle EXCEPT !.at = "count", !.post = p]
  <2>1. f.at = "count" /\ req' = [req EXCEPT ![r] = f] /\ UNCHANGED <<rows, post, role, alive>>
    BY <1>6 DEF FileReport, Goto, Idle, storeVars, accountVars
  <2> HIDE DEF f
  <2>2. QED
    BY <1>0, <1>6, <2>1, IdleMoves
<1>7. ASSUME NEW a \in Users, NEW u \in Users, NEW ban \in BOOLEAN, AdminShadow(r, a, u, ban),
             NoSpawn
      PROVE  SerialInv'
  <2> DEFINE f == [Idle EXCEPT !.at = IF ban THEN "flag" ELSE "unflag", !.user = u]
  <2>1. /\ f.at \in {"flag", "unflag"} /\ req' = [req EXCEPT ![r] = f]
        /\ UNCHANGED <<rows, post, role, alive>>
    BY <1>7 DEF AdminShadow, Goto, Idle, storeVars, accountVars
  <2> HIDE DEF f
  <2>2. QED
    BY <1>0, <1>7, <2>1, IdleMoves
<1>8. ASSUME NEW u \in Users, NEW p \in Posts \cup {None}, BeginAppeal(r, u, p), NoSpawn
      PROVE  SerialInv'
  <2> DEFINE f == [Idle EXCEPT !.at = "appeal", !.user = u, !.post = p]
  <2>1. f.at = "appeal" /\ req' = [req EXCEPT ![r] = f] /\ UNCHANGED <<rows, post, role, alive>>
    BY <1>8 DEF BeginAppeal, Goto, Idle, storeVars, accountVars
  <2> HIDE DEF f
  <2>2. QED
    BY <1>0, <1>8, <2>1, IdleMoves
<1>9. ASSUME NEW a \in Users, NEW i \in Appeals, NEW grant \in BOOLEAN,
             ResolveAppeal(r, a, i, grant), NoSpawn
      PROVE  SerialInv'
  <2>0. UNCHANGED <<rows, post, role, alive>>
    BY <1>9 DEF ResolveAppeal, storeVars, accountVars
  <2>1. CASE grant
    <3> DEFINE f == [Idle EXCEPT !.at = IF appeal[i].post = None THEN "readmit" ELSE "reinstate",
                                 !.user = appeal[i].who, !.post = appeal[i].post]
    <3>1. f.at \in {"readmit", "reinstate"} /\ req' = [req EXCEPT ![r] = f]
      BY <1>9, <2>1 DEF ResolveAppeal, Goto, Idle
    <3> HIDE DEF f
    <3>2. QED
      BY <1>0, <1>9, <2>0, <3>1, IdleMoves
  <2>2. CASE ~grant
    <3>1. UNCHANGED req
      BY <1>9, <2>2 DEF ResolveAppeal
    <3>2. QED
      BY <1>0, <1>9, <2>0, <3>1, IdleStays
  <2>3. QED
    BY <2>1, <2>2
<1>10. ASSUME NEW a \in Users, NEW u \in Users, PatchUser(r, a, u, "suspended"), NoSpawn
       PROVE  SerialInv'
  <2> DEFINE f == [Idle EXCEPT !.at = "revoke", !.user = u]
  <2>1. /\ f.at = "revoke" /\ f.user = u /\ req' = [req EXCEPT ![r] = f]
        /\ UNCHANGED <<rows, post, alive>>
        /\ role' = [role EXCEPT ![u] = "suspended"]
    BY <1>10 DEF PatchUser, Goto, Idle, storeVars
  <2> HIDE DEF f
  <2>2. /\ req'[r] = f
        /\ \A q \in Requests : q # r => req'[q].at = "idle"
        /\ Alone'
    BY <1>0, <2>1, MovesAlone DEF SerialInv
  <2>3. /\ index' = index
        /\ \A t \in Tasks : task'[t] \in {NoJob, NoJob}
        /\ TakingDown'
    BY <1>0, <1>10, NoneSpawned, IdleTakesDown
  <2>4. \A q \in Requests : Paced(q)'
    BY <1>0, <2>1, <2>2, <2>3, OthersPaced DEF Paced, At, Early
  <2>5. \A p \in Posts : MayStay(p) => MayStay(p)' \/ Revoking(p)'
    BY <1>0, <2>1, <2>2 DEF MayStay, Eligible, Live, Undeleted, Revoking, At
  <2>6. \A p \in Posts : Eligible(p)' => Eligible(p)
    BY <1>0, <2>1 DEF Eligible, Live, Undeleted
  <2>7. QED
    BY <1>0, <2>2, <2>3, <2>4, <2>5, <2>6, InStepFromIdle, NoJobOKNext
<1>11. CASE /\ Arrive(r) /\ NoSpawn
            /\ \E l \in Label \ {"idle", "settle"} : At(r, l)'
  <2>0. At(r, "idle") /\ ~At(r, "idle")' /\ ~At(r, "settle")' /\ NoSpawn
    BY <1>0, <1>11 DEF At
  <2>1. ASSUME NEW u \in Users, NEW p \in Posts, NEW s \in ModState, PatchPost(r, u, p, s)
        PROVE  FALSE
    BY <1>0, <2>0, <2>1 DEF PatchPost, Goto, Idle, At
  <2>2. ASSUME NEW u \in Users, NEW v \in Users, NEW s \in Roles, PatchUser(r, u, v, s)
        PROVE  SerialInv'
    <3>1. s = "suspended"
      BY <2>0, <2>2 DEF PatchUser, At
    <3>2. QED
      BY <1>10, <2>0, <2>2, <3>1
  <2>3. ASSUME NEW u \in Users, NEW p \in Posts, BeginRepost(r, u, p)
        PROVE  FALSE
    BY <2>3 DEF BeginRepost, Serves, OneAtATime
  <2>4. QED
    BY <1>3, <1>4, <1>5, <1>6, <1>7, <1>8, <1>9, <1>11, <2>0, <2>1, <2>2, <2>3 DEF Arrive
<1>12. QED
  BY <1>1, <1>2, <1>9, <1>11 DEF ArriveAndSpawn

\* The columns of rows that a removal leaves, and of those it takes.
LEMMA RemovedColumns ==
    ASSUME post \in [Posts -> PostRow], NEW S, RemoveRows(S)
    PROVE  /\ rows' = rows \ S
           /\ \A p \in Posts : /\ post'[p].author = post[p].author
                               /\ post'[p].vis = post[p].vis
                               /\ p \notin S => /\ post'[p].state = post[p].state
                                                /\ post'[p].deleted = post[p].deleted
BY DEF RemoveRows, Tombstone, Unissued, PostRow

LEMMA SingleSerial ==
    ASSUME StoreInv, Typed, PublicOnly, SerialInv, OneAtATime, SingleAndSpawn \/ Reindex
    PROVE  SerialInv'
<1>0. /\ Quiet /\ Idling /\ InStep
      /\ post \in [Posts -> PostRow] /\ role \in [Users -> Roles]
      /\ rows \subseteq Posts
      /\ task \in [Tasks -> Job]
      /\ UNCHANGED req
  <2>1. Quiet /\ Idling
    BY DEF SingleAndSpawn, Reindex, MayBegin, Settled, OneAtATime
  <2>2. InStep
    BY <2>1, IdleInStep DEF Quiet
  <2>3. UNCHANGED req
    BY DEF SingleAndSpawn, Reindex, DeletePost, ResolveReport, DeleteAccount, CoolDown, Age, Purge,
           vars, modVars
  <2>4. QED
    BY <2>1, <2>2, <2>3 DEF StoreInv, Shape, Typed, ModTypes, PublicOnly
<1>1. Alone' /\ \A q \in Requests : Paced(q)'
  BY <1>0, OthersPaced DEF Quiet, Alone
<1>2. ASSUME NoSpawn,
             \A p \in Posts : MayStay(p) => MayStay(p)',
             \A p \in Posts : Eligible(p)' => Eligible(p)
      PROVE  SerialInv'
  <2>1. /\ index' = index
        /\ \A t \in Tasks : task'[t] \in {NoJob, NoJob}
    BY <1>0, <1>2, NoneSpawned
  <2>2. QED
    BY <1>0, <1>1, <1>2, <2>1, InStepFromIdle, NoJobOKNext
<1>3. ASSUME NEW u \in Users, NEW p \in Posts, DeletePost(u, p), Spawn(DropJob({p}))
      PROVE  SerialInv'
  <2> DEFINE job == DropJob({p})
  <2>1. job.plan = "none" /\ job.syncs = {} /\ job.puts = {} /\ job.drops = {p}
    BY DEF DropJob, NoJob
  <2>2. OnlyRow(p) /\ post'[p].deleted = "trash"
    BY <1>0, <1>3 DEF DeletePost, SoftDelete, OnlyRow, modVars, Undeleted, PostRow
  <2>3. ~Eligible(p)'
    BY <2>2 DEF Eligible, Live, Undeleted
  <2>4. JobOK(job)' /\ TakesOut(job, p)'
    BY <2>1, <2>3 DEF JobOK, TakesOut
  <2>5. QED
    BY <1>0, <1>1, <1>3, <2>2, <2>3, <2>4, OneRowMoves DEF Quiet
<1>4. ASSUME NoSpawn,
             \/ \E a, u \in Users, p \in Posts : ResolveReport(a, u, p)
             \/ \E u \in Users : CoolDown(u)
      PROVE  SerialInv'
  <2>1. UNCHANGED <<rows, post, role, alive>>
    BY <1>4 DEF ResolveReport, CoolDown, storeVars, accountVars
  <2>2. QED
    BY <1>2, <1>4, <2>1, SameView
<1>5. ASSUME NEW u \in Users, DeleteAccount(u), NoSpawn
      PROVE  SerialInv'
  <2>1. /\ alive' = alive \ {u} /\ role' = [role EXCEPT ![u] = "member"]
        /\ RemoveRows({p \in rows : post[p].author = u})
    BY <1>5 DEF DeleteAccount, RemoveAccount
  <2>2. /\ rows' = rows \ {p \in rows : post[p].author = u}
        /\ \A p \in Posts : /\ post'[p].author = post[p].author
                            /\ post'[p].vis = post[p].vis
                            /\ post[p].author # u => /\ post'[p].state = post[p].state
                                                     /\ post'[p].deleted = post[p].deleted
    BY <1>0, <2>1, RemovedColumns
  <2>3. ASSUME NEW p \in Posts, MayStay(p)
        PROVE  MayStay(p)'
    <3>1. CASE post[p].author = u
      BY <2>1, <2>2, <3>1 DEF MayStay
    <3>2. CASE post[p].author # u
      BY <1>0, <2>1, <2>2, <2>3, <3>2 DEF MayStay, Eligible, Live, Undeleted
    <3>3. QED
      BY <3>1, <3>2
  <2>4. \A p \in Posts : Eligible(p)' => Eligible(p)
    BY <1>0, <2>1, <2>2 DEF Eligible, Live, Undeleted
  <2>5. QED
    BY <1>2, <1>5, <2>3, <2>4
<1>6. ASSUME NEW p \in Posts, Age(p), NoSpawn
      PROVE  SerialInv'
  <2>1. /\ UNCHANGED <<alive, rows, role>>
        /\ post[p].deleted = "trash" /\ post' = [post EXCEPT ![p].deleted = "expired"]
    BY <1>6 DEF Age, Expire, modVars
  <2>2. \A q \in Posts : /\ post'[q].author = post[q].author /\ post'[q].vis = post[q].vis
                         /\ post'[q].state = post[q].state
                         /\ post'[q].deleted = "no" <=> post[q].deleted = "no"
    BY <1>0, <2>1 DEF PostRow
  <2>3. \A q \in Posts : (MayStay(q) => MayStay(q)') /\ (Eligible(q)' => Eligible(q))
    BY <2>1, <2>2 DEF MayStay, Eligible, Live, Undeleted
  <2>4. QED
    BY <1>2, <1>6, <2>3
<1>7. CASE Purge /\ NoSpawn
  <2>1. UNCHANGED <<alive, role>> /\ RemoveRows(Purgeable)
    BY <1>7 DEF Purge, PurgeTrash, accountVars
  <2>2. /\ rows' = rows \ Purgeable
        /\ \A p \in Posts : /\ post'[p].author = post[p].author
                            /\ post'[p].vis = post[p].vis
                            /\ p \notin Purgeable => /\ post'[p].state = post[p].state
                                                     /\ post'[p].deleted = post[p].deleted
    BY <1>0, <2>1, RemovedColumns
  <2>3. \A p \in Purgeable : post[p].deleted = "expired"
    BY DEF Purgeable
  <2>4. \A p \in Posts : (MayStay(p) => MayStay(p)') /\ (Eligible(p)' => Eligible(p))
    BY <2>1, <2>2, <2>3 DEF MayStay, Eligible, Live, Undeleted
  <2>5. QED
    BY <1>2, <1>7, <2>4
<1>8. CASE Reindex
  <2> DEFINE job == UserJob("reindex", None)
  <2>1. job.plan = "reindex" /\ job.syncs = {} /\ job.puts = {} /\ job.drops = {}
    BY DEF UserJob, NoJob
  <2>2. JobOK(job)' /\ \A p : PutsIn(job, p)'
    BY <2>1 DEF JobOK, PutsIn
  <2>3. UNCHANGED <<rows, post, role, alive>>
    BY <1>8 DEF Reindex, vars, storeVars, modVars
  <2>4. /\ index' = index
        /\ \A t \in Tasks : task'[t] \in {job, NoJob}
        /\ \E t \in Tasks : task'[t] = job
    BY <1>0, <1>8, SpawnedAlone DEF Reindex
  <2>5. QED
    BY <1>0, <1>1, <2>2, <2>3, <2>4, SameView, InStepFromIdle
<1>9. QED
  BY <1>3, <1>4, <1>5, <1>6, <1>7, <1>8 DEF SingleAndSpawn

----------------------------------------------------------------------------
(* Statements of a request that has spawned nothing yet.                    *)

LEMMA EarlySerial ==
    ASSUME StoreInv, Typed, PublicOnly, SerialInv, OneAtATime,
           NEW r \in Requests, StepAndSpawn(r), req[r].at \in Early
    PROVE  SerialInv'
<1> SUFFICES ASSUME NEW u, u = req[r].user, NEW p, p = req[r].post
             PROVE  SerialInv'
  OBVIOUS
<1>0. /\ Idling /\ Paced(r)
      /\ post \in [Posts -> PostRow] /\ role \in [Users -> Roles]
      /\ rows \subseteq Posts
      /\ req \in [Requests -> Frame]
      /\ task \in [Tasks -> Job]
      /\ req[r].at # "idle" /\ req[r].at # "revoke"
      /\ \A q \in Requests : q # r => req[q].at = "idle"
  BY DEF SerialInv, Alone, Paced, StoreInv, Shape, Typed, ModTypes, PublicOnly, Early
<1>1. req[r].at # "fetch" => InStep
  BY <1>0, IdleInStep
<1>2. ASSUME NEW f, req' = [req EXCEPT ![r] = f]
      PROVE  /\ req'[r] = f
             /\ \A q \in Requests : q # r => req'[q].at = "idle"
             /\ Alone'
  BY <1>0, <1>2, MovesAlone DEF SerialInv
<1>3. ASSUME Finish(r)
      PROVE  Alone' /\ \A q \in Requests : Paced(q)'
  <2>1. Idle.at = "idle"
    BY DEF Idle
  <2>2. QED
    BY <1>2, <1>3, <2>1, OthersPaced DEF Finish
<1>4. CASE Stamp(r) /\ NoSpawn
  <2>1. PICK s : Goto(r, [req[r] EXCEPT !.at = "insert", !.state = s])
    BY <1>4 DEF Stamp
  <2> DEFINE f == [req[r] EXCEPT !.at = "insert", !.state = s]
  <2>2. /\ f.at = "insert" /\ req' = [req EXCEPT ![r] = f] /\ req[r].at = "stamp"
        /\ UNCHANGED <<rows, post, role, alive>>
    BY <1>0, <1>4, <2>1 DEF Stamp, Goto, At, Frame, storeVars, accountVars
  <2> HIDE DEF f
  <2>3. QED
    BY <1>0, <1>4, <2>2, IdleMoves
<1>5. CASE Insert(r) /\ NoSpawn
  <2>1. PICK q \in Posts :
          /\ InsertPost(q, u, req[r].vis, req[r].parent, None, req[r].state)
          /\ IF req[r].state = "quarantine"
             THEN Goto(r, [Idle EXCEPT !.at = "offense", !.user = u, !.post = q, !.points = 2])
             ELSE Goto(r, [Idle EXCEPT !.at = "fetch", !.user = u, !.post = q])
    BY <1>5 DEF Insert
  <2>2. /\ rows' = rows \cup {q} /\ UNCHANGED <<alive, role>> /\ ~Issued(q)
        /\ post'[q].author = u /\ post'[q].state = req[r].state
        /\ \A x \in Posts : x # q => post'[x] = post[x]
    BY <1>0, <1>5, <2>1 DEF Insert, InsertPost, accountVars
  <2>3. q \notin index /\ req[r].at # "fetch"
    BY <1>5, <2>2 DEF PublicOnly, Public, Insert, At
  <2>4. /\ index' = index
        /\ \A t \in Tasks : task'[t] \in {NoJob, NoJob}
        /\ Idling' /\ TakingDown'
    BY <1>0, <1>5, NoneSpawned, IdleTakesDown
  <2>5. \A x \in Posts : x # q => (MayStay(x)' <=> MayStay(x)) /\ (Eligible(x)' <=> Eligible(x))
    BY <2>2 DEF MayStay, Eligible, Live, Undeleted
  <2>6. CASE req[r].state = "quarantine"
    <3> DEFINE f == [Idle EXCEPT !.at = "offense", !.user = u, !.post = q, !.points = 2]
    <3>0. f.at = "offense" /\ req' = [req EXCEPT ![r] = f]
      BY <2>1, <2>6 DEF Goto, Idle
    <3> HIDE DEF f
    <3>1. /\ Alone' /\ req'[r].at = "offense"
          /\ \A x \in Requests : x # r => req'[x].at = "idle"
      BY <1>2, <3>0
    <3>2. \A x \in Requests : Paced(x)'
      BY <2>4, <3>1, OthersPaced DEF Paced, At, Early
    <3>3. ~Eligible(q)'
      BY <2>2, <2>6 DEF Eligible, Live
    <3>4. QED
      BY <1>1, <2>3, <2>4, <2>5, <3>1, <3>2, <3>3, InStepFromIdle, NoJobOKNext
  <2>7. CASE req[r].state # "quarantine"
    <3> DEFINE f == [Idle EXCEPT !.at = "fetch", !.user = u, !.post = q]
    <3>0. f.at = "fetch" /\ f.user = u /\ f.post = q /\ req' = [req EXCEPT ![r] = f]
      BY <2>1, <2>7 DEF Goto, Idle
    <3> HIDE DEF f
    <3>1. /\ Alone' /\ req'[r].at = "fetch" /\ req'[r].user = u /\ req'[r].post = q
          /\ \A x \in Requests : x # r => req'[x].at = "idle"
      BY <1>2, <3>0
    <3>2. \A x \in Requests : Paced(x)'
      BY <2>2, <2>4, <3>1, OthersPaced DEF Paced, At, Late
    <3>3. Fetching(q)'
      BY <3>1 DEF Fetching, At
    <3>4. QED
      BY <1>1, <2>3, <2>4, <2>5, <3>1, <3>2, <3>3, InStepFromIdle, NoJobOKNext
  <2>8. QED
    BY <2>6, <2>7
<1>6. CASE FetchAndIndex(r)
  <2>1. /\ Finish(r) /\ UNCHANGED <<rows, post, role, alive>>
        /\ req[r].at = "fetch" /\ post[p].author = u
    BY <1>0, <1>6 DEF FetchAndIndex, Fetch, At, Paced, storeVars, accountVars
  <2>2. \A q \in Posts : /\ q \in index => MayStay(q)
                         /\ Eligible(q) => q \in index \/ q = p
    <3> SUFFICES ASSUME NEW q \in Posts
                 PROVE  /\ q \in index => MayStay(q)
                        /\ Eligible(q) => q \in index \/ q = p
      OBVIOUS
    <3>1. ~Revoking(q) /\ (Fetching(q) => q = p)
      BY <1>0 DEF Revoking, Fetching, At
    <3>2. \A t \in Tasks : ~TakesOut(task[t], q) /\ ~PutsIn(task[t], q)
      BY <1>0, NoJobOK DEF Idling
    <3>3. QED
      BY <3>1, <3>2 DEF SerialInv, Followed
  <2>3. CASE Fetchable(u, p) /\ post[p].vis = "public" /\ Spawn(PutJob({p}))
    <3> DEFINE job == PutJob({p})
    <3>1. job.plan = "none" /\ job.syncs = {} /\ job.puts = {p} /\ job.drops = {}
      BY DEF PutJob, NoJob
    <3>2. MayStay(p)
      BY <2>3 DEF MayStay, Fetchable, Eligible, Live
    <3>3. JobOK(job)' /\ PutsIn(job, p)'
      BY <2>1, <3>1, <3>2, SameView DEF JobOK, PutsIn
    <3>4. /\ index' = index
          /\ \A t \in Tasks : task'[t] \in {job, NoJob}
          /\ \E t \in Tasks : task'[t] = job
      BY <1>0, <2>3, SpawnedAlone
    <3>5. QED
      BY <1>3, <2>1, <2>2, <3>3, <3>4, SameView, FromIdle
  <2>4. CASE ~(Fetchable(u, p) /\ post[p].vis = "public") /\ NoSpawn
    <3>1. ~Eligible(p)
      BY <2>1, <2>4 DEF Fetchable, Eligible, Live
    <3>2. /\ index' = index
          /\ \A t \in Tasks : task'[t] \in {NoJob, NoJob}
      BY <1>0, <2>4, NoneSpawned
    <3>3. QED
      BY <1>3, <2>1, <2>2, <3>1, <3>2, SameView, FromIdle, NoJobOKNext
  <2>5. QED
    BY <1>6, <2>3, <2>4 DEF FetchAndIndex
<1>7. CASE QuarantineAndSync(r)
  <2> DEFINE job == SyncJob({p})
  <2>1. /\ job.plan = "none" /\ job.syncs = {p} /\ job.puts = {} /\ job.drops = {}
        /\ NoJob.plan = "none" /\ NoJob.syncs = {} /\ NoJob.puts = {} /\ NoJob.drops = {}
    BY DEF SyncJob, NoJob
  <2>2. /\ p \in rows /\ OnlyRow(p) /\ p \in rows' /\ post'[p].state = "quarantine"
        /\ req[r].at = "quarantine" /\ Spawn(job)
    BY <1>0, <1>7 DEF QuarantineAndSync, ReportQuarantine, SetState, At, accountVars, OnlyRow, PostRow
  <2>3. /\ Alone' /\ req'[r].at = "offense"
        /\ \A x \in Requests : x # r => req'[x].at = "idle"
    BY <1>2, <1>7 DEF QuarantineAndSync, ReportQuarantine, Goto, Idle
  <2>4. \A t \in Tasks : task'[t] \in {job, NoJob}
    BY <1>0, <2>2, SpawnedAlone
  <2>5. TakingDown'
    BY <2>1, <2>2, <2>4 DEF TakingDown, Downed
  <2>6. \A x \in Requests : Paced(x)'
    BY <2>3, <2>5, OthersPaced DEF Paced, At, Early
  <2>7. JobOK(job)' /\ TakesOut(job, p)' /\ PutsIn(job, p)'
    BY <2>1 DEF JobOK, TakesOut, PutsIn
  <2>8. QED
    BY <1>0, <2>2, <2>3, <2>6, <2>7, OneRowMoves
<1>8. CASE ReinstateAndSync(r)
  <2>1. CASE /\ SetState(p, ModState \ {"live"}, "live")
             /\ Goto(r, [Idle EXCEPT !.at = "settle", !.user = u, !.post = p])
    <3> DEFINE job == SyncJob({p})
    <3>1. job.plan = "none" /\ job.syncs = {p} /\ job.puts = {} /\ job.drops = {}
      BY DEF SyncJob, NoJob
    <3>2. p \in rows /\ OnlyRow(p) /\ req[r].at = "reinstate"
      BY <1>0, <1>8, <2>1 DEF ReinstateAndSync, Reinstate, SetState, At, accountVars, OnlyRow
    <3>3. /\ Alone' /\ req'[r].at = "settle" /\ req'[r].state = "live"
          /\ \A x \in Requests : x # r => req'[x].at = "idle"
      BY <1>2, <2>1 DEF Goto, Idle
    <3>4. Spawn(job)
      BY <1>8, <3>3 DEF ReinstateAndSync, At
    <3>5. \A x \in Requests : Paced(x)'
      BY <3>3, OthersPaced DEF Paced, At, Early, Late
    <3>6. JobOK(job)' /\ TakesOut(job, p)' /\ PutsIn(job, p)'
      BY <3>1 DEF JobOK, TakesOut, PutsIn
    <3>7. QED
      BY <1>0, <3>2, <3>3, <3>4, <3>5, <3>6, OneRowMoves
  <2>2. CASE Finish(r) /\ UNCHANGED storeVars
    <3>1. /\ req' = [req EXCEPT ![r] = Idle] /\ Idle.at = "idle" /\ req[r].at = "reinstate"
          /\ UNCHANGED <<rows, post, role, alive>>
      BY <1>8, <2>2 DEF ReinstateAndSync, Reinstate, Finish, Idle, At, storeVars, accountVars
    <3>2. ~At(r, "settle")'
      BY <1>2, <3>1 DEF At
    <3>3. NoSpawn
      BY <1>8, <3>2 DEF ReinstateAndSync
    <3>4. QED
      BY <1>0, <3>1, <3>3, IdleMoves
  <2>3. QED
    BY <1>8, <2>1, <2>2 DEF ReinstateAndSync, Reinstate
<1>9. CASE UnhideAndSync(r)
  <2> DEFINE job == UserJob("sync_user", u)
  <2>1. /\ job.plan = "sync_user" /\ job.user = u
        /\ job.syncs = {} /\ job.puts = {} /\ job.drops = {}
    BY DEF UserJob, NoJob
  <2>2. /\ SweepState(u, "shadow", "live") /\ Finish(r) /\ Spawn(job)
        /\ UNCHANGED <<rows, alive, role>> /\ req[r].at = "unhide"
    BY <1>9 DEF UnhideAndSync, Unhide, SweepState, At, accountVars
  <2>3. \A q \in Posts : /\ post'[q].author = post[q].author /\ post'[q].vis = post[q].vis
                         /\ post'[q].deleted = post[q].deleted
                         /\ post[q].author # u => post'[q].state = post[q].state
                         /\ post[q].state = "live" => post'[q].state = "live"
    BY <1>0, <2>2 DEF SweepState, PostRow
  <2>4. JobOK(job)'
    BY <2>1 DEF JobOK
  <2>5. /\ index' = index
        /\ \A t \in Tasks : task'[t] \in {job, NoJob}
        /\ \E t \in Tasks : task'[t] = job
    BY <1>0, <2>2, SpawnedAlone
  <2>6. \A q \in Posts : MayStay(q) => MayStay(q)' \/ TakesOut(job, q)'
    BY <2>1, <2>2, <2>3 DEF MayStay, Eligible, Live, Undeleted, TakesOut
  <2>7. \A q \in Posts : Eligible(q)' => Eligible(q) \/ PutsIn(job, q)'
    BY <2>1, <2>2, <2>3 DEF Eligible, Live, Undeleted, PutsIn
  <2>8. QED
    BY <1>1, <1>3, <2>2, <2>4, <2>5, <2>6, <2>7, InStepFromIdle
<1>10. CASE ReadmitAndIndex(r)
  <2>1. /\ Finish(r) /\ UNCHANGED <<rows, post, alive>> /\ req[r].at = "readmit"
        /\ role' = role \/ role' = [role EXCEPT ![u] = "member"]
    BY <1>10 DEF ReadmitAndIndex, Readmit, At, storeVars
  <2>2. CASE role' = role
    <3>1. NoSpawn /\ req' = [req EXCEPT ![r] = Idle] /\ Idle.at = "idle"
      BY <1>10, <2>1, <2>2 DEF ReadmitAndIndex, Finish, Idle
    <3>2. QED
      BY <1>0, <2>1, <2>2, <3>1, IdleMoves
  <2>3. CASE role' # role
    <3> DEFINE job == UserJob("index_user", u)
    <3>1. /\ job.plan = "index_user" /\ job.user = u
          /\ job.syncs = {} /\ job.puts = {} /\ job.drops = {}
      BY DEF UserJob, NoJob
    <3>2. Spawn(job) /\ role' = [role EXCEPT ![u] = "member"]
      BY <1>10, <2>1, <2>3 DEF ReadmitAndIndex
    <3>3. JobOK(job)'
      BY <3>1 DEF JobOK
    <3>4. /\ index' = index
          /\ \A t \in Tasks : task'[t] \in {job, NoJob}
          /\ \E t \in Tasks : task'[t] = job
      BY <1>0, <3>2, SpawnedAlone
    <3>5. \A q \in Posts : MayStay(q) => MayStay(q)'
      BY <1>0, <2>1, <3>2 DEF MayStay, Eligible, Live, Undeleted
    <3>6. \A q \in Posts : Eligible(q)' => Eligible(q) \/ PutsIn(job, q)'
      BY <1>0, <2>1, <3>1, <3>2 DEF PutsIn, Eligible, Live, Undeleted
    <3>7. QED
      BY <1>1, <1>3, <2>1, <3>3, <3>4, <3>5, <3>6, InStepFromIdle
  <2>4. QED
    BY <2>2, <2>3
<1>11. CASE /\ InsertFails(r) \/ CountReports(r) \/ QuarantineMisses(r) \/ Unflag(r) \/ FileAppeal(r)
            /\ NoSpawn
  <2>1. UNCHANGED <<rows, post, role, alive>>
    BY <1>11 DEF InsertFails, CountReports, QuarantineMisses, Unflag, FileAppeal, storeVars,
                 accountVars
  <2>2. PICK f : req' = [req EXCEPT ![r] = f] /\ f.at \in {"idle", "quarantine", "unhide"}
    <3>1. CASE Finish(r)
      <4>1. Idle.at = "idle"
        BY DEF Idle
      <4>2. QED
        BY <3>1, <4>1 DEF Finish
    <3>2. CASE Goto(r, [Idle EXCEPT !.at = "quarantine", !.post = p])
      <4>1. [Idle EXCEPT !.at = "quarantine", !.post = p].at = "quarantine"
        BY DEF Idle
      <4>2. QED
        BY <3>2, <4>1 DEF Goto
    <3>3. CASE Goto(r, [Idle EXCEPT !.at = "unhide", !.user = u])
      <4>1. [Idle EXCEPT !.at = "unhide", !.user = u].at = "unhide"
        BY DEF Idle
      <4>2. QED
        BY <3>3, <4>1 DEF Goto
    <3>4. Finish(r) \/ Goto(r, [Idle EXCEPT !.at = "quarantine", !.post = p])
                   \/ Goto(r, [Idle EXCEPT !.at = "unhide", !.user = u])
      BY <1>11 DEF InsertFails, CountReports, QuarantineMisses, Unflag, FileAppeal
    <3>5. QED
      BY <3>1, <3>2, <3>3, <3>4
  <2>3. req[r].at # "fetch"
    BY <1>11 DEF InsertFails, CountReports, QuarantineMisses, Unflag, FileAppeal, At
  <2>4. QED
    BY <1>0, <1>11, <2>1, <2>2, <2>3, IdleMoves
<1>12. CASE RevokeAndDrop(r) \/ HideAndDrop(r)
  BY <1>12 DEF RevokeAndDrop, Revoke, HideAndDrop, Hide, At, Early
<1>13. CASE /\ ~\E l \in {"fetch", "reinstate", "revoke", "hide", "unhide", "readmit"} : At(r, l)
            /\ ~(At(r, "quarantine") /\ Quarantinable(req[r].post))
            /\ Step(r)
            /\ NoSpawn
  <2>1. ~(Fetch(r) \/ InsertRepost(r) \/ ReportQuarantine(r) \/ Offense(r) \/ AutoSuspend(r)
            \/ Revoke(r) \/ Flag(r) \/ Hide(r) \/ Unhide(r) \/ Settle(r) \/ Readmit(r) \/ Reinstate(r))
    BY <1>0, <1>13 DEF Fetch, InsertRepost, ReportQuarantine, Offense, AutoSuspend, Revoke, Flag,
                       Hide, Unhide, Settle, Readmit, Reinstate, At, Early
  <2>2. QED
    BY <1>4, <1>5, <1>11, <1>13, <2>1 DEF Step
<1>14. QED
  BY <1>6, <1>7, <1>8, <1>9, <1>10, <1>12, <1>13 DEF StepAndSpawn

----------------------------------------------------------------------------
(* Statements that may follow a spawned task.                               *)

\* A statement that concerns neither the index nor anything it depends on.
LEMMA UnseenMoves ==
    ASSUME SerialInv, UNCHANGED <<rows, post, role, alive, index, task>>,
           Alone', \A q \in Requests : Paced(q)',
           \A q \in Requests : req[q].at \notin {"fetch", "revoke"}
    PROVE  SerialInv'
<1>1. ASSUME NEW t \in Tasks
      PROVE  JobOK(task[t])'
  BY SameView DEF SerialInv, JobOK, UndeletedOf
<1>2. ASSUME NEW p \in Posts
      PROVE  Followed(p)'
  <2>1. Followed(p) /\ ~Revoking(p) /\ ~Fetching(p)
    BY DEF SerialInv, Revoking, Fetching, At
  <2>2. \A t \in Tasks : /\ TakesOut(task[t], p) => TakesOut(task[t], p)'
                         /\ PutsIn(task[t], p) => PutsIn(task[t], p)'
    BY SameView DEF TakesOut, PutsIn
  <2>3. QED
    BY <2>1, <2>2, SameView DEF Followed
<1>3. QED
  BY <1>1, <1>2 DEF SerialInv

\* A statement that makes no post eligible, while tasks only take posts out.
LEMMA Narrows ==
    ASSUME SerialInv, TakingDown, task \in [Tasks -> Job],
           Alone', \A q \in Requests : Paced(q)',
           \A q \in Requests : req[q].at # "fetch",
           index' = index,
           NEW job,
           \A t \in Tasks : task'[t] = task[t] \/ (task[t] = NoJob /\ task'[t] = job),
           job = NoJob \/ \E t \in Tasks : task'[t] = job,
           JobOK(job)',
           \A p \in Posts : Eligible(p)' => Eligible(p),
           \A p \in Posts : MayStay(p) \/ Revoking(p)
                              => MayStay(p)' \/ Revoking(p)' \/ TakesOut(job, p)'
    PROVE  SerialInv'
<1>1. ASSUME NEW t \in Tasks
      PROVE  JobOK(task[t])'
  <2>1. CASE task'[t] = task[t]
    <3>1. /\ task[t].plan = "none" /\ task[t].puts = {} /\ task[t].drops \subseteq Posts
          /\ \A p \in task[t].drops : ~Eligible(p)
      BY DEF TakingDown, SerialInv, JobOK, Job
    <3>2. QED
      BY <2>1, <3>1 DEF JobOK
  <2>2. CASE task'[t] = job
    BY <2>2 DEF JobOK
  <2>3. QED
    BY <2>1, <2>2
<1>2. ASSUME NEW p \in Posts
      PROVE  Followed(p)'
  <2>1. TakesOut(job, p)' => \E t \in Tasks : TakesOut(task[t], p)'
    BY NoJobOKNext DEF TakesOut
  <2>2. ASSUME NEW t \in Tasks
        PROVE  /\ TakesOut(task[t], p) => TakesOut(task[t], p)'
               /\ PutsIn(task[t], p) => PutsIn(task[t], p)'
    <3>1. task[t].plan = "none"
      BY DEF TakingDown
    <3>2. TakesOut(task[t], p) \/ PutsIn(task[t], p) => task'[t] = task[t]
      BY NoJobOK
    <3>3. QED
      BY <3>1, <3>2 DEF TakesOut, PutsIn
  <2>3. Followed(p) /\ ~Fetching(p)
    BY DEF SerialInv, Fetching, At
  <2>4. QED
    BY <2>1, <2>2, <2>3 DEF Followed
<1>3. QED
  BY <1>1, <1>2 DEF SerialInv

LEMMA LateSerial ==
    ASSUME StoreInv, Typed, PublicOnly, SerialInv, OneAtATime,
           NEW r \in Requests, StepAndSpawn(r), req[r].at \notin Early
    PROVE  SerialInv'
<1> SUFFICES ASSUME NEW u, u = req[r].user
             PROVE  SerialInv'
  OBVIOUS
<1>0. /\ Paced(r)
      /\ post \in [Posts -> PostRow] /\ role \in [Users -> Roles]
      /\ rows \subseteq Posts
      /\ req \in [Requests -> Frame]
      /\ task \in [Tasks -> Job]
      /\ req[r].at \in Late \cup {"settle"}
  <2>1. req[r].at \notin {"idle", "repost"}
    BY DEF SerialInv, Paced, StepAndSpawn, FetchAndIndex, QuarantineAndSync, ReinstateAndSync,
           RevokeAndDrop, HideAndDrop, UnhideAndSync, ReadmitAndIndex, Step, Stamp, Insert,
           InsertFails, Fetch, InsertRepost, CountReports, ReportQuarantine, QuarantineMisses,
           Offense, AutoSuspend, Revoke, Flag, Hide, Unflag, Unhide, Settle, FileAppeal, Readmit,
           Reinstate, At
  <2>2. req[r].at \in Label
    BY DEF Typed, ModTypes, Frame
  <2>3. QED
    BY <2>1, <2>2 DEF SerialInv, StoreInv, Shape, Typed, ModTypes, PublicOnly, Label, Early, Late
<1>1. \A q \in Requests : q # r => req[q].at = "idle"
  BY <1>0 DEF SerialInv, Alone, Late
<1>2. ASSUME NEW f, req' = [req EXCEPT ![r] = f]
      PROVE  /\ req'[r] = f
             /\ \A q \in Requests : q # r => req'[q].at = "idle"
             /\ Alone'
  BY <1>0, <1>2, MovesAlone DEF SerialInv, Late
<1>3. ASSUME Finish(r)
      PROVE  /\ Alone' /\ \A q \in Requests : Paced(q)'
             /\ \A q \in Requests : req'[q].at = "idle"
  <2>1. Idle.at = "idle"
    BY DEF Idle
  <2>2. QED
    BY <1>2, <1>3, <2>1, OthersPaced DEF Finish
\* A statement that neither changes what is eligible nor spawns anything.
<1>4. ASSUME NoSpawn, UNCHANGED <<rows, post, role, alive>>, req[r].at # "revoke",
             NEW f, req' = [req EXCEPT ![r] = f],
             f.at \in {"offense", "suspend", "flag", "hide"} => TakingDown,
             f.at \notin Early \cup {"settle", "revoke", "repost"}
      PROVE  SerialInv'
  <2>1. UNCHANGED <<index, task>>
    BY <1>4 DEF NoSpawn, searchVars
  <2>2. TakingDown => TakingDown'
    BY <1>4, <2>1, SameView DEF TakingDown
  <2>3. Alone' /\ \A q \in Requests : Paced(q)'
    <3>1. req'[r] = f /\ Alone' /\ \A q \in Requests : q # r => req'[q].at = "idle"
      BY <1>2, <1>4
    <3>2. f.at \in Late => TakingDown'
      BY <1>4, <2>2 DEF Late
    <3>3. Paced(r)'
      BY <1>4, <3>1, <3>2 DEF Paced, Early, At
    <3>4. QED
      BY <3>1, <3>3, OthersPaced
  <2>4. \A q \in Requests : req[q].at \notin {"fetch", "revoke"}
    BY <1>0, <1>1, <1>4 DEF Late
  <2>5. QED
    BY <1>4, <2>1, <2>3, <2>4, UnseenMoves
<1>5. CASE Settle(r) /\ NoSpawn
  <2>0. UNCHANGED <<rows, post, role, alive>> /\ req[r].at = "settle"
    BY <1>5 DEF Settle, storeVars, accountVars, At
  <2>1. CASE req[r].state = "removed"
    <3> DEFINE f == [Idle EXCEPT !.at = "offense", !.user = u, !.post = req[r].post, !.points = 5]
    <3>1. f.at = "offense" /\ req' = [req EXCEPT ![r] = f]
      BY <1>5, <2>1 DEF Settle, Goto, Idle
    <3>2. TakingDown
      BY <1>0, <2>0, <2>1 DEF Paced, At
    <3> HIDE DEF f
    <3>3. QED
      BY <1>4, <1>5, <2>0, <3>1, <3>2 DEF Early
  <2>2. CASE req[r].state # "removed"
    <3>1. Idle.at = "idle" /\ req' = [req EXCEPT ![r] = Idle]
      BY <1>5, <2>2 DEF Settle, Finish, Idle
    <3>2. QED
      BY <1>4, <1>5, <2>0, <3>1 DEF Early
  <2>3. QED
    BY <2>1, <2>2
<1>6. req[r].at # "settle" => TakingDown
  BY <1>0 DEF Paced
<1>7. CASE Offense(r) /\ NoSpawn
  <2>0. UNCHANGED <<rows, post, role, alive>> /\ req[r].at = "offense"
    BY <1>7 DEF Offense, storeVars, At
  <2>1. CASE Finish(r)
    <3>1. Idle.at = "idle" /\ req' = [req EXCEPT ![r] = Idle]
      BY <2>1 DEF Finish, Idle
    <3>2. QED
      BY <1>4, <1>7, <2>0, <3>1 DEF Early
  <2>2. ASSUME NEW x \in {"suspend", "flag"}, Goto(r, [Idle EXCEPT !.at = x, !.user = u])
        PROVE  SerialInv'
    <3> DEFINE f == [Idle EXCEPT !.at = x, !.user = u]
    <3>1. f.at = x /\ req' = [req EXCEPT ![r] = f]
      BY <2>2 DEF Goto, Idle
    <3> HIDE DEF f
    <3>2. QED
      BY <1>4, <1>6, <1>7, <2>0, <2>2, <3>1 DEF Early
  <2>3. QED
    BY <1>7, <2>1, <2>2 DEF Offense
<1>8. CASE Flag(r) /\ NoSpawn
  <2>0. UNCHANGED <<rows, post, role, alive>> /\ req[r].at = "flag"
    BY <1>8 DEF Flag, storeVars, At
  <2>1. CASE Finish(r)
    <3>1. Idle.at = "idle" /\ req' = [req EXCEPT ![r] = Idle]
      BY <2>1 DEF Finish, Idle
    <3>2. QED
      BY <1>4, <1>8, <2>0, <3>1 DEF Early
  <2>2. CASE Goto(r, [Idle EXCEPT !.at = "hide", !.user = u])
    <3> DEFINE f == [Idle EXCEPT !.at = "hide", !.user = u]
    <3>1. f.at = "hide" /\ req' = [req EXCEPT ![r] = f]
      BY <2>2 DEF Goto, Idle
    <3> HIDE DEF f
    <3>2. QED
      BY <1>4, <1>6, <1>8, <2>0, <3>1 DEF Early
  <2>3. QED
    BY <1>8, <2>1, <2>2 DEF Flag
<1>9. CASE AutoSuspend(r) /\ NoSpawn
  <2>0. /\ UNCHANGED <<rows, post, alive, index, task>> /\ req[r].at = "suspend" /\ TakingDown
    BY <1>6, <1>9 DEF AutoSuspend, storeVars, At, NoSpawn, searchVars
  <2>1. CASE Finish(r) /\ UNCHANGED role
    <3>1. Idle.at = "idle" /\ req' = [req EXCEPT ![r] = Idle]
      BY <2>1 DEF Finish, Idle
    <3>2. QED
      BY <1>4, <1>9, <2>0, <2>1, <3>1 DEF Early
  <2>2. CASE /\ role' = [role EXCEPT ![u] = "suspended"] /\ u \in alive
             /\ Goto(r, [Idle EXCEPT !.at = "revoke", !.user = u])
    <3> DEFINE f == [Idle EXCEPT !.at = "revoke", !.user = u]
    <3>1. f.at = "revoke" /\ f.user = u /\ req' = [req EXCEPT ![r] = f]
      BY <2>2 DEF Goto, Idle
    <3> HIDE DEF f
    <3>2. u \in Users /\ TakingDown'
      BY <2>0, <2>2 DEF StoreInv, Shape, TakingDown, Downed
    <3>3. Alone' /\ \A q \in Requests : Paced(q)'
      BY <1>0, <1>2, <2>2, <3>1, <3>2, OthersPaced DEF Paced, At, Early
    <3>4. \A p \in Posts : Eligible(p)' => Eligible(p)
      BY <1>0, <2>0, <2>2 DEF Eligible, Live, Undeleted
    <3>5. \A p \in Posts : ~Revoking(p)
      BY <1>1, <2>0 DEF Revoking, At
    <3>6. \A p \in Posts : MayStay(p) => MayStay(p)' \/ Revoking(p)'
      BY <1>0, <1>2, <2>0, <2>2, <3>1 DEF MayStay, Eligible, Live, Undeleted, Revoking, At
    <3>7. \A q \in Requests : req[q].at # "fetch"
      BY <1>1, <2>0
    <3>8. QED
      BY <1>0, <2>0, <3>3, <3>4, <3>5, <3>6, <3>7, Narrows, NoJobOKNext
  <2>3. QED
    BY <1>9, <2>1, <2>2 DEF AutoSuspend
<1>10. ASSUME NEW job, Spawn(job)
       PROVE  /\ index' = index
              /\ \A t \in Tasks : task'[t] = task[t] \/ (task[t] = NoJob /\ task'[t] = job)
              /\ \E t \in Tasks : task'[t] = job
  BY <1>0, <1>10 DEF Spawn
<1>11. CASE RevokeAndDrop(r)
  <2> DEFINE job == UserJob("drop_user", u)
  <2>1. /\ job.plan = "drop_user" /\ job.user = u
        /\ job.syncs = {} /\ job.puts = {} /\ job.drops = {}
    BY DEF UserJob, NoJob
  <2>2. /\ Finish(r) /\ Spawn(job) /\ req[r].at = "revoke" /\ role[u] = "suspended" /\ TakingDown
        /\ UNCHANGED <<rows, post, role, alive>>
    BY <1>0, <1>6, <1>11 DEF RevokeAndDrop, Revoke, At, Paced, storeVars, accountVars
  <2>3. JobOK(job)'
    BY <2>1, <2>2 DEF JobOK, UndeletedOf, Eligible
  <2>4. \A p \in Posts : MayStay(p) \/ Revoking(p) => MayStay(p)' \/ TakesOut(job, p)'
    <3>1. ASSUME NEW p \in Posts, Revoking(p)
          PROVE  Undeleted(p) /\ post[p].author = u
      BY <1>1, <3>1 DEF Revoking, At
    <3>2. QED
      BY <2>1, <2>2, <3>1, SameView DEF TakesOut
  <2>5. \A q \in Requests : req[q].at # "fetch"
    BY <1>1, <2>2
  <2>6. QED
    BY <1>0, <1>3, <1>10, <2>2, <2>3, <2>4, <2>5, SameView, Narrows
<1>12. CASE HideAndDrop(r)
  <2> DEFINE job == UserJob("drop_user", u)
  <2>1. /\ job.plan = "drop_user" /\ job.user = u
        /\ job.syncs = {} /\ job.puts = {} /\ job.drops = {}
    BY DEF UserJob, NoJob
  <2>2. /\ Finish(r) /\ Spawn(job) /\ req[r].at = "hide" /\ TakingDown
        /\ SweepState(u, "live", "shadow")
        /\ UNCHANGED <<rows, role, alive>>
    BY <1>0, <1>6, <1>12 DEF HideAndDrop, Hide, At, SweepState, accountVars
  <2>3. \A p \in Posts :
          /\ post'[p].author = post[p].author /\ post'[p].vis = post[p].vis
          /\ post'[p].deleted = post[p].deleted
          /\ post[p].author # u \/ p \notin rows \/ post[p].state # "live"
               => post'[p].state = post[p].state
          /\ post[p].author = u /\ p \in rows /\ post[p].state = "live"
               => post'[p].state = "shadow"
    BY <1>0, <2>2 DEF SweepState, PostRow
  <2>4. \A p \in rows : post[p].author = u => post'[p].state # "live"
    BY <1>0, <2>3
  <2>5. JobOK(job)'
    BY <1>0, <2>1, <2>2, <2>3, <2>4 DEF JobOK, UndeletedOf, Eligible, Live, Undeleted
  <2>6. \A p \in Posts : Eligible(p)' => Eligible(p)
    BY <2>2, <2>3 DEF Eligible, Live, Undeleted
  <2>7. \A p \in Posts : MayStay(p) => MayStay(p)'
    BY <2>2, <2>3 DEF MayStay, Eligible, Live, Undeleted
  <2>8. \A p \in Posts : ~Revoking(p)
    BY <1>1, <2>2 DEF Revoking, At
  <2>9. \A q \in Requests : req[q].at # "fetch"
    BY <1>1, <2>2
  <2>10. QED
    BY <1>0, <1>3, <1>10, <2>2, <2>5, <2>6, <2>7, <2>8, <2>9, Narrows
<1>13. CASE FetchAndIndex(r) \/ QuarantineAndSync(r) \/ ReinstateAndSync(r) \/ UnhideAndSync(r)
            \/ ReadmitAndIndex(r)
  BY <1>0, <1>13 DEF FetchAndIndex, Fetch, QuarantineAndSync, ReportQuarantine, ReinstateAndSync,
                     Reinstate, UnhideAndSync, Unhide, ReadmitAndIndex, Readmit, At, Late
<1>14. CASE /\ ~\E l \in {"fetch", "reinstate", "revoke", "hide", "unhide", "readmit"} : At(r, l)
            /\ Step(r)
            /\ NoSpawn
  <2>1. ~(Stamp(r) \/ Insert(r) \/ InsertFails(r) \/ Fetch(r) \/ InsertRepost(r) \/ CountReports(r)
            \/ ReportQuarantine(r) \/ QuarantineMisses(r) \/ Revoke(r) \/ Hide(r) \/ Unflag(r)
            \/ Unhide(r) \/ FileAppeal(r) \/ Readmit(r) \/ Reinstate(r))
    BY <1>0, <1>14
    DEF Stamp, Insert, InsertFails, Fetch, InsertRepost, CountReports, ReportQuarantine,
        QuarantineMisses, Revoke, Hide, Unflag, Unhide, FileAppeal, Readmit, Reinstate, At, Late
  <2>2. QED
    BY <1>5, <1>7, <1>8, <1>9, <1>14, <2>1 DEF Step
<1>15. QED
  BY <1>11, <1>12, <1>13, <1>14 DEF StepAndSpawn

----------------------------------------------------------------------------

LEMMA SerialStep ==
    ASSUME StoreInv, Typed, PublicOnly, SerialInv, OneAtATime, [SearchNext]_allVars
    PROVE  SerialInv'
<1>1. ASSUME NEW r \in Requests, Cancel(r)
      PROVE  FALSE
  BY <1>1 DEF Cancel, OneAtATime
<1>2. CASE UNCHANGED allVars
  <2>1. UNCHANGED <<rows, post, alive, role, req, index, task>>
    BY <1>2 DEF allVars, vars, storeVars, modVars, searchVars
  <2>2. Alone' /\ (TakingDown <=> TakingDown') /\ (Idling <=> Idling')
    BY <2>1 DEF SerialInv, Alone, TakingDown, Downed, Idling
  <2>3. \A r \in Requests : Paced(r)'
    BY <2>1, <2>2 DEF SerialInv, Paced, At
  <2>4. \A t \in Tasks : JobOK(task[t])'
    BY <2>1, SameView DEF SerialInv, JobOK, UndeletedOf
  <2>5. \A p \in Posts : Followed(p)'
    BY <2>1, SameView DEF SerialInv, Followed, Revoking, Fetching, TakesOut, PutsIn, At
  <2>6. QED
    BY <2>2, <2>3, <2>4, <2>5 DEF SerialInv
<1>3. ASSUME NEW t \in Tasks, Run(t)
      PROVE  SerialInv'
  BY <1>3, RunSerial DEF OneAtATime
<1>4. QED
  BY <1>1, <1>2, <1>3, SingleSerial, ArriveSerial, EarlySerial, LateSerial DEF SearchNext

LEMMA SerialInvariant ==
    ASSUME OneAtATime
    PROVE  SearchSpec => []SerialInv
<1>1. SearchInit => SerialInv
  <2> SUFFICES ASSUME SearchInit
               PROVE  SerialInv
    OBVIOUS
  <2>1. /\ rows = {} /\ index = {} /\ \A t \in Tasks : task[t] = NoJob
        /\ \A r \in Requests : req[r].at = "idle"
    BY DEF SearchInit, Init, StoreInit, Idle
  <2>2. Alone /\ \A r \in Requests : Paced(r)
    BY <2>1 DEF Alone, Paced, Early, Late, At
  <2>3. \A p \in Posts : Followed(p)
    BY <2>1 DEF Followed, Eligible, Live, Undeleted
  <2>4. QED
    BY <2>1, <2>2, <2>3, NoJobOK DEF SerialInv
<1>2. StoreInv /\ Typed /\ PublicOnly /\ SerialInv /\ [SearchNext]_allVars => SerialInv'
  BY SerialStep
<1>3. QED
  BY <1>1, <1>2, SearchImplementsModeration, TypedInvariant, PublicOnlyInvariant, PTL DEF SearchSpec

LEMMA SettledInStep ==
    ASSUME SerialInv, Settled
    PROVE  InStep
BY IdleInStep DEF Settled, Quiet

\* Where a request begins when the tasks of the one before it are done and no call to
\* Meilisearch fails, every original post an anonymous reader may see is found once the
\* tasks are done: whatever is posted, edited, restored, approved, unbanned or readmitted.
\* Reposts are never indexed, and an original's purge makes a repost look like one.
THEOREM SettledIndexComplete ==
    ASSUME OneAtATime
    PROVE  SearchSpec => []IndexComplete
<1>1. StoreInv /\ SerialInv => IndexComplete
  BY SettledInStep DEF IndexComplete, InStep, StoreInv, Shape
<1>2. QED
  BY <1>1, SerialInvariant, SearchImplementsModeration, TypedInvariant, PTL

\* Under the same conditions nothing else is found, but for what the code leaves in: posts
\* under a shadow ban and of deleted accounts.
THEOREM SettledIndexSound ==
    ASSUME OneAtATime
    PROVE  SearchSpec => []IndexSound
<1>1. PublicOnly /\ SerialInv => IndexSound
  BY SettledInStep DEF IndexSound, InStep, MayStay, PublicOnly
<1>2. QED
  BY <1>1, SerialInvariant, PublicOnlyInvariant, PTL
=============================================================================
