-------------------------- MODULE ModerationProofs --------------------------
(***************************************************************************)
(* What holds of the moderation handlers for any number of accounts,       *)
(* posts, appeals and requests in flight, and for any thresholds.  The     *)
(* handlers implement PostStore, which carries its theorems over; on top   *)
(* of that, what a request read stays true until its INSERT runs, because  *)
(* visibility and repost targets of an issued post never change.           *)
(***************************************************************************)
EXTENDS Moderation, PostStoreProofs

ModTypes ==
    /\ role \in [Users -> Roles]
    /\ shadowBanned \in [Users -> BOOLEAN]
    /\ heat \in [Users -> 0 .. HeatCap]
    /\ openReports \subseteq Users \X Posts
    /\ appeal \in [Appeals -> AppealRow]
    /\ req \in [Requests -> Frame]

\* What a frame holds at the statements that write to the posts table.
FrameTyped(f) ==
    /\ f.at \in {"stamp", "insert"} => /\ f.user \in Users
                                       /\ f.vis \in PostVis
                                       /\ f.state # "removed"
    /\ f.at \in {"hide", "unhide", "repost"} => f.user \in Users
    /\ f.at = "repost" => f.post \in Posts

\* What a request has read and relies on when it inserts.
FrameCurrent(f) ==
    /\ f.at \in {"stamp", "insert"} /\ f.parent # None =>
          Issued(f.parent) /\ Rank(f.vis) <= Rank(post[f.parent].vis)
    /\ f.at = "repost" => Issued(f.post) /\ post[f.post].repostOf = None

Typed == ModTypes /\ \A r \in Requests : FrameTyped(req[r])

\* repost_of_id is a foreign key.
RepostsLinked == \A p \in rows : post[p].repostOf \in rows \cup {None}

Linked ==
    /\ \A r \in Requests : FrameCurrent(req[r])
    /\ RepostsLinked
    /\ ReplyNotBroader
    /\ NoRepostChains

----------------------------------------------------------------------------
(* The handlers implement the statements of PostStore.                      *)

LEMMA StepRefines ==
    ASSUME StoreInv, Typed, NEW r \in Requests, Step(r)
    PROVE  [StoreNext]_storeVars
<1>1. CASE Insert(r)
  <2>1. req[r] \in Frame /\ FrameTyped(req[r])
    BY DEF Typed, ModTypes
  <2>2. PICK p \in Posts : InsertPost(p, req[r].user, req[r].vis, req[r].parent, None, req[r].state)
    BY <1>1 DEF Insert
  <2>3. QED
    BY <1>1, <2>1, <2>2 DEF StoreNext, Insert, At, FrameTyped, Frame
<1>2. CASE InsertRepost(r)
  <2>1. req[r] \in Frame /\ FrameTyped(req[r])
    BY DEF Typed, ModTypes
  <2>2. PICK p \in Posts : InsertPost(p, req[r].user, "public", None, req[r].post, "live")
    BY <1>2 DEF InsertRepost
  <2>3. QED
    BY <1>2, <2>1, <2>2 DEF StoreNext, InsertRepost, At, FrameTyped
<1>3. CASE ReportQuarantine(r)
  <2>1. req[r].post \in Posts
    BY <1>3 DEF ReportQuarantine, SetState, StoreInv, Shape
  <2>2. QED
    BY <1>3, <2>1 DEF ReportQuarantine, StoreNext, StateChange
<1>4. CASE Hide(r)
  BY <1>4 DEF Hide, At, Typed, FrameTyped, StoreNext
<1>5. CASE Unhide(r)
  BY <1>5 DEF Unhide, At, Typed, FrameTyped, StoreNext
<1>6. CASE Reinstate(r)
  <2>1. CASE SetState(req[r].post, ModState \ {"live"}, "live")
    <3>1. req[r].post \in Posts
      BY <2>1 DEF SetState, StoreInv, Shape
    <3>2. QED
      BY <2>1, <3>1 DEF StoreNext, StateChange
  <2>2. CASE UNCHANGED storeVars
    BY <2>2
  <2>3. QED
    BY <1>6, <2>1, <2>2 DEF Reinstate
<1>7. CASE \/ Stamp(r) \/ InsertFails(r) \/ Fetch(r) \/ CountReports(r) \/ QuarantineMisses(r)
           \/ Offense(r) \/ AutoSuspend(r) \/ Revoke(r) \/ Flag(r) \/ Unflag(r) \/ Settle(r)
           \/ FileAppeal(r) \/ Readmit(r)
  BY <1>7 DEF Stamp, InsertFails, Fetch, CountReports, QuarantineMisses, Offense, AutoSuspend,
              Revoke, Flag, Unflag, Settle, FileAppeal, Readmit
<1>8. QED
  BY <1>1, <1>2, <1>3, <1>4, <1>5, <1>6, <1>7 DEF Step

LEMMA ArriveRefines ==
    ASSUME NEW r \in Requests, Arrive(r)
    PROVE  [StoreNext]_storeVars
<1>1. ASSUME NEW u \in Users, NEW p \in Posts, RestorePost(r, u, p)
      PROVE  StoreNext
  BY <1>1 DEF RestorePost, StoreNext
<1>2. ASSUME NEW u \in Users, NEW p \in Posts, NEW s \in ModState, PatchPost(r, u, p, s)
      PROVE  StoreNext
  <2>1. s \in ModState \ {"shadow"} /\ SetState(p, ModState, s)
    BY <1>2 DEF PatchPost
  <2>2. QED
    BY <2>1 DEF StoreNext, StateChange
<1>3. ASSUME NEW u \in Users, NEW p \in Posts \cup {None}, NEW x,
             NEW v, NEW s, NEW b, NEW i,
             \/ BeginCreate(r, u, x, p) \/ EditPost(r, u, p) \/ BeginRepost(r, u, p)
             \/ FileReport(r, u, p) \/ PatchUser(r, u, v, s) \/ AdminShadow(r, u, v, b)
             \/ BeginAppeal(r, u, p) \/ ResolveAppeal(r, u, i, b)
      PROVE  UNCHANGED storeVars
  BY <1>3 DEF BeginCreate, EditPost, BeginRepost, FileReport, PatchUser, AdminShadow,
              BeginAppeal, ResolveAppeal
<1>4. QED
  BY <1>1, <1>2, <1>3 DEF Arrive

LEMMA SingleRefines ==
    ASSUME Single
    PROVE  [StoreNext]_storeVars
BY DEF Single, DeletePost, ResolveReport, DeleteAccount, CoolDown, Age, Purge, StoreNext

\* Every step of a handler is a statement of PostStore, or leaves its tables alone.
LEMMA NextRefines ==
    ASSUME StoreInv, Typed, [Next]_vars
    PROVE  [StoreNext]_storeVars
<1>1. ASSUME NEW r \in Requests, Cancel(r)
      PROVE  UNCHANGED storeVars
  BY <1>1 DEF Cancel
<1>2. CASE UNCHANGED vars
  BY <1>2 DEF vars
<1>3. QED
  BY <1>1, <1>2, StepRefines, ArriveRefines, SingleRefines DEF Next

----------------------------------------------------------------------------
(* Types.                                                                   *)

LEMMA IdleTyped == Idle \in Frame /\ FrameTyped(Idle)
BY DEF Idle, Frame, FrameTyped, Label, Visibility, ModState

\* Moving one request to a well-typed frame keeps all of them well-typed.
LEMMA MoveTyped ==
    ASSUME Typed, NEW r \in Requests, NEW f \in Frame, FrameTyped(f),
           req' = [req EXCEPT ![r] = f]
    PROVE  req' \in [Requests -> Frame] /\ \A q \in Requests : FrameTyped(req'[q])
BY DEF Typed, ModTypes

LEMMA FinishTyped ==
    ASSUME Typed, NEW r \in Requests, Finish(r)
    PROVE  req' \in [Requests -> Frame] /\ \A q \in Requests : FrameTyped(req'[q])
BY IdleTyped, MoveTyped DEF Finish

LEMMA StepTyped ==
    ASSUME StoreInv, StoreInv', Typed, NEW r \in Requests, Step(r)
    PROVE  Typed'
<1> DEFINE f == req[r]
<1>0. f \in Frame /\ FrameTyped(f)
  BY DEF Typed, ModTypes
<1>1. CASE Stamp(r)
  <2>1. PICK s \in ModState \ {"removed"} : Goto(r, [f EXCEPT !.at = "insert", !.state = s])
    BY <1>1 DEF Stamp, Verdicts, ModState
  <2>2. /\ [f EXCEPT !.at = "insert", !.state = s] \in Frame
        /\ FrameTyped([f EXCEPT !.at = "insert", !.state = s])
    BY <1>0, <1>1 DEF Frame, FrameTyped, Label, Stamp, At
  <2>3. QED
    BY <1>1, <2>1, <2>2, MoveTyped DEF Stamp, Goto, Typed, ModTypes, accountVars
<1>2. CASE Insert(r)
  <2>1. PICK p \in Posts :
          IF f.state = "quarantine"
          THEN Goto(r, [Idle EXCEPT !.at = "offense", !.user = f.user, !.post = p, !.points = 2])
          ELSE Goto(r, [Idle EXCEPT !.at = "fetch", !.user = f.user, !.post = p])
    BY <1>2 DEF Insert
  <2>2. f.user \in Users
    BY <1>0, <1>2 DEF Insert, At, FrameTyped
  <2>3. LET g == [Idle EXCEPT !.at = "offense", !.user = f.user, !.post = p, !.points = 2]
        IN  g \in Frame /\ FrameTyped(g)
    BY <2>2 DEF Idle, Frame, FrameTyped, Label, Visibility, ModState
  <2>4. LET g == [Idle EXCEPT !.at = "fetch", !.user = f.user, !.post = p]
        IN  g \in Frame /\ FrameTyped(g)
    BY <2>2 DEF Idle, Frame, FrameTyped, Label, Visibility, ModState
  <2>5. req' \in [Requests -> Frame] /\ \A q \in Requests : FrameTyped(req'[q])
    BY <2>1, <2>3, <2>4, MoveTyped DEF Goto
  <2>6. QED
    BY <1>2, <2>5 DEF Insert, Typed, ModTypes, accountVars
<1>3. CASE InsertFails(r) \/ Fetch(r) \/ InsertRepost(r) \/ QuarantineMisses(r) \/ Revoke(r)
           \/ Hide(r) \/ Unhide(r)
  BY <1>3, FinishTyped DEF InsertFails, Fetch, InsertRepost, QuarantineMisses, Revoke, Hide,
                           Unhide, Typed, ModTypes, accountVars
<1>4. CASE CountReports(r)
  <2>1. LET g == [Idle EXCEPT !.at = "quarantine", !.post = f.post]
        IN  g \in Frame /\ FrameTyped(g)
    BY <1>0 DEF Idle, Frame, FrameTyped, Label, Visibility, ModState
  <2>2. QED
    BY <1>4, <2>1, MoveTyped, FinishTyped DEF CountReports, Goto, Typed, ModTypes, accountVars
<1>5. CASE ReportQuarantine(r)
  <2>1. f.post \in rows /\ f.post \in Posts /\ post[f.post].author \in Users
    BY <1>5 DEF ReportQuarantine, SetState, StoreInv, Shape
  <2>2. LET g == [Idle EXCEPT !.at = "offense", !.user = post[f.post].author,
                              !.post = f.post, !.points = 3]
        IN  g \in Frame /\ FrameTyped(g)
    BY <2>1 DEF Idle, Frame, FrameTyped, Label, Visibility, ModState
  <2>3. QED
    BY <1>5, <2>2, MoveTyped DEF ReportQuarantine, Goto, Typed, ModTypes, accountVars
<1>6. CASE Offense(r)
  <2>1. heat' \in [Users -> 0 .. HeatCap]
    <3>1. f.points \in Nat /\ HeatCap \in Nat /\ alive \subseteq Users
      BY <1>0, ModerationAssumption DEF Frame, StoreInv, Shape
    <3>2. heat \in [Users -> 0 .. HeatCap]
      BY DEF Typed, ModTypes
    <3>3. QED
      BY <1>6, <3>1, <3>2 DEF Offense
  <2>2. ASSUME f.user \in alive, NEW x \in {"suspend", "flag"}
        PROVE  LET g == [Idle EXCEPT !.at = x, !.user = f.user]
               IN  g \in Frame /\ FrameTyped(g)
    BY <2>2 DEF Idle, Frame, FrameTyped, Label, Visibility, ModState, StoreInv, Shape
  <2>3. req' \in [Requests -> Frame] /\ \A q \in Requests : FrameTyped(req'[q])
    <3>1. \/ Finish(r)
          \/ f.user \in alive /\ \E x \in {"suspend", "flag"} :
                                    Goto(r, [Idle EXCEPT !.at = x, !.user = f.user])
      BY <1>6 DEF Offense
    <3>2. QED
      BY <3>1, <2>2, MoveTyped, FinishTyped DEF Goto
  <2>4. QED
    BY <1>6, <2>1, <2>3 DEF Offense, Typed, ModTypes
<1>7. CASE AutoSuspend(r) \/ Flag(r) \/ Unflag(r)
  <2>1. \/ Finish(r)
        \/ f.user \in alive /\ \E x \in {"revoke", "hide", "unhide"} :
                                  Goto(r, [Idle EXCEPT !.at = x, !.user = f.user])
    BY <1>7 DEF AutoSuspend, Flag, Unflag
  <2>2. ASSUME f.user \in alive, NEW x \in {"revoke", "hide", "unhide"}
        PROVE  LET g == [Idle EXCEPT !.at = x, !.user = f.user]
               IN  g \in Frame /\ FrameTyped(g)
    BY <2>2 DEF Idle, Frame, FrameTyped, Label, Visibility, ModState, StoreInv, Shape
  <2>3. req' \in [Requests -> Frame] /\ \A q \in Requests : FrameTyped(req'[q])
    BY <2>1, <2>2, MoveTyped, FinishTyped DEF Goto
  <2>4. /\ role' \in [Users -> Roles] /\ shadowBanned' \in [Users -> BOOLEAN]
        /\ UNCHANGED <<heat, openReports, appeal>>
    BY <1>7 DEF AutoSuspend, Flag, Unflag, Typed, ModTypes, Roles
  <2>5. QED
    BY <2>3, <2>4 DEF Typed, ModTypes
<1>8. CASE Settle(r)
  <2>1. LET g == [Idle EXCEPT !.at = "offense", !.user = f.user, !.post = f.post, !.points = 5]
        IN  g \in Frame /\ FrameTyped(g)
    BY <1>0 DEF Idle, Frame, FrameTyped, Label, Visibility, ModState
  <2>2. QED
    BY <1>8, <2>1, MoveTyped, FinishTyped DEF Settle, Goto, Typed, ModTypes, accountVars
<1>9. CASE FileAppeal(r)
  <2>1. appeal' \in [Appeals -> AppealRow]
    BY <1>0, <1>9 DEF FileAppeal, Typed, ModTypes, AppealRow, Frame
  <2>2. QED
    BY <1>9, <2>1, FinishTyped DEF FileAppeal, Typed, ModTypes, accountVars
<1>10. CASE Readmit(r)
  BY <1>10, FinishTyped DEF Readmit, Typed, ModTypes, Roles
<1>11. CASE Reinstate(r)
  <2>1. LET g == [Idle EXCEPT !.at = "settle", !.user = f.user, !.post = f.post]
        IN  g \in Frame /\ FrameTyped(g)
    BY <1>0 DEF Idle, Frame, FrameTyped, Label, Visibility, ModState
  <2>2. QED
    BY <1>11, <2>1, MoveTyped, FinishTyped DEF Reinstate, Goto, Typed, ModTypes, accountVars
<1>12. QED
  BY <1>1, <1>2, <1>3, <1>4, <1>5, <1>6, <1>7, <1>8, <1>9, <1>10, <1>11 DEF Step

LEMMA ArriveTyped ==
    ASSUME StoreInv, StoreInv', Typed, NEW r \in Requests, Arrive(r)
    PROVE  Typed'
<1>1. ASSUME NEW u \in Users, NEW vis \in PostVis, NEW parent \in Posts \cup {None},
             BeginCreate(r, u, vis, parent)
      PROVE  Typed'
  <2>1. LET g == [Idle EXCEPT !.at = "stamp", !.user = u, !.vis = vis, !.parent = parent]
        IN  g \in Frame /\ FrameTyped(g)
    BY StoreAssumption DEF Idle, Frame, FrameTyped, Label, Visibility, ModState
  <2>2. QED
    BY <1>1, <2>1, MoveTyped DEF BeginCreate, Goto, Typed, ModTypes, accountVars
<1>2. ASSUME NEW u \in Users, NEW p \in Posts,
             \/ EditPost(r, u, p) \/ RestorePost(r, u, p) \/ BeginRepost(r, u, p)
             \/ FileReport(r, u, p)
      PROVE  Typed'
  <2>1. \A at \in {"fetch", "repost"} :
          LET g == [Idle EXCEPT !.at = at, !.user = u, !.post = p]
          IN  g \in Frame /\ FrameTyped(g)
    BY DEF Idle, Frame, FrameTyped, Label, Visibility, ModState
  <2>2. LET g == [Idle EXCEPT !.at = "count", !.post = p]
        IN  g \in Frame /\ FrameTyped(g)
    BY DEF Idle, Frame, FrameTyped, Label, Visibility, ModState
  <2>3. CASE EditPost(r, u, p) \/ RestorePost(r, u, p) \/ BeginRepost(r, u, p)
    <3>1. \E at \in {"fetch", "repost"} : Goto(r, [Idle EXCEPT !.at = at, !.user = u, !.post = p])
      BY <2>3 DEF EditPost, RestorePost, BeginRepost
    <3>2. QED
      BY <2>1, <2>3, <3>1, MoveTyped DEF EditPost, RestorePost, BeginRepost, Goto, Typed,
                                         ModTypes, accountVars
  <2>4. CASE FileReport(r, u, p)
    BY <2>2, <2>4, MoveTyped DEF FileReport, Goto, Typed, ModTypes, accountVars
  <2>5. QED
    BY <1>2, <2>3, <2>4
<1>3. ASSUME NEW a \in Users, NEW p \in Posts, NEW s \in ModState, PatchPost(r, a, p, s)
      PROVE  Typed'
  <2>1. post[p].author \in Users
    BY <1>3 DEF PatchPost, SetState, StoreInv, Shape
  <2>2. LET g == [Idle EXCEPT !.at = "settle", !.user = post[p].author, !.post = p, !.state = s]
        IN  g \in Frame /\ FrameTyped(g)
    BY <2>1 DEF Idle, Frame, FrameTyped, Label, Visibility, ModState
  <2>3. QED
    BY <1>3, <2>2, MoveTyped DEF PatchPost, Goto, Typed, ModTypes, accountVars
<1>4. ASSUME NEW a \in Users, NEW u \in Users, NEW s \in Roles, PatchUser(r, a, u, s)
      PROVE  Typed'
  <2>1. LET g == [Idle EXCEPT !.at = "revoke", !.user = u]
        IN  g \in Frame /\ FrameTyped(g)
    BY DEF Idle, Frame, FrameTyped, Label, Visibility, ModState
  <2>2. QED
    BY <1>4, <2>1, MoveTyped DEF PatchUser, Goto, Typed, ModTypes, Roles
<1>5. ASSUME NEW a \in Users, NEW u \in Users, NEW ban \in BOOLEAN, AdminShadow(r, a, u, ban)
      PROVE  Typed'
  <2>1. \A at \in {"flag", "unflag"} :
          LET g == [Idle EXCEPT !.at = at, !.user = u]
          IN  g \in Frame /\ FrameTyped(g)
    BY DEF Idle, Frame, FrameTyped, Label, Visibility, ModState
  <2>2. QED
    BY <1>5, <2>1, MoveTyped DEF AdminShadow, Goto, Typed, ModTypes, accountVars
<1>6. ASSUME NEW u \in Users, NEW p \in Posts \cup {None}, BeginAppeal(r, u, p)
      PROVE  Typed'
  <2>1. LET g == [Idle EXCEPT !.at = "appeal", !.user = u, !.post = p]
        IN  g \in Frame /\ FrameTyped(g)
    BY DEF Idle, Frame, FrameTyped, Label, Visibility, ModState
  <2>2. QED
    BY <1>6, <2>1, MoveTyped DEF BeginAppeal, Goto, Typed, ModTypes, accountVars
<1>7. ASSUME NEW a \in Users, NEW i \in Appeals, NEW grant \in BOOLEAN,
             ResolveAppeal(r, a, i, grant)
      PROVE  Typed'
  <2>1. appeal[i] \in AppealRow
    BY DEF Typed, ModTypes
  <2>2. \A at \in {"readmit", "reinstate"} :
          LET g == [Idle EXCEPT !.at = at, !.user = appeal[i].who, !.post = appeal[i].post]
          IN  g \in Frame /\ FrameTyped(g)
    BY <2>1 DEF AppealRow, Idle, Frame, FrameTyped, Label, Visibility, ModState
  <2>3. appeal' \in [Appeals -> AppealRow]
    BY <1>7, <2>1 DEF ResolveAppeal, Typed, ModTypes, AppealRow
  <2>4. QED
    BY <1>7, <2>2, <2>3, MoveTyped DEF ResolveAppeal, Goto, Typed, ModTypes, accountVars
<1>8. QED
  BY <1>1, <1>2, <1>3, <1>4, <1>5, <1>6, <1>7 DEF Arrive

LEMMA SingleTyped ==
    ASSUME StoreInv, Typed, Single
    PROVE  Typed'
<1>1. ASSUME NEW S \in SUBSET Appeals, CascadeAppeals(S)
      PROVE  appeal' \in [Appeals -> AppealRow]
  BY <1>1 DEF CascadeAppeals, Typed, ModTypes, AppealRow, Unfiled
<1>2. ASSUME NEW u \in Users, DeleteAccount(u)
      PROVE  Typed'
  <2>1. appeal' \in [Appeals -> AppealRow]
    BY <1>1, <1>2 DEF DeleteAccount
  <2>2. QED
    BY <1>2, <2>1, ModerationAssumption DEF DeleteAccount, Typed, ModTypes, Roles
<1>3. CASE Purge
  <2>1. appeal' \in [Appeals -> AppealRow]
    BY <1>1, <1>3 DEF Purge
  <2>2. QED
    BY <1>3, <2>1 DEF Purge, Typed, ModTypes, accountVars
<1>4. ASSUME NEW u \in Users, CoolDown(u)
      PROVE  Typed'
  <2>1. heat' \in [Users -> 0 .. HeatCap]
    BY <1>4, ModerationAssumption DEF CoolDown, Typed, ModTypes
  <2>2. QED
    BY <1>4, <2>1 DEF CoolDown, Typed, ModTypes
<1>5. ASSUME NEW a, NEW u, NEW p, DeletePost(u, p) \/ ResolveReport(a, u, p) \/ Age(p)
      PROVE  Typed'
  BY <1>5 DEF DeletePost, ResolveReport, Age, Typed, ModTypes, accountVars, modVars
<1>6. QED
  BY <1>2, <1>3, <1>4, <1>5 DEF Single

LEMMA NextTyped ==
    ASSUME StoreInv, Typed, [Next]_vars
    PROVE  StoreInv' /\ Typed'
<1>1. StoreInv'
  BY NextRefines, StoreStepInv
<1>2. ASSUME NEW r \in Requests, Cancel(r)
      PROVE  Typed'
  BY <1>2, FinishTyped DEF Cancel, Typed, ModTypes, accountVars
<1>3. CASE UNCHANGED vars
  BY <1>1, <1>3 DEF vars, modVars, Typed, ModTypes
<1>4. QED
  BY <1>1, <1>2, <1>3, StepTyped, ArriveTyped, SingleTyped DEF Next

LEMMA InitTyped == Init => StoreInv /\ Typed
<1>1. ASSUME Init
      PROVE  Typed
  BY <1>1, IdleTyped, ModerationAssumption DEF Init, Typed, ModTypes, Roles, AppealRow, Unfiled
<1>2. QED
  BY <1>1, StoreInitInv DEF Init

LEMMA TypedInvariant == Spec => [](StoreInv /\ Typed)
BY InitTyped, NextTyped, PTL DEF Spec

\* Every variable of the handlers keeps its type, for any number of requests in flight.
THEOREM ModTypeCorrect == Spec => []ModTypeOK
<1>1. StoreInv /\ Typed => ModTypeOK
  BY DEF StoreInv, Shape, Counts, StoreTypeOK, Typed, ModTypes, ModTypeOK
<1>2. QED
  BY <1>1, TypedInvariant, PTL

\* The handlers implement the posts table: each of their steps is one of its statements.
THEOREM ModerationImplementsStore == Spec => StoreSpec
<1>1. Init => StoreInit
  BY DEF Init
<1>2. QED
  BY <1>1, NextRefines, TypedInvariant, PTL DEF Spec, StoreSpec

\* So no interleaving of handlers makes a counter drift.
THEOREM HandlersKeepCounters == Spec => []CountersExact
BY ModerationImplementsStore, CountersNeverDrift, PTL

----------------------------------------------------------------------------
(* What a request has read stays true until it inserts.                     *)

\* An issued post keeps its visibility for ever; a reference is kept or nulled.
KeepsIssued ==
    \A p \in Posts : Issued(p) =>
        /\ Issued(p)'
        /\ post'[p].vis = post[p].vis
        /\ post'[p].parent \in {post[p].parent, None}
        /\ post'[p].repostOf \in {post[p].repostOf, None}

LEMMA StoreKeepsIssued ==
    ASSUME StoreInv, RepostsLinked, [StoreNext]_storeVars
    PROVE  KeepsIssued /\ RepostsLinked'
<1> USE DEF StoreInv, Shape
<1>1. ASSUME NEW p \in Posts, NEW u \in Users, NEW vis, NEW parent, NEW repostOf, NEW s,
             InsertPost(p, u, vis, parent, repostOf, s)
      PROVE  KeepsIssued /\ RepostsLinked'
  BY <1>1, StoreAssumption DEF InsertPost, KeepsIssued, RepostsLinked, Issued
<1>2. ASSUME NEW p \in Posts, SoftDelete(p) \/ Undelete(p) \/ Expire(p)
      PROVE  KeepsIssued /\ RepostsLinked'
  BY <1>2 DEF SoftDelete, Undelete, Expire, PostRow, KeepsIssued, RepostsLinked, Issued
<1>3. ASSUME NEW p \in Posts, StateChange(p)
      PROVE  KeepsIssued /\ RepostsLinked'
  BY <1>3 DEF StateChange, SetState, PostRow, KeepsIssued, RepostsLinked, Issued
<1>4. ASSUME NEW u \in Users, NEW from, NEW s, SweepState(u, from, s)
      PROVE  KeepsIssued /\ RepostsLinked'
  BY <1>4 DEF SweepState, PostRow, KeepsIssued, RepostsLinked, Issued
<1>5. ASSUME NEW S \in SUBSET rows, RemoveRows(S)
      PROVE  KeepsIssued /\ RepostsLinked'
  <2>1. ASSUME NEW p \in Posts
        PROVE  \/ /\ p \in S
                  /\ post'[p] = Tombstone(post[p])
               \/ /\ p \notin S
                  /\ post'[p] = [post[p] EXCEPT
                                   !.parent   = IF @ \in S THEN None ELSE @,
                                   !.repostOf = IF @ \in S THEN None ELSE @]
    BY <1>5 DEF RemoveRows
  <2>2. KeepsIssued
    BY <2>1 DEF KeepsIssued, Issued, Tombstone, Unissued, PostRow
  <2>3. \A p \in rows' : post'[p].repostOf = IF post[p].repostOf \in S THEN None
                                             ELSE post[p].repostOf
    BY <1>5, <2>1 DEF RemoveRows, PostRow
  <2>4. rows' = rows \ S
    BY <1>5 DEF RemoveRows
  <2>5. RepostsLinked'
    BY <2>3, <2>4 DEF RepostsLinked
  <2>6. QED
    BY <2>2, <2>5
<1>6. CASE PurgeTrash
  BY <1>5, <1>6 DEF PurgeTrash, Purgeable
<1>7. ASSUME NEW u \in Users, RemoveAccount(u)
      PROVE  KeepsIssued /\ RepostsLinked'
  BY <1>5, <1>7 DEF RemoveAccount
<1>8. CASE UNCHANGED storeVars
  BY <1>8 DEF storeVars, KeepsIssued, RepostsLinked, Issued
<1>9. QED
  BY <1>1, <1>2, <1>3, <1>4, <1>6, <1>7, <1>8 DEF StoreNext

\* How one frame may change in a step, as far as inserts depend on it.
FrameMoves(f, g) ==
    \/ g = f
    \/ g.at \notin {"stamp", "insert", "repost"}
    \/ f.at = "stamp" /\ g.at = "insert" /\ g.parent = f.parent /\ g.vis = f.vis
    \/ /\ g.at = "stamp"
       /\ UNCHANGED storeVars
       /\ g.parent # None => Live(g.parent) /\ Rank(g.vis) <= Rank(post[g.parent].vis)
    \/ /\ g.at = "repost"
       /\ UNCHANGED storeVars
       /\ Live(g.post) /\ post[g.post].repostOf = None

LEMMA FramesMove ==
    ASSUME Typed, [Next]_vars
    PROVE  \A q \in Requests : FrameMoves(req[q], req'[q])
<1> USE DEF FrameMoves
<1>0. req \in [Requests -> Frame]
  BY DEF Typed, ModTypes
<1>1. ASSUME NEW r \in Requests, NEW f, req' = [req EXCEPT ![r] = f],
             FrameMoves(req[r], f)
      PROVE  \A q \in Requests : FrameMoves(req[q], req'[q])
  BY <1>0, <1>1
<1>2. ASSUME NEW r \in Requests, Arrive(r)
      PROVE  \A q \in Requests : FrameMoves(req[q], req'[q])
  <2>1. ASSUME NEW u \in Users, NEW vis, NEW parent, BeginCreate(r, u, vis, parent)
        PROVE  \A q \in Requests : FrameMoves(req[q], req'[q])
    BY <1>1, <2>1 DEF BeginCreate, MayReply, Goto, Idle
  <2>2. ASSUME NEW u \in Users, NEW p, BeginRepost(r, u, p)
        PROVE  \A q \in Requests : FrameMoves(req[q], req'[q])
    BY <1>1, <2>2 DEF BeginRepost, Repostable, Goto, Idle
  <2>3. ASSUME NEW u, NEW p, EditPost(r, u, p) \/ RestorePost(r, u, p) \/ FileReport(r, u, p)
                             \/ BeginAppeal(r, u, p)
        PROVE  \A q \in Requests : FrameMoves(req[q], req'[q])
    BY <1>1, <2>3 DEF EditPost, RestorePost, FileReport, BeginAppeal, Goto, Idle
  <2>4. ASSUME NEW u, NEW p, NEW s, PatchPost(r, u, p, s) \/ PatchUser(r, u, p, s)
        PROVE  \A q \in Requests : FrameMoves(req[q], req'[q])
    BY <1>1, <2>4 DEF PatchPost, PatchUser, Goto, Idle
  <2>5. ASSUME NEW u, NEW v, NEW b, AdminShadow(r, u, v, b) \/ ResolveAppeal(r, u, v, b)
        PROVE  \A q \in Requests : FrameMoves(req[q], req'[q])
    BY <1>1, <2>5 DEF AdminShadow, ResolveAppeal, Goto, Idle
  <2>6. QED
    BY <1>2, <2>1, <2>2, <2>3, <2>4, <2>5 DEF Arrive
<1>3. ASSUME NEW r \in Requests, Finish(r)
      PROVE  \A q \in Requests : FrameMoves(req[q], req'[q])
  BY <1>1, <1>3 DEF Finish, Idle
<1>4. ASSUME NEW r \in Requests, Stamp(r)
      PROVE  \A q \in Requests : FrameMoves(req[q], req'[q])
  BY <1>0, <1>1, <1>4 DEF Stamp, At, Goto, Frame
<1>5. ASSUME NEW r \in Requests, Step(r), ~Stamp(r)
      PROVE  \A q \in Requests : FrameMoves(req[q], req'[q])
  <2>1. CASE \/ InsertFails(r) \/ Fetch(r) \/ InsertRepost(r) \/ QuarantineMisses(r)
             \/ Revoke(r) \/ Hide(r) \/ Unhide(r) \/ FileAppeal(r) \/ Readmit(r)
    BY <1>3, <2>1 DEF InsertFails, Fetch, InsertRepost, QuarantineMisses, Revoke, Hide, Unhide,
                      FileAppeal, Readmit
  <2>2. CASE Insert(r)
    BY <1>1, <2>2 DEF Insert, Goto, Idle
  <2>3. CASE CountReports(r) \/ ReportQuarantine(r)
    BY <1>1, <1>3, <2>3 DEF CountReports, ReportQuarantine, Goto, Idle
  <2>4. CASE Offense(r)
    BY <1>1, <1>3, <2>4 DEF Offense, Goto, Idle
  <2>5. CASE AutoSuspend(r) \/ Flag(r) \/ Unflag(r)
    BY <1>1, <1>3, <2>5 DEF AutoSuspend, Flag, Unflag, Goto, Idle
  <2>6. CASE Settle(r) \/ Reinstate(r)
    BY <1>1, <1>3, <2>6 DEF Settle, Reinstate, Goto, Idle
  <2>7. QED
    BY <1>5, <2>1, <2>2, <2>3, <2>4, <2>5, <2>6 DEF Step
<1>6. CASE Single
  BY <1>6 DEF Single, DeletePost, ResolveReport, DeleteAccount, CoolDown, Age, Purge, modVars
<1>7. CASE UNCHANGED vars
  BY <1>7 DEF vars, modVars
<1>8. QED
  BY <1>2, <1>3, <1>4, <1>5, <1>6, <1>7 DEF Next, Cancel

\* The INSERT of a request is the only statement that adds a row.
Inserts(r, p) ==
    \/ /\ At(r, "insert")
       /\ InsertPost(p, req[r].user, req[r].vis, req[r].parent, None, req[r].state)
    \/ /\ At(r, "repost")
       /\ InsertPost(p, req[r].user, "public", None, req[r].post, "live")

LEMMA OnlyInsertsAdd ==
    ASSUME [Next]_vars, NEW p \in rows', p \notin rows
    PROVE  \E r \in Requests : Inserts(r, p)
<1>1. ASSUME NEW r \in Requests, Insert(r) \/ InsertRepost(r)
      PROVE  \E q \in Requests : Inserts(q, p)
  BY <1>1 DEF Insert, InsertRepost, InsertPost, Inserts
<1>2. ASSUME NEW r \in Requests, Step(r), ~Insert(r), ~InsertRepost(r)
      PROVE  FALSE
  BY <1>2 DEF Step, Stamp, InsertFails, Fetch, CountReports, ReportQuarantine, QuarantineMisses,
              Offense, AutoSuspend, Revoke, Flag, Hide, Unflag, Unhide, Settle, FileAppeal,
              Readmit, Reinstate, SetState, SweepState, storeVars
<1>3. ASSUME NEW r \in Requests, Arrive(r)
      PROVE  FALSE
  <2>1. rows' = rows
    BY <1>3 DEF Arrive, BeginCreate, BeginRepost, EditPost, RestorePost, FileReport,
                BeginAppeal, PatchPost, PatchUser, AdminShadow, ResolveAppeal, SetState,
                Undelete, storeVars
  <2>2. QED
    BY <2>1
<1>4. CASE Single
  BY <1>4 DEF Single, DeletePost, ResolveReport, DeleteAccount, CoolDown, Age, Purge, SoftDelete,
              Expire, RemoveAccount, PurgeTrash, RemoveRows, storeVars
<1>5. ASSUME NEW r \in Requests, Cancel(r)
      PROVE  FALSE
  BY <1>5 DEF Cancel, storeVars
<1>6. CASE UNCHANGED vars
  BY <1>6 DEF vars, storeVars
<1>7. QED
  BY <1>1, <1>2, <1>3, <1>4, <1>5, <1>6 DEF Next

LEMMA LinkedStep ==
    ASSUME StoreInv, Typed, Linked, [Next]_vars
    PROVE  Linked'
<1>1. KeepsIssued /\ RepostsLinked'
  BY NextRefines, StoreKeepsIssued DEF Linked
<1>2. /\ \A p \in rows : p \in Posts /\ Issued(p)
      /\ \A p \in rows : post[p].parent \in rows \cup {None}
      /\ \A p \in rows : post[p].repostOf \in rows \cup {None}
  BY StoreAssumption DEF StoreInv, Shape, Issued, Linked, RepostsLinked
<1>3. \A r \in Requests : req[r] \in Frame
  BY DEF Typed, ModTypes
<1>4. ASSUME NEW r \in Requests
      PROVE  FrameCurrent(req[r])'
  <2>1. FrameMoves(req[r], req'[r]) /\ FrameCurrent(req[r])
    BY FramesMove DEF Linked
  <2>2. /\ req[r].parent \in Posts \cup {None}
        /\ req[r].post \in Posts \cup {None}
    BY <1>3 DEF Frame
  <2>3. CASE req'[r] = req[r] \/ (/\ req[r].at = "stamp"
                                  /\ req'[r].at = "insert"
                                  /\ req'[r].parent = req[r].parent
                                  /\ req'[r].vis = req[r].vis)
    <3>1. ASSUME req'[r].at \in {"stamp", "insert"}, req'[r].parent # None
          PROVE  /\ post'[req'[r].parent].author # None
                 /\ Rank(req'[r].vis) <= Rank(post'[req'[r].parent].vis)
      <4>1. /\ req[r].parent \in Posts
            /\ Issued(req[r].parent)
            /\ Rank(req[r].vis) <= Rank(post[req[r].parent].vis)
        BY <2>1, <2>2, <2>3, <3>1 DEF FrameCurrent
      <4>2. req'[r].parent = req[r].parent /\ req'[r].vis = req[r].vis
        BY <2>3
      <4>3. /\ post'[req[r].parent].author # None
            /\ post'[req[r].parent].vis = post[req[r].parent].vis
        BY <1>1, <4>1 DEF KeepsIssued, Issued
      <4>4. QED
        BY <4>1, <4>2, <4>3
    <3>2. ASSUME req'[r].at = "repost"
          PROVE  /\ post'[req'[r].post].author # None
                 /\ post'[req'[r].post].repostOf = None
      <4>1. req'[r] = req[r] /\ Issued(req[r].post) /\ post[req[r].post].repostOf = None
        BY <2>1, <2>3, <3>2 DEF FrameCurrent
      <4>2. req[r].post \in Posts
        BY <3>2, <4>1 DEF Typed, FrameTyped
      <4>3. /\ post'[req[r].post].author # None
            /\ post'[req[r].post].repostOf = None
        BY <1>1, <4>1, <4>2 DEF KeepsIssued, Issued
      <4>4. QED
        BY <4>1, <4>3
    <3>3. QED
      BY <3>1, <3>2 DEF FrameCurrent, Issued
  <2>4. CASE req'[r].at \notin {"stamp", "insert", "repost"}
    BY <2>4 DEF FrameCurrent
  <2>5. CASE /\ req'[r].at = "stamp"
             /\ UNCHANGED storeVars
             /\ req'[r].parent # None =>
                   /\ Live(req'[r].parent)
                   /\ Rank(req'[r].vis) <= Rank(post[req'[r].parent].vis)
    BY <1>2, <2>5 DEF FrameCurrent, Live, Undeleted, Issued, storeVars
  <2>6. CASE /\ req'[r].at = "repost"
             /\ UNCHANGED storeVars
             /\ Live(req'[r].post) /\ post[req'[r].post].repostOf = None
    BY <1>2, <2>6 DEF FrameCurrent, Live, Undeleted, Issued, storeVars
  <2>7. QED
    BY <2>1, <2>3, <2>4, <2>5, <2>6 DEF FrameMoves
<1>5. ASSUME NEW p \in rows', p \in rows
      PROVE  /\ post'[p].parent # None
                  => Rank(post'[p].vis) <= Rank(post'[post'[p].parent].vis)
             /\ post'[p].repostOf # None => post'[post'[p].repostOf].repostOf = None
  BY <1>1, <1>2, <1>5 DEF KeepsIssued, Linked, ReplyNotBroader, NoRepostChains
<1>6. ASSUME NEW p \in rows', p \notin rows
      PROVE  /\ post'[p].parent # None
                  => Rank(post'[p].vis) <= Rank(post'[post'[p].parent].vis)
             /\ post'[p].repostOf # None => post'[post'[p].repostOf].repostOf = None
  <2>1. PICK r \in Requests : Inserts(r, p)
    BY <1>6, OnlyInsertsAdd
  <2>2. FrameCurrent(req[r]) /\ req[r] \in Frame
    BY <1>3 DEF Linked
  <2>3. p \in Posts /\ ~Issued(p) /\ post \in [Posts -> PostRow]
    BY <1>6, <2>1, NextRefines, StoreStepInv DEF Inserts, InsertPost, StoreInv, Shape
  <2>4. CASE At(r, "insert")
    <3>1. /\ post'[p].parent = req[r].parent
          /\ post'[p].vis = req[r].vis
          /\ post'[p].repostOf = None
      BY <2>1, <2>3, <2>4 DEF Inserts, InsertPost, At
    <3>2. CASE req[r].parent = None
      BY <3>1, <3>2
    <3>3. CASE req[r].parent # None
      <4>1. Issued(req[r].parent) /\ Rank(req[r].vis) <= Rank(post[req[r].parent].vis)
        BY <2>2, <2>4, <3>3 DEF FrameCurrent, At
      <4>2. req[r].parent \in Posts
        BY <2>2, <3>3 DEF Frame
      <4>3. post'[req[r].parent].vis = post[req[r].parent].vis
        BY <1>1, <4>1, <4>2 DEF KeepsIssued
      <4>4. QED
        BY <3>1, <4>1, <4>3
    <3>4. QED
      BY <3>2, <3>3
  <2>5. CASE At(r, "repost")
    <3>1. /\ post'[p].parent = None
          /\ post'[p].repostOf = req[r].post
      BY <2>1, <2>3, <2>5 DEF Inserts, InsertPost, At
    <3>2. Issued(req[r].post) /\ post[req[r].post].repostOf = None
      BY <2>2, <2>5 DEF FrameCurrent, At
    <3>3. req[r].post \in Posts
      BY <2>5 DEF Typed, FrameTyped, At
    <3>4. QED
      BY <1>1, <3>1, <3>2, <3>3 DEF KeepsIssued
  <2>6. QED
    BY <2>1, <2>4, <2>5 DEF Inserts
<1>7. QED
  BY <1>1, <1>4, <1>5, <1>6 DEF Linked, ReplyNotBroader, NoRepostChains

LEMMA LinkedInvariant == Spec => []Linked
<1>1. Init => Linked
  BY DEF Init, StoreInit, Linked, FrameCurrent, Idle, RepostsLinked, ReplyNotBroader,
         NoRepostChains
<1>2. StoreInv /\ Typed /\ Linked /\ [Next]_vars => Linked'
  BY LinkedStep
<1>3. QED
  BY <1>1, <1>2, TypedInvariant, PTL DEF Spec

\* A reply never reaches further than the post it answers, although the check and the
\* INSERT are separate statements: create_post's check is on values that never change.
THEOREM RepliesNeverBroader == Spec => []ReplyNotBroader
<1>1. Linked => ReplyNotBroader
  BY DEF Linked
<1>2. QED
  BY <1>1, LinkedInvariant, PTL

\* No repost points at a repost, although the check and the INSERT are separate.
THEOREM RepostsNeverChain == Spec => []NoRepostChains
<1>1. Linked => NoRepostChains
  BY DEF Linked
<1>2. QED
  BY <1>1, LinkedInvariant, PTL

----------------------------------------------------------------------------
(* Admins.                                                                  *)

\* Every statement that suspends, flags or deletes an account checks its role itself.
LEMMA AdminsStep ==
    ASSUME Typed, AdminsUntouchable, [Next]_vars
    PROVE  AdminsUntouchable'
<1> USE DEF AdminsUntouchable
<1>0. /\ role \in [Users -> Roles]
      /\ shadowBanned \in [Users -> BOOLEAN]
      /\ Admins \subseteq Users
  BY ModerationAssumption DEF Typed, ModTypes
<1>1. ASSUME NEW r \in Requests, AutoSuspend(r) \/ Readmit(r)
      PROVE  AdminsUntouchable'
  BY <1>0, <1>1 DEF AutoSuspend, Readmit, storeVars
<1>2. ASSUME NEW r \in Requests, Flag(r) \/ Unflag(r)
      PROVE  AdminsUntouchable'
  BY <1>0, <1>2 DEF Flag, Unflag, storeVars
<1>3. ASSUME NEW r \in Requests, NEW a, NEW u, NEW s, PatchUser(r, a, u, s)
      PROVE  AdminsUntouchable'
  BY <1>0, <1>3 DEF PatchUser, storeVars
<1>4. ASSUME NEW u \in Users, DeleteAccount(u)
      PROVE  AdminsUntouchable'
  BY <1>0, <1>4 DEF DeleteAccount, RemoveAccount
<1>5. ASSUME alive' = alive, UNCHANGED <<role, shadowBanned>>
      PROVE  AdminsUntouchable'
  BY <1>5
<1>6. ASSUME NEW r \in Requests, Step(r)
      PROVE  AdminsUntouchable'
  BY <1>1, <1>2, <1>5, <1>6
  DEF Step, Stamp, Insert, InsertFails, Fetch, InsertRepost, CountReports, ReportQuarantine,
      QuarantineMisses, Offense, Revoke, Hide, Unhide, Settle, FileAppeal, Reinstate,
      InsertPost, SetState, SweepState, storeVars, accountVars
<1>7. ASSUME NEW r \in Requests, Arrive(r)
      PROVE  AdminsUntouchable'
  BY <1>3, <1>5, <1>7
  DEF Arrive, BeginCreate, BeginRepost, EditPost, RestorePost, FileReport, BeginAppeal,
      PatchPost, AdminShadow, ResolveAppeal, SetState, Undelete, storeVars, accountVars
<1>8. CASE Single
  BY <1>4, <1>5, <1>8
  DEF Single, DeletePost, ResolveReport, CoolDown, Age, Purge, SoftDelete, Expire, PurgeTrash,
      storeVars, modVars, accountVars
<1>9. ASSUME NEW r \in Requests, Cancel(r)
      PROVE  AdminsUntouchable'
  BY <1>5, <1>9 DEF Cancel, storeVars, accountVars
<1>10. CASE UNCHANGED vars
  BY <1>5, <1>10 DEF vars, storeVars, modVars
<1>11. QED
  BY <1>6, <1>7, <1>8, <1>9, <1>10 DEF Next

\* No admin account is ever suspended, shadow-banned or deleted, whatever is in flight.
THEOREM AdminsStayUntouched == Spec => []AdminsUntouchable
<1>1. Init => AdminsUntouchable
  BY ModerationAssumption DEF Init, StoreInit, AdminsUntouchable
<1>2. StoreInv /\ Typed /\ AdminsUntouchable /\ [Next]_vars => AdminsUntouchable'
  BY AdminsStep
<1>3. QED
  BY <1>1, <1>2, TypedInvariant, PTL DEF Spec

----------------------------------------------------------------------------
(* Verdicts.                                                                *)

\* The settlement of reports that goes with putting p back.
Settling(p) == \E r \in Requests : req'[r].at = "settle" /\ req'[r].post = p

\* A sweep matches only the label it was written for, and the two statements that put a
\* moderated post back go on to settle the reports on it.
LEMMA VerdictStep ==
    ASSUME StoreInv, Typed, [Next]_vars, NEW p \in rows \cap rows',
           post[p].state \in {"quarantine", "removed"}
    PROVE  post'[p].state # "shadow" /\ (post'[p].state = "live" => Settling(p))
<1> DEFINE Goal == post'[p].state # "shadow" /\ (post'[p].state = "live" => Settling(p))
<1>0. /\ p \in Posts
      /\ post \in [Posts -> PostRow]
      /\ Issued(p)
      /\ req \in [Requests -> Frame]
  BY StoreAssumption DEF StoreInv, Shape, Issued, Typed, ModTypes
<1>1. ASSUME post'[p].state = post[p].state
      PROVE  Goal
  BY <1>1
<1>2. ASSUME NEW q, NEW u, NEW vis, NEW parent, NEW target, NEW s,
             InsertPost(q, u, vis, parent, target, s)
      PROVE  Goal
  BY <1>0, <1>1, <1>2 DEF InsertPost
<1>3. ASSUME NEW u, SweepState(u, "live", "shadow") \/ SweepState(u, "shadow", "live")
      PROVE  Goal
  BY <1>0, <1>1, <1>3 DEF SweepState
<1>4. ASSUME NEW r \in Requests, ReportQuarantine(r)
      PROVE  Goal
  BY <1>0, <1>1, <1>4 DEF ReportQuarantine, SetState
<1>5. ASSUME NEW r \in Requests, Reinstate(r)
      PROVE  Goal
  <2>1. CASE UNCHANGED storeVars
    BY <1>1, <2>1 DEF storeVars
  <2>2. CASE p # req[r].post /\ SetState(req[r].post, ModState \ {"live"}, "live")
    BY <1>0, <1>1, <2>2 DEF SetState
  <2>3. CASE p = req[r].post /\ SetState(p, ModState \ {"live"}, "live") /\ ~UNCHANGED storeVars
    <3>1. post'[p].state = "live"
      BY <1>0, <2>3 DEF SetState, PostRow
    <3>2. req'[r].at = "settle" /\ req'[r].post = p
      BY <1>0, <1>5, <2>3 DEF Reinstate, Goto, Idle, storeVars
    <3>3. QED
      BY <3>1, <3>2 DEF Settling
  <2>4. QED
    BY <1>5, <2>1, <2>2, <2>3 DEF Reinstate
<1>6. ASSUME NEW r \in Requests, NEW a \in Users, NEW q \in Posts, NEW s \in ModState,
             PatchPost(r, a, q, s)
      PROVE  Goal
  <2>1. CASE q # p
    BY <1>0, <1>1, <1>6, <2>1 DEF PatchPost, SetState
  <2>2. CASE q = p
    <3>1. post'[p].state = s /\ s \in {"live", "quarantine", "removed"}
      BY <1>0, <1>6, <2>2 DEF PatchPost, SetState, PostRow
    <3>2. ASSUME s = "live"
          PROVE  req'[r].at = "settle" /\ req'[r].post = p
      <4>1. req' = [req EXCEPT ![r] = [Idle EXCEPT !.at = "settle", !.user = post[p].author,
                                                   !.post = p, !.state = s]]
        BY <1>6, <2>2, <3>2 DEF PatchPost, Goto
      <4>2. QED
        BY <1>0, <4>1 DEF Idle
    <3>3. QED
      BY <3>1, <3>2 DEF Settling
  <2>3. QED
    BY <2>1, <2>2
<1>7. ASSUME NEW q, SoftDelete(q) \/ Undelete(q) \/ Expire(q)
      PROVE  Goal
  BY <1>0, <1>1, <1>7 DEF SoftDelete, Undelete, Expire, PostRow
<1>8. ASSUME NEW S, RemoveRows(S)
      PROVE  Goal
  <2>1. p \notin S
    BY <1>8 DEF RemoveRows
  <2>2. post'[p].state = post[p].state
    BY <1>0, <1>8, <2>1 DEF RemoveRows, PostRow
  <2>3. QED
    BY <1>1, <2>2
<1>9. ASSUME NEW r \in Requests, Step(r)
      PROVE  Goal
  BY <1>1, <1>2, <1>3, <1>4, <1>5, <1>9
  DEF Step, Stamp, Insert, InsertFails, Fetch, InsertRepost, CountReports,
      QuarantineMisses, Offense, AutoSuspend, Revoke, Flag, Hide, Unflag, Unhide, Settle,
      FileAppeal, Readmit, storeVars
<1>10. ASSUME NEW r \in Requests, Arrive(r)
      PROVE  Goal
  BY <1>1, <1>6, <1>7, <1>10
  DEF Arrive, BeginCreate, BeginRepost, EditPost, RestorePost, FileReport, BeginAppeal,
      PatchUser, AdminShadow, ResolveAppeal, storeVars
<1>11. CASE Single
  BY <1>1, <1>7, <1>8, <1>11
  DEF Single, DeletePost, ResolveReport, DeleteAccount, CoolDown, Age, Purge, PurgeTrash,
      RemoveAccount, storeVars
<1>12. ASSUME NEW r \in Requests, Cancel(r)
      PROVE  Goal
  BY <1>1, <1>12 DEF Cancel, storeVars
<1>13. CASE UNCHANGED vars
  BY <1>1, <1>13 DEF vars, storeVars
<1>14. QED
  BY <1>9, <1>10, <1>11, <1>12, <1>13 DEF Next

\* No interleaving of bans, restores, reports and appeals launders a verdict.
THEOREM VerdictsNeverLaundered == Spec => VerdictNotLaundered
<1>1. StoreInv /\ Typed /\ [Next]_vars
        => [\A p \in rows \cap rows' :
              post[p].state \in {"quarantine", "removed"} =>
                 /\ post'[p].state # "shadow"
                 /\ post'[p].state = "live" =>
                       \E r \in Requests : req'[r].at = "settle" /\ req'[r].post = p]_vars
  BY VerdictStep DEF Settling
<1>2. QED
  BY <1>1, TypedInvariant, PTL DEF Spec, VerdictNotLaundered

----------------------------------------------------------------------------
(* Escalation.                                                              *)

\* How one frame may change in a step, as far as lifting a ban or a suspension goes.
LiftMoves(f, g) ==
    \/ g = f
    \/ g.at \notin {"unflag", "unhide", "readmit"}
    \/ g.at = "unflag" /\ Serves("unshadow")
    \/ g.at = "unhide" /\ f.at = "unflag"
    \/ g.at = "readmit" /\ Serves("appeal")

LEMMA LiftsMove ==
    ASSUME Typed, [Next]_vars
    PROVE  \A q \in Requests : LiftMoves(req[q], req'[q])
<1> USE DEF LiftMoves
<1>0. req \in [Requests -> Frame]
  BY DEF Typed, ModTypes
<1>1. ASSUME NEW r \in Requests, NEW f, req' = [req EXCEPT ![r] = f],
             LiftMoves(req[r], f)
      PROVE  \A q \in Requests : LiftMoves(req[q], req'[q])
  BY <1>0, <1>1
<1>2. ASSUME NEW r \in Requests, Arrive(r)
      PROVE  \A q \in Requests : LiftMoves(req[q], req'[q])
  <2>1. ASSUME NEW u \in Users, NEW v, NEW p, BeginCreate(r, u, v, p) \/ BeginRepost(r, u, p)
        PROVE  \A q \in Requests : LiftMoves(req[q], req'[q])
    BY <1>1, <2>1 DEF BeginCreate, BeginRepost, Goto, Idle
  <2>2. ASSUME NEW u, NEW p, EditPost(r, u, p) \/ RestorePost(r, u, p) \/ FileReport(r, u, p)
                             \/ BeginAppeal(r, u, p)
        PROVE  \A q \in Requests : LiftMoves(req[q], req'[q])
    BY <1>1, <2>2 DEF EditPost, RestorePost, FileReport, BeginAppeal, Goto, Idle
  <2>3. ASSUME NEW u, NEW p, NEW s, PatchPost(r, u, p, s) \/ PatchUser(r, u, p, s)
        PROVE  \A q \in Requests : LiftMoves(req[q], req'[q])
    BY <1>1, <2>3 DEF PatchPost, PatchUser, Goto, Idle
  <2>4. ASSUME NEW u, NEW v, NEW b \in BOOLEAN, AdminShadow(r, u, v, b) \/ ResolveAppeal(r, u, v, b)
        PROVE  \A q \in Requests : LiftMoves(req[q], req'[q])
    BY <1>1, <2>4 DEF AdminShadow, ResolveAppeal, Goto, Idle
  <2>5. QED
    BY <1>2, <2>1, <2>2, <2>3, <2>4 DEF Arrive
<1>3. ASSUME NEW r \in Requests, Finish(r)
      PROVE  \A q \in Requests : LiftMoves(req[q], req'[q])
  BY <1>1, <1>3 DEF Finish, Idle
<1>4. ASSUME NEW r \in Requests, Step(r)
      PROVE  \A q \in Requests : LiftMoves(req[q], req'[q])
  <2>1. CASE \/ InsertFails(r) \/ Fetch(r) \/ InsertRepost(r) \/ QuarantineMisses(r)
             \/ Revoke(r) \/ Hide(r) \/ Unhide(r) \/ FileAppeal(r) \/ Readmit(r)
    BY <1>3, <2>1 DEF InsertFails, Fetch, InsertRepost, QuarantineMisses, Revoke, Hide, Unhide,
                      FileAppeal, Readmit
  <2>2. CASE Stamp(r)
    BY <1>0, <1>1, <2>2 DEF Stamp, Goto, Frame
  <2>3. CASE Insert(r)
    BY <1>1, <2>3 DEF Insert, Goto, Idle
  <2>4. CASE CountReports(r) \/ ReportQuarantine(r)
    BY <1>1, <1>3, <2>4 DEF CountReports, ReportQuarantine, Goto, Idle
  <2>5. CASE Offense(r)
    BY <1>1, <1>3, <2>5 DEF Offense, Goto, Idle
  <2>6. CASE AutoSuspend(r) \/ Flag(r) \/ Unflag(r)
    BY <1>1, <1>3, <2>6 DEF AutoSuspend, Flag, Unflag, At, Goto, Idle
  <2>7. CASE Settle(r) \/ Reinstate(r)
    BY <1>1, <1>3, <2>7 DEF Settle, Reinstate, Goto, Idle
  <2>8. QED
    BY <1>4, <2>1, <2>2, <2>3, <2>4, <2>5, <2>6, <2>7 DEF Step
<1>5. CASE Single
  BY <1>5 DEF Single, DeletePost, ResolveReport, DeleteAccount, CoolDown, Age, Purge, modVars
<1>6. CASE UNCHANGED vars
  BY <1>6 DEF vars, modVars
<1>7. QED
  BY <1>2, <1>3, <1>4, <1>5, <1>6 DEF Next, Cancel

\* A request that is about to suspend u, or to set its flag.
SuspendDue(u) == \E r \in Requests : req[r].at = "suspend" /\ req[r].user = u
FlagDue(u)    == \E r \in Requests : req[r].at \in {"suspend", "flag"} /\ req[r].user = u

\* An account over a threshold has been dealt with, or a request is about to.
Escalating(u) ==
    /\ Suspends(heat[u]) => role[u] = "suspended" \/ SuspendDue(u)
    /\ Shadows(heat[u]) => shadowBanned[u] \/ role[u] = "suspended" \/ FlagDue(u)

NothingLifted == \A r \in Requests : req[r].at \notin {"unflag", "readmit"}
AdminsOnly    == \A u \in Users : role[u] = "admin" => u \in Admins

EscalationInv ==
    /\ NothingLifted
    /\ AdminsOnly
    /\ \A u \in alive \ Admins : Escalating(u)

\* A step that touches neither the account nor a request about to deal with it.
LEMMA EscalatingKept ==
    ASSUME NEW u, Escalating(u), UNCHANGED <<role, shadowBanned>>,
           Suspends(heat'[u]) => Suspends(heat[u]),
           Shadows(heat'[u]) => Shadows(heat[u]),
           \A q \in Requests : req[q].at \in {"suspend", "flag"} => req'[q] = req[q]
    PROVE  Escalating(u)'
BY DEF Escalating, SuspendDue, FlagDue, Suspends, Shadows

\* A frame at one statement is not at another.
LEMMA Untouched ==
    ASSUME Typed, NEW r \in Requests, NEW f, req' = [req EXCEPT ![r] = f],
           req[r].at \notin {"suspend", "flag"}
    PROVE  \A q \in Requests : req[q].at \in {"suspend", "flag"} => req'[q] = req[q]
BY DEF Typed, ModTypes

LEMMA EscalationStep ==
    ASSUME StoreInv, Typed, EscalationInv, [Next]_vars,
           Surface \cap {"patch_user", "unshadow", "appeal"} = {},
           Cancels \cap {"suspend", "flag"} = {}
    PROVE  EscalationInv'
<1>0. /\ role \in [Users -> Roles] /\ shadowBanned \in [Users -> BOOLEAN]
      /\ heat \in [Users -> 0 .. HeatCap] /\ req \in [Requests -> Frame]
      /\ alive \subseteq Users /\ HeatCap \in Nat
      /\ SuspendThreshold \in Nat /\ ShadowThreshold \in Nat
  BY ModerationAssumption DEF Typed, ModTypes, StoreInv, Shape
<1>1. NothingLifted'
  BY LiftsMove DEF EscalationInv, NothingLifted, LiftMoves, Serves
<1>2. AdminsOnly'
  <2>1. ASSUME NEW r \in Requests, Step(r)
        PROVE  AdminsOnly'
    BY <1>0, <2>1
    DEF Step, Stamp, Insert, InsertFails, Fetch, InsertRepost, CountReports, ReportQuarantine,
        QuarantineMisses, Offense, AutoSuspend, Revoke, Flag, Hide, Unflag, Unhide, Settle,
        FileAppeal, Readmit, Reinstate, accountVars, EscalationInv, AdminsOnly
  <2>2. ASSUME NEW r \in Requests, Arrive(r)
        PROVE  AdminsOnly'
    BY <1>0, <2>2
    DEF Arrive, BeginCreate, BeginRepost, EditPost, RestorePost, FileReport, BeginAppeal,
        PatchPost, PatchUser, AdminShadow, ResolveAppeal, accountVars, EscalationInv, AdminsOnly
  <2>3. CASE Single
    BY <1>0, <2>3
    DEF Single, DeletePost, ResolveReport, DeleteAccount, CoolDown, Age, Purge, modVars,
        accountVars, EscalationInv, AdminsOnly
  <2>4. QED
    BY <2>1, <2>2, <2>3 DEF Next, Cancel, vars, modVars, accountVars, EscalationInv, AdminsOnly
<1>3. ASSUME NEW u \in alive' \ Admins
      PROVE  Escalating(u)'
  <2>0. u \in alive /\ Escalating(u) /\ role[u] # "admin" /\ u \in Users
    <3>1. alive' \subseteq alive
      BY NextRefines DEF StoreNext, InsertPost, SoftDelete, Undelete, Expire, StateChange,
         SetState, SweepState, PurgeTrash, RemoveAccount, storeVars
    <3>2. QED
      BY <1>0, <3>1 DEF EscalationInv, AdminsOnly
  <2>1. ASSUME NEW r \in Requests, Finish(r), req[r].at \notin {"suspend", "flag"},
               UNCHANGED accountVars
        PROVE  Escalating(u)'
    BY <2>0, <2>1, Untouched, EscalatingKept DEF Finish, accountVars
  <2>2. ASSUME NEW r \in Requests, NEW f, Goto(r, f), req[r].at \notin {"suspend", "flag"},
               UNCHANGED accountVars
        PROVE  Escalating(u)'
    BY <2>0, <2>2, Untouched, EscalatingKept DEF Goto, accountVars
  <2>3. CASE UNCHANGED req /\ UNCHANGED <<role, shadowBanned>> /\ heat'[u] = heat[u]
    BY <2>0, <2>3, EscalatingKept
  <2>4. ASSUME NEW r \in Requests, Offense(r)
        PROVE  Escalating(u)'
    <3> DEFINE h == heat'[u]
    <3>1. CASE u # req[r].user \/ req[r].user \notin alive
      <4>1. heat'[u] = heat[u]
        BY <1>0, <2>0, <2>4, <3>1 DEF Offense
      <4>2. \A q \in Requests : req[q].at \in {"suspend", "flag"} => req'[q] = req[q]
        BY <1>0, <2>4 DEF Offense, At, Goto, Finish
      <4>3. QED
        BY <2>0, <2>4, <4>1, <4>2, EscalatingKept DEF Offense
    <3>2. CASE u = req[r].user
      <4>1. /\ h = IF heat[u] + req[r].points > HeatCap THEN HeatCap ELSE heat[u] + req[r].points
            /\ \/ Suspends(h) /\ req' = [req EXCEPT ![r] = [Idle EXCEPT !.at = "suspend", !.user = u]]
               \/ /\ ~Suspends(h) /\ Shadows(h)
                  /\ req' = [req EXCEPT ![r] = [Idle EXCEPT !.at = "flag", !.user = u]]
               \/ ~Suspends(h) /\ ~Shadows(h)
        BY <1>0, <2>0, <2>4, <3>2 DEF Offense, Goto
      <4>2. CASE Suspends(h) /\ req' = [req EXCEPT ![r] = [Idle EXCEPT !.at = "suspend", !.user = u]]
        <5>1. req'[r].at = "suspend" /\ req'[r].user = u
          BY <1>0, <4>2 DEF Idle
        <5>2. QED
          BY <5>1 DEF Escalating, SuspendDue, FlagDue
      <4>3. CASE /\ ~Suspends(h)
                 /\ req' = [req EXCEPT ![r] = [Idle EXCEPT !.at = "flag", !.user = u]]
        <5>1. req'[r].at = "flag" /\ req'[r].user = u
          BY <1>0, <4>3 DEF Idle
        <5>2. QED
          BY <4>3, <5>1 DEF Escalating, FlagDue, Suspends
      <4>4. CASE ~Suspends(h) /\ ~Shadows(h)
        BY <4>4 DEF Escalating, Suspends, Shadows
      <4>5. QED
        BY <4>1, <4>2, <4>3, <4>4
    <3>3. QED
      BY <3>1, <3>2
  <2>5. ASSUME NEW r \in Requests, AutoSuspend(r)
        PROVE  Escalating(u)'
    <3>1. CASE u = req[r].user
      <4>1. role'[u] = "suspended"
        BY <1>0, <2>0, <2>5, <3>1 DEF AutoSuspend, Roles
      <4>2. QED
        BY <4>1 DEF Escalating
    <3>2. CASE u # req[r].user
      <4>1. /\ role'[u] = role[u] /\ UNCHANGED <<shadowBanned, heat>>
            /\ \A q \in Requests : q # r => req'[q] = req[q]
        BY <1>0, <2>0, <2>5, <3>2 DEF AutoSuspend, Goto, Finish
      <4>2. QED
        BY <2>0, <3>2, <4>1 DEF Escalating, SuspendDue, FlagDue, Suspends, Shadows
    <3>3. QED
      BY <3>1, <3>2
  <2>6. ASSUME NEW r \in Requests, Flag(r)
        PROVE  Escalating(u)'
    <3>1. /\ UNCHANGED <<role, heat>>
          /\ \A q \in Requests : q # r => req'[q] = req[q]
          /\ req[r].at = "flag"
          /\ shadowBanned[u] => shadowBanned'[u]
          /\ u = req[r].user => shadowBanned'[u]
      BY <1>0, <2>0, <2>6 DEF Flag, Goto, Finish, At
    <3>2. QED
      BY <2>0, <3>1 DEF Escalating, SuspendDue, FlagDue, Suspends, Shadows
  <2>7. ASSUME NEW r \in Requests, Step(r)
        PROVE  Escalating(u)'
    <3>1. CASE \/ Stamp(r) \/ Insert(r) \/ InsertFails(r) \/ Fetch(r) \/ InsertRepost(r)
               \/ CountReports(r) \/ ReportQuarantine(r) \/ QuarantineMisses(r)
               \/ Revoke(r) \/ Hide(r) \/ Unhide(r) \/ Settle(r) \/ FileAppeal(r)
               \/ Reinstate(r)
      BY <2>1, <2>2, <3>1
      DEF Stamp, Insert, InsertFails, Fetch, InsertRepost, CountReports, ReportQuarantine,
          QuarantineMisses, Revoke, Hide, Unhide, Settle, FileAppeal, Reinstate, At
    <3>2. CASE Unflag(r) \/ Readmit(r)
      BY <3>2 DEF Unflag, Readmit, At, EscalationInv, NothingLifted
    <3>3. QED
      BY <2>4, <2>5, <2>6, <2>7, <3>1, <3>2 DEF Step
  <2>8. ASSUME NEW r \in Requests, Arrive(r)
        PROVE  Escalating(u)'
    <3>1. ASSUME NEW a, NEW s, NEW v, PatchUser(r, a, v, s)
          PROVE  FALSE
      BY <3>1 DEF PatchUser, Serves
    <3>2. ASSUME NEW a, NEW p, NEW s, PatchPost(r, a, p, s) \/ ResolveAppeal(r, a, p, s)
          PROVE  Escalating(u)'
      BY <2>2, <2>3, <3>2 DEF PatchPost, ResolveAppeal, At, accountVars
    <3>3. ASSUME NEW a, NEW v, NEW p, NEW s, NEW b,
                 \/ BeginCreate(r, a, s, p) \/ EditPost(r, a, p) \/ RestorePost(r, a, p)
                 \/ BeginRepost(r, a, p) \/ FileReport(r, a, p) \/ AdminShadow(r, a, v, b)
                 \/ BeginAppeal(r, a, p)
          PROVE  Escalating(u)'
      BY <2>2, <3>3 DEF BeginCreate, EditPost, RestorePost, BeginRepost, FileReport,
                        AdminShadow, BeginAppeal, At
    <3>4. QED
      BY <2>8, <3>1, <3>2, <3>3 DEF Arrive
  <2>9. CASE Single
    <3>1. ASSUME NEW v \in Users, DeleteAccount(v)
          PROVE  Escalating(u)'
      <4>1. v # u
        BY <3>1 DEF DeleteAccount, RemoveAccount
      <4>2. /\ role'[u] = role[u] /\ shadowBanned'[u] = shadowBanned[u]
            /\ heat'[u] = heat[u] /\ req' = req
        BY <1>0, <2>0, <3>1, <4>1 DEF DeleteAccount
      <4>3. QED
        BY <2>0, <4>2 DEF Escalating, SuspendDue, FlagDue, Suspends, Shadows
    <3>2. ASSUME NEW v \in Users, CoolDown(v)
          PROVE  Escalating(u)'
      <4>1. /\ heat'[u] <= heat[u] /\ heat[u] \in Int /\ heat'[u] \in Int
            /\ UNCHANGED <<role, shadowBanned, req>>
        BY <1>0, <2>0, <3>2 DEF CoolDown
      <4>2. (Suspends(heat'[u]) => Suspends(heat[u])) /\ (Shadows(heat'[u]) => Shadows(heat[u]))
        BY <1>0, <4>1 DEF Suspends, Shadows
      <4>3. QED
        BY <2>0, <4>1, <4>2, EscalatingKept
    <3>3. QED
      BY <2>3, <2>9, <3>1, <3>2 DEF Single, DeletePost, ResolveReport, Age, Purge, modVars,
                                    accountVars
  <2>10. ASSUME NEW r \in Requests, Cancel(r)
         PROVE  Escalating(u)'
    BY <2>1, <2>10 DEF Cancel
  <2>11. CASE UNCHANGED vars
    BY <2>3, <2>11 DEF vars, modVars
  <2>12. QED
    BY <2>7, <2>8, <2>9, <2>10, <2>11 DEF Next
<1>4. QED
  BY <1>1, <1>2, <1>3 DEF EscalationInv

\* However offenses, removals, deletions and cooling interleave, an account over a
\* threshold is dealt with once nothing is in flight: where no admin lifts a ban or a
\* suspension, and no request is dropped between its charge and the statement it leads to.
THEOREM EscalationAlwaysEnforced ==
    ASSUME Surface \cap {"patch_user", "unshadow", "appeal"} = {},
           Cancels \cap {"suspend", "flag"} = {}
    PROVE  Spec => []EscalationEnforced
<1>1. Init => EscalationInv
  BY ModerationAssumption
  DEF Init, StoreInit, Idle, EscalationInv, NothingLifted, AdminsOnly, Escalating, Suspends, Shadows
<1>2. StoreInv /\ Typed /\ EscalationInv /\ [Next]_vars => EscalationInv'
  BY EscalationStep
<1>3. EscalationInv => EscalationEnforced
  BY DEF EscalationInv, Escalating, EscalationEnforced, Quiet, SuspendDue, FlagDue, Suspends,
         Shadows
<1>4. QED
  BY <1>1, <1>2, <1>3, TypedInvariant, PTL DEF Spec

----------------------------------------------------------------------------
(* Report-threshold quarantine.                                             *)

\* A request in flight moves only by its own next statement, or by being dropped.
LEMMA InFlightMoves ==
    ASSUME Typed, [Next]_vars, NEW q \in Requests,
           req[q].at # "idle", req'[q] # req[q]
    PROVE  Step(q) \/ Cancel(q)
<1>0. req \in [Requests -> Frame]
  BY DEF Typed, ModTypes
<1>1. ASSUME NEW r \in Requests, NEW f, req' = [req EXCEPT ![r] = f]
      PROVE  q = r
  BY <1>0, <1>1
<1>2. ASSUME NEW r \in Requests, Arrive(r)
      PROVE  FALSE
  <2>1. At(r, "idle")
    BY <1>2 DEF Arrive, BeginCreate, BeginRepost, EditPost, RestorePost, FileReport, BeginAppeal,
                PatchPost, PatchUser, AdminShadow, ResolveAppeal
  <2>2. UNCHANGED req \/ \E f : req' = [req EXCEPT ![r] = f]
    BY <1>2 DEF Arrive, BeginCreate, BeginRepost, EditPost, RestorePost, FileReport, BeginAppeal,
                PatchPost, PatchUser, AdminShadow, ResolveAppeal, Goto
  <2>3. QED
    BY <1>1, <2>1, <2>2 DEF At
<1>3. ASSUME NEW r \in Requests, Step(r)
      PROVE  Step(q)
  <2>1. \E f : req' = [req EXCEPT ![r] = f]
    BY <1>3
    DEF Step, Stamp, Insert, InsertFails, Fetch, InsertRepost, CountReports, ReportQuarantine,
        QuarantineMisses, Offense, AutoSuspend, Revoke, Flag, Hide, Unflag, Unhide, Settle,
        FileAppeal, Readmit, Reinstate, Goto, Finish
  <2>2. QED
    BY <1>1, <1>3, <2>1
<1>4. ASSUME NEW r \in Requests, Cancel(r)
      PROVE  Cancel(q)
  <2>1. \E f : req' = [req EXCEPT ![r] = f]
    BY <1>4 DEF Cancel, Finish
  <2>2. QED
    BY <1>1, <1>4, <2>1
<1>5. CASE Single
  BY <1>5 DEF Single, DeletePost, ResolveReport, DeleteAccount, CoolDown, Age, Purge, modVars
<1>6. CASE UNCHANGED vars
  BY <1>6 DEF vars, modVars
<1>7. QED
  BY <1>2, <1>3, <1>4, <1>5, <1>6 DEF Next

\* The statement after a count, an UPDATE and a settlement.
LEMMA DueMoves ==
    ASSUME Typed, [Next]_vars, NEW q \in Requests, req'[q] # req[q],
           req[q].at \in {"count", "quarantine", "settle"},
           Cancels \cap {"count", "quarantine", "settle"} = {}
    PROVE  CountReports(q) \/ ReportQuarantine(q) \/ QuarantineMisses(q) \/ Settle(q)
<1>1. Step(q)
  BY InFlightMoves DEF Cancel
<1>2. QED
  BY <1>1 DEF Step, Stamp, Insert, InsertFails, Fetch, InsertRepost, Offense, AutoSuspend, Revoke,
              Flag, Hide, Unflag, Unhide, FileAppeal, Readmit, Reinstate, At

\* Nobody becomes an admin or stops being one.
LEMMA AdminRoleKept ==
    ASSUME Typed, [Next]_vars, NEW u \in Users
    PROVE  role'[u] = "admin" <=> role[u] = "admin"
<1>0. role \in [Users -> Roles]
  BY DEF Typed, ModTypes
<1>1. ASSUME NEW r \in Requests, Step(r)
      PROVE  role'[u] = "admin" <=> role[u] = "admin"
  BY <1>0, <1>1
  DEF Step, Stamp, Insert, InsertFails, Fetch, InsertRepost, CountReports, ReportQuarantine,
      QuarantineMisses, Offense, AutoSuspend, Revoke, Flag, Hide, Unflag, Unhide, Settle,
      FileAppeal, Readmit, Reinstate, accountVars
<1>2. ASSUME NEW r \in Requests, Arrive(r)
      PROVE  role'[u] = "admin" <=> role[u] = "admin"
  BY <1>0, <1>2
  DEF Arrive, BeginCreate, BeginRepost, EditPost, RestorePost, FileReport, BeginAppeal,
      PatchPost, PatchUser, AdminShadow, ResolveAppeal, accountVars
<1>3. CASE Single
  BY <1>0, <1>3
  DEF Single, DeletePost, ResolveReport, DeleteAccount, CoolDown, Age, Purge, modVars, accountVars
<1>4. QED
  BY <1>1, <1>2, <1>3 DEF Next, Cancel, vars, modVars, accountVars

\* A new report is counted by the request that files it.
LEMMA ReportsGrow ==
    ASSUME [Next]_vars
    PROVE  \/ openReports' \subseteq openReports
           \/ \E r \in Requests, u \in Users, p \in Posts : FileReport(r, u, p)
<1>1. ASSUME NEW r \in Requests, Step(r)
      PROVE  openReports' \subseteq openReports
  BY <1>1
  DEF Step, Stamp, Insert, InsertFails, Fetch, InsertRepost, CountReports, ReportQuarantine,
      QuarantineMisses, Offense, AutoSuspend, Revoke, Flag, Hide, Unflag, Unhide, Settle,
      FileAppeal, Readmit, Reinstate
<1>2. ASSUME NEW r \in Requests, Arrive(r)
      PROVE  \/ UNCHANGED openReports
             \/ \E u \in Users, p \in Posts : FileReport(r, u, p)
  BY <1>2
  DEF Arrive, BeginCreate, BeginRepost, EditPost, RestorePost, BeginAppeal, PatchPost, PatchUser,
      AdminShadow, ResolveAppeal
<1>3. CASE Single
  BY <1>3 DEF Single, DeletePost, ResolveReport, DeleteAccount, CoolDown, Age, Purge, modVars
<1>4. QED
  BY <1>1, <1>2, <1>3 DEF Next, Cancel, vars, modVars

\* A row keeps its author.
LEMMA AuthorKept ==
    ASSUME StoreInv, Typed, [Next]_vars, NEW p \in rows, p \in rows'
    PROVE  post'[p].author = post[p].author
<1>0. p \in Posts /\ post \in [Posts -> PostRow] /\ Issued(p)
  BY StoreAssumption DEF StoreInv, Shape, Issued
<1>1. [StoreNext]_storeVars
  BY NextRefines
<1>2. ASSUME NEW q, NEW u, NEW vis, NEW parent, NEW target, NEW s,
             InsertPost(q, u, vis, parent, target, s)
      PROVE  post'[p].author = post[p].author
  BY <1>0, <1>2 DEF InsertPost
<1>3. ASSUME NEW u, NEW from, NEW s, SweepState(u, from, s)
      PROVE  post'[p].author = post[p].author
  BY <1>0, <1>3 DEF SweepState, PostRow
<1>4. ASSUME NEW q \in Posts, SoftDelete(q) \/ Undelete(q) \/ Expire(q) \/ StateChange(q)
      PROVE  post'[p].author = post[p].author
  BY <1>0, <1>4 DEF SoftDelete, Undelete, Expire, StateChange, SetState, PostRow
<1>5. ASSUME NEW S, RemoveRows(S)
      PROVE  post'[p].author = post[p].author
  BY <1>0, <1>5 DEF RemoveRows, PostRow
<1>6. QED
  BY <1>1, <1>2, <1>3, <1>4, <1>5 DEF StoreNext, PurgeTrash, RemoveAccount, storeVars

\* What a label statement makes of one row.
LEMMA Labelled ==
    ASSUME post \in [Posts -> PostRow], NEW q, NEW from, NEW s, SetState(q, from, s),
           NEW p \in rows, rows \subseteq Posts
    PROVE  post'[p].state = IF p = q THEN s ELSE post[p].state
BY DEF SetState, PostRow

\* A hidden or moderated post goes live by a decision that settles the reports on it, or
\* by the lifting of a shadow ban.
LEMMA GoesLive ==
    ASSUME StoreInv, Typed, [Next]_vars, NEW p \in rows, p \in rows',
           post[p].state # "live", post'[p].state = "live",
           \A r \in Requests : req[r].at # "unhide"
    PROVE  Settling(p)
<1>0. /\ p \in Posts /\ post \in [Posts -> PostRow] /\ Issued(p) /\ rows \subseteq Posts
      /\ req \in [Requests -> Frame]
  BY StoreAssumption DEF StoreInv, Shape, Issued, Typed, ModTypes
<1>1. ASSUME NEW q, NEW u, NEW vis, NEW parent, NEW target, NEW s,
             InsertPost(q, u, vis, parent, target, s)
      PROVE  FALSE
  BY <1>0, <1>1 DEF InsertPost
<1>2. ASSUME NEW q, SoftDelete(q) \/ Undelete(q) \/ Expire(q)
      PROVE  FALSE
  BY <1>0, <1>2 DEF SoftDelete, Undelete, Expire, PostRow
<1>3. ASSUME NEW S, RemoveRows(S)
      PROVE  FALSE
  <2>1. p \notin S
    BY <1>3 DEF RemoveRows
  <2>2. QED
    BY <1>0, <1>3, <2>1 DEF RemoveRows, PostRow
<1>4. ASSUME NEW r \in Requests, ReportQuarantine(r)
      PROVE  FALSE
  BY <1>0, <1>4, Labelled DEF ReportQuarantine
<1>5. ASSUME NEW r \in Requests, Hide(r)
      PROVE  FALSE
  BY <1>0, <1>5 DEF Hide, SweepState
<1>6. ASSUME NEW r \in Requests, Reinstate(r)
      PROVE  Settling(p)
  <2>1. CASE UNCHANGED storeVars
    BY <2>1 DEF storeVars
  <2>2. CASE /\ SetState(req[r].post, ModState \ {"live"}, "live")
             /\ Goto(r, [Idle EXCEPT !.at = "settle", !.user = req[r].user, !.post = req[r].post])
    <3>1. p = req[r].post
      BY <1>0, <2>2, Labelled
    <3>2. QED
      BY <1>0, <2>2, <3>1 DEF Goto, Idle, Settling
  <2>3. QED
    BY <1>6, <2>1, <2>2 DEF Reinstate
<1>7. ASSUME NEW r \in Requests, NEW a, NEW q \in Posts, NEW s, PatchPost(r, a, q, s)
      PROVE  Settling(p)
  <2>1. p = q /\ s = "live"
    BY <1>0, <1>7, Labelled DEF PatchPost
  <2>2. QED
    BY <1>0, <1>7, <2>1 DEF PatchPost, Goto, Idle, Settling
<1>8. ASSUME NEW r \in Requests, Step(r)
      PROVE  Settling(p)
  BY <1>1, <1>4, <1>5, <1>6, <1>8
  DEF Step, Stamp, Insert, InsertFails, Fetch, InsertRepost, CountReports, QuarantineMisses,
      Offense, AutoSuspend, Revoke, Flag, Unflag, Unhide, Settle, FileAppeal, Readmit, At, storeVars
<1>9. ASSUME NEW r \in Requests, Arrive(r)
      PROVE  Settling(p)
  BY <1>2, <1>7, <1>9
  DEF Arrive, BeginCreate, BeginRepost, EditPost, RestorePost, FileReport, BeginAppeal,
      PatchUser, AdminShadow, ResolveAppeal, storeVars
<1>10. CASE Single
  BY <1>2, <1>3, <1>10
  DEF Single, DeletePost, ResolveReport, DeleteAccount, CoolDown, Age, Purge, PurgeTrash,
      RemoveAccount, storeVars
<1>11. QED
  BY <1>8, <1>9, <1>10 DEF Next, Cancel, vars, storeVars

\* A post over the threshold, and a request about to take it down or to settle its reports.
Overdue(p) == /\ post[p].state = "live"
              /\ role[post[p].author] # "admin"
              /\ Cardinality(OpenOn(p)) >= ReportThreshold
Due(p) == \E r \in Requests : /\ req[r].at \in {"count", "quarantine", "settle"}
                              /\ req[r].post = p

QuarantineInv ==
    /\ \A r \in Requests : req[r].at \notin {"unflag", "unhide"}
    /\ \A x \in openReports : Issued(x[2])
    /\ \A p \in Posts : IsFiniteSet(OpenOn(p))
    /\ \A p \in rows : Overdue(p) => Due(p)

LEMMA ReportsStep ==
    ASSUME StoreInv, Typed, QuarantineInv, RepostsLinked, [Next]_vars
    PROVE  /\ \A x \in openReports' : Issued(x[2])'
           /\ \A p \in Posts : IsFiniteSet(OpenOn(p))'
<1>0. /\ openReports \subseteq Users \X Posts
      /\ \A p \in Posts : Issued(p) => Issued(p)'
  BY NextRefines, StoreKeepsIssued DEF Typed, ModTypes, KeepsIssued
<1>1. CASE openReports' \subseteq openReports
  <2>1. \A p \in Posts : OpenOn(p)' \subseteq OpenOn(p)
    BY <1>1 DEF OpenOn
  <2>2. QED
    BY <1>0, <1>1, <2>1, FS_Subset DEF QuarantineInv
<1>2. ASSUME NEW r \in Requests, NEW u \in Users, NEW q \in Posts, FileReport(r, u, q)
      PROVE  /\ \A x \in openReports' : Issued(x[2])'
             /\ \A p \in Posts : IsFiniteSet(OpenOn(p))'
  <2>1. openReports' = openReports \cup {<<u, q>>} /\ Issued(q)
    BY <1>2 DEF FileReport
  <2>2. \A p \in Posts : OpenOn(p)' \subseteq OpenOn(p) \cup {u}
    BY <2>1 DEF OpenOn
  <2>3. \A p \in Posts : IsFiniteSet(OpenOn(p) \cup {u})
    BY FS_AddElement DEF QuarantineInv
  <2>4. \A p \in Posts : IsFiniteSet(OpenOn(p))'
    BY <2>2, <2>3, FS_Subset
  <2>5. \A x \in openReports : Issued(x[2])'
    BY <1>0 DEF QuarantineInv
  <2>6. Issued(q)'
    BY <1>0, <2>1
  <2>7. QED
    BY <2>1, <2>4, <2>5, <2>6
<1>3. QED
  BY <1>1, <1>2, ReportsGrow

LEMMA OverdueStep ==
    ASSUME StoreInv, Typed, QuarantineInv, RepostsLinked, [Next]_vars,
           ReportThreshold > 0,
           Cancels \cap {"count", "quarantine", "settle"} = {},
           NEW p \in rows', Overdue(p)'
    PROVE  Due(p)'
<1>0. /\ req \in [Requests -> Frame] /\ rows \subseteq Posts
      /\ openReports \subseteq Users \X Posts /\ post \in [Posts -> PostRow]
      /\ ReportThreshold \in Nat
  BY ModerationAssumption DEF Typed, ModTypes, StoreInv, Shape
<1>1. CASE p \notin rows
  <2>1. PICK r \in Requests : Inserts(r, p)
    BY <1>1, OnlyInsertsAdd
  <2>2. ~Issued(p) /\ p \in Posts
    BY <2>1, NextRefines, StoreStepInv DEF Inserts, InsertPost, StoreInv, Shape
  <2>3. CASE openReports' \subseteq openReports
    <3>1. OpenOn(p)' = {}
      BY <1>0, <2>2, <2>3 DEF OpenOn, QuarantineInv
    <3>2. Cardinality(OpenOn(p)') = 0
      BY <3>1, FS_EmptySet
    <3>3. QED
      BY <1>0, <3>2 DEF Overdue
  <2>4. ASSUME NEW q \in Requests, NEW u \in Users, NEW t \in Posts, FileReport(q, u, t)
        PROVE  FALSE
    BY <1>1, <2>4 DEF FileReport, storeVars
  <2>5. QED
    BY <2>3, <2>4, ReportsGrow
<1>2. CASE p \in rows
  <2>0. p \in Posts
    BY <1>0, <1>2
  <2>1. role[post[p].author] # "admin"
    <3>1. post'[p].author = post[p].author /\ post[p].author \in Users
      BY <1>2, AuthorKept DEF StoreInv, Shape
    <3>2. QED
      BY <3>1, AdminRoleKept DEF Overdue
  <2>2. CASE post[p].state # "live"
    BY <1>2, <2>2, GoesLive DEF QuarantineInv, Overdue, Settling, Due
  <2>3. ASSUME NEW r \in Requests, NEW u \in Users, NEW q \in Posts, FileReport(r, u, q),
               post[p].state = "live"
        PROVE  Due(p)'
    <3>1. CASE q = p
      BY <1>0, <2>3, <3>1 DEF FileReport, Goto, Idle, Due
    <3>2. CASE q # p
      <4>1. OpenOn(p)' = OpenOn(p)
        BY <2>3, <3>2 DEF FileReport, OpenOn
      <4>2. Overdue(p)
        BY <2>1, <2>3, <4>1 DEF Overdue
      <4>3. Due(p) /\ \A s \in Requests : req[s].at # "idle" => req'[s] = req[s]
        BY <1>0, <1>2, <2>3, <4>2 DEF QuarantineInv, FileReport, Goto, At
      <4>4. QED
        BY <4>3 DEF Due
    <3>3. QED
      BY <3>1, <3>2
  <2>4. CASE openReports' \subseteq openReports /\ post[p].state = "live"
    <3>1. OpenOn(p)' \subseteq OpenOn(p) /\ IsFiniteSet(OpenOn(p))
      BY <2>0, <2>4 DEF OpenOn, QuarantineInv
    <3>2. Cardinality(OpenOn(p)) >= ReportThreshold
      <4>1. /\ IsFiniteSet(OpenOn(p)')
            /\ Cardinality(OpenOn(p)') <= Cardinality(OpenOn(p))
        BY <3>1, FS_Subset
      <4>2. Cardinality(OpenOn(p)) \in Nat /\ Cardinality(OpenOn(p)') \in Nat
        BY <3>1, <4>1, FS_CardinalityType
      <4>3. Cardinality(OpenOn(p)') >= ReportThreshold
        BY DEF Overdue
      <4>4. QED
        BY <1>0, <4>1, <4>2, <4>3
    <3>3. PICK q \in Requests : /\ req[q].at \in {"count", "quarantine", "settle"}
                                /\ req[q].post = p
      BY <1>2, <2>1, <2>4, <3>2 DEF QuarantineInv, Overdue, Due
    <3>4. CASE req'[q] = req[q]
      BY <3>3, <3>4 DEF Due
    <3>5. CASE CountReports(q)
      BY <1>0, <3>2, <3>3, <3>5 DEF CountReports, Goto, Idle, Due
    <3>6. CASE ReportQuarantine(q)
      <4>1. post'[p].state = "quarantine"
        BY <1>0, <1>2, <3>3, <3>6, Labelled DEF ReportQuarantine
      <4>2. QED
        BY <4>1 DEF Overdue
    <3>7. CASE QuarantineMisses(q)
      BY <1>2, <2>1, <2>4, <3>3, <3>7 DEF QuarantineMisses, Quarantinable
    <3>8. CASE Settle(q)
      <4>1. OpenOn(p)' = {}
        BY <3>3, <3>8 DEF Settle, OpenOn
      <4>2. Cardinality(OpenOn(p)') = 0
        BY <4>1, FS_EmptySet
      <4>3. QED
        BY <1>0, <4>2 DEF Overdue
    <3>9. QED
      BY <3>3, <3>4, <3>5, <3>6, <3>7, <3>8, DueMoves
  <2>5. QED
    BY <2>2, <2>3, <2>4, ReportsGrow
<1>3. QED
  BY <1>1, <1>2

\* However reports, counts, verdicts and deletions interleave, no report is lost: once
\* nothing is in flight, a post that enough accounts report is not live.  Where no shadow
\* ban is lifted, and no request is dropped between its report and what the count leads to.
THEOREM QuarantineNeverMissed ==
    ASSUME ReportThreshold > 0,
           "unshadow" \notin Surface,
           Cancels \cap {"count", "quarantine", "settle"} = {}
    PROVE  Spec => []NoMissedQuarantine
<1>1. Init => QuarantineInv
  <2>1. ASSUME Init
        PROVE  QuarantineInv
    <3>1. \A p \in Posts : OpenOn(p) = {}
      BY <2>1 DEF Init, OpenOn
    <3>2. QED
      BY <2>1, <3>1, FS_EmptySet DEF Init, StoreInit, QuarantineInv, Idle
  <2>2. QED
    BY <2>1
<1>2. StoreInv /\ Typed /\ Linked /\ QuarantineInv /\ [Next]_vars => QuarantineInv'
  <2>1. ASSUME StoreInv, Typed, Linked, QuarantineInv, [Next]_vars
        PROVE  QuarantineInv'
    <3>1. \A r \in Requests : req'[r].at \notin {"unflag", "unhide"}
      BY <2>1, LiftsMove DEF QuarantineInv, LiftMoves, Serves
    <3>2. \A p \in rows' : Overdue(p)' => Due(p)'
      BY <2>1, OverdueStep DEF Linked
    <3>3. QED
      BY <2>1, <3>1, <3>2, ReportsStep DEF QuarantineInv, Linked
  <2>2. QED
    BY <2>1
<1>3. StoreInv /\ Typed /\ QuarantineInv => NoMissedQuarantine
  <2>1. ASSUME Typed, StoreInv, QuarantineInv, Quiet, NEW p \in rows, post[p].state = "live",
               role[post[p].author] # "admin"
        PROVE  Cardinality(OpenOn(p)) < ReportThreshold
    <3>1. ~Overdue(p)
      BY <2>1 DEF QuarantineInv, Quiet, Due
    <3>2. Cardinality(OpenOn(p)) \in Nat /\ ReportThreshold \in Nat
      BY <2>1, FS_CardinalityType, ModerationAssumption DEF QuarantineInv, StoreInv, Shape
    <3>3. QED
      BY <2>1, <3>1, <3>2 DEF Overdue
  <2>2. QED
    BY <2>1 DEF NoMissedQuarantine
<1>4. QED
  BY <1>1, <1>2, <1>3, TypedInvariant, LinkedInvariant, PTL DEF Spec

----------------------------------------------------------------------------
(* Shadow bans, one request at a time.                                      *)

\* The account of a row exists: author_id is a foreign key.
AuthorsAlive == \A p \in rows : post[p].author \in alive

LEMMA AuthorsAliveStep ==
    ASSUME StoreInv, AuthorsAlive, [StoreNext]_storeVars
    PROVE  AuthorsAlive'
<1> USE DEF AuthorsAlive
<1>0. rows \subseteq Posts /\ post \in [Posts -> PostRow]
  BY DEF StoreInv, Shape
<1>1. ASSUME NEW p \in Posts, NEW u \in Users, NEW vis, NEW parent, NEW repostOf, NEW s,
             InsertPost(p, u, vis, parent, repostOf, s)
      PROVE  AuthorsAlive'
  BY <1>0, <1>1 DEF InsertPost
<1>2. ASSUME NEW p \in Posts, SoftDelete(p) \/ Undelete(p) \/ Expire(p) \/ StateChange(p)
      PROVE  AuthorsAlive'
  BY <1>0, <1>2 DEF SoftDelete, Undelete, Expire, StateChange, SetState, PostRow
<1>3. ASSUME NEW u \in Users, NEW from, NEW s, SweepState(u, from, s)
      PROVE  AuthorsAlive'
  BY <1>0, <1>3 DEF SweepState, PostRow
<1>4. ASSUME NEW S, RemoveRows(S)
      PROVE  \A p \in rows' : p \in rows \ S /\ post'[p].author = post[p].author
  BY <1>0, <1>4 DEF RemoveRows, PostRow
<1>5. CASE PurgeTrash
  BY <1>4, <1>5 DEF PurgeTrash
<1>6. ASSUME NEW u \in Users, RemoveAccount(u)
      PROVE  AuthorsAlive'
  BY <1>4, <1>6 DEF RemoveAccount
<1>7. CASE UNCHANGED storeVars
  BY <1>7 DEF storeVars
<1>8. QED
  BY <1>1, <1>2, <1>3, <1>5, <1>6, <1>7 DEF StoreNext

\* The three ways a row is hidden after a step.
LEMMA IsHidden ==
    ASSUME StoreInv, Typed, [Next]_vars, NEW p \in rows', post'[p].state = "shadow"
    PROVE  \/ /\ p \in rows
              /\ post[p].state = "shadow"
              /\ \A r \in Requests : Unhide(r) => req[r].user # post[p].author
           \/ /\ p \in rows
              /\ \E r \in Requests : Hide(r) /\ req[r].user = post[p].author
           \/ \E r \in Requests : /\ At(r, "insert")
                                  /\ req[r].state = "shadow"
                                  /\ req[r].user \in alive
                                  /\ post'[p].author = req[r].user
<1> DEFINE Goal == \/ /\ p \in rows
                      /\ post[p].state = "shadow"
                      /\ \A r \in Requests : Unhide(r) => req[r].user # post[p].author
                   \/ /\ p \in rows
                      /\ \E r \in Requests : Hide(r) /\ req[r].user = post[p].author
                   \/ \E r \in Requests : /\ At(r, "insert")
                                          /\ req[r].state = "shadow"
                                          /\ req[r].user \in alive
                                          /\ post'[p].author = req[r].user
<1>0. rows \subseteq Posts /\ post \in [Posts -> PostRow] /\ req \in [Requests -> Frame]
  BY DEF StoreInv, Shape, Typed, ModTypes
<1>1. CASE p \notin rows
  <2>1. PICK r \in Requests : Inserts(r, p)
    BY <1>1, OnlyInsertsAdd
  <2>2. p \in Posts
    BY NextRefines, StoreStepInv DEF StoreInv, Shape
  <2>3. QED
    BY <1>0, <2>1, <2>2 DEF Inserts, InsertPost
<1>2. CASE p \in rows
  <2>0. p \in Posts /\ Issued(p)
    BY <1>0, <1>2, StoreAssumption DEF Issued, StoreInv, Shape
  <2>1. ASSUME NEW r \in Requests, Unhide(r)
        PROVE  \A q \in Requests : Unhide(q) => req[q].user # post[p].author
    <3>1. ASSUME NEW q \in Requests, Unhide(q), req[q].user = post[p].author
          PROVE  FALSE
      BY <1>0, <1>2, <2>0, <3>1 DEF Unhide, SweepState, PostRow
    <3>2. QED
      BY <3>1
  <2>2. CASE post[p].state = "shadow"
    BY <1>2, <2>1, <2>2
  <2>3. ASSUME NEW q, NEW from, NEW s, SetState(q, from, s), s # "shadow"
        PROVE  post[p].state = "shadow"
    BY <1>0, <1>2, <2>3, Labelled
  <2>4. ASSUME NEW q, NEW u, NEW vis, NEW parent, NEW target, NEW s,
               InsertPost(q, u, vis, parent, target, s)
        PROVE  post[p].state = "shadow"
    BY <1>0, <2>0, <2>4 DEF InsertPost
  <2>5. ASSUME NEW q, SoftDelete(q) \/ Undelete(q) \/ Expire(q)
        PROVE  post[p].state = "shadow"
    BY <1>0, <2>0, <2>5 DEF SoftDelete, Undelete, Expire, PostRow
  <2>6. ASSUME NEW S, RemoveRows(S)
        PROVE  post[p].state = "shadow"
    <3>1. p \notin S
      BY <2>6 DEF RemoveRows
    <3>2. QED
      BY <1>0, <2>0, <2>6, <3>1 DEF RemoveRows, PostRow
  <2>7. ASSUME NEW r \in Requests, Unhide(r)
        PROVE  post[p].state = "shadow"
    BY <1>0, <2>0, <2>7 DEF Unhide, SweepState, PostRow
  <2>8. ASSUME NEW r \in Requests, Hide(r), post[p].state # "shadow"
        PROVE  req[r].user = post[p].author
    BY <1>0, <2>0, <2>8 DEF Hide, SweepState
  <2>9. CASE storeVars' = storeVars
    BY <2>9, <2>2 DEF storeVars
  <2>10. ASSUME NEW r \in Requests, Step(r)
         PROVE  Goal
    BY <1>2, <2>2, <2>3, <2>4, <2>7, <2>8, <2>9, <2>10
    DEF Step, Stamp, Insert, InsertFails, Fetch, InsertRepost, CountReports, ReportQuarantine,
        QuarantineMisses, Offense, AutoSuspend, Revoke, Flag, Unflag, Settle,
        FileAppeal, Readmit, Reinstate
  <2>11. ASSUME NEW r \in Requests, Arrive(r)
         PROVE  Goal
    BY <2>2, <2>3, <2>5, <2>9, <2>11
    DEF Arrive, BeginCreate, BeginRepost, EditPost, RestorePost, FileReport, BeginAppeal,
        PatchPost, PatchUser, AdminShadow, ResolveAppeal
  <2>12. CASE Single
    BY <2>2, <2>5, <2>6, <2>9, <2>12
    DEF Single, DeletePost, ResolveReport, DeleteAccount, CoolDown, Age, Purge, PurgeTrash,
        RemoveAccount
  <2>13. QED
    BY <2>9, <2>10, <2>11, <2>12 DEF Next, Cancel, vars
<1>3. QED
  BY <1>1, <1>2

\* A flag is cleared by the lifting of the ban, which goes on to show the account's posts,
\* and by the deletion of the account.
LEMMA FlagCleared ==
    ASSUME Typed, [Next]_vars, NEW u \in Users, u \in alive', shadowBanned[u]
    PROVE  \/ shadowBanned'[u]
           \/ \E r \in Requests : /\ Unflag(r)
                                  /\ req'[r].at = "unhide"
                                  /\ req'[r].user = u
<1>0. shadowBanned \in [Users -> BOOLEAN] /\ req \in [Requests -> Frame]
  BY DEF Typed, ModTypes
<1>1. ASSUME NEW r \in Requests, Unflag(r), ~shadowBanned'[u]
      PROVE  req'[r].at = "unhide" /\ req'[r].user = u
  BY <1>0, <1>1 DEF Unflag, Goto, Idle
<1>2. ASSUME NEW r \in Requests, Flag(r)
      PROVE  shadowBanned'[u]
  BY <1>0, <1>2 DEF Flag
<1>3. ASSUME NEW r \in Requests, Step(r), ~Unflag(r)
      PROVE  shadowBanned'[u]
  BY <1>2, <1>3
  DEF Step, Stamp, Insert, InsertFails, Fetch, InsertRepost, CountReports, ReportQuarantine,
      QuarantineMisses, Offense, AutoSuspend, Revoke, Hide, Unhide, Settle,
      FileAppeal, Readmit, Reinstate, accountVars
<1>4. ASSUME NEW r \in Requests, Arrive(r)
      PROVE  shadowBanned'[u]
  BY <1>4
  DEF Arrive, BeginCreate, BeginRepost, EditPost, RestorePost, FileReport, BeginAppeal,
      PatchPost, PatchUser, AdminShadow, ResolveAppeal, accountVars
<1>5. ASSUME NEW v \in Users, DeleteAccount(v)
      PROVE  shadowBanned'[u]
  <2>1. v # u
    BY <1>5 DEF DeleteAccount, RemoveAccount
  <2>2. QED
    BY <1>0, <1>5, <2>1 DEF DeleteAccount
<1>6. CASE Single
  BY <1>5, <1>6 DEF Single, DeletePost, ResolveReport, CoolDown, Age, Purge, modVars, accountVars
<1>7. QED
  BY <1>1, <1>3, <1>4, <1>6 DEF Next, Cancel, vars, modVars, accountVars

\* The frames that hide rows, or insert a hidden one, belong to a flagged account.
HidesFlagged(f) ==
    (f.at = "hide" \/ (f.at = "insert" /\ f.state = "shadow")) /\ f.user \in alive
        => shadowBanned[f.user]

ShadowInv ==
    /\ AuthorsAlive
    /\ \A r \in Requests : HidesFlagged(req[r])
    /\ \A p \in rows : post[p].state = "shadow" =>
          \/ shadowBanned[post[p].author]
          \/ \E r \in Requests : req[r].at = "unhide" /\ req[r].user = post[p].author

\* The frame of the only request after a step.
LEMMA HidesFlaggedStep ==
    ASSUME StoreInv, Typed, ShadowInv, [Next]_vars, \A q, r \in Requests : q = r,
           NEW r \in Requests
    PROVE  HidesFlagged(req[r])'
<1>0. /\ shadowBanned \in [Users -> BOOLEAN] /\ req \in [Requests -> Frame]
      /\ alive \subseteq Users
  BY DEF Typed, ModTypes, StoreInv, Shape
<1>1. ASSUME NEW f, req' = [req EXCEPT ![r] = f], f.at \notin {"hide", "insert"}
      PROVE  HidesFlagged(req[r])'
  BY <1>0, <1>1 DEF HidesFlagged
<1>2. CASE req'[r] = req[r]
  <2>1. ASSUME req[r].user \in alive', req[r].at \in {"hide", "insert"}, shadowBanned[req[r].user]
        PROVE  shadowBanned'[req[r].user]
    <3>1. ~Unflag(r)
      BY <2>1 DEF Unflag, At
    <3>2. alive' \subseteq alive
      BY NextRefines DEF StoreNext, InsertPost, SoftDelete, Undelete, Expire, StateChange,
         SetState, SweepState, PurgeTrash, RemoveAccount, storeVars
    <3>3. \A q \in Requests : ~Unflag(q)
      BY <3>1
    <3>4. QED
      BY <1>0, <2>1, <3>2, <3>3, FlagCleared
  <2>2. alive' \subseteq alive
    BY NextRefines DEF StoreNext, InsertPost, SoftDelete, Undelete, Expire, StateChange,
       SetState, SweepState, PurgeTrash, RemoveAccount, storeVars
  <2>3. QED
    BY <1>2, <2>1, <2>2 DEF ShadowInv, HidesFlagged
<1>3. CASE Finish(r)
  BY <1>1, <1>3 DEF Finish, Idle
<1>4. CASE Step(r)
  <2>1. CASE Stamp(r)
    BY <1>0, <2>1 DEF Stamp, Goto, Verdicts, HidesFlagged, Frame, storeVars, accountVars
  <2>2. CASE Flag(r)
    BY <1>0, <1>3, <2>2 DEF Flag, Goto, Idle, HidesFlagged
  <2>3. CASE \/ InsertFails(r) \/ Fetch(r) \/ InsertRepost(r) \/ QuarantineMisses(r)
             \/ Revoke(r) \/ Hide(r) \/ Unhide(r) \/ FileAppeal(r) \/ Readmit(r)
    BY <1>3, <2>3 DEF InsertFails, Fetch, InsertRepost, QuarantineMisses, Revoke, Hide, Unhide,
                      FileAppeal, Readmit
  <2>4. CASE \/ Insert(r) \/ CountReports(r) \/ ReportQuarantine(r) \/ Offense(r)
             \/ AutoSuspend(r) \/ Unflag(r) \/ Settle(r) \/ Reinstate(r)
    BY <1>1, <1>3, <2>4 DEF Insert, CountReports, ReportQuarantine, Offense, AutoSuspend, Unflag,
                            Settle, Reinstate, Goto, Idle
  <2>5. QED
    BY <1>4, <2>1, <2>2, <2>3, <2>4 DEF Step
<1>5. CASE Arrive(r)
  <2>1. ASSUME NEW u \in Users, NEW v, NEW p, BeginCreate(r, u, v, p) \/ BeginRepost(r, u, p)
        PROVE  HidesFlagged(req[r])'
    BY <1>1, <2>1 DEF BeginCreate, BeginRepost, Goto, Idle
  <2>2. ASSUME NEW u, NEW p, EditPost(r, u, p) \/ RestorePost(r, u, p) \/ FileReport(r, u, p)
                             \/ BeginAppeal(r, u, p)
        PROVE  HidesFlagged(req[r])'
    BY <1>1, <2>2 DEF EditPost, RestorePost, FileReport, BeginAppeal, Goto, Idle
  <2>3. ASSUME NEW u, NEW p, NEW s, PatchPost(r, u, p, s) \/ PatchUser(r, u, p, s)
        PROVE  HidesFlagged(req[r])'
    BY <1>1, <1>2, <2>3 DEF PatchPost, PatchUser, Goto, Idle
  <2>4. ASSUME NEW u, NEW v, NEW b \in BOOLEAN, AdminShadow(r, u, v, b) \/ ResolveAppeal(r, u, v, b)
        PROVE  HidesFlagged(req[r])'
    BY <1>1, <1>2, <2>4 DEF AdminShadow, ResolveAppeal, Goto, Idle
  <2>5. QED
    BY <1>5, <2>1, <2>2, <2>3, <2>4 DEF Arrive
<1>6. CASE Single
  BY <1>2, <1>6 DEF Single, DeletePost, ResolveReport, DeleteAccount, CoolDown, Age, Purge, modVars
<1>7. QED
  BY <1>2, <1>3, <1>4, <1>5, <1>6 DEF Next, Cancel, vars, modVars

LEMMA HiddenStep ==
    ASSUME StoreInv, Typed, ShadowInv, [Next]_vars, \A q, r \in Requests : q = r,
           "unhide" \notin Cancels,
           AuthorsAlive', NEW p \in rows', post'[p].state = "shadow"
    PROVE  \/ shadowBanned'[post'[p].author]
           \/ \E r \in Requests : req'[r].at = "unhide" /\ req'[r].user = post'[p].author
<1> DEFINE u == post'[p].author
<1>0. /\ req \in [Requests -> Frame] /\ alive \subseteq Users
      /\ u \in alive' /\ rows \subseteq Posts
  BY DEF Typed, ModTypes, StoreInv, Shape, AuthorsAlive
<1>1. alive' \subseteq alive
  BY NextRefines DEF StoreNext, InsertPost, SoftDelete, Undelete, Expire, StateChange,
     SetState, SweepState, PurgeTrash, RemoveAccount, storeVars
<1>2. ASSUME shadowBanned[u]
      PROVE  \/ shadowBanned'[u]
             \/ \E r \in Requests : req'[r].at = "unhide" /\ req'[r].user = u
  BY <1>0, <1>1, <1>2, FlagCleared
<1>3. CASE /\ p \in rows
           /\ post[p].state = "shadow"
           /\ \A r \in Requests : Unhide(r) => req[r].user # post[p].author
  <2>1. post[p].author = u
    BY <1>3, AuthorKept
  <2>2. CASE shadowBanned[u]
    BY <1>2, <2>2
  <2>3. ASSUME NEW r \in Requests, req[r].at = "unhide", req[r].user = u
        PROVE  req'[r] = req[r]
    <3>1. ~Cancel(r)
      BY <2>3 DEF Cancel
    <3>2. ASSUME Step(r)
          PROVE  Unhide(r)
      BY <2>3, <3>2 DEF Step, Stamp, Insert, InsertFails, Fetch, InsertRepost, CountReports,
           ReportQuarantine, QuarantineMisses, Offense, AutoSuspend, Revoke, Flag, Hide, Unflag,
           Settle, FileAppeal, Readmit, Reinstate, At
    <3>3. ~Step(r)
      BY <1>3, <2>1, <2>3, <3>2
    <3>4. QED
      BY <2>3, <3>1, <3>3, InFlightMoves
  <2>4. QED
    BY <1>3, <2>1, <2>2, <2>3 DEF ShadowInv
<1>4. ASSUME NEW r \in Requests, Hide(r), req[r].user = post[p].author, p \in rows
      PROVE  shadowBanned'[u]
  <2>1. u = req[r].user
    BY <1>4, AuthorKept
  <2>2. shadowBanned[u]
    BY <1>0, <1>1, <1>4, <2>1 DEF ShadowInv, HidesFlagged, Hide, At
  <2>3. QED
    BY <1>4, <2>2 DEF Hide, accountVars
<1>5. ASSUME NEW r \in Requests, At(r, "insert"), req[r].state = "shadow", req[r].user \in alive,
             u = req[r].user
      PROVE  \/ shadowBanned'[u]
             \/ \E q \in Requests : req'[q].at = "unhide" /\ req'[q].user = u
  BY <1>2, <1>5 DEF ShadowInv, HidesFlagged, At
<1>6. QED
  BY <1>3, <1>4, <1>5, IsHidden

\* One request at a time, an account that is not shadow-banned has no hidden posts once the
\* request is over: whatever it is, whatever is purged or deleted meanwhile, and wherever a
\* request is cut off but between the clearing of a flag and the sweep that goes with it.
THEOREM ShadowAlwaysMatchesFlag ==
    ASSUME \A q, r \in Requests : q = r,
           "unhide" \notin Cancels
    PROVE  Spec => []ShadowMatchesFlag
<1>1. Init => ShadowInv
  BY DEF Init, StoreInit, Idle, ShadowInv, AuthorsAlive, HidesFlagged
<1>2. StoreInv /\ Typed /\ ShadowInv /\ [Next]_vars => ShadowInv'
  <2>1. ASSUME StoreInv, Typed, ShadowInv, [Next]_vars
        PROVE  ShadowInv'
    <3>1. AuthorsAlive'
      BY <2>1, AuthorsAliveStep, NextRefines DEF ShadowInv
    <3>2. \A r \in Requests : HidesFlagged(req[r])'
      BY <2>1, HidesFlaggedStep
    <3>3. \A p \in rows' : post'[p].state = "shadow" =>
             \/ shadowBanned'[post'[p].author]
             \/ \E r \in Requests : req'[r].at = "unhide" /\ req'[r].user = post'[p].author
      BY <2>1, <3>1, HiddenStep
    <3>4. QED
      BY <3>1, <3>2, <3>3 DEF ShadowInv
  <2>2. QED
    BY <2>1
<1>3. ShadowInv => ShadowMatchesFlag
  BY DEF ShadowInv, ShadowMatchesFlag, Quiet
<1>4. QED
  BY <1>1, <1>2, <1>3, TypedInvariant, PTL DEF Spec
=============================================================================
