---------------------------- MODULE Moderation ----------------------------
(***************************************************************************)
(* Posting, reporting and moderation: the request handlers of posts.rs,    *)
(* reports.rs, appeals.rs, admin.rs and moderation.rs over the tables of   *)
(* PostStore.  A handler is a sequence of SQL statements with an await     *)
(* between them and no transaction around them, so a request in flight is  *)
(* a Frame that names the statement it runs next and the values it read,   *)
(* and the statements of different requests interleave.                    *)
(*                                                                         *)
(* Abstracted away: rate limits (they only refuse), bodies and what is     *)
(* computed from them (the spam verdict is a choice), notifications, the   *)
(* moderation log.  The search calls the handlers make are in SearchSync.  *)
(***************************************************************************)
EXTENDS PostStore

CONSTANTS Admins,            \* accounts whose role is 'admin'
          Requests,          \* requests that may be in flight at once
          Appeals,           \* rows the appeals table may ever hold
          ReportThreshold,   \* REPORT_QUARANTINE_THRESHOLD
          ShadowThreshold,   \* SHADOW_BAN_THRESHOLD, 0 disables
          SuspendThreshold,  \* HEAT_SUSPEND_THRESHOLD, 0 disables
          HeatCap,           \* bound: heat is not told apart above this
          Surface,           \* the operations the instance exercises
          Cancels            \* the statements before which a request may be cut off

Operations == {"create", "edit", "repost", "delete", "restore", "report", "resolve",
               "appeal", "patch_post", "patch_user", "shadow", "unshadow",
               "delete_me", "age", "cool", "reindex"}

ASSUME ModerationAssumption == /\ Admins \subseteq Users
                               /\ ReportThreshold \in Nat
                               /\ ShadowThreshold \in Nat
                               /\ SuspendThreshold \in Nat
                               /\ HeatCap \in Nat
                               /\ Surface \subseteq Operations

VARIABLES role,          \* users.role
          shadowBanned,  \* users.shadow_banned
          heat,          \* current_heat(heat_score, heat_updated_at)
          openReports,   \* unresolved rows of reports, as <<reporter, post>>
          appeal,        \* the appeals table
          req            \* the requests in flight

accountVars == <<role, shadowBanned, heat>>
modVars     == <<role, shadowBanned, heat, openReports, appeal, req>>
vars        == <<storeVars, modVars>>

----------------------------------------------------------------------------
(* State.                                                                  *)

Roles == {"admin", "member", "suspended"}

\* The statement a request runs next.
Label == {"idle", "stamp", "insert", "fetch", "repost", "count", "quarantine", "offense",
          "suspend", "revoke", "flag", "hide", "unflag", "unhide", "settle",
          "appeal", "readmit", "reinstate"}

ASSUME CancelsAssumption == Cancels \subseteq Label

Frame == [at     : Label,
          user   : Users \cup {None},   \* the account the statement concerns
          post   : Posts \cup {None},   \* the post it concerns
          parent : Posts \cup {None},   \* reply_to_id of a post being created
          vis    : Visibility,
          state  : ModState,
          points : {0, 2, 3, 5}]        \* weight of the offense being recorded

Idle == [at |-> "idle", user |-> None, post |-> None, parent |-> None,
         vis |-> "private", state |-> "live", points |-> 0]

AppealRow == [status : {"unfiled", "open", "granted", "denied", "cascaded"},
              who    : Users \cup {None},
              post   : Posts \cup {None}]     \* None for an account appeal

Unfiled == [status |-> "unfiled", who |-> None, post |-> None]

ModTypeOK ==
    /\ StoreTypeOK
    /\ role \in [Users -> Roles]
    /\ shadowBanned \in [Users -> BOOLEAN]
    /\ heat \in [Users -> 0 .. HeatCap]
    /\ openReports \subseteq Users \X Posts
    /\ appeal \in [Appeals -> AppealRow]
    /\ req \in [Requests -> Frame]

Init ==
    /\ StoreInit
    /\ role = [u \in Users |-> IF u \in Admins THEN "admin" ELSE "member"]
    /\ shadowBanned = [u \in Users |-> FALSE]
    /\ heat = [u \in Users |-> 0]
    /\ openReports = {}
    /\ appeal = [i \in Appeals |-> Unfiled]
    /\ req = [r \in Requests |-> Idle]

\* CurrentUser: a request is served for an account that exists and is not suspended.
Active(u) == u \in alive /\ role[u] # "suspended"

\* AdminUser
Administrator(a) == Active(a) /\ role[a] = "admin"

Serves(op)   == op \in Surface
At(r, label) == req[r].at = label
Goto(r, f)   == req' = [req EXCEPT ![r] = f]
Finish(r)    == req' = [req EXCEPT ![r] = Idle]
Quiet        == \A r \in Requests : req[r].at = "idle"

OpenOn(p) == {u \in Users : <<u, p>> \in openReports}

\* Bound: a post is begun only while an id is left for it.
IdLeft == Cardinality({p \in Posts : ~Issued(p)})
            > Cardinality({r \in Requests : req[r].at \in {"stamp", "insert", "repost"}})

----------------------------------------------------------------------------
(* posts.rs                                                                *)

Rank(vis) == CASE vis = "private" -> 1 [] vis = "followers" -> 2 [] vis = "public" -> 3

\* can_view_post_author; who follows and blocks whom is free, so only a private
\* post is certain to be hidden from others.
MayView(u, p) == post[p].vis = "private" => post[p].author = u

\* reply_visibility_allowed and the other checks on a reply's target.
MayReplyAnyReach(u, vis, parent) == Live(parent) /\ MayView(u, parent)   \* mutant: any reach
MayReply(u, vis, parent) == /\ Live(parent)
                            /\ MayView(u, parent)
                            /\ Rank(vis) <= Rank(post[parent].vis)

\* create_post up to the checks on the reply target.
BeginCreate(r, u, vis, parent) ==
    /\ Serves("create")
    /\ At(r, "idle")
    /\ Active(u)
    /\ IdLeft
    /\ parent # None => MayReply(u, vis, parent)
    /\ Goto(r, [Idle EXCEPT !.at = "stamp", !.user = u, !.vis = vis, !.parent = parent])
    /\ UNCHANGED <<storeVars, accountVars, openReports, appeal>>

\* spam_score against the threshold: the score is free, but only a top-level public post
\* can be quarantined for it.
Verdicts(f) == {"live"} \cup
               (IF f.parent = None /\ f.vis = "public" THEN {"quarantine"} ELSE {})

\* is_shadow_banned and the spam verdict decide the state the row is inserted with.
Stamp(r) ==
    LET f == req[r] IN
    /\ At(r, "stamp")
    /\ \E s \in IF f.user \in alive /\ shadowBanned[f.user] THEN {"shadow"} ELSE Verdicts(f) :
          Goto(r, [f EXCEPT !.at = "insert", !.state = s])
    /\ UNCHANGED <<storeVars, accountVars, openReports, appeal>>

\* The INSERT; a quarantined post goes on to register_content_offense with 2 points,
\* any other is fetched for the response.
Insert(r) ==
    LET f == req[r] IN
    /\ At(r, "insert")
    /\ \E p \in Posts :
          /\ InsertPost(p, f.user, f.vis, f.parent, None, f.state)
          /\ IF f.state = "quarantine"
             THEN Goto(r, [Idle EXCEPT !.at = "offense", !.user = f.user, !.post = p, !.points = 2])
             ELSE Goto(r, [Idle EXCEPT !.at = "fetch", !.user = f.user, !.post = p])
    /\ UNCHANGED <<accountVars, openReports, appeal>>

\* The same INSERT when the account or the reply target has gone meanwhile: a foreign
\* key fails and the request ends with an error.
InsertFails(r) ==
    /\ At(r, "insert") \/ At(r, "repost")
    /\ ~(req[r].user \in alive /\ {req[r].parent, req[r].post} \subseteq rows \cup {None})
    /\ Finish(r)
    /\ UNCHANGED <<storeVars, accountVars, openReports, appeal>>

Reposts(u, p) == {q \in rows : /\ post[q].author = u
                               /\ post[q].repostOf = p
                               /\ post[q].deleted = "no"}

\* The target must be an original, public and live, and not reposted yet.
Repostable(u, p) == /\ Live(p)
                    /\ role[post[p].author] # "suspended"
                    /\ post[p].vis = "public"
                    /\ post[p].repostOf = None
                    /\ Reposts(u, p) = {}

\* repost up to the checks on its target.
BeginRepost(r, u, p) ==
    /\ Serves("repost")
    /\ At(r, "idle")
    /\ Active(u)
    /\ IdLeft
    /\ Repostable(u, p)
    /\ Goto(r, [Idle EXCEPT !.at = "repost", !.user = u, !.post = p])
    /\ UNCHANGED <<storeVars, accountVars, openReports, appeal>>

\* Its INSERT leaves moderation_state to the column default, 'live'.
InsertRepost(r) ==
    LET f == req[r] IN
    /\ At(r, "repost")
    /\ \E p \in Posts : InsertPost(p, f.user, "public", None, f.post, "live")
    /\ Finish(r)
    /\ UNCHANGED <<accountVars, openReports, appeal>>

\* delete_post, by the author or by an admin in a browser session.  The author it reads
\* first never changes, so the read and the guarded UPDATE are one step.
DeletePost(u, p) ==
    /\ Serves("delete")
    /\ Active(u)
    /\ post[p].author = u \/ Administrator(u)
    /\ SoftDelete(p)
    /\ UNCHANGED modVars

\* edit_post, by the author: the new body is not modelled, the fetch after it is.
EditPost(r, u, p) ==
    /\ Serves("edit")
    /\ At(r, "idle")
    /\ Active(u)
    /\ Undeleted(p)
    /\ post[p].author = u
    /\ Goto(r, [Idle EXCEPT !.at = "fetch", !.user = u, !.post = p])
    /\ UNCHANGED <<storeVars, accountVars, openReports, appeal>>

\* restore, by the author.
RestorePost(r, u, p) ==
    /\ Serves("restore")
    /\ At(r, "idle")
    /\ Active(u)
    /\ post[p].author = u
    /\ Undelete(p)
    /\ Goto(r, [Idle EXCEPT !.at = "fetch", !.user = u, !.post = p])
    /\ UNCHANGED <<accountVars, openReports, appeal>>

\* The rows fetch_post finds for the author: live, or hidden by a shadow ban.
Fetchable(u, p) == /\ Undeleted(p)
                   /\ post[p].author = u
                   /\ post[p].state \in {"live", "shadow"}
                   /\ role[u] # "suspended"

\* fetch_post, whose result is the response (and what is indexed, see SearchSync).
Fetch(r) ==
    /\ At(r, "fetch")
    /\ Finish(r)
    /\ UNCHANGED <<storeVars, accountVars, openReports, appeal>>

----------------------------------------------------------------------------
(* reports.rs                                                              *)

\* create: a first open report on a post is counted against the threshold, a
\* repeated one changes nothing.
FileReport(r, u, p) ==
    /\ Serves("report")
    /\ At(r, "idle")
    /\ Active(u)
    /\ Issued(p)
    /\ <<u, p>> \notin openReports
    /\ openReports' = openReports \cup {<<u, p>>}
    /\ Goto(r, [Idle EXCEPT !.at = "count", !.post = p])
    /\ UNCHANGED <<storeVars, accountVars, appeal>>

\* Mutant of CountReports: the threshold is taken as one more.
CountReportsAbove(r) ==
    /\ At(r, "count")
    /\ IF Cardinality(OpenOn(req[r].post)) > ReportThreshold
       THEN Goto(r, [Idle EXCEPT !.at = "quarantine", !.post = req[r].post])
       ELSE Finish(r)
    /\ UNCHANGED <<storeVars, accountVars, openReports, appeal>>

\* maybe_quarantine_reported_post: the COUNT ...
CountReports(r) ==
    /\ At(r, "count")
    /\ IF Cardinality(OpenOn(req[r].post)) >= ReportThreshold
       THEN Goto(r, [Idle EXCEPT !.at = "quarantine", !.post = req[r].post])
       ELSE Finish(r)
    /\ UNCHANGED <<storeVars, accountVars, openReports, appeal>>

\* Mutant of Quarantinable: only the posts of members.
QuarantinableOfMembers(p) == /\ p \in rows
                             /\ post[p].state = "live"
                             /\ role[post[p].author] = "member"

\* The posts its guarded UPDATE matches: live, and not written by an admin.
Quarantinable(p) == /\ p \in rows
                    /\ post[p].state = "live"
                    /\ role[post[p].author] # "admin"

\* ... the UPDATE, which charges the author 3 points ...
ReportQuarantine(r) ==
    LET p == req[r].post IN
    /\ At(r, "quarantine")
    /\ Quarantinable(p)
    /\ SetState(p, {"live"}, "quarantine")
    /\ Goto(r, [Idle EXCEPT !.at = "offense", !.user = post[p].author, !.post = p, !.points = 3])
    /\ UNCHANGED <<accountVars, openReports, appeal>>

\* ... or matches no row.
QuarantineMisses(r) ==
    /\ At(r, "quarantine")
    /\ ~Quarantinable(req[r].post)
    /\ Finish(r)
    /\ UNCHANGED <<storeVars, accountVars, openReports, appeal>>

\* resolve: an admin closes one report.
ResolveReport(a, u, p) ==
    /\ Serves("resolve")
    /\ Administrator(a)
    /\ <<u, p>> \in openReports
    /\ openReports' = openReports \ {<<u, p>>}
    /\ UNCHANGED <<storeVars, accountVars, appeal, req>>

----------------------------------------------------------------------------
(* moderation.rs                                                           *)

\* The two thresholds; 0 disables one.
SuspendsAbove(h) == SuspendThreshold > 0 /\ h > SuspendThreshold   \* mutant: off by one
Suspends(h) == SuspendThreshold > 0 /\ h >= SuspendThreshold
Shadows(h)  == ShadowThreshold > 0 /\ h >= ShadowThreshold

\* register_content_offense: add_heat, then escalate on the score it returned.
Offense(r) ==
    LET u == req[r].user
        h == IF heat[u] + req[r].points > HeatCap THEN HeatCap ELSE heat[u] + req[r].points
    IN
    /\ At(r, "offense")
    /\ heat' = IF u \in alive THEN [heat EXCEPT ![u] = h] ELSE heat
    /\ \/ /\ u \in alive /\ Suspends(h)
          /\ Goto(r, [Idle EXCEPT !.at = "suspend", !.user = u])
       \/ /\ u \in alive /\ ~Suspends(h) /\ Shadows(h)
          /\ Goto(r, [Idle EXCEPT !.at = "flag", !.user = u])
       \/ /\ u \in alive => ~Suspends(h) /\ ~Shadows(h)
          /\ Finish(r)
    /\ UNCHANGED <<storeVars, role, shadowBanned, openReports, appeal>>

\* Mutant of AutoSuspend: the guard on the role only excludes the suspended.
AutoSuspendAnyone(r) ==
    LET u == req[r].user
        hit == u \in alive /\ role[u] # "suspended"
    IN
    /\ At(r, "suspend")
    /\ role' = IF hit THEN [role EXCEPT ![u] = "suspended"] ELSE role
    /\ IF hit THEN Goto(r, [Idle EXCEPT !.at = "revoke", !.user = u]) ELSE Finish(r)
    /\ UNCHANGED <<storeVars, shadowBanned, heat, openReports, appeal>>

\* auto_suspend: never an admin, and at most once.
AutoSuspend(r) ==
    LET u == req[r].user
        hit == u \in alive /\ role[u] = "member"
    IN
    /\ At(r, "suspend")
    /\ role' = IF hit THEN [role EXCEPT ![u] = "suspended"] ELSE role
    /\ IF hit THEN Goto(r, [Idle EXCEPT !.at = "revoke", !.user = u]) ELSE Finish(r)
    /\ UNCHANGED <<storeVars, shadowBanned, heat, openReports, appeal>>

\* Sessions and API tokens are revoked; the account's posts leave the search index.
Revoke(r) ==
    /\ At(r, "revoke")
    /\ Finish(r)
    /\ UNCHANGED <<storeVars, accountVars, openReports, appeal>>

\* shadow_ban sets the flag, never an admin's and only if it is not set yet ...
Flag(r) ==
    LET u == req[r].user
        hit == u \in alive /\ role[u] # "admin" /\ ~shadowBanned[u]
    IN
    /\ At(r, "flag")
    /\ shadowBanned' = IF hit THEN [shadowBanned EXCEPT ![u] = TRUE] ELSE shadowBanned
    /\ IF hit THEN Goto(r, [Idle EXCEPT !.at = "hide", !.user = u]) ELSE Finish(r)
    /\ UNCHANGED <<storeVars, role, heat, openReports, appeal>>

\* ... then hides the account's live posts.
Hide(r) ==
    /\ At(r, "hide")
    /\ SweepState(req[r].user, "live", "shadow")
    /\ Finish(r)
    /\ UNCHANGED <<accountVars, openReports, appeal>>

\* unshadow_ban clears the flag if it is set ...
Unflag(r) ==
    LET u == req[r].user
        hit == u \in alive /\ shadowBanned[u]
    IN
    /\ At(r, "unflag")
    /\ shadowBanned' = IF hit THEN [shadowBanned EXCEPT ![u] = FALSE] ELSE shadowBanned
    /\ IF hit THEN Goto(r, [Idle EXCEPT !.at = "unhide", !.user = u]) ELSE Finish(r)
    /\ UNCHANGED <<storeVars, role, heat, openReports, appeal>>

\* ... then shows the account's hidden posts again.
Unhide(r) ==
    /\ At(r, "unhide")
    /\ SweepState(req[r].user, "shadow", "live")
    /\ Finish(r)
    /\ UNCHANGED <<accountVars, openReports, appeal>>

----------------------------------------------------------------------------
(* admin.rs                                                                *)

\* patch_post: an admin's decision on any post, trashed ones included.  Approving
\* and removing go on to settle the reports on it.
PatchPost(r, a, p, s) ==
    /\ Serves("patch_post")
    /\ At(r, "idle")
    /\ Administrator(a)
    /\ s \in {"live", "quarantine", "removed"}
    /\ SetState(p, ModState, s)
    /\ IF s = "quarantine"
       THEN UNCHANGED req
       ELSE Goto(r, [Idle EXCEPT !.at = "settle", !.user = post[p].author, !.post = p, !.state = s])
    /\ UNCHANGED <<accountVars, openReports, appeal>>

\* Every open report on the post is resolved; a removal charges the author 5 points.
Settle(r) ==
    LET f == req[r] IN
    /\ At(r, "settle")
    /\ openReports' = {x \in openReports : x[2] # f.post}
    /\ IF f.state = "removed"
       THEN Goto(r, [Idle EXCEPT !.at = "offense", !.user = f.user, !.post = f.post, !.points = 5])
       ELSE Finish(r)
    /\ UNCHANGED <<storeVars, accountVars, appeal>>

\* patch_user: suspend an account or make it a member again, never an admin's.
PatchUser(r, a, u, s) ==
    /\ Serves("patch_user")
    /\ At(r, "idle")
    /\ Administrator(a)
    /\ a # u
    /\ u \in alive
    /\ role[u] # "admin"
    /\ s \in {"suspended", "member"}
    /\ role' = [role EXCEPT ![u] = s]
    /\ IF s = "suspended" THEN Goto(r, [Idle EXCEPT !.at = "revoke", !.user = u]) ELSE UNCHANGED req
    /\ UNCHANGED <<storeVars, shadowBanned, heat, openReports, appeal>>

\* patch_user_shadow
AdminShadow(r, a, u, ban) ==
    /\ Serves(IF ban THEN "shadow" ELSE "unshadow")
    /\ At(r, "idle")
    /\ Administrator(a)
    /\ a # u
    /\ Goto(r, [Idle EXCEPT !.at = IF ban THEN "flag" ELSE "unflag", !.user = u])
    /\ UNCHANGED <<storeVars, accountVars, openReports, appeal>>

----------------------------------------------------------------------------
(* appeals.rs                                                              *)

\* create_account: without a session, for a suspended account; create: the author of
\* a quarantined or removed post.  Both read first and insert later.
BeginAppeal(r, u, p) ==
    /\ Serves("appeal")
    /\ At(r, "idle")
    /\ IF p = None
       THEN u \in alive /\ role[u] = "suspended"
       ELSE /\ Active(u)
            /\ Undeleted(p)
            /\ post[p].author = u
            /\ post[p].state \in {"quarantine", "removed"}
    /\ Goto(r, [Idle EXCEPT !.at = "appeal", !.user = u, !.post = p])
    /\ UNCHANGED <<storeVars, accountVars, openReports, appeal>>

\* One open appeal per account and target; a second one, or one whose account or post
\* has gone, inserts nothing.  Bound: so does one that finds no row left in Appeals.
FileAppeal(r) ==
    LET row == [status |-> "open", who |-> req[r].user, post |-> req[r].post] IN
    /\ At(r, "appeal")
    /\ \/ /\ row.who \in alive /\ row.post \in rows \cup {None}
          /\ \A i \in Appeals : appeal[i] # row
          /\ \E i \in Appeals : /\ appeal[i] = Unfiled
                                /\ appeal' = [appeal EXCEPT ![i] = row]
       \/ /\ \/ ~(row.who \in alive /\ row.post \in rows \cup {None})
             \/ \E i \in Appeals : appeal[i] = row
             \/ \A i \in Appeals : appeal[i] # Unfiled
          /\ UNCHANGED appeal
    /\ Finish(r)
    /\ UNCHANGED <<storeVars, accountVars, openReports>>

\* resolve: close an open appeal; granting goes on to lift what was appealed.
ResolveAppeal(r, a, i, grant) ==
    LET x == appeal[i] IN
    /\ Serves("appeal")
    /\ At(r, "idle")
    /\ Administrator(a)
    /\ x.status = "open"
    /\ appeal' = [appeal EXCEPT ![i].status = IF grant THEN "granted" ELSE "denied"]
    /\ IF grant
       THEN Goto(r, [Idle EXCEPT !.at = IF x.post = None THEN "readmit" ELSE "reinstate",
                     !.user = x.who, !.post = x.post])
       ELSE UNCHANGED req
    /\ UNCHANGED <<storeVars, accountVars, openReports>>

\* A granted account appeal makes a suspended account a member.
Readmit(r) ==
    LET u == req[r].user IN
    /\ At(r, "readmit")
    /\ role' = IF u \in alive /\ role[u] = "suspended"
               THEN [role EXCEPT ![u] = "member"] ELSE role
    /\ Finish(r)
    /\ UNCHANGED <<storeVars, shadowBanned, heat, openReports, appeal>>

\* A granted post appeal makes a moderated post live and settles its reports.
Reinstate(r) ==
    LET p == req[r].post IN
    /\ At(r, "reinstate")
    /\ \/ /\ SetState(p, ModState \ {"live"}, "live")
          /\ Goto(r, [Idle EXCEPT !.at = "settle", !.user = req[r].user, !.post = p])
       \/ /\ ~(p \in rows /\ post[p].state # "live")
          /\ Finish(r)
          /\ UNCHANGED storeVars
    /\ UNCHANGED <<accountVars, openReports, appeal>>

----------------------------------------------------------------------------
(* users.rs, cleanup.rs, the clock and the network.                        *)

\* Foreign keys of the appeals table are ON DELETE CASCADE.
CascadeAppeals(gone) ==
    appeal' = [i \in Appeals |-> IF i \in gone
                                 THEN [Unfiled EXCEPT !.status = "cascaded"]
                                 ELSE appeal[i]]

\* delete_me: never an admin.  Reports name the reporter by a foreign key and the
\* post by a bare id, so those against the account's posts stay.
DeleteAccount(u) ==
    /\ Serves("delete_me")
    /\ Active(u)
    /\ role[u] # "admin"
    /\ RemoveAccount(u)
    /\ role' = [role EXCEPT ![u] = "member"]
    /\ shadowBanned' = [shadowBanned EXCEPT ![u] = FALSE]
    /\ heat' = [heat EXCEPT ![u] = 0]
    /\ openReports' = {x \in openReports : x[1] # u}
    /\ CascadeAppeals({i \in Appeals : appeal[i].who = u})
    /\ UNCHANGED req

\* The hourly purge also deletes the reports on the posts it purges.
Purge ==
    /\ Serves("age")
    /\ PurgeTrash
    /\ openReports' = {x \in openReports : x[2] \notin Purgeable}
    /\ CascadeAppeals({i \in Appeals : appeal[i].post \in Purgeable})
    /\ UNCHANGED <<accountVars, req>>

\* Thirty days in the trash go by.
Age(p) ==
    /\ Serves("age")
    /\ Expire(p)
    /\ UNCHANGED modVars

\* Mutant of CoolDown: the decay is not clamped at zero.
CoolDownUnclamped(u) ==
    /\ Serves("cool")
    /\ heat[u] > -1
    /\ heat' = [heat EXCEPT ![u] = @ - 1]
    /\ UNCHANGED <<storeVars, role, shadowBanned, openReports, appeal, req>>

\* current_heat decays by a point a day.
CoolDown(u) ==
    /\ Serves("cool")
    /\ heat[u] > 0
    /\ heat' = [heat EXCEPT ![u] = @ - 1]
    /\ UNCHANGED <<storeVars, role, shadowBanned, openReports, appeal, req>>

\* A request is dropped at an await: the 30 second deadline, a client that hangs up,
\* a crash.  What it has committed stays.
Cancel(r) ==
    /\ req[r].at \in Cancels \ {"idle"}
    /\ Finish(r)
    /\ UNCHANGED <<storeVars, accountVars, openReports, appeal>>

----------------------------------------------------------------------------
(* The specification.                                                      *)

\* A request in flight runs its next statement.
Step(r) ==
    \/ Stamp(r) \/ Insert(r) \/ InsertFails(r) \/ Fetch(r) \/ InsertRepost(r)
    \/ CountReports(r) \/ ReportQuarantine(r) \/ QuarantineMisses(r)
    \/ Offense(r) \/ AutoSuspend(r) \/ Revoke(r)
    \/ Flag(r) \/ Hide(r) \/ Unflag(r) \/ Unhide(r)
    \/ Settle(r) \/ FileAppeal(r) \/ Readmit(r) \/ Reinstate(r)

\* A request arrives.
Arrive(r) ==
    \E u \in Users :
        \/ \E vis \in PostVis, parent \in Posts \cup {None} : BeginCreate(r, u, vis, parent)
        \/ \E p \in Posts : EditPost(r, u, p) \/ RestorePost(r, u, p)
                            \/ BeginRepost(r, u, p) \/ FileReport(r, u, p)
        \/ \E p \in Posts, s \in ModState : PatchPost(r, u, p, s)
        \/ \E v \in Users, s \in Roles : PatchUser(r, u, v, s)
        \/ \E v \in Users, ban \in BOOLEAN : AdminShadow(r, u, v, ban)
        \/ \E p \in Posts \cup {None} : BeginAppeal(r, u, p)
        \/ \E i \in Appeals, grant \in BOOLEAN : ResolveAppeal(r, u, i, grant)

\* A request of a single statement.
Single ==
    \/ \E u \in Users, p \in Posts : DeletePost(u, p)
    \/ \E a, u \in Users, p \in Posts : ResolveReport(a, u, p)
    \/ \E u \in Users : DeleteAccount(u) \/ CoolDown(u)
    \/ \E p \in Posts : Age(p)
    \/ Purge

Next == Single \/ \E r \in Requests : Arrive(r) \/ Step(r) \/ Cancel(r)

Spec == Init /\ [][Next]_vars

\* A handler that is neither dropped nor stuck gets its next statement run.
FairSpec == Spec /\ \A r \in Requests : WF_vars(Step(r))

----------------------------------------------------------------------------
(* Properties of every instance.                                           *)

\* A reply never reaches further than the post it answers: reply_visibility_allowed,
\* checked when the request begins, still holds of the row inserted later.
ReplyNotBroader ==
    \A p \in rows : post[p].parent # None => Rank(post[p].vis) <= Rank(post[post[p].parent].vis)

\* Whatever is reported, removed or escalated, no admin account is ever suspended,
\* shadow-banned or deleted.
AdminsUntouchable ==
    \A a \in Admins : a \in alive /\ role[a] = "admin" /\ ~shadowBanned[a]

\* A moderator's verdict is not laundered through a shadow ban and its lifting, a
\* restore or a report: a quarantined or removed post goes live only by a decision
\* that also settles the reports on it, and no sweep ever re-labels it 'shadow'.
VerdictNotLaundered ==
    [][\A p \in rows \cap rows' :
          post[p].state \in {"quarantine", "removed"} =>
             /\ post'[p].state # "shadow"
             /\ post'[p].state = "live" =>
                   \E r \in Requests : req'[r].at = "settle" /\ req'[r].post = p]_vars

\* "No repost-of-repost chains": checked when the request begins, it holds of every row,
\* however requests interleave and whatever is purged.
NoRepostChains ==
    \A p \in rows : post[p].repostOf # None => post[post[p].repostOf].repostOf = None

----------------------------------------------------------------------------
(* Properties of instances that leave some operations out; the runs say which. *)

\* When nothing is in flight, an account that is not shadow-banned has no hidden posts.
ShadowMatchesFlag ==
    Quiet => \A p \in rows : post[p].state = "shadow" => shadowBanned[post[p].author]

\* No report is lost to another in flight: once nothing is in flight, a post that the
\* threshold was reached for is not live (where nothing puts a post back).
NoMissedQuarantine ==
    Quiet => \A p \in rows : /\ post[p].state = "live"
                             /\ role[post[p].author] # "admin"
                             => Cardinality(OpenOn(p)) < ReportThreshold

\* Two offenses that cross a threshold together still escalate: once nothing is in
\* flight, an account at the suspend threshold is suspended and one at the shadow
\* threshold is at least shadow-banned (where no admin lifts either).
EscalationEnforced ==
    Quiet => \A u \in alive \ Admins :
                /\ SuspendThreshold > 0 /\ heat[u] >= SuspendThreshold => role[u] = "suspended"
                /\ ShadowThreshold > 0 /\ heat[u] >= ShadowThreshold
                      => shadowBanned[u] \/ role[u] = "suspended"

\* Under FairSpec, a post that enough accounts report does come down, or its reports
\* are settled: no interleaving of counts, updates and approvals leaves it up for good.
ReportedPostComesDown ==
    \A p \in Posts :
       /\ p \in rows /\ post[p].state = "live" /\ role[post[p].author] # "admin"
       /\ Cardinality(OpenOn(p)) >= ReportThreshold
       ~> \/ p \notin rows \/ post[p].state # "live"
          \/ Cardinality(OpenOn(p)) < ReportThreshold
=============================================================================
