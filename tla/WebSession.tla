---------------------------- MODULE WebSession -----------------------------
(***************************************************************************)
(* A tab of the web client from its first probe on: who it believes is     *)
(* signed in, the ways of signing in and out, and the one live stream that *)
(* the layout keeps open for whoever is signed in.  The cookie belongs to  *)
(* the browser and is out of the script's reach; `me` is what the tab last *)
(* heard, cached over reloads.  Answers come in any order.                 *)
(***************************************************************************)
EXTENDS Integers, Sequences, WebResource, Cookies

CONSTANT
    MaxSteps        \* bound: what the user does and what the server breaks, together

ASSUME SessionAssumption == MaxSteps \in Nat

VARIABLES
    tab,            \* what the script of the tab knows
    cookie,         \* the session of the browser
    asking,         \* requests in flight, other than the badge's
    steps

sessionVars == <<tab, cookie, asking, steps>>

(* The states of an EventSource; "none" when there is no object. *)
StreamStates == {"none", "connecting", "open", "closed"}

Pages == {"app", "login", "invite", "confirm", "twofa"}

Step == steps < MaxSteps /\ steps' = steps + 1

Ask(what) == AskAs(what, cookie)

-----------------------------------------------------------------------------
(* The layout's stream. *)

Connect(t) ==
    IF t.es # "none" \/ t.me = NoOne THEN t ELSE [t EXCEPT !.es = "connecting"]

(* mutant: the timer of the reconnection outlives the session *)
DisconnectTimerLeft(t) == [t EXCEPT !.es = "none"]

Disconnect(t) == [t EXCEPT !.es = "none", !.timer = FALSE]

(* `setMe`, its effect on the stream and on the badge's source. *)
SetCachedMe(t, who) ==
    IF who = NoOne
    THEN IF t.me = NoOne THEN t
         ELSE Disconnect([t EXCEPT !.me = NoOne, !.unread = SourceGone(@)])
    ELSE Connect([t EXCEPT !.me = who, !.unread = Fetch(@, cookie)])

RefetchUnread(t) == IF t.me = NoOne THEN t ELSE [t EXCEPT !.unread = Fetch(@, cookie)]

StreamOpens ==
    /\ tab.es = "connecting" /\ Admitted(cookie)
    /\ tab' = [tab EXCEPT !.es = "open"]
    /\ UNCHANGED <<cookie, asking, steps>>

(* A transient drop, which the browser retries by itself. *)
StreamDrops ==
    /\ Step /\ tab.es = "open"
    /\ tab' = [tab EXCEPT !.es = "connecting"]
    /\ UNCHANGED <<cookie, asking>>

(* The server goes away, or answers with a status that is not retried. *)
StreamCloses ==
    /\ \/ Step /\ tab.es \in {"connecting", "open"}
       \/ tab.es = "connecting" /\ ~Admitted(cookie) /\ UNCHANGED steps
    /\ tab' = [tab EXCEPT !.es = "closed"]
    /\ UNCHANGED <<cookie, asking>>

(* mutant: the closed source stays the current one *)
OnErrorKept(t) == [t EXCEPT !.timer = @ \/ t.me # NoOne]

(* The closed source is given up, and a timer set unless one runs. *)
OnError(t) == [t EXCEPT !.es = "none", !.timer = @ \/ t.me # NoOne]

StreamError ==
    /\ tab.es = "closed"
    /\ tab' = OnError(tab)
    /\ UNCHANGED <<cookie, asking, steps>>

ReconnectTimer ==
    /\ tab.timer
    /\ tab' = Connect([tab EXCEPT !.timer = FALSE])
    /\ UNCHANGED <<cookie, asking, steps>>

UnreadLands ==
    /\ Answered(tab.unread)
    /\ tab' = [tab EXCEPT !.unread = Land(@)]
    /\ UNCHANGED <<cookie, asking, steps>>

-----------------------------------------------------------------------------
(* What is on screen. *)

(* The links of the sidebar and the buttons of the bars. *)
LayoutView ==
    {"timeline", "search", "federated", "videos", "notifications", "docs"}
    \cup (IF tab.me = NoOne THEN {"login"}
          ELSE {"dm", "profile", "bookmarks", "trash", "settings", "compose", "logout"})
    \cup (IF tab.composing THEN {"composer", "close"} ELSE {})

LoginView ==
    IF tab.sent THEN {"sent"}
    ELSE {"oauth"} \cup (IF tab.busy THEN {} ELSE {"submit"})
                   \cup (IF tab.busy \/ tab.pkBusy THEN {} ELSE {"passkey"})

InviteView ==
    CASE Loading(tab.check) -> {"loading"}
      [] ~Loading(tab.check) /\ ~(Shown(tab.check) /\ tab.check.value[1]) -> {"invalid"}
      [] OTHER -> IF tab.sent THEN {"sent"} ELSE IF tab.busy THEN {"busy"} ELSE {"submit"}

ConfirmView == IF tab.done THEN {"done"} ELSE IF tab.busy THEN {"busy"} ELSE {"confirm"}

TwoFAView == IF tab.me = NoOne THEN {"login_first"} ELSE IF tab.busy THEN {"busy"} ELSE {"submit"}

-----------------------------------------------------------------------------
(* A page load: `me` comes from the cache, the layout probes, the page does what it does at
   mount.  Links within the application keep the tab. *)

Loaded(page, who, jar) ==
    Connect([page |-> page, me |-> who, es |-> "none", timer |-> FALSE,
             unread |-> IF who = NoOne THEN Unresolved ELSE Fetch(Unresolved, jar),
             check |-> IF page = "invite" THEN Fetch(Unresolved, "code") ELSE Unresolved,
             busy |-> FALSE, pkBusy |-> FALSE, sent |-> FALSE, done |-> FALSE, err |-> FALSE,
             composing |-> FALSE])

MountProbes(page, jar) ==
    {AskAs("boot", jar)} \cup (IF page = "confirm" THEN {AskAs("live", jar)} ELSE {})

PageLoad(page) ==
    /\ Step
    /\ tab' = Loaded(page, tab.me, cookie)
    /\ asking' = MountProbes(page, cookie)
    /\ UNCHANGED cookie

Show(t, page) == [t EXCEPT !.page = page, !.busy = FALSE, !.pkBusy = FALSE, !.sent = FALSE,
                           !.done = FALSE, !.err = FALSE]

OpenLogin ==
    /\ Step /\ "login" \in LayoutView /\ tab.page # "login"
    /\ tab' = Show(tab, "login")
    /\ UNCHANGED <<cookie, asking>>

(* The composer over the page: a button, the command palette; Escape, posting. *)
OpenComposer ==
    /\ Step /\ "compose" \in LayoutView /\ ~tab.composing
    /\ tab' = [tab EXCEPT !.composing = TRUE]
    /\ UNCHANGED <<cookie, asking>>

CloseComposer ==
    /\ "close" \in LayoutView
    /\ tab' = [tab EXCEPT !.composing = FALSE]
    /\ UNCHANGED <<cookie, asking, steps>>

-----------------------------------------------------------------------------
(* Who am I: the answer, whenever it comes, replaces `me`; an error leaves it. *)

ProbeSession(t, q) ==
    CASE q.state = "ok" -> SetCachedMe(t, q.answer)
      [] q.state = "denied" -> SetCachedMe(t, NoOne)
      [] q.state = "failed" -> t

Boot(q) ==
    /\ q.what = "boot" /\ q.state # "sent"
    /\ tab' = IF q.state = "ok" THEN RefetchUnread(ProbeSession(tab, q)) ELSE ProbeSession(tab, q)
    /\ asking' = asking \ {q}
    /\ UNCHANGED <<cookie, steps>>

(* The confirmation page goes home at once for someone signed in. *)
LiveProbe(q) ==
    /\ q.what = "live" /\ q.state # "sent"
    /\ LET t == ProbeSession(tab, q) IN
       tab' = IF q.state = "ok" /\ t.page = "confirm" THEN [t EXCEPT !.done = TRUE] ELSE t
    /\ asking' = asking \ {q}
    /\ UNCHANGED <<cookie, steps>>

(* The probe that follows a login by passkey or link. *)
LoginProbe(q) ==
    /\ q.what \in {"probe_passkey", "probe_confirm"} /\ q.state # "sent"
    /\ LET t == ProbeSession(tab, q) IN
       tab' = IF q.what = "probe_passkey" THEN Show(t, "app")
              ELSE [t EXCEPT !.done = TRUE, !.busy = FALSE]
    /\ asking' = asking \ {q}
    /\ UNCHANGED <<cookie, steps>>

(* The page leaves once its message was read: for the second factor if the session waits. *)
ConfirmNav ==
    /\ tab.page = "confirm" /\ "done" \in ConfirmView
    /\ tab' = Show(tab, IF cookie.pending THEN "twofa" ELSE "app")
    /\ UNCHANGED <<cookie, asking, steps>>

-----------------------------------------------------------------------------
(* The forms. *)

SubmitEmail(page, view) ==
    /\ Step /\ tab.page = page /\ "submit" \in view
    /\ tab' = [tab EXCEPT !.busy = TRUE, !.err = FALSE]
    /\ asking' = asking \cup {Ask("request")}
    /\ UNCHANGED cookie

LoginSubmit == SubmitEmail("login", LoginView)
InviteSubmit == SubmitEmail("invite", InviteView)

Requested(q) ==
    /\ q.what = "request" /\ q.state # "sent"
    /\ tab' = [tab EXCEPT !.busy = FALSE, !.sent = q.state = "ok", !.err = q.state # "ok"]
    /\ asking' = asking \ {q}
    /\ UNCHANGED <<cookie, steps>>

InviteChecked ==
    /\ Answered(tab.check)
    /\ tab' = [tab EXCEPT !.check = Land(@)]
    /\ UNCHANGED <<cookie, asking, steps>>

(* A passkey: two requests around the prompt, whose dismissal is no error. *)
Passkey ==
    /\ Step /\ tab.page = "login" /\ "passkey" \in LoginView
    /\ tab' = [tab EXCEPT !.pkBusy = TRUE, !.err = FALSE]
    /\ asking' = asking \cup {Ask("passkey_start")}
    /\ UNCHANGED cookie

LoginWithPasskey(q) ==
    /\ q.what = "passkey_start" /\ q.state # "sent"
    /\ \/ /\ q.state = "ok"
          /\ asking' = (asking \ {q}) \cup {Ask("passkey")}
          /\ UNCHANGED tab
       \/ /\ asking' = asking \ {q}
          /\ tab' = [tab EXCEPT !.pkBusy = FALSE, !.err = q.state # "ok"]
    /\ UNCHANGED <<cookie, steps>>

PasskeyDone(q) ==
    /\ q.what = "passkey" /\ q.state # "sent"
    /\ IF q.state = "ok"
       THEN asking' = (asking \ {q}) \cup {Ask("probe_passkey")} /\ UNCHANGED tab
       ELSE asking' = asking \ {q} /\ tab' = [tab EXCEPT !.pkBusy = FALSE, !.err = TRUE]
    /\ UNCHANGED <<cookie, steps>>

Confirm ==
    /\ Step /\ tab.page = "confirm" /\ "confirm" \in ConfirmView
    /\ tab' = [tab EXCEPT !.busy = TRUE, !.err = FALSE]
    /\ asking' = asking \cup {Ask("verify")}
    /\ UNCHANGED cookie

Verified(q) ==
    /\ q.what = "verify" /\ q.state # "sent"
    /\ IF q.state = "ok"
       THEN asking' = (asking \ {q}) \cup {Ask("probe_confirm")} /\ UNCHANGED tab
       ELSE asking' = asking \ {q} /\ tab' = [tab EXCEPT !.busy = FALSE, !.err = TRUE]
    /\ UNCHANGED <<cookie, steps>>

Challenge ==
    /\ Step /\ tab.page = "twofa" /\ "submit" \in TwoFAView
    /\ tab' = [tab EXCEPT !.busy = TRUE, !.err = FALSE]
    /\ asking' = asking \cup {Ask("challenge")}
    /\ UNCHANGED cookie

(* A code accepted reloads the whole page. *)
Challenged(q) ==
    /\ q.what = "challenge" /\ q.state # "sent"
    /\ IF q.state = "ok"
       THEN tab' = Loaded("app", tab.me, cookie) /\ asking' = MountProbes("app", cookie)
       ELSE tab' = [tab EXCEPT !.busy = FALSE, !.err = TRUE] /\ asking' = asking \ {q}
    /\ UNCHANGED <<cookie, steps>>

(* A provider's site takes the page away and comes back with a session. *)
StartOAuth ==
    /\ Step /\ tab.page = "login" /\ "oauth" \in LoginView
    /\ \E u \in Users, pending \in BOOLEAN :
          /\ cookie' = Session(u, pending)
          /\ tab' = Loaded(IF pending THEN "twofa" ELSE "app", tab.me, cookie')
          /\ asking' = MountProbes("app", cookie')

Logout ==
    /\ Step /\ "logout" \in LayoutView
    /\ asking' = asking \cup {Ask("logout")}
    /\ UNCHANGED <<tab, cookie>>

LoggedOut(q) ==
    /\ q.what = "logout" /\ q.state # "sent"
    /\ tab' = SetCachedMe(tab, NoOne)
    /\ asking' = asking \ {q}
    /\ UNCHANGED <<cookie, steps>>

-----------------------------------------------------------------------------
(* The server.  A request it answers may set the browser's cookie. *)

Answers(q, state, who) == (asking \ {q}) \cup {AnswerTo(q, state, who)}

ServeProbe(q) ==
    /\ q.what \in {"boot", "live", "probe_passkey", "probe_confirm"} /\ q.state = "sent"
    /\ \/ MayAdmit(q.as, cookie) /\ asking' = Answers(q, "ok", q.as.who)
       \/ ~MustAdmit(q.as, cookie) /\ asking' = Answers(q, "denied", NoOne)
    /\ UNCHANGED <<tab, cookie, steps>>

ServeLogin(q) ==
    /\ q.what \in {"passkey", "verify"} /\ q.state = "sent"
    /\ \E u \in Users, pending \in BOOLEAN : cookie' = Session(u, pending)
    /\ asking' = Answers(q, "ok", NoOne)
    /\ UNCHANGED <<tab, steps>>

(* The challenge clears the session it came with, and refuses a wrong code or a dead session. *)
ServeChallenge(q) ==
    /\ q.what = "challenge" /\ q.state = "sent"
    /\ \/ /\ q.as.valid
          /\ asking' = Answers(q, "ok", NoOne)
          /\ cookie' = IF q.as = cookie THEN [cookie EXCEPT !.pending = FALSE] ELSE cookie
       \/ asking' = Answers(q, "failed", NoOne) /\ UNCHANGED cookie
    /\ UNCHANGED <<tab, steps>>

ServeLogout(q) ==
    /\ q.what = "logout" /\ q.state = "sent"
    /\ cookie' = NoCookie
    /\ asking' = Answers(q, "ok", NoOne)
    /\ UNCHANGED <<tab, steps>>

ServeOther(q) ==
    /\ q.what \in {"request", "passkey_start"} /\ q.state = "sent"
    /\ asking' = Answers(q, "ok", NoOne)
    /\ UNCHANGED <<tab, cookie, steps>>

RequestFails(q) ==
    /\ Step /\ q.state \in {"sent", "ok"}
    /\ asking' = Answers(q, "failed", NoOne)
    /\ UNCHANGED <<tab, cookie>>

(* The count of the session that the request carried; without one, or on failure, zero. *)
ServeUnread ==
    /\ Pending(tab.unread)
    /\ LET as == KeyOf(tab.unread) IN
       \/ MayAdmit(as, cookie) /\ tab' = [tab EXCEPT !.unread = Answer(@, as.who)]
       \/ ~MustAdmit(as, cookie) /\ tab' = [tab EXCEPT !.unread = Answer(@, "zero")]
    /\ UNCHANGED <<cookie, asking, steps>>

ServeCheck ==
    /\ Pending(tab.check)
    /\ \E valid \in BOOLEAN : tab' = [tab EXCEPT !.check = Answer(@, valid)]
    /\ UNCHANGED <<cookie, asking, steps>>

(* A suspension or another device ends the session. *)
Revoke ==
    /\ Step /\ cookie.valid
    /\ cookie' = [cookie EXCEPT !.valid = FALSE]
    /\ UNCHANGED <<tab, asking>>

-----------------------------------------------------------------------------

(* The first load, at home, at the login or by the link of a mail, with what earlier visits
   left in the cache and in the browser. *)
FirstLoad(page, who, jar) ==
    /\ cookie = jar
    /\ tab = Loaded(page, who, jar)
    /\ asking = MountProbes(page, jar)
    /\ steps = 0

SessionInit ==
    \E page \in {"app", "login", "confirm"}, who \in People, jar \in Jars : FirstLoad(page, who, jar)

SessionNext ==
    \/ StreamOpens \/ StreamDrops \/ StreamCloses \/ StreamError \/ ReconnectTimer
    \/ UnreadLands \/ ServeUnread \/ ServeCheck \/ InviteChecked
    \/ \E page \in Pages : PageLoad(page)
    \/ OpenLogin \/ OpenComposer \/ CloseComposer
    \/ LoginSubmit \/ InviteSubmit \/ Passkey \/ Confirm \/ ConfirmNav \/ Challenge
    \/ StartOAuth \/ Logout \/ Revoke
    \/ \E q \in asking :
          \/ Boot(q) \/ LiveProbe(q) \/ LoginProbe(q) \/ Requested(q)
          \/ LoginWithPasskey(q) \/ PasskeyDone(q) \/ Verified(q) \/ Challenged(q) \/ LoggedOut(q)
          \/ ServeProbe(q) \/ ServeLogin(q) \/ ServeChallenge(q) \/ ServeLogout(q)
          \/ ServeOther(q) \/ RequestFails(q)

SessionSpec == SessionInit /\ [][SessionNext]_sessionVars

(* The browser connects, delivers errors and fires timers. *)
StreamFairness ==
    /\ WF_sessionVars(StreamOpens) /\ WF_sessionVars(StreamError)
    /\ WF_sessionVars(ReconnectTimer)

FairSessionSpec == SessionSpec /\ StreamFairness

-----------------------------------------------------------------------------
(* The stream goes with the session, whatever drops, reloads, logins, logouts and late
   probes do: someone signed in has a stream, or a timer that will open one, and nobody
   has neither.  [Layout 138-205: connect, onerror, disconnect and the effect on me()] *)
StreamFollowsMe ==
    IF tab.me = NoOne
    THEN tab.es = "none" /\ ~tab.timer
    ELSE tab.es # "none" \/ tab.timer

(* What a reader of the tab has of the feed. *)
FeedOf(t) ==
    CASE t.es = "none" /\ ~t.timer -> "off"
      [] t.es = "open" -> "up"
      [] OTHER -> "down"

(* The tab's stream is the live feed that LiveFeed describes: it is on for whoever is signed
   in and for nobody else, it opens only for a session the server admits, and after every
   drop, closure and restart of the server it comes back for as long as that session lives.
   [Layout 138-205; 174-191: "so the live surface survives a server restart"] *)
Feed == INSTANCE LiveFeed WITH
    Subscribers <- Users, Nobody <- NoOne,
    user <- tab.me, feed <- FeedOf(tab), service <- Admitted(cookie)
StreamIsLiveFeed == Feed!FeedSpec

(* Someone who comes to the second-factor page with a session that waits for it is offered
   the form, once nothing is in flight.  [TwoFA 31-65; auth.rs:306-308; Confirm 35] *)
SecondFactorOffered ==
    tab.page = "twofa" /\ cookie.valid /\ cookie.pending /\ asking = {}
        => "submit" \in TwoFAView
=============================================================================
