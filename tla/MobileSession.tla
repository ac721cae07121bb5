--------------------------- MODULE MobileSession ---------------------------
(***************************************************************************)
(* The mobile app from launch on: the cached user, the probe, the ways of  *)
(* signing in and out, the storage writes that trail behind, and the two   *)
(* polls, of the unread counts behind the tab badges and of the second     *)
(* factor in the settings.  The process may be killed between any two      *)
(* steps; the cookie jar and the storage survive.                          *)
(***************************************************************************)
EXTENDS Integers, Sequences, FiniteSets, Cookies

CONSTANTS
    Badges,         \* the tabs that carry a count, "notif" and "dm"
    MaxTaps,        \* bound: taps, launches, failures and changes elsewhere, together
    MaxPolls,       \* bound: refreshes of the badges in flight at once
    MaxCalls        \* bound: other requests in flight when a screen sends one more

ASSUME MobileAssumption == MaxTaps \in Nat /\ MaxPolls \in Nat \ {0} /\ MaxCalls \in Nat

VARIABLES
    phone,          \* the process: `current` of auth.ts, the screen and its state, the badges
    disk,           \* the stored user
    writes,         \* storage writes on their way, each with what awaits it
    jar,            \* the native cookie jar
    calls,          \* requests in flight, but for the badges'
    polls,          \* refreshes of the badges in flight
    home,           \* the server: unread counts and second factors
    taps

mobileVars == <<phone, disk, writes, jar, calls, polls, home, taps>>

Entries == {"tabs", "verify", "invite", "settings", "edit"}     \* where a launch can land
Kinds == {"boot", "login", "home"}          \* what follows a probe

Tap == taps < MaxTaps /\ taps' = taps + 1
Stay(vars) == UNCHANGED <<disk, writes, jar, polls, home>> /\ UNCHANGED vars
Call(what) == AskAs(what, jar)
Sent(what) == Cardinality(calls) < MaxCalls /\ calls' = calls \cup {Call(what)}
Landed(q) == calls' = calls \ {q}

(* A process that has not read the storage yet; nothing is rendered. *)
Launched(entry) ==
    [booted |-> FALSE, me |-> NoOne, screen |-> entry, tabs |-> FALSE, badge |-> {},
     busy |-> FALSE, pkBusy |-> FALSE, oauthBusy |-> FALSE, sent |-> FALSE, err |-> FALSE,
     invite |-> "loading", twofa |-> "unknown", deleting |-> FALSE, exporting |-> FALSE,
     registered |-> FALSE]

-----------------------------------------------------------------------------
(* The badges. *)

Poll(cookie) == [as |-> cookie, got |-> [k \in Badges |-> "asked"]]
Polls == [as : CookieSet, got : [Badges -> {"asked", "zero", "some"}]]

(* mutant: signed out, the counts stay as they are *)
RefreshUnreadKept ==
    /\ phone.me # NoOne /\ Cardinality(polls) < MaxPolls
    /\ polls' = polls \cup {Poll(jar)} /\ UNCHANGED phone

RefreshUnread ==
    \/ /\ phone.me = NoOne
       /\ phone' = [phone EXCEPT !.badge = {}] /\ UNCHANGED polls
    \/ /\ phone.me # NoOne /\ Cardinality(polls) < MaxPolls
       /\ polls' = polls \cup {Poll(jar)} /\ UNCHANGED phone

(* Every 20 s once the tab bar was mounted, and at its mount. *)
PollTick ==
    /\ phone.tabs
    /\ RefreshUnread
    /\ UNCHANGED <<disk, writes, jar, calls, home, taps>>

(* Each of the two counts is read on its own; a failure counts as none. *)
Counted(p, k) ==
    IF k \in home.unread[p.as.who] THEN "some" ELSE "zero"

PollServed(p) ==
    /\ \E k \in Badges, n \in {"some", "zero"} :
          /\ p.got[k] = "asked"
          /\ \/ MayAdmit(p.as, jar) /\ n = Counted(p, k) /\ UNCHANGED taps
             \/ ~MustAdmit(p.as, jar) /\ n = "zero" /\ UNCHANGED taps
             \/ Tap /\ n = "zero"
          /\ polls' = (polls \ {p}) \cup {[p EXCEPT !.got[k] = n]}
    /\ UNCHANGED <<phone, disk, writes, jar, calls, home>>

PollLands(p) ==
    /\ \A k \in Badges : p.got[k] # "asked"
    /\ phone' = [phone EXCEPT !.badge = {k \in Badges : p.got[k] = "some"}]
    /\ polls' = polls \ {p}
    /\ UNCHANGED <<disk, writes, jar, calls, home, taps>>

PollMoves(p) == p \in polls /\ (PollServed(p) \/ PollLands(p))

-----------------------------------------------------------------------------
(* Who am I.  `current` changes at once, the storage later, and what awaited the change,
   a navigation or the push registration, once the storage has it. *)

(* mutant: signing out leaves the stored user *)
SetMeKept(p, who, next) ==
    /\ phone' = [p EXCEPT !.me = who]
    /\ writes' = IF who = NoOne THEN writes ELSE Append(writes, [me |-> who, next |-> next])

SetMe(p, who, next) ==
    /\ phone' = [p EXCEPT !.me = who]
    /\ writes' = Append(writes, [me |-> who, next |-> next])

Reset(p) == [p EXCEPT !.busy = FALSE, !.pkBusy = FALSE, !.oauthBusy = FALSE, !.sent = FALSE,
                      !.err = FALSE, !.deleting = FALSE, !.exporting = FALSE,
                      !.twofa = "unknown"]
GoTo(p, screen) == [Reset(p) EXCEPT !.screen = screen, !.tabs = @ \/ screen = "tabs"]

(* The steps after a probe or a storage write. *)
Continue(p, next) ==
    CASE next \in {"login", "home"} -> GoTo(p, "tabs")
      [] next = "back" -> GoTo(p, "settings")
      [] OTHER -> p
NextCalls(next) == IF next = "register" /\ ~phone.registered THEN {Call("device")} ELSE {}

(* The requests of a screen at its mount; what a screen only displays is left out. *)
MountCalls(screen) ==
    CASE screen = "verify"   -> {Call("verify")}
      [] screen = "invite"   -> {Call("check")}
      [] OTHER -> {}

Hydrate ==
    /\ ~phone.booted
    /\ phone' = [phone EXCEPT !.booted = TRUE, !.me = disk, !.tabs = phone.screen = "tabs"]
    /\ calls' = calls \cup {Call("boot")} \cup MountCalls(phone.screen)
    /\ UNCHANGED <<disk, writes, jar, polls, home, taps>>

(* The process ends; writes and answers on their way are lost to it. *)
Kill ==
    /\ Tap
    /\ \E entry \in Entries : phone' = Launched(entry)
    /\ writes' = <<>> /\ calls' = {} /\ polls' = {}
    /\ UNCHANGED <<disk, jar, home>>

(* A storage write is done. *)
Stored ==
    /\ writes # <<>>
    /\ disk' = Head(writes).me /\ writes' = Tail(writes)
    /\ phone' = Continue(phone, Head(writes).next)
    /\ calls' = calls \cup NextCalls(Head(writes).next)
    /\ UNCHANGED <<jar, polls, home, taps>>

PhoneProbed(q, next) ==
    /\ \/ q.state = "ok" /\ SetMe(phone, q.answer, IF next = "boot" THEN "register" ELSE next)
       \/ q.state = "denied" /\ SetMe(phone, NoOne, next)
       \/ q.state = "failed" /\ phone' = Continue(phone, next) /\ UNCHANGED writes
    /\ Landed(q)
    /\ UNCHANGED <<disk, jar, polls, home, taps>>

Probed(q) ==
    \E next \in Kinds :
       /\ q.what = (IF next = "boot" THEN "boot" ELSE "probe_" \o next)
       /\ q.state # "sent"
       /\ PhoneProbed(q, next)

(* The device token goes to the server once per process, if the user grants it. *)
Registered(q) ==
    /\ q.what = "device" /\ q.state # "sent"
    /\ phone' = [phone EXCEPT !.registered = @ \/ q.state = "ok"]
    /\ Landed(q) /\ Stay(taps)

-----------------------------------------------------------------------------
(* The screens: what can be pressed. *)

LoginScreen ==
    IF phone.sent THEN {"close"}
    ELSE {"close"} \cup (IF phone.busy THEN {} ELSE {"submit"})
                   \cup (IF phone.oauthBusy THEN {} ELSE {"oauth"})
                   \cup (IF phone.pkBusy THEN {} ELSE {"passkey"})

TwoFaScreen == {"cancel"} \cup (IF phone.busy THEN {} ELSE {"verify"})

VerifyScreen == IF phone.err THEN {"login"} ELSE {}

InviteScreen ==
    {"close"} \cup (CASE phone.invite = "loading" -> {}
                      [] phone.invite = "valid" -> {"continue"}
                      [] phone.invite = "invalid" -> {"login"})

SettingsScreen ==
    {"back"} \cup
    (IF phone.me = NoOne THEN {}
     ELSE {"logout", "edit", "twofa"}
          \cup (IF phone.pkBusy THEN {} ELSE {"add_passkey", "remove_passkey"})
          \cup (IF phone.exporting THEN {} ELSE {"export"})
          \cup (IF phone.deleting THEN {"cancel"} ELSE {"delete"})
          \cup (IF phone.deleting /\ ~phone.busy THEN {"delete_confirm"} ELSE {}))

EditScreen == {"cancel", "avatar"} \cup (IF phone.busy THEN {} ELSE {"save"})

ScreenView ==
    IF ~phone.booted THEN {}
    ELSE CASE phone.screen = "tabs"     -> {"login", "settings"}
           [] phone.screen = "login"    -> LoginScreen
           [] phone.screen = "twofa"    -> TwoFaScreen
           [] phone.screen = "verify"   -> VerifyScreen
           [] phone.screen = "invite"   -> InviteScreen
           [] phone.screen = "settings" -> SettingsScreen
           [] phone.screen = "edit"     -> EditScreen

Press(screen, control) == phone.screen = screen /\ control \in ScreenView

(* Buttons that only lead to another screen. *)
Leads == {<<"tabs", "login", "login">>, <<"tabs", "settings", "settings">>,
          <<"login", "close", "tabs">>, <<"verify", "login", "login">>,
          <<"invite", "close", "tabs">>, <<"invite", "continue", "login">>,
          <<"invite", "login", "login">>, <<"settings", "back", "tabs">>,
          <<"settings", "edit", "edit">>, <<"edit", "cancel", "settings">>}

Follows ==
    /\ \E lead \in Leads :
          /\ Press(lead[1], lead[2])
          /\ phone' = GoTo(phone, lead[3])
          /\ calls' = calls \cup MountCalls(lead[3])
    /\ Tap /\ Stay(<<>>)

(* A tap on a notification leads to its target. *)
NotificationTap ==
    /\ Tap /\ phone.booted
    /\ phone' = GoTo(phone, "tabs")
    /\ Stay(calls)

(* Buttons that send one request, and the flag that keeps it from being sent twice. *)
Sends(screen, control, flag, what) ==
    /\ Tap /\ Press(screen, control)
    /\ phone' = (IF flag = "none" THEN phone ELSE [phone EXCEPT ![flag] = TRUE, !.err = FALSE])
    /\ Sent(what)
    /\ Stay(<<>>)

PhoneSubmit   == Sends("login", "submit", "busy", "request")
PhonePasskey  == Sends("login", "passkey", "pkBusy", "passkey_start")
PhoneVerify   == Sends("twofa", "verify", "busy", "challenge")
PhoneCancel   == Sends("twofa", "cancel", "none", "logout_home")
PhoneLogout   == Sends("settings", "logout", "none", "logout")
AddPasskey    == Sends("settings", "add_passkey", "pkBusy", "add_start")
RemovePasskey == Sends("settings", "remove_passkey", "none", "remove")
ExportData    == Sends("settings", "export", "exporting", "export")
DeleteAccount == Sends("settings", "delete_confirm", "busy", "delete")
PickAvatar    == Sends("edit", "avatar", "none", "upload")
SaveProfile   == Sends("edit", "save", "busy", "patch")

DangerZone ==
    /\ \E control \in {"delete", "cancel"} :
          /\ Press("settings", control)
          /\ phone' = [phone EXCEPT !.deleting = control = "delete"]
    /\ Stay(<<calls, taps>>)

(* The provider's page is opened and left again: with a code, or dismissed. *)
PhoneOAuth ==
    /\ Tap /\ Press("login", "oauth")
    /\ \/ phone' = [phone EXCEPT !.oauthBusy = TRUE, !.err = FALSE] /\ Sent("exchange")
       \/ phone' = [phone EXCEPT !.err = FALSE] /\ UNCHANGED calls
    /\ Stay(<<>>)

(* The settings ask at their mount and every 4 s whether the second factor is on. *)
StatusTick ==
    /\ phone.booted /\ phone.screen = "settings" /\ phone.me # NoOne
    /\ Sent("status") /\ UNCHANGED phone
    /\ Stay(taps)

-----------------------------------------------------------------------------
(* The answers.  A flag is lifted where its screen is still the one in front. *)

Flagged ==
    [request |-> <<"login", "busy">>, exchange |-> <<"login", "oauthBusy">>,
     passkey_start |-> <<"login", "pkBusy">>, passkey |-> <<"login", "pkBusy">>,
     verify |-> <<"verify", "busy">>, challenge |-> <<"twofa", "busy">>,
     add_start |-> <<"settings", "pkBusy">>, add |-> <<"settings", "pkBusy">>,
     export |-> <<"settings", "exporting">>, delete |-> <<"settings", "busy">>,
     patch |-> <<"edit", "busy">>]

Lift(q, err) ==
    LET screen == Flagged[q.what][1]
        flag   == Flagged[q.what][2] IN
    IF phone.screen = screen THEN [phone EXCEPT ![flag] = FALSE, !.err = err] ELSE phone

(* What an answer is followed by. *)
NextOf ==
    [passkey_start |-> "passkey", add_start |-> "add", exchange |-> "probe_login",
     passkey |-> "probe_login", verify |-> "probe_home", challenge |-> "probe_home",
     delete |-> "logout_home"]

Proceeds(q) ==
    /\ q.what \in DOMAIN NextOf /\ q.state = "ok"
    /\ calls' = (calls \ {q}) \cup {Call(NextOf[q.what])}
    /\ UNCHANGED phone /\ Stay(taps)

(* The passkey prompt is dismissed, which is no error. *)
Dismissed(q) ==
    /\ q.what \in {"passkey_start", "add_start"} /\ q.state = "ok"
    /\ phone' = Lift(q, FALSE)
    /\ Landed(q) /\ Stay(taps)

Refused(q) ==
    /\ q.what \in DOMAIN Flagged /\ q.state = "failed"
    /\ phone' = Lift(q, TRUE)
    /\ Landed(q) /\ Stay(taps)

(* A login whose session waits for the second factor goes to the challenge. *)
NeedsCode(q) ==
    /\ q.state = "pending"
    /\ phone' = GoTo(phone, "twofa")
    /\ Landed(q) /\ Stay(taps)

Finished(q) ==
    /\ q.what \in {"request", "add", "export"} /\ q.state = "ok"
    /\ phone' = IF q.what = "request" /\ phone.screen = "login"
                THEN [Lift(q, FALSE) EXCEPT !.sent = TRUE] ELSE Lift(q, FALSE)
    /\ Landed(q) /\ Stay(taps)

InviteChecks(q) ==
    /\ q.what = "check" /\ q.state # "sent"
    /\ phone' = [phone EXCEPT !.invite = IF q.state = "ok" THEN "valid" ELSE "invalid"]
    /\ Landed(q) /\ Stay(taps)

StatusLands(q) ==
    /\ q.what = "status" /\ q.state # "sent"
    /\ phone' = IF q.state \in {"on", "off"} /\ phone.screen = "settings"
                THEN [phone EXCEPT !.twofa = q.state] ELSE phone
    /\ Landed(q) /\ Stay(taps)

Shrugged(q) ==
    /\ q.what \in {"upload", "remove"} /\ q.state # "sent"
    /\ UNCHANGED phone /\ Landed(q) /\ Stay(taps)

(* The saved profile is laid over whoever is signed in by then. *)
ProfileSaved(q) ==
    /\ q.what = "patch" /\ q.state = "ok"
    /\ IF phone.me # NoOne THEN SetMe(phone, phone.me, "back")
       ELSE phone' = Continue(phone, "back") /\ UNCHANGED writes
    /\ Landed(q)
    /\ UNCHANGED <<disk, jar, polls, home, taps>>

(* Whatever the server said, nobody is signed in any more. *)
PhoneLoggedOut(q) ==
    /\ q.what \in {"logout", "logout_home"} /\ q.state # "sent"
    /\ SetMe(phone, NoOne, IF q.what = "logout" THEN "stay" ELSE "home")
    /\ Landed(q)
    /\ UNCHANGED <<disk, jar, polls, home, taps>>

-----------------------------------------------------------------------------
(* The server. *)

Served(q, state, who) == calls' = (calls \ {q}) \cup {AnswerTo(q, state, who)}
Elsewhere(vars) == UNCHANGED <<phone, disk, writes, polls>> /\ UNCHANGED vars

ServePhoneProbe(q) ==
    /\ q.what \in {"boot", "probe_login", "probe_home"} /\ q.state = "sent"
    /\ \/ MayAdmit(q.as, jar) /\ Served(q, "ok", q.as.who)
       \/ ~MustAdmit(q.as, jar) /\ Served(q, "denied", NoOne)
    /\ Elsewhere(<<jar, home, taps>>)

ServePhoneLogin(q) ==
    /\ q.what \in {"exchange", "passkey", "verify"} /\ q.state = "sent"
    /\ \E u \in Users :
          /\ jar' = Session(u, home.totp[u])
          /\ Served(q, IF home.totp[u] THEN "pending" ELSE "ok", NoOne)
    /\ Elsewhere(<<home, taps>>)

ServePhoneChallenge(q) ==
    /\ q.what = "challenge" /\ q.state = "sent"
    /\ \/ /\ q.as.valid /\ Served(q, "ok", NoOne)
          /\ jar' = IF q.as = jar THEN [jar EXCEPT !.pending = FALSE] ELSE jar
       \/ Served(q, "failed", NoOne) /\ UNCHANGED jar
    /\ Elsewhere(<<home, taps>>)

ServePhoneLogout(q) ==
    /\ q.what \in {"logout", "logout_home"} /\ q.state = "sent"
    /\ jar' = NoCookie
    /\ Served(q, "ok", NoOne)
    /\ Elsewhere(<<home, taps>>)

ServeDeletion(q) ==
    /\ q.what = "delete" /\ q.state = "sent"
    /\ IF MustAdmit(q.as, jar)
       THEN jar' = [jar EXCEPT !.valid = FALSE] /\ Served(q, "ok", NoOne)
       ELSE Served(q, "failed", NoOne) /\ UNCHANGED jar
    /\ Elsewhere(<<home, taps>>)

ServeStatus(q) ==
    /\ q.what = "status" /\ q.state = "sent"
    /\ \/ /\ MayAdmit(q.as, jar)
          /\ Served(q, IF home.totp[q.as.who] THEN "on" ELSE "off", NoOne)
       \/ ~MustAdmit(q.as, jar) /\ Served(q, "failed", NoOne)
    /\ Elsewhere(<<jar, home, taps>>)

ServeCalls(q) ==
    /\ q.what \in {"request", "passkey_start", "add_start", "add", "export", "patch", "check",
                   "device", "upload", "remove"}
    /\ q.state = "sent"
    /\ Served(q, "ok", NoOne)
    /\ Elsewhere(<<jar, home, taps>>)

CallFails(q) ==
    /\ Tap /\ q.state \in {"sent", "ok"}
    /\ Served(q, "failed", NoOne)
    /\ Elsewhere(<<jar, home>>)

(* Messages come and are read elsewhere, the second factor is turned on or off elsewhere,
   the session is revoked. *)
HomeChanges ==
    /\ Tap
    /\ \/ \E u \in Users, k \in Badges :
             home' = [home EXCEPT !.unread[u] =
                         IF k \in @ THEN @ \ {k} ELSE @ \cup {k}] /\ UNCHANGED jar
       \/ \E u \in Users : home' = [home EXCEPT !.totp[u] = ~@] /\ UNCHANGED jar
       \/ jar.valid /\ jar' = [jar EXCEPT !.valid = FALSE] /\ UNCHANGED home
    /\ UNCHANGED <<phone, disk, writes, calls, polls>>

-----------------------------------------------------------------------------

PhoneOff(entry, who, cookie, unread) ==
    /\ phone = Launched(entry) /\ disk = who /\ writes = <<>>
    /\ jar = cookie /\ calls = {} /\ polls = {} /\ taps = 0
    /\ home = [unread |-> [u \in Users |-> unread], totp |-> [u \in Users |-> FALSE]]

MobileInit ==
    \E entry \in Entries, who \in People, cookie \in Jars, unread \in {{}, Badges} :
       PhoneOff(entry, who, cookie, unread)

MobileNext ==
    \/ Hydrate \/ Kill \/ Stored \/ PollTick \/ StatusTick \/ HomeChanges
    \/ Follows \/ NotificationTap \/ DangerZone \/ PhoneOAuth
    \/ PhoneSubmit \/ PhonePasskey \/ PhoneVerify \/ PhoneCancel \/ PhoneLogout
    \/ AddPasskey \/ RemovePasskey \/ ExportData \/ DeleteAccount \/ PickAvatar \/ SaveProfile
    \/ \E p \in polls : PollMoves(p)
    \/ \E q \in calls :
          \/ Probed(q) \/ Registered(q) \/ Proceeds(q) \/ Dismissed(q) \/ Refused(q)
          \/ NeedsCode(q) \/ Finished(q) \/ InviteChecks(q) \/ StatusLands(q) \/ Shrugged(q)
          \/ ProfileSaved(q) \/ PhoneLoggedOut(q)
          \/ ServePhoneProbe(q) \/ ServePhoneLogin(q) \/ ServePhoneChallenge(q)
          \/ ServePhoneLogout(q) \/ ServeDeletion(q) \/ ServeStatus(q) \/ ServeCalls(q)
          \/ CallFails(q)

(* The timer fires, and each refresh is answered and lands. *)
PollFairness ==
    /\ WF_mobileVars(PollTick)
    /\ \A p \in Polls : WF_mobileVars(PollMoves(p))

MobileSpec == MobileInit /\ [][MobileNext]_mobileVars
FairMobileSpec == MobileSpec /\ PollFairness

-----------------------------------------------------------------------------
(* Once nothing else changes, the badges of the tab bar come to what the server counts for
   the session, and to nothing for someone signed out or whose session is dead, whatever
   refreshes of an earlier session are still on their way.
   [unread.ts 24-50; (tabs)/_layout.tsx 23, 52-63] *)
BadgeTruth == IF phone.me = NoOne \/ ~Admitted(jar) THEN {} ELSE home.unread[jar.who]
BadgeSettles == <>[]phone.tabs => <>[](phone.badge = BadgeTruth)

(* The stored user is `current` as soon as the writes on their way are through, across
   logins, logouts, late probes, kills and launches.  [auth.ts 37-59] *)
CacheFollowsMe ==
    phone.booted =>
        phone.me = (IF writes = <<>> THEN disk ELSE writes[Len(writes)].me)
=============================================================================
