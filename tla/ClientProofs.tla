---------------------------- MODULE ClientProofs ----------------------------
(***************************************************************************)
(* The sessions of the two clients and the event stream of the app, for    *)
(* any accounts, messages and number of steps of the user, launches and    *)
(* faults.                                                                 *)
(*                                                                         *)
(* The browser: the live stream follows whoever is signed in, and the tab  *)
(* implements LiveFeed but for its liveness.  The argument looks at four   *)
(* fields of the tab; the invariant adds that answers in flight name an    *)
(* account or nobody.                                                      *)
(*                                                                         *)
(* The app: the stored user catches up with `current`, whatever requests   *)
(* are in flight.  The invariant adds that a process that has not read the *)
(* storage yet has neither a write nor a request on its way.               *)
(*                                                                         *)
(* The app's message thread: at most one event stream is open.  The        *)
(* argument is about one closure of openEventStream at a time: a closed    *)
(* one has no request, one that waits for its timer has none either, an    *)
(* error is reported only by one that has used up its reconnection; and    *)
(* all but the last are closed.                                            *)
(***************************************************************************)
EXTENDS WebSession, MobileSession, MobileChat, FiniteSetTheorems, SequenceTheorems, TLAPS

TabFields == {"page", "me", "es", "timer", "unread", "check", "busy", "pkBusy", "sent", "done",
              "err", "composing"}

(* The fields that the stream depends on. *)
TabOK(t) ==
    /\ t = [f \in TabFields |-> t[f]]
    /\ t.me \in People /\ t.es \in StreamStates /\ t.timer \in BOOLEAN

StreamFollows(t) ==
    IF t.me = NoOne THEN t.es = "none" /\ ~t.timer ELSE t.es # "none" \/ t.timer

SoundTab(t) == TabOK(t) /\ StreamFollows(t)

RequestStates == {"sent", "ok", "denied", "failed"}
RequestOK(q) ==
    /\ q = [f \in {"what", "as", "state", "answer"} |-> q[f]]
    /\ q.as \in CookieSet /\ q.answer \in People /\ q.state \in RequestStates

RequestsOK(requests) == \A q \in requests : RequestOK(q)

SessionInv ==
    /\ SoundTab(tab)
    /\ cookie \in CookieSet
    /\ RequestsOK(asking)

-----------------------------------------------------------------------------
(* The operators on the tab. *)

LEMMA ConnectSound ==
    ASSUME NEW t, TabOK(t), t.me = NoOne => t.es = "none" /\ ~t.timer
    PROVE  /\ SoundTab(Connect(t)) /\ Connect(t).me = t.me /\ Connect(t).timer = t.timer
           /\ Connect(t).es = IF t.es # "none" \/ t.me = NoOne THEN t.es ELSE "connecting"
BY DEF SoundTab, StreamFollows, TabOK, Connect, TabFields, StreamStates, People

LEMMA SetCachedMeSound ==
    ASSUME NEW t, SoundTab(t), NEW who \in People
    PROVE  /\ SoundTab(SetCachedMe(t, who))
           /\ SetCachedMe(t, who).me = who
           /\ who # NoOne /\ t.me # NoOne => FeedOf(SetCachedMe(t, who)) = FeedOf(t)
           /\ who = NoOne => FeedOf(SetCachedMe(t, who)) = "off"
           /\ who # NoOne /\ t.me = NoOne => FeedOf(SetCachedMe(t, who)) = "down"
BY DEF SoundTab, StreamFollows, TabOK, Connect, Disconnect, SetCachedMe, TabFields, StreamStates,
       People, FeedOf

LEMMA LoadedSound ==
    ASSUME NEW page, NEW who \in People, NEW held
    PROVE  /\ SoundTab(Loaded(page, who, held))
           /\ Loaded(page, who, held).me = who
           /\ FeedOf(Loaded(page, who, held)) = IF who = NoOne THEN "off" ELSE "down"
BY DEF SoundTab, StreamFollows, TabOK, Connect, Loaded, TabFields, StreamStates, People, FeedOf

(* What the feed may do while the server's view of the session stays as it is, without going
   up or down: nothing, start over for whoever is signed in then, or be taken over. *)
FeedMay(t, u) ==
    \/ u.me = t.me /\ FeedOf(u) = FeedOf(t)
    \/ FeedOf(u) = (IF u.me = NoOne THEN "off" ELSE "down")
    \/ t.me # NoOne /\ u.me \in Users /\ FeedOf(u) = FeedOf(t)

LEMMA SameStream ==
    ASSUME NEW t, SoundTab(t), NEW u, TabOK(u), u.me = t.me, u.es = t.es, u.timer = t.timer
    PROVE  SoundTab(u) /\ FeedMay(t, u)
BY DEF SoundTab, StreamFollows, FeedMay, FeedOf

LEMMA SetCachedMeMay ==
    ASSUME NEW t, SoundTab(t), NEW who \in People,
           NEW u, TabOK(u), u.me = SetCachedMe(t, who).me, u.es = SetCachedMe(t, who).es,
           u.timer = SetCachedMe(t, who).timer
    PROVE  SoundTab(u) /\ FeedMay(t, u)
<1>1. FeedOf(u) = FeedOf(SetCachedMe(t, who))
  BY DEF FeedOf
<1>2. SoundTab(SetCachedMe(t, who)) /\ SetCachedMe(t, who).me = who
  BY SetCachedMeSound
<1>3. SoundTab(u)
  BY <1>2 DEF SoundTab, StreamFollows
<1>4. FeedMay(t, u)
  BY <1>1, <1>2, SetCachedMeSound DEF FeedMay, People
<1>5. QED
  BY <1>3, <1>4

(* From the tab to the module of the feed. *)
FeedStep == Feed!FeedNext \/ UNCHANGED Feed!feedVars

LEMMA FeedMayStep ==
    ASSUME SoundTab(tab)', FeedMay(tab, tab'), cookie' = cookie
    PROVE  FeedStep
BY DEF FeedStep, FeedMay, SoundTab, TabOK, People, Admitted, Feed!FeedNext, Feed!Restarts,
       Feed!TakesOver, Feed!Off, Feed!feedVars

LEMMA ServiceStep ==
    ASSUME tab' = tab, cookie \in CookieSet, cookie' \in CookieSet
    PROVE  FeedStep
BY DEF FeedStep, CookieSet, NoCookie, Admitted, Feed!FeedNext, Feed!ServiceChanges,
       Feed!feedVars

LEMMA FeedValue ==
    ASSUME NEW t
    PROVE  /\ t.es = "open" => FeedOf(t) = "up"
           /\ t.es \in {"connecting", "closed"} => FeedOf(t) = "down"
           /\ t.es = "none" /\ t.timer => FeedOf(t) = "down"
BY DEF FeedOf

-----------------------------------------------------------------------------
(* The stream's own steps. *)

StreamNext == StreamOpens \/ StreamDrops \/ StreamCloses \/ StreamError \/ ReconnectTimer

LEMMA StreamStep ==
    ASSUME SessionInv, StreamNext
    PROVE  SoundTab(tab)' /\ FeedStep /\ cookie' = cookie /\ asking' = asking
<1> USE DEF SessionInv
<1>1. CASE StreamOpens
  <2>1. SoundTab(tab)' /\ tab'.me = tab.me /\ tab.es = "connecting" /\ tab'.es = "open"
    BY <1>1 DEF StreamOpens, SoundTab, TabOK, StreamFollows, TabFields, StreamStates
  <2>2. Feed!Up
    BY <1>1, <2>1, FeedValue DEF StreamOpens, Feed!Up
  <2>3. QED
    BY <1>1, <2>1, <2>2 DEF StreamOpens, FeedStep, Feed!FeedNext
<1>2. CASE StreamDrops
  <2>1. SoundTab(tab)' /\ tab'.me = tab.me /\ tab.es = "open" /\ tab'.es = "connecting"
    BY <1>2 DEF StreamDrops, SoundTab, TabOK, StreamFollows, TabFields, StreamStates
  <2>2. Feed!Down
    BY <1>2, <2>1, FeedValue DEF StreamDrops, Feed!Down
  <2>3. QED
    BY <1>2, <2>1, <2>2 DEF StreamDrops, FeedStep, Feed!FeedNext
<1>3. CASE StreamCloses
  <2>1. /\ SoundTab(tab)' /\ tab'.me = tab.me
        /\ tab.es \in {"connecting", "open"} /\ tab'.es = "closed"
    BY <1>3 DEF StreamCloses, SoundTab, TabOK, StreamFollows, TabFields, StreamStates
  <2>2. CASE tab.es = "open"
    <3>1. Feed!Down
      BY <1>3, <2>1, <2>2, FeedValue DEF StreamCloses, Feed!Down
    <3>2. QED
      BY <1>3, <2>1, <3>1 DEF StreamCloses, FeedStep, Feed!FeedNext
  <2>3. CASE tab.es = "connecting"
    <3>1. FeedMay(tab, tab')
      BY <2>1, <2>3, FeedValue DEF FeedMay
    <3>2. QED
      BY <1>3, <2>1, <3>1, FeedMayStep DEF StreamCloses
  <2>4. QED
    BY <2>1, <2>2, <2>3
<1>4. CASE StreamError
  <2>1. tab.es = "closed" /\ tab.me # NoOne
    BY <1>4 DEF StreamError, SoundTab, StreamFollows
  <2>2. /\ SoundTab(tab)' /\ tab'.me = tab.me
        /\ tab'.es = "none" /\ tab'.timer
    BY <1>4, <2>1 DEF StreamError, OnError, SoundTab, TabOK, StreamFollows, TabFields, StreamStates
  <2>3. FeedMay(tab, tab')
    BY <2>1, <2>2, FeedValue DEF FeedMay
  <2>4. QED
    BY <1>4, <2>2, <2>3, FeedMayStep DEF StreamError
<1>5. CASE ReconnectTimer
  <2> DEFINE fired == [tab EXCEPT !.timer = FALSE]
  <2>1. tab.me # NoOne /\ tab.timer
    BY <1>5 DEF ReconnectTimer, SoundTab, StreamFollows
  <2>2. TabOK(fired) /\ fired.me = tab.me /\ fired.es = tab.es /\ fired.timer = FALSE
    BY DEF SoundTab, TabOK, TabFields
  <2>3. tab' = Connect(fired)
    BY <1>5 DEF ReconnectTimer
  <2>4. /\ SoundTab(tab') /\ tab'.me = tab.me
        /\ tab'.es = IF tab.es # "none" THEN tab.es ELSE "connecting"
    BY <2>1, <2>2, <2>3, ConnectSound
  <2>5. FeedOf(tab') = FeedOf(tab)
    BY <2>1, <2>4, FeedValue DEF SoundTab, TabOK, StreamStates
  <2>6. FeedMay(tab, tab')
    BY <2>4, <2>5 DEF FeedMay
  <2>7. QED
    BY <1>5, <2>4, <2>6, FeedMayStep DEF ReconnectTimer
<1>6. QED
  BY <1>1, <1>2, <1>3, <1>4, <1>5 DEF StreamNext

-----------------------------------------------------------------------------
(* Requests: asked, answered and dropped. *)

LEMMA AskAsTyped ==
    ASSUME NEW what, NEW held \in CookieSet
    PROVE  RequestOK(AskAs(what, held))
BY DEF AskAs, RequestOK, RequestStates, People

LEMMA AnswersTyped ==
    ASSUME RequestsOK(asking), NEW q \in asking, NEW state \in RequestStates,
           NEW who \in People
    PROVE  RequestsOK(Answers(q, state, who))
BY DEF Answers, AnswerTo, RequestsOK, RequestOK

LEMMA ProbesTyped ==
    ASSUME NEW page, NEW held \in CookieSet
    PROVE  RequestsOK(MountProbes(page, held))
BY AskAsTyped DEF MountProbes, RequestsOK

-----------------------------------------------------------------------------
(* Steps that leave the stream alone. *)

PageNext ==
    \/ UnreadLands \/ ServeUnread \/ ServeCheck \/ InviteChecked \/ OpenComposer
    \/ CloseComposer \/ OpenLogin \/ LoginSubmit \/ InviteSubmit \/ Passkey \/ Confirm
    \/ ConfirmNav \/ Challenge \/ Logout
    \/ \E q \in asking :
          \/ Requested(q) \/ LoginWithPasskey(q) \/ PasskeyDone(q) \/ Verified(q)

LEMMA PageTab ==
    ASSUME SoundTab(tab), PageNext
    PROVE  TabOK(tab') /\ tab'.me = tab.me /\ tab'.es = tab.es /\ tab'.timer = tab.timer
<1> USE DEF SoundTab, TabOK, TabFields
<1>1. CASE UnreadLands \/ ServeUnread \/ ServeCheck \/ InviteChecked
  BY <1>1 DEF UnreadLands, ServeUnread, ServeCheck, InviteChecked
<1>2. CASE OpenComposer \/ CloseComposer \/ OpenLogin \/ ConfirmNav \/ Logout
  BY <1>2 DEF OpenComposer, CloseComposer, OpenLogin, ConfirmNav, Logout, Show
<1>3. CASE LoginSubmit \/ InviteSubmit \/ Passkey \/ Confirm \/ Challenge
  BY <1>3 DEF LoginSubmit, InviteSubmit, SubmitEmail, Passkey, Confirm, Challenge
<1>4. ASSUME NEW q \in asking,
             Requested(q) \/ LoginWithPasskey(q) \/ PasskeyDone(q) \/ Verified(q)
      PROVE  TabOK(tab') /\ tab'.me = tab.me /\ tab'.es = tab.es /\ tab'.timer = tab.timer
  BY <1>4 DEF Requested, LoginWithPasskey, PasskeyDone, Verified
<1>5. QED
  BY <1>1, <1>2, <1>3, <1>4 DEF PageNext

LEMMA PageAsking ==
    ASSUME SessionInv, PageNext
    PROVE  cookie' = cookie /\ RequestsOK(asking')
<1> USE DEF SessionInv, RequestsOK
<1>1. ASSUME NEW what
      PROVE  RequestOK(Ask(what))
  BY AskAsTyped DEF Ask
<1>2. CASE UnreadLands \/ ServeUnread \/ ServeCheck \/ InviteChecked
  BY <1>2 DEF UnreadLands, ServeUnread, ServeCheck, InviteChecked
<1>3. CASE OpenComposer \/ CloseComposer \/ OpenLogin \/ ConfirmNav \/ Logout
  BY <1>1, <1>3 DEF OpenComposer, CloseComposer, OpenLogin, ConfirmNav, Logout
<1>4. CASE LoginSubmit \/ InviteSubmit \/ Passkey \/ Confirm \/ Challenge
  BY <1>1, <1>4 DEF LoginSubmit, InviteSubmit, SubmitEmail, Passkey, Confirm, Challenge
<1>5. ASSUME NEW q \in asking,
             Requested(q) \/ LoginWithPasskey(q) \/ PasskeyDone(q) \/ Verified(q)
      PROVE  cookie' = cookie /\ RequestsOK(asking')
  BY <1>1, <1>5 DEF Requested, LoginWithPasskey, PasskeyDone, Verified
<1>6. QED
  BY <1>2, <1>3, <1>4, <1>5 DEF PageNext

LEMMA PageStep ==
    ASSUME SessionInv, PageNext
    PROVE  SessionInv' /\ FeedStep
<1>1. SoundTab(tab)
  BY DEF SessionInv
<1>2. SoundTab(tab') /\ FeedMay(tab, tab')
  BY <1>1, PageTab, SameStream
<1>3. cookie' = cookie /\ RequestsOK(asking')
  BY PageAsking
<1>4. QED
  BY <1>2, <1>3, FeedMayStep DEF SessionInv

-----------------------------------------------------------------------------
(* Probes and the logout: the answer replaces `me`. *)

LEMMA ProbeSound ==
    ASSUME SessionInv, NEW q \in asking, q.state # "sent"
    PROVE  \/ ProbeSession(tab, q) = tab
           \/ \E who \in People : ProbeSession(tab, q) = SetCachedMe(tab, who)
BY DEF ProbeSession, SessionInv, RequestsOK, RequestOK, RequestStates, People

LEMMA ProbeMay ==
    ASSUME SessionInv, NEW p, p = tab \/ (\E who \in People : p = SetCachedMe(tab, who)),
           NEW u, TabOK(u), u.me = p.me, u.es = p.es, u.timer = p.timer
    PROVE  SoundTab(u) /\ FeedMay(tab, u)
<1>1. SoundTab(tab)
  BY DEF SessionInv
<1>2. CASE p = tab
  BY <1>1, <1>2, SameStream
<1>3. ASSUME NEW who \in People, p = SetCachedMe(tab, who)
      PROVE  SoundTab(u) /\ FeedMay(tab, u)
  BY <1>1, <1>3, SetCachedMeMay
<1>4. QED
  BY <1>2, <1>3

LEMMA ProbeStep ==
    ASSUME SessionInv, NEW q \in asking,
           Boot(q) \/ LiveProbe(q) \/ LoginProbe(q) \/ LoggedOut(q)
    PROVE  SessionInv' /\ FeedStep
<1> DEFINE p == IF LoggedOut(q) THEN SetCachedMe(tab, NoOne) ELSE ProbeSession(tab, q)
<1>1. q.state # "sent" /\ cookie' = cookie /\ asking' = asking \ {q}
  BY DEF Boot, LiveProbe, LoginProbe, LoggedOut
<1>2. p = tab \/ \E who \in People : p = SetCachedMe(tab, who)
  BY <1>1, ProbeSound DEF People
<1>3. TabOK(p)
  BY <1>2, SetCachedMeSound DEF SessionInv, SoundTab
<1>4. TabOK(tab') /\ tab'.me = p.me /\ tab'.es = p.es /\ tab'.timer = p.timer
  <2> USE <1>3 DEF TabOK, TabFields
  <2>1. CASE LoggedOut(q)
    BY <2>1 DEF LoggedOut
  <2>2. CASE Boot(q)
    BY <2>2 DEF Boot, LoggedOut, RefetchUnread
  <2>3. CASE LiveProbe(q)
    BY <2>3 DEF LiveProbe, LoggedOut
  <2>4. CASE LoginProbe(q)
    BY <2>4 DEF LoginProbe, LoggedOut, Show
  <2>5. QED
    BY <2>1, <2>2, <2>3, <2>4
<1>5. SoundTab(tab') /\ FeedMay(tab, tab')
  BY <1>2, <1>4, ProbeMay
<1>6. RequestsOK(asking')
  BY <1>1 DEF SessionInv, RequestsOK
<1>7. QED
  BY <1>1, <1>5, <1>6, FeedMayStep DEF SessionInv

-----------------------------------------------------------------------------
(* Page loads: the stream starts over. *)

LEMMA LoadStep ==
    ASSUME SessionInv, NEW page, NEW who, tab' = Loaded(page, tab.me, who), cookie' \in CookieSet,
           RequestsOK(asking')
    PROVE  SessionInv' /\ FeedStep
<1>1. tab.me \in People
  BY DEF SessionInv, SoundTab, TabOK
<1>2. /\ SoundTab(tab') /\ tab'.me \in People
      /\ FeedOf(tab') = IF tab'.me = NoOne THEN "off" ELSE "down"
  BY <1>1, LoadedSound
<1>3. Admitted(cookie') \in BOOLEAN
  BY DEF Admitted, CookieSet, NoCookie
<1>4. Feed!Restarts
  BY <1>2, <1>3 DEF Feed!Restarts, Feed!Off, People
<1>5. QED
  BY <1>2, <1>4 DEF SessionInv, FeedStep, Feed!FeedNext

LEMMA PageLoadStep ==
    ASSUME SessionInv, NEW page, PageLoad(page)
    PROVE  SessionInv' /\ FeedStep
BY LoadStep, ProbesTyped DEF PageLoad, SessionInv

LEMMA OAuthStep ==
    ASSUME SessionInv, StartOAuth
    PROVE  SessionInv' /\ FeedStep
<1>1. PICK u \in Users, pending \in BOOLEAN :
         /\ cookie' = Session(u, pending)
         /\ tab' = Loaded(IF pending THEN "twofa" ELSE "app", tab.me, cookie')
         /\ asking' = MountProbes("app", cookie')
  BY DEF StartOAuth
<1>2. cookie' \in CookieSet
  BY <1>1 DEF Session, CookieSet
<1>3. RequestsOK(asking')
  BY <1>1, <1>2, ProbesTyped
<1>4. QED
  BY <1>1, <1>2, <1>3, LoadStep

LEMMA ChallengedStep ==
    ASSUME SessionInv, NEW q \in asking, Challenged(q)
    PROVE  SessionInv' /\ FeedStep
<1>1. CASE q.state = "ok"
  BY <1>1, LoadStep, ProbesTyped DEF Challenged, SessionInv
<1>2. CASE q.state # "ok"
  <2>1. TabOK(tab') /\ tab'.me = tab.me /\ tab'.es = tab.es /\ tab'.timer = tab.timer
    BY <1>2 DEF Challenged, SessionInv, SoundTab, TabOK, TabFields
  <2>2. SoundTab(tab') /\ FeedMay(tab, tab')
    BY <2>1, SameStream DEF SessionInv
  <2>3. cookie' = cookie /\ RequestsOK(asking')
    BY <1>2 DEF Challenged, SessionInv, RequestsOK
  <2>4. QED
    BY <2>2, <2>3, FeedMayStep DEF SessionInv
<1>3. QED
  BY <1>1, <1>2

-----------------------------------------------------------------------------
(* The server's steps. *)

LEMMA CookieFields ==
    ASSUME NEW c \in CookieSet
    PROVE  /\ c.valid \in BOOLEAN /\ c.who \in People
           /\ c.valid => c \in [who : Users, pending : BOOLEAN, valid : BOOLEAN]
<1>1. CASE c = NoCookie
  BY <1>1 DEF NoCookie, People
<1>2. CASE c \in [who : Users, pending : BOOLEAN, valid : BOOLEAN]
  BY <1>2 DEF People
<1>3. QED
  BY <1>1, <1>2 DEF CookieSet

LEMMA CookieKept ==
    ASSUME NEW c \in CookieSet, c.valid
    PROVE  [c EXCEPT !.valid = FALSE] \in CookieSet /\ [c EXCEPT !.pending = FALSE] \in CookieSet
<1>1. c \in [who : Users, pending : BOOLEAN, valid : BOOLEAN]
  BY CookieFields
<1>2. /\ [c EXCEPT !.valid = FALSE] \in [who : Users, pending : BOOLEAN, valid : BOOLEAN]
      /\ [c EXCEPT !.pending = FALSE] \in [who : Users, pending : BOOLEAN, valid : BOOLEAN]
  BY <1>1
<1>3. QED
  BY <1>2 DEF CookieSet

LEMMA JarsTyped == Jars \subseteq CookieSet
<1>1. ASSUME NEW u \in Users
      PROVE  Session(u, FALSE) \in CookieSet
  BY DEF Session, CookieSet
<1>2. QED
  BY <1>1 DEF Jars, CookieSet

LEMMA ServerTyped ==
    ASSUME SessionInv, NEW q \in asking
    PROVE  /\ \A state \in RequestStates, who \in People : RequestsOK(Answers(q, state, who))
           /\ q.as.who \in People /\ NoOne \in People
           /\ {"ok", "denied", "failed"} \subseteq RequestStates
<1>1. q.as \in CookieSet
  BY DEF SessionInv, RequestsOK, RequestOK
<1>2. q.as.who \in People
  BY <1>1 DEF CookieSet, NoCookie, People
<1>3. QED
  BY <1>2, AnswersTyped DEF SessionInv, RequestStates, People

LEMMA ServerStep ==
    ASSUME SessionInv,
           \/ Revoke
           \/ \E q \in asking :
                 \/ ServeProbe(q) \/ ServeLogin(q) \/ ServeChallenge(q) \/ ServeLogout(q)
                 \/ ServeOther(q) \/ RequestFails(q)
    PROVE  SessionInv' /\ FeedStep
<1>1. tab' = tab /\ cookie' \in CookieSet /\ RequestsOK(asking')
  <2>1. CASE Revoke
    BY <2>1, CookieKept DEF Revoke, SessionInv
  <2>2. ASSUME NEW q \in asking, ServeProbe(q) \/ ServeOther(q) \/ RequestFails(q)
        PROVE  tab' = tab /\ cookie' \in CookieSet /\ RequestsOK(asking')
    BY <2>2, ServerTyped DEF ServeProbe, ServeOther, RequestFails, SessionInv
  <2>3. ASSUME NEW q \in asking, ServeLogin(q)
        PROVE  tab' = tab /\ cookie' \in CookieSet /\ RequestsOK(asking')
    BY <2>3, ServerTyped DEF ServeLogin, Session, CookieSet
  <2>4. ASSUME NEW q \in asking, ServeChallenge(q)
        PROVE  tab' = tab /\ cookie' \in CookieSet /\ RequestsOK(asking')
    <3>1. tab' = tab /\ RequestsOK(asking')
      BY <2>4, ServerTyped DEF ServeChallenge
    <3>2. cookie' = cookie \/ (q.as = cookie /\ q.as.valid
                               /\ cookie' = [cookie EXCEPT !.pending = FALSE])
      BY <2>4 DEF ServeChallenge
    <3>3. cookie' \in CookieSet
      BY <3>2, CookieKept DEF SessionInv
    <3>4. QED
      BY <3>1, <3>3
  <2>5. ASSUME NEW q \in asking, ServeLogout(q)
        PROVE  tab' = tab /\ cookie' \in CookieSet /\ RequestsOK(asking')
    BY <2>5, ServerTyped DEF ServeLogout, CookieSet
  <2>6. QED
    BY <2>1, <2>2, <2>3, <2>4, <2>5
<1>2. QED
  BY <1>1, ServiceStep DEF SessionInv

-----------------------------------------------------------------------------

LEMMA SessionInvInit ==
    ASSUME SessionInit
    PROVE  SessionInv /\ Feed!FeedInit
<1>1. PICK page \in {"app", "login", "confirm"}, who \in People, held \in Jars :
         FirstLoad(page, who, held)
  BY DEF SessionInit
<1>2. cookie \in CookieSet /\ cookie = held
  BY <1>1, JarsTyped DEF FirstLoad
<1>3. SoundTab(tab) /\ tab.me = who /\ FeedOf(tab) = IF who = NoOne THEN "off" ELSE "down"
  BY <1>1, LoadedSound DEF FirstLoad
<1>4. RequestsOK(asking)
  BY <1>1, <1>2, ProbesTyped DEF FirstLoad
<1>5. Admitted(cookie) \in BOOLEAN
  BY <1>2 DEF Admitted, CookieSet, NoCookie
<1>6. QED
  BY <1>2, <1>3, <1>4, <1>5 DEF SessionInv, Feed!FeedInit, Feed!Off, People

LEMMA SessionStep ==
    ASSUME SessionInv, [SessionNext]_sessionVars
    PROVE  SessionInv' /\ FeedStep
<1>1. CASE StreamNext
  BY <1>1, StreamStep DEF SessionInv
<1>2. CASE PageNext
  BY <1>2, PageStep
<1>3. ASSUME NEW q \in asking, Boot(q) \/ LiveProbe(q) \/ LoginProbe(q) \/ LoggedOut(q)
      PROVE  SessionInv' /\ FeedStep
  BY <1>3, ProbeStep
<1>4. ASSUME NEW page \in Pages, PageLoad(page)
      PROVE  SessionInv' /\ FeedStep
  BY <1>4, PageLoadStep
<1>5. CASE StartOAuth
  BY <1>5, OAuthStep
<1>6. ASSUME NEW q \in asking, Challenged(q)
      PROVE  SessionInv' /\ FeedStep
  BY <1>6, ChallengedStep
<1>7. ASSUME \/ Revoke
             \/ \E q \in asking :
                   \/ ServeProbe(q) \/ ServeLogin(q) \/ ServeChallenge(q) \/ ServeLogout(q)
                   \/ ServeOther(q) \/ RequestFails(q)
      PROVE  SessionInv' /\ FeedStep
  BY <1>7, ServerStep
<1>8. CASE UNCHANGED sessionVars
  BY <1>8 DEF sessionVars, SessionInv, FeedStep, Feed!feedVars, FeedOf
<1>9. QED
  BY <1>1, <1>2, <1>3, <1>4, <1>5, <1>6, <1>7, <1>8 DEF SessionNext, StreamNext, PageNext

(* However the stream drops, however late an answer comes, and whichever way someone signs in
   or out, the tab has a stream, or a timer that will open one, for someone signed in and
   neither for nobody.  [Layout 138-205] *)
THEOREM StreamAlwaysFollowsMe == SessionSpec => []StreamFollowsMe
<1>1. SessionInit => SessionInv
  BY SessionInvInit
<1>2. SessionInv /\ [SessionNext]_sessionVars => SessionInv'
  BY SessionStep
<1>3. SessionInv => StreamFollowsMe
  BY DEF SessionInv, SoundTab, StreamFollows, StreamFollowsMe
<1>4. QED
  BY <1>1, <1>2, <1>3, PTL DEF SessionSpec

(* The tab implements the live feed but for its liveness: every step of the tab is a step of
   the feed or leaves it as it is.  [Layout 129-205] *)
THEOREM SessionImplementsFeed == SessionSpec => Feed!FeedSafety
<1>1. SessionInit => SessionInv /\ Feed!FeedInit
  BY SessionInvInit
<1>2. SessionInv /\ [SessionNext]_sessionVars => SessionInv' /\ [Feed!FeedNext]_(Feed!feedVars)
  BY SessionStep DEF FeedStep
<1>3. QED
  BY <1>1, <1>2, PTL DEF SessionSpec, Feed!FeedSafety

-----------------------------------------------------------------------------
(* The app.                                                                 *)

PhoneFields == {"booted", "me", "screen", "tabs", "badge", "busy", "pkBusy", "oauthBusy", "sent",
                "err", "invite", "twofa", "deleting", "exporting", "registered"}

PhoneOK(p) == p = [f \in PhoneFields |-> p[f]]

WritesOK(w) == \E S : w \in Seq(S)

LastWrite == IF writes = <<>> THEN disk ELSE writes[Len(writes)].me

CacheInv ==
    /\ PhoneOK(phone) /\ WritesOK(writes)
    /\ ~phone.booted => writes = <<>> /\ calls = {}
    /\ CacheFollowsMe

-----------------------------------------------------------------------------
(* Sequences of writes. *)

LEMMA AppendedWrite ==
    ASSUME NEW w, WritesOK(w), NEW e
    PROVE  /\ WritesOK(Append(w, e)) /\ Append(w, e) # <<>>
           /\ Append(w, e)[Len(Append(w, e))] = e
<1>1. PICK S : w \in Seq(S)
  BY DEF WritesOK
<1>2. w \in Seq(S \cup {e})
  BY <1>1
<1>3. /\ Append(w, e) \in Seq(S \cup {e}) /\ Append(w, e) # <<>>
      /\ Append(w, e)[Len(Append(w, e))] = e
  BY <1>2, AppendProperties
<1>4. QED
  BY <1>3 DEF WritesOK

LEMMA FirstWriteDone ==
    ASSUME NEW w, WritesOK(w), w # <<>>
    PROVE  /\ WritesOK(Tail(w))
           /\ Tail(w) = <<>> => Head(w) = w[Len(w)]
           /\ Tail(w) # <<>> => Tail(w)[Len(Tail(w))] = w[Len(w)]
<1>1. PICK S : w \in Seq(S)
  BY DEF WritesOK
<1>2. /\ Tail(w) \in Seq(S) /\ Len(Tail(w)) = Len(w) - 1 /\ Len(w) \in Nat /\ Len(w) # 0
      /\ Head(w) = w[1]
      /\ \A i \in 1..Len(Tail(w)) : Tail(w)[i] = w[i + 1]
  BY <1>1, HeadTailProperties, EmptySeq
<1>3. Tail(w) = <<>> => Len(w) = 1
  <2> SUFFICES ASSUME Tail(w) = <<>>
               PROVE  Len(w) = 1
    OBVIOUS
  <2>1. Len(Tail(w)) = 0
    <3>1. Len(<<>>) = 0
      OBVIOUS
    <3>2. QED
      BY <3>1, Zenon
  <2>2. ASSUME NEW m, NEW n \in Nat, m = n - 1, m = 0
        PROVE  n = 1
    BY <2>2
  <2>3. QED
    BY <1>2, <2>1, <2>2, Zenon
<1>4. Tail(w) # <<>> => Len(Tail(w)) \in 1..Len(Tail(w))
  BY <1>2, EmptySeq
<1>5. QED
  BY <1>2, <1>3, <1>4 DEF WritesOK

-----------------------------------------------------------------------------
(* Steps that leave `current` and the storage alone. *)

Unmoved ==
    /\ PhoneOK(phone') /\ phone'.me = phone.me /\ phone'.booted = phone.booted
    /\ writes' = writes /\ disk' = disk

LEMMA GoneTo ==
    ASSUME NEW p, PhoneOK(p), NEW screen
    PROVE  /\ PhoneOK(GoTo(p, screen))
           /\ GoTo(p, screen).me = p.me /\ GoTo(p, screen).booted = p.booted
BY DEF GoTo, Reset, PhoneOK, PhoneFields

LEMMA UnmovedStep ==
    ASSUME CacheInv, Unmoved, phone.booted \/ calls' = {}
    PROVE  CacheInv'
BY DEF CacheInv, Unmoved, CacheFollowsMe

LEMMA Pressed ==
    ASSUME NEW screen, NEW control, Press(screen, control)
    PROVE  phone.booted /\ phone.screen = screen
BY DEF Press, ScreenView

LEMMA Lifted ==
    ASSUME PhoneOK(phone), NEW q, q.what \in DOMAIN Flagged, NEW err
    PROVE  /\ PhoneOK(Lift(q, err))
           /\ Lift(q, err).me = phone.me /\ Lift(q, err).booted = phone.booted
<1>1. Flagged[q.what][2] \in {"busy", "pkBusy", "oauthBusy", "exporting"}
  BY DEF Flagged
<1>2. QED
  BY <1>1 DEF Lift, PhoneOK, PhoneFields

LEMMA LiftedBooted ==
    ASSUME CacheInv, NEW q \in calls
    PROVE  phone.booted
BY DEF CacheInv

Presses ==
    \/ Follows \/ NotificationTap \/ DangerZone \/ PhoneOAuth \/ StatusTick
    \/ PhoneSubmit \/ PhonePasskey \/ PhoneVerify \/ PhoneCancel \/ PhoneLogout
    \/ AddPasskey \/ RemovePasskey \/ ExportData \/ DeleteAccount \/ PickAvatar \/ SaveProfile

LEMMA SendsStep ==
    ASSUME PhoneOK(phone), NEW screen, NEW control, NEW what,
           NEW flag \in {"none", "busy", "pkBusy", "exporting"},
           Sends(screen, control, flag, what)
    PROVE  Unmoved /\ phone.booted
<1>1. phone.booted
  BY Pressed DEF Sends
<1>2. PhoneOK(phone') /\ phone'.me = phone.me /\ phone'.booted = phone.booted
  BY DEF Sends, PhoneOK, PhoneFields
<1>3. QED
  BY <1>1, <1>2 DEF Sends, Stay, Unmoved

LEMMA PressStep ==
    ASSUME CacheInv, Presses
    PROVE  CacheInv'
<1>0. PhoneOK(phone)
  BY DEF CacheInv
<1>1. Unmoved /\ phone.booted
  <2>1. CASE Follows
    <3>1. PICK lead \in Leads : Press(lead[1], lead[2]) /\ phone' = GoTo(phone, lead[3])
      BY <2>1 DEF Follows
    <3>2. QED
      BY <1>0, <2>1, <3>1, GoneTo, Pressed DEF Follows, Stay, Unmoved
  <2>2. CASE NotificationTap
    BY <1>0, <2>2, GoneTo DEF NotificationTap, Stay, Unmoved
  <2>3. CASE DangerZone
    <3>1. PICK control \in {"delete", "cancel"} :
             /\ Press("settings", control)
             /\ phone' = [phone EXCEPT !.deleting = control = "delete"]
      BY <2>3 DEF DangerZone
    <3>2. PhoneOK(phone') /\ phone'.me = phone.me /\ phone'.booted = phone.booted
      BY <1>0, <3>1 DEF PhoneOK, PhoneFields
    <3>3. phone.booted
      BY <3>1, Pressed
    <3>4. QED
      BY <2>3, <3>2, <3>3 DEF DangerZone, Stay, Unmoved
  <2>4. CASE PhoneOAuth
    <3>1. phone.booted
      BY <2>4, Pressed DEF PhoneOAuth
    <3>2. PhoneOK(phone') /\ phone'.me = phone.me /\ phone'.booted = phone.booted
      BY <1>0, <2>4 DEF PhoneOAuth, PhoneOK, PhoneFields
    <3>3. QED
      BY <2>4, <3>1, <3>2 DEF PhoneOAuth, Stay, Unmoved
  <2>5. CASE StatusTick
    BY <1>0, <2>5 DEF StatusTick, Stay, Unmoved
  <2>6. CASE PhoneSubmit \/ PhonePasskey \/ PhoneVerify \/ PhoneCancel \/ PhoneLogout
    BY <1>0, <2>6, SendsStep DEF PhoneSubmit, PhonePasskey, PhoneVerify, PhoneCancel, PhoneLogout
  <2>7. CASE \/ AddPasskey \/ RemovePasskey \/ ExportData \/ DeleteAccount \/ PickAvatar
             \/ SaveProfile
    BY <1>0, <2>7, SendsStep
       DEF AddPasskey, RemovePasskey, ExportData, DeleteAccount, PickAvatar, SaveProfile
  <2>8. QED
    BY <2>1, <2>2, <2>3, <2>4, <2>5, <2>6, <2>7 DEF Presses
<1>2. QED
  BY <1>1, UnmovedStep

(* Answers that are taken in, and answers that are given. *)
Replies(q) ==
    \/ Registered(q) \/ Proceeds(q) \/ Dismissed(q) \/ Refused(q) \/ NeedsCode(q)
    \/ Finished(q) \/ InviteChecks(q) \/ StatusLands(q) \/ Shrugged(q)

LEMMA ReplyStep ==
    ASSUME CacheInv, NEW q \in calls, Replies(q)
    PROVE  CacheInv'
<1>0. PhoneOK(phone)
  BY DEF CacheInv
<1>1. Unmoved
  <2> USE <1>0
  <2>1. CASE Registered(q) \/ InviteChecks(q) \/ StatusLands(q)
    BY <2>1 DEF Registered, InviteChecks, StatusLands, Stay, Unmoved, PhoneOK, PhoneFields
  <2>2. CASE Proceeds(q) \/ Shrugged(q)
    BY <2>2 DEF Proceeds, Shrugged, Stay, Unmoved
  <2>3. CASE Dismissed(q)
    <3>1. q.what \in DOMAIN Flagged
      BY <2>3 DEF Dismissed, Flagged
    <3>2. QED
      BY <2>3, <3>1, Lifted DEF Dismissed, Stay, Unmoved
  <2>4. CASE Refused(q)
    BY <2>4, Lifted DEF Refused, Stay, Unmoved
  <2>5. CASE NeedsCode(q)
    BY <2>5, GoneTo DEF NeedsCode, Stay, Unmoved
  <2>6. CASE Finished(q)
    <3>1. q.what \in DOMAIN Flagged
      BY <2>6 DEF Finished, Flagged
    <3>2. /\ PhoneOK(Lift(q, FALSE))
          /\ Lift(q, FALSE).me = phone.me /\ Lift(q, FALSE).booted = phone.booted
      BY <3>1, Lifted
    <3>3. phone' = [Lift(q, FALSE) EXCEPT !.sent = TRUE] \/ phone' = Lift(q, FALSE)
      BY <2>6 DEF Finished
    <3>4. PhoneOK(phone') /\ phone'.me = phone.me /\ phone'.booted = phone.booted
      BY <3>2, <3>3 DEF PhoneOK, PhoneFields
    <3>5. QED
      BY <2>6, <3>4 DEF Finished, Stay, Unmoved
  <2>7. QED
    BY <2>1, <2>2, <2>3, <2>4, <2>5, <2>6 DEF Replies
<1>2. QED
  BY <1>1, LiftedBooted, UnmovedStep

Serves(q) ==
    \/ ServePhoneProbe(q) \/ ServePhoneLogin(q) \/ ServePhoneChallenge(q)
    \/ ServePhoneLogout(q) \/ ServeDeletion(q) \/ ServeStatus(q) \/ ServeCalls(q) \/ CallFails(q)

LEMMA ServeStep ==
    ASSUME CacheInv, NEW q \in calls, Serves(q)
    PROVE  CacheInv'
<1>1. UNCHANGED <<phone, disk, writes>>
  BY DEF Serves, ServePhoneProbe, ServePhoneLogin, ServePhoneChallenge, ServePhoneLogout,
         ServeDeletion, ServeStatus, ServeCalls, CallFails, Elsewhere
<1>2. QED
  BY <1>1, LiftedBooted, UnmovedStep DEF CacheInv, Unmoved

LEMMA QuietStep ==
    ASSUME CacheInv,
           \/ PollTick \/ HomeChanges \/ UNCHANGED mobileVars
           \/ \E p \in polls : PollMoves(p)
    PROVE  CacheInv'
<1>1. calls' = calls /\ writes' = writes /\ disk' = disk
  BY DEF PollTick, HomeChanges, PollMoves, PollServed, PollLands, mobileVars
<1>2. PhoneOK(phone') /\ phone'.me = phone.me /\ phone'.booted = phone.booted
  BY DEF PollTick, RefreshUnread, HomeChanges, PollMoves, PollServed, PollLands, mobileVars,
         CacheInv, PhoneOK, PhoneFields
<1>3. QED
  BY <1>1, <1>2, UnmovedStep DEF CacheInv, Unmoved

-----------------------------------------------------------------------------
(* Steps that change `current` or the storage. *)

LEMMA SetMeStep ==
    ASSUME CacheInv, phone.booted, NEW who, NEW next, SetMe(phone, who, next), disk' = disk
    PROVE  CacheInv'
<1>1. PhoneOK(phone') /\ phone'.me = who /\ phone'.booted
  BY DEF SetMe, CacheInv, PhoneOK, PhoneFields
<1>2. /\ WritesOK(writes') /\ writes' # <<>>
      /\ writes'[Len(writes')] = [me |-> who, next |-> next]
  BY AppendedWrite DEF SetMe, CacheInv
<1>3. QED
  BY <1>1, <1>2 DEF CacheInv, CacheFollowsMe

LEMMA Continued ==
    ASSUME CacheInv, NEW next
    PROVE  /\ PhoneOK(Continue(phone, next))
           /\ Continue(phone, next).me = phone.me
           /\ Continue(phone, next).booted = phone.booted
<1>1. \/ Continue(phone, next) = GoTo(phone, "tabs")
      \/ Continue(phone, next) = GoTo(phone, "settings")
      \/ Continue(phone, next) = phone
  BY Zenon DEF Continue
<1>2. QED
  BY <1>1, GoneTo DEF CacheInv

LEMMA ChangeStep ==
    ASSUME CacheInv, NEW q \in calls, Probed(q) \/ ProfileSaved(q) \/ PhoneLoggedOut(q)
    PROVE  CacheInv'
<1>1. phone.booted /\ disk' = disk
  BY LiftedBooted DEF Probed, PhoneProbed, ProfileSaved, PhoneLoggedOut
<1>2. \/ \E who, next : SetMe(phone, who, next)
      \/ \E next : phone' = Continue(phone, next) /\ writes' = writes
  BY DEF Probed, PhoneProbed, ProfileSaved, PhoneLoggedOut
<1>3. ASSUME NEW next, phone' = Continue(phone, next), writes' = writes
      PROVE  CacheInv'
  BY <1>1, <1>3, Continued, UnmovedStep DEF Unmoved
<1>4. QED
  BY <1>1, <1>2, <1>3, SetMeStep

LEMMA StoredStep ==
    ASSUME CacheInv, Stored
    PROVE  CacheInv'
<1>1. phone' = Continue(phone, Head(writes).next) /\ writes # <<>>
      /\ disk' = Head(writes).me /\ writes' = Tail(writes)
  BY DEF Stored
<1>2. phone.booted /\ phone.me = writes[Len(writes)].me
  BY <1>1 DEF CacheInv, CacheFollowsMe
<1>3. /\ WritesOK(Tail(writes))
      /\ Tail(writes) = <<>> => Head(writes) = writes[Len(writes)]
      /\ Tail(writes) # <<>> => Tail(writes)[Len(Tail(writes))] = writes[Len(writes)]
  BY <1>1, FirstWriteDone DEF CacheInv
<1>4. PhoneOK(phone') /\ phone'.me = phone.me /\ phone'.booted
  BY <1>1, <1>2, Continued
<1>5. CacheFollowsMe'
  BY <1>1, <1>2, <1>3, <1>4 DEF CacheFollowsMe
<1>6. QED
  BY <1>1, <1>3, <1>4, <1>5 DEF CacheInv

LEMMA NewProcess ==
    ASSUME NEW entry
    PROVE  PhoneOK(Launched(entry)) /\ ~Launched(entry).booted
BY DEF Launched, PhoneOK, PhoneFields

LEMMA LaunchStep ==
    ASSUME CacheInv, Hydrate \/ Kill
    PROVE  CacheInv'
<1>1. CASE Hydrate
  BY <1>1 DEF Hydrate, CacheInv, CacheFollowsMe, PhoneOK, PhoneFields
<1>2. CASE Kill
  <2>1. WritesOK(<<>>)
    <3>1. <<>> \in Seq({})
      OBVIOUS
    <3>2. QED
      BY <3>1 DEF WritesOK
  <2>2. PhoneOK(phone') /\ ~phone'.booted
    BY <1>2, NewProcess DEF Kill
  <2>3. QED
    BY <1>2, <2>1, <2>2 DEF Kill, CacheInv, CacheFollowsMe
<1>3. QED
  BY <1>1, <1>2

-----------------------------------------------------------------------------

(* Across logins, logouts, late probes, kills and launches, the stored user is `current` once
   the writes on their way are through.  [auth.ts 37-59] *)
THEOREM CacheAlwaysFollowsMe == MobileSpec => []CacheFollowsMe
<1>1. MobileInit => CacheInv
  <2>1. <<>> \in Seq({})
    OBVIOUS
  <2>2. QED
    BY <2>1, NewProcess DEF MobileInit, PhoneOff, CacheInv, CacheFollowsMe, WritesOK
<1>2. CacheInv /\ [MobileNext]_mobileVars => CacheInv'
  <2> SUFFICES ASSUME CacheInv, [MobileNext]_mobileVars
               PROVE  CacheInv'
    OBVIOUS
  <2>1. CASE Presses
    BY <2>1, PressStep
  <2>2. CASE Hydrate \/ Kill
    BY <2>2, LaunchStep
  <2>3. CASE Stored
    BY <2>3, StoredStep
  <2>4. CASE \/ PollTick \/ HomeChanges \/ UNCHANGED mobileVars
             \/ \E p \in polls : PollMoves(p)
    BY <2>4, QuietStep
  <2>5. ASSUME NEW q \in calls,
               \/ Replies(q) \/ Serves(q)
               \/ Probed(q) \/ ProfileSaved(q) \/ PhoneLoggedOut(q)
        PROVE  CacheInv'
    BY <2>5, ReplyStep, ServeStep, ChangeStep
  <2>6. QED
    BY <2>1, <2>2, <2>3, <2>4, <2>5 DEF MobileNext, Presses, Replies, Serves
<1>3. CacheInv => CacheFollowsMe
  BY DEF CacheInv
<1>4. QED
  BY <1>1, <1>2, <1>3, PTL DEF MobileSpec

-----------------------------------------------------------------------------
(* The event stream of the app's message thread. *)

TalkFields == {"open", "messages", "loading", "text", "sending", "typing", "media", "uploading",
               "sheet", "viewer"}
ClosureFields == {"closed", "retried", "timers", "alive", "own", "erring", "news"}

TalkOK(t) == t = [f \in TalkFields |-> t[f]] /\ t.open \in BOOLEAN

ClosureOK(s) ==
    /\ s = [f \in ClosureFields |-> s[f]]
    /\ s.closed \in BOOLEAN /\ s.retried \in BOOLEAN /\ s.timers \in {0, 1}
    /\ s.alive \subseteq {s.own}
    /\ s.closed => s.alive = {}
    /\ s.timers = 1 => s.alive = {} /\ s.retried
    /\ s.erring # {} => s.closed \/ s.retried

SeqOK(w) == \E S : w \in Seq(S)

StreamsInv ==
    /\ TalkOK(talk)
    /\ SeqOK(streams) /\ streams # <<>>
    /\ \A n \in 1..Len(streams) :
          ClosureOK(streams[n]) /\ (n < Len(streams) \/ ~talk.open => streams[n].closed)

-----------------------------------------------------------------------------
(* Sequences of closures. *)

LEMMA SeqDomain ==
    ASSUME NEW w, SeqOK(w)
    PROVE  DOMAIN w = 1..Len(w) /\ Len(w) \in Nat /\ (w # <<>> => Len(w) \in 1..Len(w))
<1>1. PICK S : w \in Seq(S)
  BY DEF SeqOK
<1>2. DOMAIN w = 1..Len(w) /\ Len(w) \in Nat
  BY <1>1, LenProperties
<1>3. w # <<>> => Len(w) \in Nat \ {0}
  BY <1>1, EmptySeq
<1>4. QED
  BY <1>2, <1>3

LEMMA Appended ==
    ASSUME NEW w, SeqOK(w), NEW e
    PROVE  /\ SeqOK(Append(w, e)) /\ Append(w, e) # <<>> /\ Len(Append(w, e)) = Len(w) + 1
           /\ \A n \in 1..Len(w) : Append(w, e)[n] = w[n]
           /\ Append(w, e)[Len(w) + 1] = e
<1>1. PICK S : w \in Seq(S)
  BY DEF SeqOK
<1>2. w \in Seq(S \cup {e})
  BY <1>1
<1>3. QED
  BY <1>2, AppendProperties DEF SeqOK

Put(w, n, e) == [w EXCEPT ![n] = e]

LEMMA Replaced ==
    ASSUME NEW w, SeqOK(w), NEW n \in 1..Len(w), NEW e
    PROVE  LET v == Put(w, n, e) IN
           /\ SeqOK(v) /\ Len(v) = Len(w) /\ v # <<>>
           /\ v[n] = e /\ \A m \in 1..Len(w) : m # n => v[m] = w[m]
<1> DEFINE v == Put(w, n, e)
<1>1. PICK S : w \in Seq(S)
  BY DEF SeqOK
<1>2. w \in Seq(S \cup {e})
  BY <1>1
<1>3. /\ v \in Seq(S \cup {e}) /\ Len(v) = Len(w)
      /\ \A j \in 1..Len(w) : v[j] = IF j = n THEN e ELSE w[j]
  BY <1>2, ExceptSeq DEF Put
<1> HIDE DEF v
<1>4. v # <<>>
  <2>1. Len(<<>>) = 0 /\ Len(w) \in Nat
    BY <1>2, EmptySeq, LenProperties
  <2>2. Len(w) # 0
    BY <2>1
  <2>3. QED
    BY <1>3, <2>1, <2>2, Zenon
<1>5. QED
  BY <1>3, <1>4 DEF SeqOK, v

-----------------------------------------------------------------------------
(* The operators on a closure. *)

LEMMA Retried ==
    ASSUME NEW s, s = [f \in ClosureFields |-> s[f]], s.closed = FALSE, s.retried = FALSE,
           s.timers = 0
    PROVE  /\ Retry(s) = [f \in ClosureFields |-> Retry(s)[f]]
           /\ Retry(s).closed = FALSE /\ Retry(s).retried = TRUE /\ Retry(s).timers = 1
           /\ Retry(s).own = s.own /\ Retry(s).alive = s.alive /\ Retry(s).erring = s.erring
<1>1. s.timers + 1 = 1
  OBVIOUS
<1>2. Retry(s) = [s EXCEPT !.retried = TRUE, !.timers = 1]
  BY <1>1 DEF Retry
<1>3. QED
  BY <1>2 DEF ClosureFields

LEMMA RetrySound ==
    ASSUME NEW s, s = [f \in ClosureFields |-> s[f]], s.closed = FALSE, s.retried \in BOOLEAN,
           s.timers = 0, s.alive = {}
    PROVE  ClosureOK(Retry(s)) /\ Retry(s).closed = FALSE
<1>1. CASE s.retried
  BY <1>1 DEF Retry, ClosureOK
<1>2. CASE s.retried = FALSE
  <2> DEFINE u == Retry(s)
  <2>1. /\ u = [f \in ClosureFields |-> u[f]]
        /\ u.closed = FALSE /\ u.retried = TRUE /\ u.timers = 1 /\ u.alive = {}
    BY <1>2, Retried
  <2> HIDE DEF u
  <2>2. ClosureOK(u) /\ u.closed = FALSE
    BY <2>1 DEF ClosureOK
  <2>3. QED
    BY <2>2 DEF u
<1>3. QED
  BY <1>1, <1>2

Ended(s, x, failed) ==
    [s EXCEPT !.alive = @ \ {x}, !.news = {}, !.erring = IF failed THEN @ \cup {x} ELSE @]

LEMMA EndsSound ==
    ASSUME NEW s, ClosureOK(s), NEW x \in s.alive, NEW failed \in BOOLEAN
    PROVE  /\ ClosureOK(OnState4(Ended(s, x, failed), x))
           /\ OnState4(Ended(s, x, failed), x).closed = s.closed
<1> DEFINE e == Ended(s, x, failed)
<1>1. x = s.own /\ s.closed = FALSE /\ s.timers = 0 /\ s.retried \in BOOLEAN
  BY DEF ClosureOK
<1>2. /\ e = [f \in ClosureFields |-> e[f]]
      /\ e.closed = FALSE /\ e.retried \in BOOLEAN /\ e.timers = 0 /\ e.own = x
      /\ e.alive = {}
  BY <1>1 DEF ClosureOK, ClosureFields, Ended
<1> HIDE DEF e
<1>3. OnState4(e, x) = Retry(e)
  BY <1>2 DEF OnState4
<1>4. ClosureOK(Retry(e)) /\ Retry(e).closed = FALSE
  BY <1>2, RetrySound
<1>5. QED
  BY <1>1, <1>3, <1>4 DEF e

LEMMA ErrsSound ==
    ASSUME NEW s, ClosureOK(s), NEW x \in s.erring, NEW e, e = [s EXCEPT !.erring = @ \ {x}]
    PROVE  ClosureOK(OnStreamError(e)) /\ OnStreamError(e).closed = s.closed
<1>1. s.closed \/ s.retried
  BY DEF ClosureOK
<1>2. ClosureOK(e) /\ e.closed = s.closed /\ e.retried = s.retried
  BY <1>1 DEF ClosureOK, ClosureFields
<1>3. OnStreamError(e) = e
  BY <1>1, <1>2 DEF OnStreamError, Retry
<1>4. QED
  BY <1>2, <1>3

Fired(s) == [s EXCEPT !.timers = @ - 1]

LEMMA TimerSound ==
    ASSUME NEW s, ClosureOK(s), s.timers > 0
    PROVE  ClosureOK(Reconnect(Fired(s))) /\ Reconnect(Fired(s)).closed = s.closed
<1> DEFINE e == Fired(s)
<1>1. s.timers = 1 /\ s.timers - 1 = 0
  BY DEF ClosureOK
<1>2. /\ ClosureOK(e) /\ e.timers = 0 /\ e.closed = s.closed /\ e.alive = {}
      /\ e.retried = TRUE /\ e.closed \in BOOLEAN
  BY <1>1 DEF ClosureOK, ClosureFields, Fired
<1> HIDE DEF e
<1>3. CASE e.closed
  BY <1>2, <1>3 DEF Reconnect, e
<1>4. CASE e.closed = FALSE
  <2> DEFINE x == e.own + 1
             u == [e EXCEPT !.own = x, !.alive = @ \cup {x}]
  <2>1. Reconnect(e) = u
    BY <1>4 DEF Reconnect
  <2> HIDE DEF x
  <2>2. /\ u = [f \in ClosureFields |-> u[f]]
        /\ u.closed = FALSE /\ u.retried = TRUE /\ u.timers = 0 /\ u.own = x
        /\ u.alive = {x}
    BY <1>2, <1>4 DEF ClosureOK, ClosureFields
  <2> HIDE DEF u
  <2>3. u.timers \in {0, 1} /\ u.timers # 1 /\ u.alive \subseteq {u.own}
    BY <2>2
  <2>4. ClosureOK(u)
    BY <2>2, <2>3, Zenon DEF ClosureOK
  <2>5. QED
    BY <1>2, <1>4, <2>1, <2>2, <2>4 DEF e
<1>5. QED
  BY <1>2, <1>3, <1>4 DEF e

LEMMA NewsSound ==
    ASSUME NEW s, ClosureOK(s), NEW news
    PROVE  ClosureOK([s EXCEPT !.news = news]) /\ [s EXCEPT !.news = news].closed = s.closed
BY DEF ClosureOK, ClosureFields

LEMMA CloseSound ==
    ASSUME NEW s, ClosureOK(s)
    PROVE  ClosureOK(CloseStream(s)) /\ CloseStream(s).closed
BY DEF CloseStream, ClosureOK, ClosureFields

LEMMA ClosureSound == ClosureOK(Closure) /\ ~Closure.closed
BY DEF Closure, ClosureOK, ClosureFields

-----------------------------------------------------------------------------
(* The steps. *)

Stays == TalkOK(talk') /\ talk'.open = talk.open

LEMMA OneClosureStep ==
    ASSUME StreamsInv, Stays, NEW n \in 1..Len(streams), NEW s,
           OnStream(n, s), ClosureOK(s), s.closed = streams[n].closed
    PROVE  StreamsInv'
<1>1. /\ SeqOK(streams') /\ Len(streams') = Len(streams) /\ streams' # <<>>
      /\ streams'[n] = s /\ \A m \in 1..Len(streams) : m # n => streams'[m] = streams[m]
  <2>1. SeqOK(streams) /\ streams' = Put(streams, n, s)
    BY DEF StreamsInv, OnStream, Put
  <2>2. QED
    BY <2>1, Replaced
<1>2. QED
  BY <1>1 DEF StreamsInv, Stays

LEMMA SameStreamsStep ==
    ASSUME StreamsInv, Stays, streams' = streams
    PROVE  StreamsInv'
BY DEF StreamsInv, Stays

LEMMA HereIsOne == StreamsInv => Here \in 1..Len(streams) /\ ClosureOK(streams[Here])
BY SeqDomain DEF StreamsInv, Here

EventStreamNext ==
    \E n \in DOMAIN streams :
       \/ StreamTimer(n)
       \/ \E x \in streams[n].alive : StreamEnds(n, x)
       \/ \E x \in streams[n].erring : StreamErrs(n, x)

LEMMA EventStreamStep ==
    ASSUME StreamsInv, EventStreamNext
    PROVE  StreamsInv'
<1>1. PICK n \in 1..Len(streams) :
         \/ StreamTimer(n)
         \/ \E x \in streams[n].alive : StreamEnds(n, x)
         \/ \E x \in streams[n].erring : StreamErrs(n, x)
  BY SeqDomain DEF StreamsInv, EventStreamNext
<1>2. ClosureOK(streams[n])
  BY DEF StreamsInv
<1>3. Stays
  BY <1>1 DEF StreamTimer, StreamEnds, StreamErrs, Stays, StreamsInv
<1>4. CASE StreamTimer(n)
  BY <1>2, <1>3, <1>4, TimerSound, OneClosureStep DEF StreamTimer, Fired
<1>5. ASSUME NEW x \in streams[n].alive, StreamEnds(n, x)
      PROVE  StreamsInv'
  BY <1>2, <1>3, <1>5, EndsSound, OneClosureStep DEF StreamEnds, Ended
<1>6. ASSUME NEW x \in streams[n].erring, StreamErrs(n, x)
      PROVE  StreamsInv'
  BY <1>2, <1>3, <1>6, ErrsSound, OneClosureStep DEF StreamErrs
<1>7. QED
  BY <1>1, <1>4, <1>5, <1>6

(* News comes in and is taken. *)
NewsNext == TypingEvent \/ DmArrives \/ PeerSends \/ PeerIsTyping

LEMMA NewsStep ==
    ASSUME StreamsInv, NewsNext
    PROVE  StreamsInv'
<1>1. Stays
  BY DEF NewsNext, TypingEvent, DmArrives, PeerSends, PeerIsTyping, Stays, StreamsInv, TalkOK,
         TalkFields
<1>2. \/ streams' = streams
      \/ \E news : OnStream(Here, [streams[Here] EXCEPT !.news = news])
  BY DEF NewsNext, TypingEvent, DmArrives, PeerSends, PeerIsTyping, Publish, OnStream
<1>3. ASSUME NEW news, OnStream(Here, [streams[Here] EXCEPT !.news = news])
      PROVE  StreamsInv'
  BY <1>1, <1>3, HereIsOne, NewsSound, OneClosureStep
<1>4. QED
  BY <1>1, <1>2, <1>3, SameStreamsStep

ScreenNext ==
    \/ PollClips \/ OnType \/ AttachMedia \/ RemoveAttachment \/ SendText
    \/ OpenSheet \/ CloseSheet \/ OpenViewer \/ CloseViewer \/ DeleteMessage
    \/ (\E id \in 1..MaxLine : ToggleReaction(id))
    \/ TypingTimer \/ TranscodeEnds
    \/ \E q \in jobs :
          \/ LoadLands(q) \/ UploadDone(q) \/ SendDone(q) \/ ChangeDone(q) \/ Gone(q)
          \/ ServeLoad(q) \/ ServeText(q) \/ ServeChange(q) \/ JobFails(q)

LEMMA ScreenStep ==
    ASSUME StreamsInv, ScreenNext \/ UNCHANGED threadVars
    PROVE  StreamsInv'
<1> USE DEF Stays, StreamsInv, TalkOK, TalkFields
<1>1. CASE PollClips \/ OnType \/ AttachMedia \/ RemoveAttachment \/ SendText \/ TypingTimer
  BY <1>1, SameStreamsStep DEF PollClips, OnType, AttachMedia, RemoveAttachment, SendText,
                               TypingTimer
<1>2. CASE OpenSheet \/ CloseSheet \/ OpenViewer \/ CloseViewer
  BY <1>2, SameStreamsStep DEF OpenSheet, CloseSheet, OpenViewer, CloseViewer
<1>3. CASE DeleteMessage \/ \E id \in 1..MaxLine : ToggleReaction(id)
  <2>1. /\ streams' = streams
        /\ \E messages : talk' = [talk EXCEPT !.sheet = 0, !.messages = messages]
    BY <1>3 DEF DeleteMessage, ToggleReaction
  <2>2. QED
    BY <2>1, SameStreamsStep
<1>4. ASSUME NEW q \in jobs, LoadLands(q) \/ UploadDone(q) \/ SendDone(q) \/ ChangeDone(q)
      PROVE  StreamsInv'
  BY <1>4, SameStreamsStep DEF LoadLands, UploadDone, SendDone, ChangeDone, Lands
<1>5. ASSUME TranscodeEnds \/ (UNCHANGED threadVars) \/
             \E q \in jobs :
                Gone(q) \/ ServeLoad(q) \/ ServeText(q) \/ ServeChange(q) \/ JobFails(q)
      PROVE  StreamsInv'
  <2>1. UNCHANGED <<talk, streams>>
    BY <1>5 DEF TranscodeEnds, Gone, ServeLoad, ServeText, ServeChange, JobFails, threadVars
  <2>2. QED
    BY <2>1, SameStreamsStep
<1>6. QED
  BY <1>1, <1>2, <1>3, <1>4, <1>5 DEF ScreenNext

LEMMA OpenStep ==
    ASSUME StreamsInv, Open
    PROVE  StreamsInv'
<1>1. ~talk.open /\ talk' = Opening /\ streams' = Append(streams, Closure)
  BY DEF Open
<1>2. /\ SeqOK(streams') /\ streams' # <<>> /\ Len(streams') = Len(streams) + 1
      /\ \A n \in 1..Len(streams) : streams'[n] = streams[n]
      /\ streams'[Len(streams) + 1] = Closure
  BY <1>1, Appended DEF StreamsInv
<1>3. TalkOK(talk') /\ talk'.open
  BY <1>1 DEF Opening, TalkOK, TalkFields
<1>4. Len(streams) \in Nat
  BY SeqDomain DEF StreamsInv
<1>5. ASSUME NEW n \in 1..Len(streams')
      PROVE  /\ ClosureOK(streams'[n])
             /\ n < Len(streams') \/ ~talk'.open => streams'[n].closed
  <2>1. CASE n \in 1..Len(streams)
    BY <1>1, <1>2, <2>1 DEF StreamsInv
  <2>2. CASE n = Len(streams) + 1
    BY <1>2, <1>3, <1>4, <2>2, ClosureSound
  <2>3. QED
    BY <1>2, <1>4, <2>1, <2>2
<1>6. QED
  BY <1>2, <1>3, <1>5 DEF StreamsInv

LEMMA LeaveStep ==
    ASSUME StreamsInv, Leave
    PROVE  StreamsInv'
<1>1. OnStream(Here, CloseStream(streams[Here]))
  BY DEF Leave
<1>2. Here \in 1..Len(streams) /\ ClosureOK(streams[Here])
  BY HereIsOne
<1>3. /\ SeqOK(streams') /\ Len(streams') = Len(streams) /\ streams' # <<>>
      /\ streams'[Here] = CloseStream(streams[Here])
      /\ \A m \in 1..Len(streams) : m # Here => streams'[m] = streams[m]
  <2>1. SeqOK(streams) /\ streams' = Put(streams, Here, CloseStream(streams[Here]))
    BY <1>1 DEF StreamsInv, OnStream, Put
  <2>2. QED
    BY <1>2, <2>1, Replaced
<1>4. TalkOK(talk') /\ ~talk'.open
  BY DEF Leave, Opening, TalkOK, TalkFields
<1>5. ASSUME NEW n \in 1..Len(streams)
      PROVE  ClosureOK(streams'[n]) /\ streams'[n].closed
  <2>1. CASE n = Here
    BY <1>2, <1>3, <2>1, CloseSound
  <2>2. CASE n # Here
    <3>1. Len(streams) \in Nat /\ n < Len(streams)
      BY <2>2, SeqDomain DEF StreamsInv, Here
    <3>2. QED
      BY <1>3, <2>2, <3>1 DEF StreamsInv
  <2>3. QED
    BY <2>1, <2>2
<1>6. QED
  BY <1>3, <1>4, <1>5 DEF StreamsInv

-----------------------------------------------------------------------------

LEMMA OneStreamHolds ==
    ASSUME StreamsInv
    PROVE  OneStream
<1>1. DOMAIN streams = 1..Len(streams) /\ Len(streams) \in 1..Len(streams) /\ Len(streams) \in Nat
  BY SeqDomain DEF StreamsInv
<1>2. ASSUME NEW n \in DOMAIN streams, NEW x \in streams[n].alive
      PROVE  talk.open /\ n = Len(streams) /\ x = streams[Len(streams)].own
  <2>1. ClosureOK(streams[n]) /\ ~streams[n].closed
    BY <1>1, <1>2 DEF StreamsInv, ClosureOK
  <2>2. talk.open /\ n = Len(streams)
    BY <1>1, <2>1 DEF StreamsInv, TalkOK
  <2>3. QED
    BY <2>1, <2>2 DEF ClosureOK
<1>3. Live \subseteq {<<Len(streams), streams[Len(streams)].own>>}
  BY <1>2 DEF Live
<1>4. ~talk.open => Live = {}
  BY <1>2 DEF Live
<1>5. Cardinality({}) = 0
  BY FS_EmptySet
<1>6. Live = {} \/ Live = {<<Len(streams), streams[Len(streams)].own>>}
  BY <1>3
<1>7. Live # {} => Cardinality(Live) = 1
  BY <1>6, FS_Singleton
<1>8. CASE talk.open
  <2>1. Cardinality(Live) = 0 \/ Cardinality(Live) = 1
    BY <1>5, <1>7
  <2>2. QED
    BY <1>8, <2>1 DEF OneStream
<1>9. CASE ~talk.open
  <2>1. Cardinality(Live) = 0
    BY <1>4, <1>5, <1>9
  <2>2. QED
    BY <1>9, <2>1 DEF OneStream
<1>10. QED
  BY <1>8, <1>9

(* However often the thread is opened and left and the network fails, at most one event stream
   is open, and none once the thread is left.  [sse.ts 8-74; dm/[username].tsx 119-140] *)
THEOREM AlwaysOneStream == ThreadSpec => []OneStream
<1>1. ThreadInit => StreamsInv
  <2> SUFFICES ASSUME ThreadInit
               PROVE  StreamsInv
    OBVIOUS
  <2>1. streams = <<Closure>> /\ talk = Opening
    BY DEF ThreadInit
  <2>2. SeqOK(streams) /\ streams # <<>> /\ Len(streams) = 1 /\ streams[1] = Closure
    <3>1. <<Closure>> \in Seq({Closure}) /\ Len(<<Closure>>) = 1 /\ <<Closure>>[1] = Closure
      OBVIOUS
    <3>2. QED
      BY <2>1, <3>1 DEF SeqOK
  <2>3. TalkOK(talk) /\ talk.open
    BY <2>1 DEF Opening, TalkOK, TalkFields
  <2>4. QED
    BY <2>2, <2>3, ClosureSound DEF StreamsInv
<1>2. StreamsInv /\ [ThreadNext]_threadVars => StreamsInv'
  BY EventStreamStep, NewsStep, ScreenStep, OpenStep, LeaveStep
     DEF ThreadNext, EventStreamNext, NewsNext, ScreenNext
<1>3. StreamsInv => OneStream
  BY OneStreamHolds
<1>4. QED
  BY <1>1, <1>2, <1>3, PTL DEF ThreadSpec
=============================================================================
