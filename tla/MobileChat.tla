----------------------------- MODULE MobileChat -----------------------------
(***************************************************************************)
(* A direct-message thread of the mobile app: the list it loads, the text  *)
(* and the attachment on their way out, and the event stream it reads over *)
(* an XMLHttpRequest (sse.ts), one closure for every time the thread is    *)
(* opened.  Requests are answered and land in any order.                   *)
(***************************************************************************)
EXTENDS Integers, Sequences, FiniteSets, SequencesExt

CONSTANTS
    MaxActs,        \* bound: taps, messages of the peer and failures, together
    MaxLine,        \* bound: messages of the thread
    MaxOpens        \* bound: times the thread is opened

ASSUME MobileChatAssumption == MaxActs \in Nat /\ MaxLine \in Nat /\ MaxOpens \in Nat \ {0}

VARIABLES
    talk,           \* the state of the screen
    streams,        \* the closures of openEventStream, oldest first
    line,           \* the server's messages
    jobs,           \* requests in flight
    acts

threadVars == <<talk, streams, line, jobs, acts>>

Act == acts < MaxActs /\ acts' = acts + 1

Msg(id, mine, clip) ==
    [id |-> id, mine |-> mine, clip |-> clip, reacted |-> FALSE]

Job(what, id) == [what |-> what, id |-> id, visit |-> Len(streams), state |-> "sent",
                  answer |-> <<>>]
LoadJob == Job("load", 0)

Opening == [open |-> TRUE, messages |-> <<>>, loading |-> TRUE, text |-> FALSE,
            sending |-> FALSE, typing |-> FALSE, media |-> FALSE, uploading |-> FALSE,
            sheet |-> 0, viewer |-> FALSE]

-----------------------------------------------------------------------------
(* One closure of openEventStream: its requests that are alive, the one it calls its own,
   those whose end was reported as a state but not yet as an error, its timers. *)

Closure == [closed |-> FALSE, retried |-> FALSE, timers |-> 0, alive |-> {1}, own |-> 1,
            erring |-> {}, news |-> {}]

Reconnect(s) ==
    IF s.closed THEN s
    ELSE LET x == s.own + 1 IN [s EXCEPT !.own = x, !.alive = @ \cup {x}]

(* One reconnection after a second and a half, and no more. *)
Retry(s) ==
    IF s.closed \/ s.retried THEN s ELSE [s EXCEPT !.retried = TRUE, !.timers = @ + 1]

OnState4(s, x) == IF s.closed \/ x # s.own THEN s ELSE Retry(s)

(* mutant: an error always tries again *)
OnErrorAlways(s) == IF s.closed THEN s ELSE [s EXCEPT !.retried = TRUE, !.timers = @ + 1]

OnStreamError(s) == Retry(s)

CloseStream(s) == [s EXCEPT !.closed = TRUE, !.alive = @ \ {s.own}, !.news = {}]

OnStream(n, s) == streams' = [streams EXCEPT ![n] = s]

(* The server ends the response, or the network fails, which is reported twice. *)
StreamEnds(n, x) ==
    /\ Act /\ x \in streams[n].alive
    /\ \E failed \in BOOLEAN :
          OnStream(n, OnState4([streams[n] EXCEPT
                                  !.alive = @ \ {x}, !.news = {},
                                  !.erring = IF failed THEN @ \cup {x} ELSE @], x))
    /\ UNCHANGED <<talk, line, jobs>>

StreamErrs(n, x) ==
    /\ x \in streams[n].erring
    /\ OnStream(n, OnStreamError([streams[n] EXCEPT !.erring = @ \ {x}]))
    /\ UNCHANGED <<talk, line, jobs, acts>>

StreamTimer(n) ==
    /\ streams[n].timers > 0
    /\ OnStream(n, Reconnect([streams[n] EXCEPT !.timers = @ - 1]))
    /\ UNCHANGED <<talk, line, jobs, acts>>

Here == Len(streams)
Listening == streams[Here].own \in streams[Here].alive

(* The peer is typing: the indicator goes up, and down after three quiet seconds. *)
TypingEvent ==
    /\ Listening /\ "typing" \in streams[Here].news
    /\ OnStream(Here, [streams[Here] EXCEPT !.news = @ \ {"typing"}])
    /\ talk' = [talk EXCEPT !.typing = TRUE]
    /\ UNCHANGED <<line, jobs, acts>>

TypingTimer ==
    /\ talk.typing
    /\ talk' = [talk EXCEPT !.typing = FALSE]
    /\ UNCHANGED <<streams, line, jobs, acts>>

(* A message for the open thread: a chime and a load. *)
DmArrives ==
    /\ Listening /\ "dm" \in streams[Here].news
    /\ OnStream(Here, [streams[Here] EXCEPT !.news = @ \ {"dm"}])
    /\ jobs' = jobs \cup {LoadJob}
    /\ UNCHANGED <<talk, line, acts>>

-----------------------------------------------------------------------------
(* What can be pressed. *)

BubbleView(msg) ==
    {"sheet"} \cup (IF msg.clip = "none" THEN {"image"} ELSE {})
              \cup (IF msg.clip = "ready" THEN {"player"} ELSE {})
              \cup (IF msg.reacted THEN {"reaction"} ELSE {})

SheetView ==
    IF talk.sheet = 0 THEN {}
    ELSE {"emoji", "close"}
         \cup (IF \E i \in DOMAIN talk.messages :
                     talk.messages[i].id = talk.sheet /\ talk.messages[i].mine
               THEN {"delete"} ELSE {})

ThreadScreen ==
    IF ~talk.open THEN {}
    ELSE {"back", "profile", "type"}
         \cup (IF talk.viewer THEN {"viewer"} ELSE {})
         \cup (IF talk.media THEN {"drop_media"} ELSE {})
         \cup (IF talk.uploading THEN {} ELSE {"attach"})
         \cup (IF (talk.text \/ talk.media) /\ ~talk.sending THEN {"send"} ELSE {})

-----------------------------------------------------------------------------
(* The screen. *)

Open ==
    /\ Act /\ ~talk.open /\ Len(streams) < MaxOpens
    /\ talk' = Opening
    /\ streams' = Append(streams, Closure)
    /\ jobs' = jobs \cup {[LoadJob EXCEPT !.visit = Len(streams')]}
    /\ UNCHANGED line

Leave ==
    /\ "back" \in ThreadScreen
    /\ talk' = [Opening EXCEPT !.open = FALSE, !.loading = FALSE]
    /\ OnStream(Here, CloseStream(streams[Here]))
    /\ UNCHANGED <<line, jobs, acts>>

(* The list polls while a clip is in the transcoder. *)
PollClips ==
    /\ talk.open
    /\ \E i \in DOMAIN talk.messages : talk.messages[i].clip = "pending"
    /\ LoadJob \notin jobs
    /\ jobs' = jobs \cup {LoadJob}
    /\ UNCHANGED <<talk, streams, line, acts>>

OnType ==
    /\ Act /\ "type" \in ThreadScreen
    /\ \E text \in BOOLEAN : talk' = [talk EXCEPT !.text = text]
    /\ UNCHANGED <<streams, line, jobs>>

AttachMedia ==
    /\ Act /\ "attach" \in ThreadScreen
    /\ talk' = [talk EXCEPT !.uploading = TRUE]
    /\ jobs' = jobs \cup {Job("upload", 0)}
    /\ UNCHANGED <<streams, line>>

RemoveAttachment ==
    /\ "drop_media" \in ThreadScreen
    /\ talk' = [talk EXCEPT !.media = FALSE]
    /\ UNCHANGED <<streams, line, jobs, acts>>

(* The box is emptied at once and filled again if the message is refused. *)
SendText ==
    /\ Act /\ "send" \in ThreadScreen
    /\ talk' = [talk EXCEPT !.sending = TRUE, !.text = FALSE, !.media = FALSE]
    /\ jobs' = jobs \cup {[Job("send", 0) EXCEPT !.answer = <<talk.text, talk.media>>]}
    /\ UNCHANGED <<streams, line>>

OpenSheet ==
    /\ \E i \in DOMAIN talk.messages :
          /\ "sheet" \in BubbleView(talk.messages[i])
          /\ talk' = [talk EXCEPT !.sheet = talk.messages[i].id]
    /\ UNCHANGED <<streams, line, jobs, acts>>

CloseSheet ==
    /\ "close" \in SheetView
    /\ talk' = [talk EXCEPT !.sheet = 0]
    /\ UNCHANGED <<streams, line, jobs, acts>>

OpenViewer ==
    /\ \E i \in DOMAIN talk.messages : "image" \in BubbleView(talk.messages[i])
    /\ talk' = [talk EXCEPT !.viewer = TRUE]
    /\ UNCHANGED <<streams, line, jobs, acts>>

CloseViewer ==
    /\ "viewer" \in ThreadScreen
    /\ talk' = [talk EXCEPT !.viewer = FALSE]
    /\ UNCHANGED <<streams, line, jobs, acts>>

Flip(messages, id) ==
    [i \in DOMAIN messages |-> IF messages[i].id = id THEN [messages[i] EXCEPT !.reacted = ~@]
                               ELSE messages[i]]
Rest(messages, id) == SelectSeq(messages, LAMBDA msg : msg.id # id)

(* Both change the list at once; only a refusal loads it again. *)
ToggleReaction(id) ==
    /\ Act
    /\ \/ id = talk.sheet /\ "emoji" \in SheetView
       \/ \E i \in DOMAIN talk.messages :
             talk.messages[i].id = id /\ "reaction" \in BubbleView(talk.messages[i])
    /\ talk' = [talk EXCEPT !.sheet = 0, !.messages = Flip(@, id)]
    /\ jobs' = jobs \cup {Job("react", id)}
    /\ UNCHANGED <<streams, line>>

DeleteMessage ==
    /\ Act /\ "delete" \in SheetView
    /\ talk' = [talk EXCEPT !.sheet = 0, !.messages = Rest(@, talk.sheet)]
    /\ jobs' = jobs \cup {Job("delete", talk.sheet)}
    /\ UNCHANGED <<streams, line>>

-----------------------------------------------------------------------------
(* The answers; those of an earlier visit find no screen. *)

Stale(q) == ~talk.open \/ q.visit # Here

Gone(q) ==
    /\ Stale(q) /\ q.state # "sent"
    /\ jobs' = jobs \ {q}
    /\ UNCHANGED <<talk, streams, line, acts>>

Lands(q, what) ==
    /\ q.what = what /\ q.state # "sent" /\ ~Stale(q)
    /\ UNCHANGED <<streams, line, acts>>

(* Whatever was loaded replaces the list, and the thread is marked read. *)
LoadLands(q) ==
    /\ Lands(q, "load")
    /\ IF q.state = "ok"
       THEN /\ talk' = [talk EXCEPT !.messages = q.answer, !.loading = FALSE]
            /\ jobs' = (jobs \ {q}) \cup {Job("read", 0)}
       ELSE talk' = [talk EXCEPT !.loading = FALSE] /\ jobs' = jobs \ {q}

UploadDone(q) ==
    /\ Lands(q, "upload")
    /\ talk' = [talk EXCEPT !.uploading = FALSE, !.media = @ \/ q.state = "ok"]
    /\ jobs' = jobs \ {q}

SendDone(q) ==
    /\ Lands(q, "send")
    /\ talk' = IF q.state = "ok"
                 THEN [talk EXCEPT !.sending = FALSE, !.messages = @ \o q.answer]
                 ELSE [talk EXCEPT !.sending = FALSE, !.text = q.answer[1],
                                     !.media = q.answer[2]]
    /\ jobs' = jobs \ {q}

ChangeDone(q) ==
    /\ q.what \in {"react", "delete", "read"} /\ Lands(q, q.what)
    /\ jobs' = (jobs \ {q}) \cup
               (IF q.state = "failed" /\ q.what # "read" THEN {LoadJob} ELSE {})
    /\ UNCHANGED talk

-----------------------------------------------------------------------------
(* The server. *)

JobAnswered(q, state, answer) ==
    jobs' = (jobs \ {q}) \cup {[q EXCEPT !.state = state, !.answer = answer]}

NextId == 1 + FoldLeft(LAMBDA top, msg : IF msg.id > top THEN msg.id ELSE top, 0, line)

ServeLoad(q) ==
    /\ q.what = "load" /\ q.state = "sent"
    /\ JobAnswered(q, "ok", line)
    /\ UNCHANGED <<talk, streams, line, acts>>

ServeText(q) ==
    /\ q.what = "send" /\ q.state = "sent" /\ Len(line) < MaxLine
    /\ \E clip \in IF q.answer[2] THEN {"none", "pending"} ELSE {"none"} :
          LET msg == Msg(NextId, TRUE, clip) IN
          line' = Append(line, msg) /\ JobAnswered(q, "ok", <<msg>>)
    /\ UNCHANGED <<talk, streams, acts>>

ServeChange(q) ==
    /\ q.what \in {"react", "delete", "read", "upload"} /\ q.state = "sent"
    /\ line' = CASE q.what = "delete" -> Rest(line, q.id)
                 [] q.what = "react" -> Flip(line, q.id)
                 [] OTHER -> line
    /\ JobAnswered(q, "ok", <<>>)
    /\ UNCHANGED <<talk, streams, acts>>

JobFails(q) ==
    /\ Act /\ q.state = "sent"
    /\ JobAnswered(q, "failed", q.answer)
    /\ UNCHANGED <<talk, streams, line>>

(* News reaches the thread over a live stream only. *)
Publish(kind) ==
    streams' = IF talk.open /\ Listening
               THEN [streams EXCEPT ![Here].news = @ \cup {kind}] ELSE streams

PeerSends ==
    /\ Act /\ Len(line) < MaxLine
    /\ \E clip \in {"none", "pending"} : line' = Append(line, Msg(NextId, FALSE, clip))
    /\ Publish("dm")
    /\ UNCHANGED <<talk, jobs>>

PeerIsTyping ==
    /\ Act /\ Publish("typing")
    /\ UNCHANGED <<talk, line, jobs>>

TranscodeEnds ==
    /\ \E i \in DOMAIN line, clip \in {"ready", "failed"} :
          line[i].clip = "pending" /\ line' = [line EXCEPT ![i].clip = clip]
    /\ UNCHANGED <<talk, streams, jobs, acts>>

-----------------------------------------------------------------------------

ThreadInit ==
    /\ talk = Opening /\ streams = <<Closure>> /\ line = <<Msg(1, TRUE, "none")>> /\ acts = 0
    /\ jobs = {[LoadJob EXCEPT !.visit = 1]}

ThreadNext ==
    \/ Open \/ Leave \/ PollClips \/ OnType \/ AttachMedia \/ RemoveAttachment \/ SendText
    \/ OpenSheet \/ CloseSheet \/ OpenViewer \/ CloseViewer \/ DeleteMessage
    \/ \E id \in 1..MaxLine : ToggleReaction(id)
    \/ TypingEvent \/ TypingTimer \/ DmArrives \/ PeerSends \/ PeerIsTyping \/ TranscodeEnds
    \/ \E n \in DOMAIN streams :
          \/ StreamTimer(n)
          \/ \E x \in streams[n].alive : StreamEnds(n, x)
          \/ \E x \in streams[n].erring : StreamErrs(n, x)
    \/ \E q \in jobs :
          \/ LoadLands(q) \/ UploadDone(q) \/ SendDone(q) \/ ChangeDone(q) \/ Gone(q)
          \/ ServeLoad(q) \/ ServeText(q) \/ ServeChange(q) \/ JobFails(q)

ThreadSpec == ThreadInit /\ [][ThreadNext]_threadVars

-----------------------------------------------------------------------------
(* However often the thread is opened and left and the network fails, at most one event
   stream is open at a time, and none once the thread is left: a failure, which XMLHttpRequest
   reports both as a state and as an error, brings one reconnection, and a timer that fires
   after the thread was left brings none.  [sse.ts 8-74; dm/[username].tsx 119-140] *)
Live == UNION {{<<n, x>> : x \in streams[n].alive} : n \in DOMAIN streams}
OneStream == Cardinality(Live) <= (IF talk.open THEN 1 ELSE 0)
=============================================================================
