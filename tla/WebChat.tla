------------------------------ MODULE WebChat ------------------------------
(***************************************************************************)
(* A conversation open in the web client, the messages the server has, and *)
(* what lies between: live events on their way down, requests on their way *)
(* up, served and refused in any order.  The page's instance is kept when  *)
(* the reader goes from one conversation to another; only the resource and *)
(* the read receipt follow the name in the address.                        *)
(***************************************************************************)
EXTENDS Integers, Sequences, FiniteSets, ArrayFilter, WebResource

CONSTANTS
    Clips,          \* messages with a clip
    Peers,          \* the other ends of the conversations
    MaxMessages,    \* bound: messages ever written
    Mutuals,        \* those who follow the reader and are followed
    Mutable,        \* those the reader may have muted
    MaxMoves        \* bound: clicks of the reader, what peers do but write, and failures

ASSUME ChatAssumption ==
    MaxMessages \in Nat /\ MaxMoves \in Nat /\ Mutuals \subseteq Peers /\ Mutable \subseteq Peers

VARIABLES
    moves,      \* clicks, typing and failures so far
    chat,       \* the server: messages, unread counts, who follows whom, who is muted
    thread,     \* the page
    badge,      \* the counter of unread messages in the navigation
    events,     \* live events not yet delivered
    calls       \* requests in flight, other than those of the two resources

chatVars == <<moves, chat, thread, badge, events, calls>>

None == 0
Emoji == {"heart", "fire"}

(* A message: who wrote it, the reader's reaction, the state of its clip. *)
Message(id, mine, clip) == [id |-> id, mine |-> mine, react |-> "none", clip |-> clip]

Call(op, peer, ids, arg) == [op |-> op, peer |-> peer, ids |-> ids, arg |-> arg, state |-> "sent"]

Ids(msgs) == {msgs[i].id : i \in DOMAIN msgs}
Without(msgs, ids) == Filter(msgs, {msg \in Items(msgs) : msg.id \notin ids})
Patched(msgs, id, emoji) ==
    [i \in DOMAIN msgs |-> IF msgs[i].id = id THEN [msgs[i] EXCEPT !.react = emoji] ELSE msgs[i]]

Made == Cardinality(UNION {Ids(chat.box[p]) : p \in Peers}) + Cardinality(chat.gone)

Move == moves < MaxMoves /\ moves' = moves + 1

-----------------------------------------------------------------------------
(* What is on screen, and so what the reader can do. *)

Data == thread.data.value[1]

(* The page has a conversation to show; a failed load breaks it. *)
ThreadShown == Shown(thread.data)

(* The header: in selection mode deleting, otherwise refreshing. *)
HeaderButtons ==
    IF thread.selecting
    THEN {"cancel"} \cup (IF thread.selected = {} THEN {} ELSE {"delete"})
    ELSE {"select", "refresh"}

(* The controls of a bubble. *)
BubbleControls(msg) ==
    (IF thread.selecting
     THEN IF msg.mine THEN {"check"} ELSE {}
     ELSE {"react"} \cup (IF msg.mine THEN {"delete"} ELSE {}))
    \cup (IF msg.clip = "ready" /\ thread.playing # msg.id THEN {"play"} ELSE {})
    \cup (IF msg.react # "none" THEN {"toggle"} ELSE {})
    \cup (IF thread.reactFor = msg.id THEN {"emoji"} ELSE {})

(* Below the messages: the composer for a mutual follow, else a way to get there. *)
Footer ==
    CASE Data.follow = "mutual" -> "composer"
      [] Data.follow = "none" -> "follow"
      [] Data.follow = "following" -> "waiting"

SendEnabled == ~thread.busy /\ (thread.body # "" \/ thread.media)

Bubbles == Items(Data.messages)

-----------------------------------------------------------------------------
(* Opening a conversation, from the list or another conversation: the resource and the
   effect that marks it read follow the name; the other signals stay. *)
OpenThread(p) ==
    /\ Move /\ thread.peer # p
    /\ thread' = [thread EXCEPT !.peer = p, !.data = Fetch(@, p)]
    /\ calls' = calls \cup {Call("read", p, {}, "")}
    /\ UNCHANGED <<chat, badge, events>>

Refetch(t) == [t EXCEPT !.data = Fetch(@, t.peer)]

Refresh ==
    /\ Move /\ ThreadShown /\ "refresh" \in HeaderButtons
    /\ thread' = Refetch(thread)
    /\ UNCHANGED <<chat, badge, events, calls>>

ThreadLands ==
    /\ Answered(thread.data)
    /\ thread' = [thread EXCEPT !.data = Land(@), !.busy = @ /\ ~thread.awaiting,
                                !.awaiting = FALSE]
    /\ UNCHANGED <<moves, chat, badge, events, calls>>

(* The badge: a count that cannot be read is shown as none. *)
BadgeLands ==
    /\ Answered(badge)
    /\ badge' = IF badge.request[1] = "served" THEN Land(badge)
                ELSE [Mutate(badge, 0) EXCEPT !.request = Quiet]
    /\ UNCHANGED <<moves, chat, thread, events, calls>>

(* While a clip on screen is not transcoded the page polls. *)
Pollable == \E msg \in Bubbles : msg.clip = "pending"
Poll ==
    /\ ThreadShown /\ Pollable
    /\ thread' = Refetch(thread)
    /\ UNCHANGED <<moves, chat, badge, events, calls>>

-----------------------------------------------------------------------------
(* Live events.  The layout hears them first and counts again; then the open page. *)

(* mutant: no refetch while another is in flight *)
OnNotifOnce(t, event) == IF event.peer = t.peer /\ ~Loading(t.data) THEN Refetch(t) ELSE t

OnNotif(t, event) == IF event.peer = t.peer THEN Refetch(t) ELSE t

(* mutant: the receipt is left to the opening of the conversation *)
ReadOnOpenOnly(event) == {}

ReadOnNotif(event) ==
    IF event.peer = thread.peer THEN {Call("read", thread.peer, {}, "")} ELSE {}

DmEvent ==
    /\ events # <<>> /\ Head(events).kind = "dm"
    /\ badge' = Fetch(badge, "all")
    /\ thread' = OnNotif(thread, Head(events))
    /\ calls' = calls \cup ReadOnNotif(Head(events))
    /\ events' = Tail(events)
    /\ UNCHANGED <<moves, chat>>

OnTyping ==
    /\ events # <<>> /\ Head(events).kind = "typing"
    /\ thread' = [thread EXCEPT !.typing = @ \/ Head(events).peer = thread.peer]
    /\ events' = Tail(events)
    /\ UNCHANGED <<moves, chat, badge, calls>>

TypingClears ==
    /\ thread.typing
    /\ thread' = [thread EXCEPT !.typing = FALSE]
    /\ UNCHANGED <<moves, chat, badge, events, calls>>

-----------------------------------------------------------------------------
(* What the reader does. *)

Type ==
    /\ ThreadShown /\ Footer = "composer" /\ thread.body = ""
    /\ thread' = [thread EXCEPT !.body = "typed"]
    /\ UNCHANGED <<moves, chat, badge, events, calls>>

OnPickFile ==
    /\ Move /\ ThreadShown /\ Footer = "composer" /\ ~thread.uploading
    /\ thread' = [thread EXCEPT !.uploading = TRUE, !.err = FALSE]
    /\ calls' = calls \cup {Call("upload", thread.peer, {}, "")}
    /\ UNCHANGED <<chat, badge, events>>

Upload(c) ==
    /\ c.op = "upload" /\ c.state # "sent"
    /\ thread' = [thread EXCEPT !.uploading = FALSE,
                                !.media = @ \/ c.state = "ok", !.err = @ \/ c.state = "failed"]
    /\ calls' = calls \ {c}
    /\ UNCHANGED <<moves, chat, badge, events>>

DropMedia ==
    /\ Move /\ ThreadShown /\ Footer = "composer" /\ thread.media
    /\ thread' = [thread EXCEPT !.media = FALSE]
    /\ UNCHANGED <<chat, badge, events, calls>>

Send ==
    /\ Move /\ ThreadShown /\ Footer = "composer" /\ SendEnabled
    /\ thread' = [thread EXCEPT !.busy = TRUE, !.err = FALSE]
    /\ calls' = calls \cup {Call("send", thread.peer, {}, IF thread.media THEN "media" ELSE "text")}
    /\ UNCHANGED <<chat, badge, events>>

SentMessage(c) == Message(CHOOSE id \in c.ids : TRUE, TRUE, "none")

(* The new message goes below whatever conversation is shown by then. *)
Sent(c) ==
    /\ c.op = "send" /\ c.state # "sent"
    /\ thread' = IF c.state = "failed"
                    \/ Throws(thread.data)
                 THEN [thread EXCEPT !.busy = FALSE, !.err = TRUE]
                 ELSE [thread EXCEPT
                         !.busy = FALSE, !.body = "", !.media = FALSE,
                         !.data = IF Shown(@)
                                  THEN Mutate(@, [Data EXCEPT
                                                     !.messages = Append(@, SentMessage(c))])
                                  ELSE @]
    /\ calls' = calls \ {c}
    /\ UNCHANGED <<moves, chat, badge, events>>

OpenReact ==
    /\ Move /\ ThreadShown
    /\ \E msg \in Bubbles :
          /\ "react" \in BubbleControls(msg)
          /\ thread' = [thread EXCEPT
                          !.reactFor = IF @ = msg.id THEN None ELSE msg.id]
    /\ UNCHANGED <<chat, badge, events, calls>>

(* One reaction per reader and message, shown before it is saved. *)
ToggleReact ==
    /\ Move /\ ThreadShown
    /\ \E msg \in Bubbles, emoji \in Emoji :
          /\ "emoji" \in BubbleControls(msg) \/ msg.react = emoji
          /\ LET to == IF msg.react = emoji THEN "none" ELSE emoji IN
             /\ thread' = [thread EXCEPT
                             !.reactFor = None,
                             !.data = Mutate(@, [Data EXCEPT !.messages = Patched(@, msg.id, to)])]
             /\ calls' = calls \cup {Call("react", thread.peer, {msg.id}, to)}
    /\ UNCHANGED <<chat, badge, events>>

DeleteMsg ==
    /\ Move /\ ThreadShown
    /\ \E msg \in Bubbles :
          /\ "delete" \in BubbleControls(msg)
          /\ thread' = [thread EXCEPT
                          !.data = Mutate(@, [Data EXCEPT !.messages = Without(@, {msg.id})])]
          /\ calls' = calls \cup {Call("delete", thread.peer, {msg.id}, "one")}
    /\ UNCHANGED <<chat, badge, events>>

ToggleSelecting ==
    /\ ThreadShown
    /\ thread' = [thread EXCEPT !.selecting = ~@, !.selected = {}]
    /\ UNCHANGED <<moves, chat, badge, events, calls>>

ToggleMsgSel ==
    /\ Move /\ ThreadShown
    /\ \E msg \in Bubbles :
          /\ "check" \in BubbleControls(msg)
          /\ thread' = [thread EXCEPT
                          !.selected = IF msg.id \in @ THEN @ \ {msg.id} ELSE @ \cup {msg.id}]
    /\ UNCHANGED <<chat, badge, events, calls>>

BulkDeleteMsgs ==
    /\ Move /\ ThreadShown /\ "delete" \in HeaderButtons
    /\ thread' = [thread EXCEPT
                    !.data = Mutate(@, [Data EXCEPT !.messages = Without(@, thread.selected)]),
                    !.selected = {}, !.selecting = FALSE]
    /\ calls' = calls \cup {Call("delete", thread.peer, thread.selected, "bulk")}
    /\ UNCHANGED <<chat, badge, events>>

(* A deletion or a reaction that failed loads the conversation again. *)
Undone(c) ==
    /\ c.op \in {"react", "delete"} /\ c.state # "sent"
    /\ thread' = IF c.state = "failed" THEN Refetch(thread) ELSE thread
    /\ badge' = IF c.state = "ok" /\ c.arg = "one" THEN Fetch(badge, "all") ELSE badge
    /\ calls' = calls \ {c}
    /\ UNCHANGED <<moves, chat, events>>

DoFollow ==
    /\ Move /\ ThreadShown /\ Footer = "follow" /\ ~thread.busy
    /\ thread' = [thread EXCEPT !.busy = TRUE]
    /\ calls' = calls \cup {Call("follow", thread.peer, {}, "")}
    /\ UNCHANGED <<chat, badge, events>>

(* `busy` stays until the refetch is over. *)
Followed(c) ==
    /\ c.op = "follow" /\ c.state # "sent"
    /\ thread' = IF c.state = "ok" THEN [Refetch(thread) EXCEPT !.awaiting = TRUE]
                 ELSE [thread EXCEPT !.busy = FALSE, !.err = TRUE]
    /\ calls' = calls \ {c}
    /\ UNCHANGED <<moves, chat, badge, events>>

Play ==
    /\ Move /\ ThreadShown
    /\ \E msg \in Bubbles :
          /\ "play" \in BubbleControls(msg)
          /\ thread' = [thread EXCEPT !.playing = msg.id]
    /\ UNCHANGED <<chat, badge, events, calls>>

(* The read receipt went through: count again. *)
MarkedRead(c) ==
    /\ c.op = "read" /\ c.state # "sent"
    /\ badge' = IF c.state = "ok" THEN Fetch(badge, "all") ELSE badge
    /\ calls' = calls \ {c}
    /\ UNCHANGED <<moves, chat, thread, events>>

-----------------------------------------------------------------------------
(* The server. *)

(* A request fails, which the bound counts with the clicks. *)
Fails == Move /\ chat' = [chat EXCEPT !.refused = TRUE]

AllUnread == UNION {chat.unread[p] : p \in Peers}
Unreads == Cardinality(AllUnread)
ThreadView(p) == [peer |-> p, messages |-> chat.box[p], follow |-> chat.follow[p]]

(* The other end of a mutual follow writes a message; some of its messages no event told of. *)
Received(p, silent) ==
    [chat EXCEPT !.box[p] = Append(@, Message(Made + 1, FALSE,
                                              IF Made + 1 \in Clips THEN "pending" ELSE "none")),
                 !.unread[p] = @ \cup {Made + 1},
                 !.silent[p] = silent]

(* Its event sets out once it is stored, unless the reader has muted the writer; and it
   makes the page load what came before it too. *)
Receive(p) ==
    /\ Made < MaxMessages /\ chat.follow[p] = "mutual" /\ p \notin chat.muted
    /\ chat' = Received(p, {})
    /\ events' = Append(events, [kind |-> "dm", peer |-> p])
    /\ UNCHANGED <<moves, thread, badge, calls>>

ReceiveMuted(p) ==
    /\ Made < MaxMessages /\ chat.follow[p] = "mutual" /\ p \in chat.muted
    /\ chat' = Received(p, chat.silent[p] \cup {Made + 1})
    /\ UNCHANGED <<moves, thread, badge, events, calls>>

(* The writer's request is cut off between the message and its event. *)
ReceiveCutOff(p) ==
    /\ Move /\ Made < MaxMessages /\ chat.follow[p] = "mutual" /\ p \notin chat.muted
    /\ chat' = Received(p, chat.silent[p] \cup {Made + 1})
    /\ UNCHANGED <<thread, badge, events, calls>>

FollowsBack(p) ==
    /\ Move /\ chat.follow[p] = "following"
    /\ chat' = [chat EXCEPT !.follow[p] = "mutual"]
    /\ UNCHANGED <<thread, badge, events, calls>>

PeerTypes(p) ==
    /\ Move /\ events = <<>> /\ ~thread.typing
    /\ chat.follow[p] = "mutual" /\ p \notin chat.muted
    /\ events' = <<[kind |-> "typing", peer |-> p]>>
    /\ UNCHANGED <<chat, thread, badge, calls>>

Transcoded(p) ==
    /\ \E i \in DOMAIN chat.box[p] :
          /\ chat.box[p][i].clip = "pending"
          /\ chat' = [chat EXCEPT !.box[p][i].clip = "ready"]
    /\ UNCHANGED <<moves, thread, badge, events, calls>>

ServeThread ==
    /\ Pending(thread.data)
    /\ \/ /\ thread' = [thread EXCEPT !.data = Answer(@, ThreadView(KeyOf(@)))]
          /\ UNCHANGED <<moves, chat>>
       \/ /\ Fails
          /\ thread' = [thread EXCEPT !.data = Refuse(@)]
    /\ UNCHANGED <<badge, events, calls>>

ServeBadge ==
    /\ Pending(badge)
    /\ \/ /\ badge' = Answer(badge, Unreads)
          /\ UNCHANGED <<moves, chat>>
       \/ /\ Fails
          /\ badge' = Refuse(badge)
    /\ UNCHANGED <<thread, events, calls>>

(* What a request does to the tables, and its answer. *)
Done(c) == (calls \ {c}) \cup {[c EXCEPT !.state = "ok"]}

SendStored(c) ==
    LET msg == Message(Made + 1, TRUE, "none") IN
    /\ c.op = "send" /\ chat.follow[c.peer] = "mutual" /\ Made < MaxMessages
    /\ chat' = [chat EXCEPT !.box[c.peer] = Append(@, msg)]
    /\ calls' = (calls \ {c}) \cup {[c EXCEPT !.state = "ok", !.ids = {msg.id}]}

ReadStored(c) ==
    /\ c.op = "read"
    /\ chat' = [chat EXCEPT !.unread[c.peer] = {}]
    /\ calls' = Done(c)

ReactStored(c) ==
    /\ c.op = "react"
    /\ chat' = [chat EXCEPT !.box[c.peer] = Patched(@, CHOOSE id \in c.ids : TRUE, c.arg)]
    /\ calls' = Done(c)

DeleteStored(c) ==
    /\ c.op = "delete"
    /\ chat' = [chat EXCEPT !.box = [p \in Peers |-> Without(@[p], c.ids)],
                            !.gone = @ \cup c.ids]
    /\ calls' = Done(c)

FollowStored(c) ==
    /\ c.op = "follow"
    /\ chat' = [chat EXCEPT !.follow[c.peer] = "following"]
    /\ calls' = Done(c)

Uploaded(c) ==
    /\ c.op = "upload"
    /\ calls' = Done(c)
    /\ UNCHANGED chat

ServeCall(c) ==
    /\ c.state = "sent"
    /\ \/ SendStored(c) \/ ReadStored(c) \/ ReactStored(c) \/ DeleteStored(c)
       \/ FollowStored(c) \/ Uploaded(c)
    /\ UNCHANGED <<moves, thread, badge, events>>

(* A request fails before or after it took effect. *)
RefuseCall(c) ==
    /\ c.state \in {"sent", "ok"}
    /\ Fails
    /\ calls' = (calls \ {c}) \cup {[c EXCEPT !.state = "failed"]}
    /\ UNCHANGED <<thread, badge, events>>

(* Messages go to those who follow back only. *)
SendRefused(c) ==
    /\ c.state = "sent" /\ c.op = "send" /\ chat.follow[c.peer] # "mutual"
    /\ calls' = (calls \ {c}) \cup {[c EXCEPT !.state = "failed"]}
    /\ UNCHANGED <<moves, chat, thread, badge, events>>

-----------------------------------------------------------------------------

Opened(p, view) ==
    [peer |-> p, data |-> Mutate(Unresolved, view), body |-> "", media |-> FALSE, busy |-> FALSE,
     uploading |-> FALSE, awaiting |-> FALSE, err |-> FALSE, typing |-> FALSE, reactFor |-> None,
     playing |-> None, selecting |-> FALSE, selected |-> {}]

(* A conversation with one message of the reader's is open and loaded. *)
OpenedChat(p, muted) ==
    /\ chat = [box |-> [q \in Peers |-> IF q = p THEN <<Message(1, TRUE, "none")>> ELSE <<>>],
                unread |-> [q \in Peers |-> {}],
                follow |-> [q \in Peers |-> IF q \in Mutuals THEN "mutual" ELSE "none"],
                muted |-> muted, silent |-> [q \in Peers |-> {}],
                gone |-> {}, refused |-> FALSE]
    /\ thread = Opened(p, ThreadView(p))
    /\ badge = Mutate(Unresolved, 0)
    /\ events = <<>> /\ calls = {} /\ moves = 0

ChatInit == \E p \in Peers, muted \in SUBSET Mutable : OpenedChat(p, muted)

ChatNext ==
    \/ \E p \in Peers :
          OpenThread(p) \/ Receive(p) \/ ReceiveMuted(p) \/ ReceiveCutOff(p)
          \/ FollowsBack(p) \/ PeerTypes(p) \/ Transcoded(p)
    \/ Refresh \/ ThreadLands \/ BadgeLands \/ Poll
    \/ DmEvent \/ OnTyping \/ TypingClears
    \/ Type \/ OnPickFile \/ DropMedia \/ Send
    \/ OpenReact \/ ToggleReact \/ DeleteMsg
    \/ ToggleSelecting \/ ToggleMsgSel \/ BulkDeleteMsgs \/ DoFollow \/ Play
    \/ ServeThread \/ ServeBadge
    \/ \E c \in calls :
          Upload(c) \/ Sent(c) \/ Undone(c) \/ Followed(c) \/ MarkedRead(c)
          \/ ServeCall(c) \/ RefuseCall(c) \/ SendRefused(c)

ChatSpec == ChatInit /\ [][ChatNext]_chatVars

-----------------------------------------------------------------------------
(* Nothing under way: no event to come, no answer to come for the page. *)
ThreadSettled == events = <<>> /\ Shown(thread.data) /\ ~Loading(thread.data)

(* Once events and answers are through, a conversation on screen is the one of the address
   and shows every message of its other end that an event told of, whatever was sent, deleted,
   reacted to or opened meanwhile and whichever requests failed.  (A message of someone muted
   comes without an event, dm.rs:465; `silent` holds those that no later event made good.)
   [DMThread: the resource, onNotif, and every mutate and refetch] *)
IncomingAlwaysShown ==
    ThreadSettled =>
       /\ Data.peer = thread.peer
       /\ \A i \in DOMAIN chat.box[thread.peer] :
             LET msg == chat.box[thread.peer][i] IN
             ~msg.mine /\ msg.id \notin chat.silent[thread.peer] => msg.id \in Ids(Data.messages)

(* Once all is through and nothing failed, what the open conversation was told of is read, and
   the badge counts all that is unread but silent messages that came after its last count.
   [DMThread 205-208, 238; Layout 159-160; auth.ts 70-80] *)
ReadAndCounted ==
    events = <<>> /\ calls = {} /\ ~Loading(badge) /\ ~chat.refused
       => /\ chat.unread[thread.peer] \subseteq chat.silent[thread.peer]
          /\ \E missed \in SUBSET UNION {chat.silent[p] : p \in Peers} :
                badge.value = <<Cardinality(AllUnread \ missed)>>
=============================================================================
