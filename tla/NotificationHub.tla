-------------------------- MODULE NotificationHub ---------------------------
(***************************************************************************)
(* The hub that hands notifications to open event streams (state.rs,       *)
(* notifications.rs).  A map under a lock refers weakly to one channel per *)
(* listening account; streams, and whoever is about to send, hold it       *)
(* strongly, and it lives as long as one of them does.  A channel keeps    *)
(* the last few events; a stream that lags behind is told to resync.       *)
(*                                                                         *)
(* Abstracted away: what an event says, and the one public channel, whose  *)
(* sender lives as long as the server and whose streams lag alike.         *)
(***************************************************************************)
EXTENDS Integers, Sequences, FiniteSets

CONSTANTS
    Listeners,      \* accounts
    Streams,        \* open responses of /notifications/stream
    Senders,        \* requests that notify somebody
    Chans,          \* bound: channels there are at the same time
    NoChan,         \* an account without an entry
    RingCap,        \* events a channel keeps
    RetainAt,       \* entries from which a subscription tidies the map
    MaxNotices      \* bound: events ever sent

ASSUME HubAssumption ==
    /\ NoChan \notin Chans /\ Listeners # {}
    /\ RingCap \in Nat \ {0} /\ RetainAt \in Nat /\ MaxNotices \in Nat

VARIABLES
    entry,          \* users: the channel an account's weak reference leads to
    streams,        \* `ring` is the part of the channel this stream has not received
    senders,        \* the event and the channel a request has looked up
    due,            \* history: events looked up while the stream was open, not heard or told
    notices         \* the events sent so far, which names them

hubVars == <<entry, streams, senders, due, notices>>

Stream   == [open : BOOLEAN, user : Listeners, chan : Chans \cup {NoChan}, ring : Seq(Nat)]
Sender   == [chan : Chans \cup {NoChan}, event : Nat]
NoStream == [open |-> FALSE, user |-> CHOOSE u \in Listeners : TRUE, chan |-> NoChan,
             ring |-> <<>>]
NoSender == [chan |-> NoChan, event |-> 0]

HubInit ==
    /\ entry = [u \in Listeners |-> NoChan]
    /\ streams = [s \in Streams |-> NoStream]
    /\ senders = [p \in Senders |-> NoSender]
    /\ due = [s \in Streams |-> {}] /\ notices = 0

(* mutant: a stream keeps its receiver and drops the sender *)
StrongSenders(c) == c # NoChan /\ \E p \in Senders : senders[p].chan = c

(* Weak::upgrade, or strong_count() > 0. *)
Strong(c) ==
    c # NoChan /\ (\/ \E s \in Streams : streams[s].open /\ streams[s].chan = c
                   \/ \E p \in Senders : senders[p].chan = c)

FreeChans == {c \in Chans : ~Strong(c) /\ \A u \in Listeners : entry[u] # c}

MapEntries == {u \in Listeners : entry[u] # NoChan}

(* The entries left once the map has been tidied, which happens when it has grown. *)
Retained ==
    IF Cardinality(MapEntries) >= RetainAt
    THEN [u \in Listeners |-> IF Strong(entry[u]) THEN entry[u] ELSE NoChan]
    ELSE entry

-----------------------------------------------------------------------------
(* subscribe_user, all of it under the lock: join the channel there is or make one. *)
Subscribe(s, u) ==
    /\ ~streams[s].open
    /\ \E c \in IF Strong(Retained[u]) THEN {Retained[u]} ELSE FreeChans :
          /\ entry' = [Retained EXCEPT ![u] = c]
          /\ streams' = [streams EXCEPT ![s] = [open |-> TRUE, user |-> u, chan |-> c,
                                                ring |-> <<>>]]
    /\ due' = [due EXCEPT ![s] = {}]
    /\ UNCHANGED <<senders, notices>>

(* The client hangs up or the connection breaks. *)
Close(s) ==
    /\ streams[s].open
    /\ streams' = [streams EXCEPT ![s] = NoStream]
    /\ due' = [due EXCEPT ![s] = {}]
    /\ UNCHANGED <<entry, senders, notices>>

(* send_user under the lock: an entry that leads nowhere is removed. *)
LookUp(p, u) ==
    /\ senders[p].chan = NoChan /\ notices < MaxNotices
    /\ notices' = notices + 1
    /\ IF Strong(entry[u])
       THEN /\ senders' = [senders EXCEPT ![p] = [chan |-> entry[u], event |-> notices']]
            /\ UNCHANGED entry
       ELSE /\ entry' = [entry EXCEPT ![u] = NoChan]
            /\ UNCHANGED senders
    /\ due' = [s \in Streams |-> IF streams[s].open /\ streams[s].user = u
                                 THEN due[s] \cup {notices'} ELSE due[s]]
    /\ UNCHANGED streams

(* The send itself, after the lock was left. *)
Send(p) ==
    /\ senders[p].chan # NoChan
    /\ streams' = [s \in Streams |->
                     IF streams[s].open /\ streams[s].chan = senders[p].chan
                     THEN [streams[s] EXCEPT !.ring = Append(@, senders[p].event)]
                     ELSE streams[s]]
    /\ senders' = [senders EXCEPT ![p] = NoSender]
    /\ UNCHANGED <<entry, due, notices>>

Hear(s) ==
    LET ring == streams[s].ring IN
    /\ ring # <<>> /\ Len(ring) <= RingCap
    /\ streams' = [streams EXCEPT ![s].ring = Tail(@)]
    /\ due' = [due EXCEPT ![s] = @ \ {Head(ring)}]
    /\ UNCHANGED <<entry, senders, notices>>

(* The receiver finds that the channel has overwritten what it would read next: it goes on
   with the oldest event kept, and the stream sends `resync` for the others. *)
Resync(s) ==
    LET ring == streams[s].ring
        lost == Len(ring) - RingCap IN
    /\ lost > 0
    /\ streams' = [streams EXCEPT ![s].ring = SubSeq(@, lost + 1, Len(@))]
    /\ due' = [due EXCEPT ![s] = @ \ {ring[i] : i \in 1..lost}]
    /\ UNCHANGED <<entry, senders, notices>>

RestartHub ==
    /\ entry' = [u \in Listeners |-> NoChan]
    /\ streams' = [s \in Streams |-> NoStream]
    /\ senders' = [p \in Senders |-> NoSender]
    /\ due' = [s \in Streams |-> {}]
    /\ UNCHANGED notices

HubNext ==
    \/ \E s \in Streams, u \in Listeners : Subscribe(s, u)
    \/ \E s \in Streams : Close(s) \/ Hear(s) \/ Resync(s)
    \/ \E p \in Senders, u \in Listeners : LookUp(p, u)
    \/ \E p \in Senders : Send(p)
    \/ RestartHub

HubSpec == HubInit /\ [][HubNext]_hubVars

-----------------------------------------------------------------------------
(* Properties. *)

HubTypeOK ==
    /\ entry \in [Listeners -> Chans \cup {NoChan}]
    /\ streams \in [Streams -> Stream] /\ senders \in [Senders -> Sender]
    /\ due \in [Streams -> SUBSET Nat] /\ notices \in Nat

InHands(s, e) == \E p \in Senders : senders[p].chan = streams[s].chan /\ senders[p].event = e

(* state.rs:27, "a strong sender for its lifetime": whatever is sent to an account while a
   stream of its is open reaches that stream or the stream is told of it, however streams come
   and go, the map is tidied and senders are late. *)
HeardOrTold ==
    \A s \in Streams : \A e \in due[s] :
       InHands(s, e) \/ \E i \in 1..Len(streams[s].ring) : streams[s].ring[i] = e
=============================================================================
