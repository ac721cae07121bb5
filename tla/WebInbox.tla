----------------------------- MODULE WebInbox ------------------------------
(***************************************************************************)
(* The list of conversations of the web client, the server's list of them, *)
(* and the box in which the reader looks up whom to write to.              *)
(***************************************************************************)
EXTENDS Integers, Sequences, FiniteSets, WebResource

CONSTANTS
    Others,         \* the other ends of the conversations
    MutedOthers,    \* those the reader has muted
    FirstSide,      \* those in whose conversations the reader is the pair's first (a_id)
    MaxInboxMoves   \* bound: what the reader does, messages that come and failures together

ASSUME InboxAssumption == MutedOthers \subseteq Others /\ FirstSide \subseteq Others

VARIABLES
    inbox,          \* the page
    listed,         \* the server: the unread messages of each conversation that is not cleared
    pings,          \* live events not yet delivered
    clearing,       \* requests in flight that clear conversations
    lookups,        \* lookups in flight
    untold,         \* history: conversations changed without an event or an answer to say so,
                    \* since the server last served the list
    inboxMoves

inboxVars == <<inbox, listed, pings, clearing, lookups, untold, inboxMoves>>

Cap(n) == IF n > 1 THEN 1 ELSE n            \* bound: 0 and more than 0 unread messages
InboxMove == inboxMoves < MaxInboxMoves /\ inboxMoves' = inboxMoves + 1

-----------------------------------------------------------------------------
(* What is on screen. *)

InboxThreads == IF inbox.list.value = <<>> THEN <<>> ELSE inbox.list.value[1]

TotalUnread == Cardinality({o \in DOMAIN InboxThreads : InboxThreads[o] > 0})

InboxButtons ==
    (IF inbox.selecting THEN IF inbox.selected = {} THEN {} ELSE {"clear"} ELSE {"compose"})
    \cup (IF DOMAIN InboxThreads = {} THEN {} ELSE {"select"})

RowButtons == IF inbox.selecting THEN {"check"} ELSE {"open", "delete"}

(* The list, or the skeleton while there is none. *)
Rows == IF Shown(inbox.list) THEN DOMAIN InboxThreads ELSE {}

(* The lookup box, its hits, or the note that there are none. *)
LookupView ==
    CASE ~inbox.composing -> "closed"
      [] inbox.composing /\ inbox.results # {} -> "hits"
      [] inbox.composing /\ inbox.results = {} -> IF inbox.query = "" THEN "blank" ELSE "nobody"

-----------------------------------------------------------------------------
(* Clearing conversations: the list is loaded again once the server has done it. *)

ToggleSelect ==
    /\ "select" \in InboxButtons
    /\ inbox' = [inbox EXCEPT !.selecting = ~@, !.selected = {}]
    /\ UNCHANGED <<listed, pings, clearing, lookups, untold, inboxMoves>>

ToggleSel(o) ==
    /\ InboxMove /\ o \in Rows /\ "check" \in RowButtons
    /\ inbox' = [inbox EXCEPT !.selected = IF o \in @ THEN @ \ {o} ELSE @ \cup {o}]
    /\ UNCHANGED <<listed, pings, clearing, lookups, untold>>

Clearing(who, bulk) == [who |-> who, bulk |-> bulk, state |-> "sent"]

DeleteThread(o) ==
    /\ InboxMove /\ o \in Rows /\ "delete" \in RowButtons
    /\ clearing' = clearing \cup {Clearing({o}, FALSE)}
    /\ UNCHANGED <<inbox, listed, pings, lookups, untold>>

BulkClear ==
    /\ InboxMove /\ inbox.selecting /\ "clear" \in InboxButtons
    /\ clearing' = clearing \cup {Clearing(inbox.selected, TRUE)}
    /\ UNCHANGED <<inbox, listed, pings, lookups, untold>>

Reload(page) == [page EXCEPT !.list = Fetch(@, "all")]

(* mutant: nothing is loaded after the answer *)
AfterClearNothing(page, c) ==
    IF c.bulk THEN [page EXCEPT !.selected = {}, !.selecting = FALSE] ELSE page

(* After the answer; a bulk request also leaves the selection mode. *)
AfterClear(page, c) ==
    IF c.bulk THEN Reload([page EXCEPT !.selected = {}, !.selecting = FALSE]) ELSE Reload(page)

Cleared(c) ==
    /\ c.state \in {"done", "failed"}
    /\ inbox' = IF c.state = "done" THEN AfterClear(inbox, c) ELSE inbox
    /\ clearing' = clearing \ {c}
    /\ UNCHANGED <<listed, pings, lookups, untold, inboxMoves>>

-----------------------------------------------------------------------------
(* Looking somebody up: 150 ms after the last key a request goes out, and whichever answer
   comes last is shown. *)

OnQuery(q) ==
    /\ InboxMove /\ LookupView # "closed" /\ inbox.query # q
    /\ inbox' = [inbox EXCEPT !.query = q, !.timer = q # "",
                              !.results = IF q = "" THEN {} ELSE @]
    /\ UNCHANGED <<listed, pings, clearing, lookups, untold>>

LookupTimer ==
    /\ inbox.timer
    /\ inbox' = [inbox EXCEPT !.timer = FALSE]
    /\ lookups' = lookups \cup {inbox.query}
    /\ UNCHANGED <<listed, pings, clearing, untold, inboxMoves>>

LookupLands(q) ==
    /\ \/ inbox' = [inbox EXCEPT !.results = {q}]
       \/ inbox' = [inbox EXCEPT !.results = {}]
    /\ lookups' = lookups \ {q}
    /\ UNCHANGED <<listed, pings, clearing, untold, inboxMoves>>

(* The button clears the box and its hits, but neither the timer nor a lookup in flight. *)
OpenCompose ==
    /\ InboxMove /\ "compose" \in InboxButtons
    /\ inbox' = [inbox EXCEPT !.composing = ~@, !.query = "", !.results = {}]
    /\ UNCHANGED <<listed, pings, clearing, lookups, untold>>

-----------------------------------------------------------------------------

InboxNotif ==
    /\ pings > 0
    /\ pings' = pings - 1
    /\ inbox' = Reload(inbox)
    /\ UNCHANGED <<listed, clearing, lookups, untold, inboxMoves>>

InboxLands ==
    /\ Answered(inbox.list)
    /\ inbox' = [inbox EXCEPT !.list = Land(@)]
    /\ UNCHANGED <<listed, pings, clearing, lookups, untold, inboxMoves>>

(* The server: a message brings its conversation to the list.  The event is not sent for a
   sender the reader has muted, nor by a request that is cut off after its INSERT. *)
MessageComes(o, told) ==
    /\ InboxMove
    /\ told => o \notin MutedOthers
    /\ listed' = [p \in DOMAIN listed \cup {o} |->
                    IF p = o THEN Cap((IF o \in DOMAIN listed THEN listed[o] ELSE 0) + 1)
                    ELSE listed[p]]
    /\ pings' = IF told THEN pings + 1 ELSE pings
    /\ untold' = IF told THEN untold ELSE untold \cup {o}
    /\ UNCHANGED <<inbox, clearing, lookups>>

ServeInbox ==
    /\ Pending(inbox.list)
    /\ \/ /\ inbox' = [inbox EXCEPT !.list = Answer(@, listed)] /\ untold' = {}
          /\ UNCHANGED inboxMoves
       \/ inbox' = [inbox EXCEPT !.list = Refuse(@)] /\ InboxMove /\ UNCHANGED untold
    /\ UNCHANGED <<listed, pings, clearing, lookups>>

(* What the request has cleared so far: those in bulk take an UPDATE for either side of the
   pairs, with no transaction around them. *)
Effect(c) ==
    CASE c.state = "half" -> c.who \cap FirstSide
      [] c.state = "done" -> c.who
      [] OTHER -> {}

Clears(c, state) ==
    LET d == [c EXCEPT !.state = state] IN
    /\ listed' = [p \in DOMAIN listed \ Effect(d) |-> listed[p]]
    /\ clearing' = (clearing \ {c}) \cup {d}
    /\ UNCHANGED <<untold, inboxMoves>>

(* The request is cut off, before its statements, between them or after; what it has done
   stays, and the page, which is told of a failure, loads nothing. *)
ClearFails(c) ==
    /\ InboxMove
    /\ clearing' = (clearing \ {c}) \cup {[c EXCEPT !.state = "failed"]}
    /\ untold' = untold \cup Effect(c)
    /\ UNCHANGED listed

ServeClear(c) ==
    /\ \/ c.state = "sent" /\ Clears(c, IF c.bulk THEN "half" ELSE "done")
       \/ c.state = "half" /\ Clears(c, "done")
       \/ c.state \in {"sent", "half", "done"} /\ ClearFails(c)
    /\ UNCHANGED <<inbox, pings, lookups>>

InboxInit ==
    /\ listed = [o \in Others |-> 0]
    /\ inbox = [list |-> Fetch(Unresolved, "all"), composing |-> FALSE, query |-> "",
                results |-> {}, timer |-> FALSE, selecting |-> FALSE, selected |-> {}]
    /\ pings = 0 /\ clearing = {} /\ lookups = {} /\ untold = {} /\ inboxMoves = 0

InboxNext ==
    \/ ToggleSelect \/ BulkClear \/ OpenCompose
    \/ \E o \in Others : \/ ToggleSel(o) \/ DeleteThread(o)
                         \/ \E told \in BOOLEAN : MessageComes(o, told)
    \/ \E q \in {"", "a", "an"} : OnQuery(q)
    \/ LookupTimer \/ \E q \in lookups : LookupLands(q)
    \/ InboxNotif \/ InboxLands \/ ServeInbox
    \/ \E c \in clearing : Cleared(c) \/ ServeClear(c)

InboxSpec == InboxInit /\ [][InboxNext]_inboxVars

(* Once events and answers are through, the list on screen is the server's: no cleared
   conversation stays, none that a message brought back is missing, and no count is old.  Of
   what nobody tells the page, a muted sender's message or a clearing that failed half-way,
   it speaks no sooner than the next time the list is loaded.
   [DMs: deleteThread, bulkClear, onNotif] *)
InboxIsCurrent ==
    pings = 0 /\ clearing = {} /\ Shown(inbox.list) /\ ~Loading(inbox.list) =>
        /\ \A o \in Others \ untold :
              /\ o \in DOMAIN InboxThreads <=> o \in DOMAIN listed
              /\ o \in DOMAIN listed => InboxThreads[o] = listed[o]
        /\ untold = {} => TotalUnread = Cardinality({o \in DOMAIN listed : listed[o] > 0})
=============================================================================
