---------------------------- MODULE PagesProofs ----------------------------
(***************************************************************************)
(* What the pages of the web client show, for any names, rows, people and  *)
(* number of steps of the reader: each argument says what a page holds, or *)
(* has asked for and not yet received.                                     *)
(***************************************************************************)
EXTENDS WebChat, WebInbox, WebPages, WebLists, WebPost, WebPanels, FiniteSetTheorems,
        SequenceTheorems, WellFoundedInduction, TLAPS

-----------------------------------------------------------------------------
(* A resource: the request that counts, and the value.                      *)

ResourceFields == {"value", "failed", "request"}
ResourceOK(r) == r = [f \in ResourceFields |-> r[f]]

WithRequest(r, q) == [r EXCEPT !.request = q]

LEMMA NewRequest ==
    ASSUME NEW r, NEW q, ResourceOK(r)
    PROVE  /\ ResourceOK(WithRequest(r, q)) /\ WithRequest(r, q).request = q
           /\ WithRequest(r, q).value = r.value /\ WithRequest(r, q).failed = r.failed
BY DEF ResourceOK, ResourceFields, WithRequest

LEMMA Fetched ==
    ASSUME NEW r, NEW key, ResourceOK(r)
    PROVE  /\ ResourceOK(Fetch(r, key))
           /\ Fetch(r, key).request = <<"asked", key>>
           /\ Fetch(r, key).value = r.value /\ Fetch(r, key).failed = r.failed
BY NewRequest DEF Fetch, WithRequest

LEMMA Responded ==
    ASSUME NEW r, NEW v, ResourceOK(r)
    PROVE  /\ ResourceOK(Answer(r, v)) /\ ResourceOK(Refuse(r))
           /\ Answer(r, v).request = <<"served", v>> /\ Refuse(r).request = <<"refused">>
           /\ Answer(r, v).value = r.value /\ Refuse(r).value = r.value
           /\ Answer(r, v).failed = r.failed /\ Refuse(r).failed = r.failed
BY NewRequest DEF Answer, Refuse, WithRequest

LEMMA Landed ==
    ASSUME NEW r, ResourceOK(r)
    PROVE  /\ ResourceOK(Land(r)) /\ Land(r).request = Quiet
           /\ r.request[1] = "served" => Land(r).value = <<r.request[2]>> /\ Land(r).failed = FALSE
           /\ r.request[1] # "served" => Land(r).value = r.value /\ Land(r).failed = TRUE
<1>1. ASSUME r.request[1] # "served"
      PROVE  /\ ResourceOK(Land(r)) /\ Land(r).request = Quiet
             /\ Land(r).value = r.value /\ Land(r).failed = TRUE
  <2>1. Land(r) = [r EXCEPT !.failed = TRUE, !.request = Quiet]
    BY <1>1 DEF Land
  <2>2. QED
    BY <2>1 DEF ResourceOK, ResourceFields
<1>2. ASSUME r.request[1] = "served"
      PROVE  /\ ResourceOK(Land(r)) /\ Land(r).request = Quiet
             /\ Land(r).value = <<r.request[2]>> /\ Land(r).failed = FALSE
  BY <1>2 DEF ResourceOK, ResourceFields, Land
<1>3. QED
  BY <1>1, <1>2

LEMMA Unresolves ==
    /\ ResourceOK(Unresolved) /\ Unresolved.value = <<>>
    /\ ~Unresolved.failed /\ Unresolved.request = Quiet
BY DEF ResourceOK, ResourceFields, Unresolved

-----------------------------------------------------------------------------
(* The inbox: a message or a clearing has the list loaded again.            *)

InboxFields == {"list", "composing", "query", "results", "timer", "selecting", "selected"}

InboxTyped ==
    /\ inbox = [f \in InboxFields |-> inbox[f]] /\ ResourceOK(inbox.list)
    /\ pings \in Nat /\ listed = [o \in DOMAIN listed |-> listed[o]]
    /\ \A c \in clearing : c = [who |-> c.who, bulk |-> c.bulk, state |-> c.state]

(* Conversations that no event and no answer under way speaks of, and nothing went unsaid of. *)
InDoubt(o) == o \in untold \/ \E c \in clearing : o \in Effect(c)

Agrees(v) ==
    \A o \in Others : ~InDoubt(o) =>
        /\ o \in DOMAIN v <=> o \in DOMAIN listed
        /\ o \in DOMAIN listed => v[o] = listed[o]
Exact(v) == untold = {} /\ (\A c \in clearing : Effect(c) = {}) => v = listed

(* What the list on screen is, or will be once it is loaded. *)
ListCurrent(r) ==
    \/ r.request \in {<<"asked", "all">>, <<"refused">>}
    \/ \E v : r.request = <<"served", v>> /\ Agrees(v) /\ Exact(v)
    \/ r.request = Quiet /\ (r.failed \/ \E v : r.value = <<v>> /\ Agrees(v) /\ Exact(v))

ReloadDue == pings > 0

InboxInv == InboxTyped /\ (ReloadDue \/ ListCurrent(inbox.list))

LEMMA AskedIsCurrent ==
    ASSUME inbox'.list.request = <<"asked", "all">> \/ inbox'.list.request = <<"refused">>
    PROVE  ListCurrent(inbox.list)'
BY DEF ListCurrent

LEMMA ListSettles ==
    ASSUME NEW r, ResourceOK(r), ListCurrent(r), Answered(r)
    PROVE  ListCurrent(Land(r))
<1>1. CASE r.request = <<"refused">>
  <2>1. r.request[1] # "served"
    BY <1>1
  <2>2. Land(r).request = Quiet /\ Land(r).failed = TRUE
    BY <2>1, Landed
  <2>3. QED
    BY <2>2 DEF ListCurrent
<1>2. CASE r.request # <<"refused">>
  <2>1. PICK v : r.request = <<"served", v>> /\ Agrees(v) /\ Exact(v)
    BY <1>2 DEF ListCurrent, Answered, Quiet
  <2>2. r.request[1] = "served" /\ r.request[2] = v
    BY <2>1
  <2>3. Land(r).request = Quiet /\ Land(r).value = <<v>>
    BY <2>2, Landed
  <2>4. QED
    BY <2>1, <2>3 DEF ListCurrent
<1>3. QED
  BY <1>1, <1>2

(* The list is left alone, and whatever agreed with the server's still does. *)
LEMMA StillCurrent ==
    ASSUME ListCurrent(inbox.list), inbox'.list = inbox.list,
           \A v : Agrees(v) /\ Exact(v) => Agrees(v)' /\ Exact(v)'
    PROVE  ListCurrent(inbox.list)'
BY DEF ListCurrent

LEMMA InboxReloads ==
    ASSUME InboxTyped, NEW page, page = [f \in InboxFields |-> page[f]], page.list = inbox.list
    PROVE  /\ Reload(page) = [f \in InboxFields |-> Reload(page)[f]]
           /\ ResourceOK(Reload(page).list) /\ Reload(page).list.request = <<"asked", "all">>
<1>1. ResourceOK(Fetch(page.list, "all")) /\ Fetch(page.list, "all").request = <<"asked", "all">>
  BY Fetched DEF InboxTyped
<1>2. QED
  BY <1>1 DEF Reload, InboxFields

(* The steps that leave list, server and events alone. *)
ListStays ==
    /\ inbox' = [f \in InboxFields |-> inbox'[f]] /\ inbox'.list = inbox.list
    /\ listed' = listed /\ pings' = pings /\ untold' = untold
    /\ \A c \in clearing : Effect(c) # {} => c \in clearing'
    /\ \A c \in clearing' : c \in clearing \/ Effect(c) = {}
    /\ \A c \in clearing' : c = [who |-> c.who, bulk |-> c.bulk, state |-> c.state]

LEMMA ListKept ==
    ASSUME InboxInv, ListStays
    PROVE  InboxInv'
<1>1. \A v : Agrees(v) /\ Exact(v) => Agrees(v)' /\ Exact(v)'
  BY DEF ListStays, Agrees, Exact, InDoubt
<1>2. ListCurrent(inbox.list) => ListCurrent(inbox.list)'
  BY <1>1, StillCurrent DEF ListStays
<1>3. QED
  BY <1>2 DEF InboxInv, InboxTyped, ListStays, ReloadDue

LEMMA ReaderStep ==
    ASSUME InboxInv,
           \/ ToggleSelect \/ BulkClear \/ OpenCompose \/ LookupTimer
           \/ \E o \in Others : ToggleSel(o) \/ DeleteThread(o)
           \/ \E q \in {"", "a", "an"} : OnQuery(q)
           \/ \E q \in lookups : LookupLands(q)
    PROVE  InboxInv'
<1>1. inbox' = [f \in InboxFields |-> inbox'[f]] /\ inbox'.list = inbox.list
  <2>1. CASE ToggleSelect \/ BulkClear \/ OpenCompose \/ LookupTimer
    BY <2>1 DEF ToggleSelect, BulkClear, OpenCompose, LookupTimer, InboxInv, InboxTyped, InboxFields
  <2>2. ASSUME NEW o \in Others, ToggleSel(o) \/ DeleteThread(o)
        PROVE  <1>1!1 /\ <1>1!2
    BY <2>2 DEF ToggleSel, DeleteThread, InboxInv, InboxTyped, InboxFields
  <2>3. ASSUME NEW q, OnQuery(q) \/ LookupLands(q)
        PROVE  <1>1!1 /\ <1>1!2
    BY <2>3 DEF OnQuery, LookupLands, InboxInv, InboxTyped, InboxFields
  <2>4. QED
    BY <2>1, <2>2, <2>3
<1>2. listed' = listed /\ pings' = pings /\ untold' = untold
  BY DEF ToggleSelect, BulkClear, OpenCompose, LookupTimer, ToggleSel, DeleteThread, OnQuery,
     LookupLands
<1>3. clearing \subseteq clearing'
  BY DEF ToggleSelect, BulkClear, OpenCompose, LookupTimer, ToggleSel, DeleteThread, OnQuery,
     LookupLands
<1>4. \A c \in clearing' \ clearing :
         c = [who |-> c.who, bulk |-> c.bulk, state |-> c.state] /\ Effect(c) = {}
  <2>1. \A who, bulk : LET c == Clearing(who, bulk) IN
          c = [who |-> c.who, bulk |-> c.bulk, state |-> c.state] /\ Effect(c) = {}
    BY DEF Clearing, Effect
  <2>2. CASE BulkClear
    BY <2>1, <2>2 DEF BulkClear
  <2>3. ASSUME NEW o \in Others, DeleteThread(o)
        PROVE  <1>4
    BY <2>1, <2>3 DEF DeleteThread
  <2>4. CASE clearing' = clearing
    BY <2>4
  <2>5. QED
    BY <2>2, <2>3, <2>4 DEF ToggleSelect, OpenCompose, LookupTimer, ToggleSel, OnQuery, LookupLands
<1>5. ListStays
  BY <1>1, <1>2, <1>3, <1>4 DEF ListStays, InboxInv, InboxTyped
<1>6. QED
  BY <1>5, ListKept

(* A request in flight moves on: what it has cleared by then is in doubt, until its answer. *)
LEMMA ClearGoesOn ==
    ASSUME InboxInv, NEW c \in clearing, NEW d, inbox' = inbox, pings' = pings,
           d = [who |-> d.who, bulk |-> d.bulk, state |-> d.state],
           clearing' = (clearing \ {c}) \cup {d},
           listed' = [p \in DOMAIN listed \ Effect(d) |-> listed[p]],
           untold \subseteq untold', Effect(c) \subseteq untold' \cup Effect(d),
           untold' = {} => untold = {}
    PROVE  InboxInv'
<1>0. listed' = [p \in DOMAIN listed' |-> listed'[p]]
  OBVIOUS
<1>1. \A o : InDoubt(o) => InDoubt(o)'
  BY DEF InDoubt
<1>2. \A o : ~InDoubt(o)' => o \notin Effect(d)
  BY DEF InDoubt
<1>3. ASSUME NEW v, Agrees(v)
      PROVE  Agrees(v)'
  BY <1>1, <1>2, <1>3 DEF Agrees
<1>4. ASSUME NEW v, Exact(v), untold' = {}, \A e \in clearing' : Effect(e) = {}
      PROVE  v = listed'
  <2>1. Effect(d) = {} /\ untold = {} /\ \A e \in clearing : Effect(e) = {}
    BY <1>4
  <2>2. listed' = listed
    BY <2>1 DEF InboxInv, InboxTyped
  <2>3. QED
    BY <1>4, <2>1, <2>2 DEF Exact
<1>5. ListCurrent(inbox.list) => ListCurrent(inbox.list)'
  <2>1. \A v : Agrees(v) /\ Exact(v) => Agrees(v)' /\ Exact(v)'
    BY <1>3, <1>4 DEF Exact
  <2>2. QED
    BY <2>1, StillCurrent
<1>6. QED
  BY <1>0, <1>5 DEF InboxInv, InboxTyped, ReloadDue

LEMMA ClearingStep ==
    ASSUME InboxInv, NEW c \in clearing, Cleared(c) \/ ServeClear(c)
    PROVE  InboxInv'
<1>0. c = [who |-> c.who, bulk |-> c.bulk, state |-> c.state]
  BY DEF InboxInv, InboxTyped
<1>1. CASE Cleared(c) /\ c.state = "done"
  <2> DEFINE left == [inbox EXCEPT !.selected = {}, !.selecting = FALSE]
  <2>1. left = [f \in InboxFields |-> left[f]] /\ left.list = inbox.list
    BY DEF InboxInv, InboxTyped, InboxFields
  <2>2. inbox' = Reload(inbox) \/ inbox' = Reload(left)
    BY <1>1 DEF Cleared, AfterClear
  <2>3. /\ inbox' = [f \in InboxFields |-> inbox'[f]]
        /\ ResourceOK(inbox'.list) /\ inbox'.list.request = <<"asked", "all">>
    BY <2>1, <2>2, InboxReloads DEF InboxInv, InboxTyped
  <2>4. QED
    BY <1>1, <2>3, AskedIsCurrent DEF Cleared, InboxInv, InboxTyped
<1>2. CASE Cleared(c) /\ c.state # "done"
  <2>1. Effect(c) = {}
    BY <1>2 DEF Cleared, Effect
  <2>2. QED
    BY <1>2, <2>1, ListKept DEF ListStays, Cleared, InboxInv, InboxTyped
<1>3. CASE ServeClear(c)
  <2>2. ASSUME NEW state \in {"half", "done"}, Clears(c, state), c.state \in {"sent", "half"}
        PROVE  InboxInv'
    <3>1. PICK d : d = [c EXCEPT !.state = state]
      OBVIOUS
    <3>2. /\ d = [who |-> d.who, bulk |-> d.bulk, state |-> d.state]
          /\ d.who = c.who /\ d.state = state
      BY <1>0, <3>1
    <3>3. Effect(c) \subseteq Effect(d)
      <4>1. CASE c.state = "sent"
        BY <4>1 DEF Effect
      <4>2. CASE c.state = "half"
        BY <2>2, <3>2, <4>2 DEF Effect
      <4>3. QED
        BY <2>2, <4>1, <4>2
    <3>4. QED
      BY <1>3, <2>2, <3>1, <3>2, <3>3, ClearGoesOn DEF ServeClear, Clears
  <2>3. ASSUME ClearFails(c)
        PROVE  InboxInv'
    <3>1. PICK d : d = [c EXCEPT !.state = "failed"]
      OBVIOUS
    <3>2. d = [who |-> d.who, bulk |-> d.bulk, state |-> d.state] /\ Effect(d) = {}
      BY <1>0, <3>1 DEF Effect
    <3>3. listed' = [p \in DOMAIN listed \ Effect(d) |-> listed[p]]
      BY <2>3, <3>2 DEF ClearFails, InboxInv, InboxTyped
    <3>4. QED
      BY <1>3, <2>3, <3>1, <3>2, <3>3, ClearGoesOn DEF ServeClear, ClearFails
  <2>4. QED
    BY <1>3, <2>2, <2>3 DEF ServeClear
<1>4. QED
  BY <1>1, <1>2, <1>3

LEMMA ServiceOfInboxStep ==
    ASSUME InboxInv,
           \/ InboxNotif \/ InboxLands \/ ServeInbox
           \/ \E o \in Others, told \in BOOLEAN : MessageComes(o, told)
    PROVE  InboxInv'
<1>1. CASE InboxNotif
  <2>1. /\ inbox' = [f \in InboxFields |-> inbox'[f]]
        /\ ResourceOK(inbox'.list) /\ inbox'.list.request = <<"asked", "all">>
    BY <1>1, InboxReloads DEF InboxNotif, InboxInv, InboxTyped
  <2>2. QED
    BY <1>1, <2>1, AskedIsCurrent DEF InboxNotif, InboxInv, InboxTyped
<1>2. CASE InboxLands
  <2>1. inbox' = [f \in InboxFields |-> inbox'[f]] /\ inbox'.list = Land(inbox.list)
    BY <1>2 DEF InboxLands, InboxInv, InboxTyped, InboxFields
  <2>2. ListCurrent(inbox.list) => ListCurrent(Land(inbox.list))
    BY <1>2, ListSettles DEF InboxLands, InboxInv, InboxTyped
  <2>3. ListCurrent(Land(inbox.list)) => ListCurrent(inbox.list)'
    BY <1>2, <2>1 DEF InboxLands, ListCurrent, Agrees, Exact, InDoubt
  <2>4. QED
    BY <1>2, <2>1, <2>2, <2>3, Landed DEF InboxLands, InboxInv, InboxTyped, ReloadDue
<1>3. CASE ServeInbox
  <2>1. inbox' = [f \in InboxFields |-> inbox'[f]]
    BY <1>3 DEF ServeInbox, InboxInv, InboxTyped, InboxFields
  <2>2. ResourceOK(inbox.list) /\ listed' = listed
    BY <1>3 DEF ServeInbox, InboxInv, InboxTyped
  <2>3. CASE inbox'.list = Answer(inbox.list, listed) /\ untold' = {}
    <3>1. ResourceOK(inbox'.list) /\ inbox'.list.request = <<"served", listed>>
      BY <2>2, <2>3, Responded
    <3>2. Agrees(listed)' /\ Exact(listed)'
      BY <2>2 DEF Agrees, Exact
    <3>3. ListCurrent(inbox.list)'
      BY <2>2, <3>1, <3>2 DEF ListCurrent
    <3>4. QED
      BY <1>3, <2>1, <3>1, <3>3 DEF ServeInbox, InboxInv, InboxTyped
  <2>4. CASE inbox'.list = Refuse(inbox.list)
    <3>1. ResourceOK(inbox'.list) /\ inbox'.list.request = <<"refused">>
      BY <2>2, <2>4, Responded
    <3>2. QED
      BY <1>3, <2>1, <3>1, AskedIsCurrent DEF ServeInbox, InboxInv, InboxTyped
  <2>5. QED
    BY <1>3, <2>3, <2>4 DEF ServeInbox, InboxInv, InboxTyped, InboxFields
<1>4. ASSUME NEW o \in Others, NEW told \in BOOLEAN, MessageComes(o, told)
      PROVE  InboxInv'
  <2>1. InboxTyped'
    BY <1>4 DEF MessageComes, InboxInv, InboxTyped
  <2>2. CASE told
    BY <1>4, <2>1, <2>2 DEF MessageComes, InboxInv, InboxTyped, ReloadDue
  <2>3. CASE ~told
    <3>1. untold' = untold \cup {o} /\ clearing' = clearing
      BY <1>4, <2>3 DEF MessageComes
    <3>2. \A p : p # o => /\ p \in DOMAIN listed' <=> p \in DOMAIN listed
                          /\ p \in DOMAIN listed => listed'[p] = listed[p]
      BY <1>4 DEF MessageComes
    <3>3. \A v : Agrees(v) /\ Exact(v) => Agrees(v)' /\ Exact(v)'
      BY <3>1, <3>2 DEF Agrees, Exact, InDoubt
    <3>4. QED
      BY <1>4, <2>1, <2>3, <3>3, StillCurrent DEF MessageComes, InboxInv, ReloadDue
  <2>4. QED
    BY <2>2, <2>3
<1>5. QED
  BY <1>1, <1>2, <1>3, <1>4

LEMMA InboxStep == InboxInv /\ [InboxNext]_inboxVars => InboxInv'
<1> SUFFICES ASSUME InboxInv, [InboxNext]_inboxVars
             PROVE  InboxInv'
  OBVIOUS
<1>1. CASE UNCHANGED inboxVars
  BY <1>1, ListKept DEF inboxVars, InboxInv, InboxTyped, ListStays
<1>2. CASE InboxNext
  BY <1>2, ReaderStep, ClearingStep, ServiceOfInboxStep DEF InboxNext
<1>3. QED
  BY <1>1, <1>2

LEMMA InboxMeansCurrent == InboxInv => InboxIsCurrent
<1> SUFFICES ASSUME InboxInv, pings = 0, clearing = {}, Shown(inbox.list), ~Loading(inbox.list)
             PROVE  /\ \A o \in Others \ untold :
                          /\ o \in DOMAIN InboxThreads <=> o \in DOMAIN listed
                          /\ o \in DOMAIN listed => InboxThreads[o] = listed[o]
                    /\ untold = {} => TotalUnread = Cardinality({o \in DOMAIN listed : listed[o] > 0})
  BY DEF InboxIsCurrent
<1>1. PICK v : inbox.list.value = <<v>> /\ Agrees(v) /\ Exact(v)
  BY DEF InboxInv, ReloadDue, ListCurrent, Shown, Throws, Loading, Quiet
<1>2. InboxThreads = v
  BY <1>1 DEF InboxThreads
<1>3. untold = {} => v = listed
  BY <1>1 DEF Exact
<1>4. QED
  BY <1>1, <1>2, <1>3 DEF TotalUnread, Agrees, InDoubt

\* No conversation that the server has cleared stays on the list, and none that a message
\* brought back is missing, once events and answers are through, for any conversations and
\* any order of events, answers and refusals; but for those of muted senders and of clearings
\* that failed half-way, until the list is loaded again. [DMs: deleteThread, bulkClear, onNotif]
THEOREM InboxAlwaysCurrent == InboxSpec => []InboxIsCurrent
<1>1. InboxInit => InboxInv
  <2> SUFFICES ASSUME InboxInit
               PROVE  InboxInv
    OBVIOUS
  <2>1. ResourceOK(inbox.list) /\ inbox.list.request = <<"asked", "all">>
    BY Fetched, Unresolves DEF InboxInit
  <2>2. QED
    BY <2>1 DEF InboxInit, InboxInv, InboxTyped, InboxFields, ListCurrent
<1>2. QED
  BY <1>1, InboxStep, InboxMeansCurrent, PTL DEF InboxSpec

-----------------------------------------------------------------------------
(* Induction, and what filter keeps.                                       *)

\* Every set of naturals that is not empty has a least element.
LEMMA Least ==
    ASSUME NEW T, T \subseteq Nat, T # {}
    PROVE  \E n \in T : \A m \in T : n <= m
<1> DEFINE R == OpToRel(<, Nat)
<1>1. IsWellFoundedOn(R, Nat)
  BY NatLessThanWellFounded
<1>2. \A m, n \in Nat : m < n => <<m, n>> \in R
  BY DEF OpToRel
<1> HIDE DEF R
<1>3. \E n \in T : \A m \in T : ~(<<m, n>> \in R)
  BY <1>1, WFMin, Zenon
<1>4. \E n \in T : \A m \in T : ~(m < n)
  BY <1>2, <1>3, Zenon
<1>5. QED
  BY <1>4

\* Induction up to a bound, over a set instead of a predicate.
LEMMA Induction ==
    ASSUME NEW N \in Nat, NEW T, 0 \in T, \A n \in 0..(N - 1) : n \in T => n + 1 \in T
    PROVE  0..N \subseteq T
<1> SUFFICES ASSUME (0..N) \ T # {} PROVE FALSE
  OBVIOUS
<1>1. PICK n \in (0..N) \ T : \A m \in (0..N) \ T : n <= m
  <2> DEFINE U == (0..N) \ T
  <2>1. U \subseteq Nat /\ U # {}
    OBVIOUS
  <2> HIDE DEF U
  <2>2. \E n \in U : \A m \in U : n <= m
    BY <2>1, Least
  <2>3. QED
    BY <2>2 DEF U
<1>2. n - 1 \in 0..(N - 1) /\ n - 1 \in T
  BY <1>1
<1>3. QED
  BY <1>1, <1>2

FilterStep(g, items, wanted, n) ==
    IF n = 0 THEN <<>>
    ELSE IF items[n] \in wanted THEN Append(g[n - 1], items[n])
    ELSE g[n - 1]

LEMMA FilterExists ==
    ASSUME NEW T, NEW items \in Seq(T), NEW wanted
    PROVE  \E g : /\ g = [n \in 0..Len(items) |-> FilterStep(g, items, wanted, n)]
                  /\ Filter(items, wanted) = g[Len(items)]
<1> DEFINE N == Len(items)
           F(g, m) == g = [n \in 0..m |-> FilterStep(g, items, wanted, n)]
           Reached == {m \in 0..N : \E g : F(g, m)}
<1>0. N \in Nat
  BY LenProperties
<1>1. 0 \in Reached
  <2> DEFINE g == [n \in 0..0 |-> <<>>]
  <2>1. F(g, 0)
    BY DEF FilterStep
  <2>2. QED
    BY <1>0, <2>1
<1>2. ASSUME NEW m \in 0..(N - 1), m \in Reached
      PROVE  m + 1 \in Reached
  <2>1. PICK g : F(g, m)
    BY <1>2
  <2> DEFINE h == [n \in 0..(m + 1) |-> IF n <= m THEN g[n] ELSE FilterStep(g, items, wanted, n)]
  <2>2. \A n \in 0..(m + 1) : FilterStep(h, items, wanted, n) = FilterStep(g, items, wanted, n)
    <3> SUFFICES ASSUME NEW n \in 0..(m + 1)
                 PROVE  FilterStep(h, items, wanted, n) = FilterStep(g, items, wanted, n)
      OBVIOUS
    <3>1. n # 0 => n - 1 \in 0..(m + 1) /\ n - 1 <= m
      BY <1>0
    <3>2. n # 0 => h[n - 1] = g[n - 1]
      BY <3>1
    <3>3. QED
      BY <3>2 DEF FilterStep
  <2>3. \A n \in 0..(m + 1) : h[n] = FilterStep(h, items, wanted, n)
    BY <1>0, <2>1, <2>2
  <2>4. F(h, m + 1)
    BY <2>3
  <2> HIDE DEF F, h
  <2>5. m + 1 \in 0..N
    BY <1>0
  <2>6. QED
    BY <2>4, <2>5
<1> HIDE DEF Reached
<1>3. 0..N \subseteq Reached
  BY <1>0, <1>1, <1>2, Induction
<1>4. \E g : F(g, N)
  BY <1>0, <1>3 DEF Reached
<1>5. F(CHOOSE g : F(g, N), N)
  BY <1>4, Zenon
<1>6. Filter(items, wanted) = (CHOOSE g : F(g, N))[N]
  BY DEF Filter, FilterStep
<1>7. QED
  BY <1>5, <1>6

Among(seq, n, x) == \E i \in 1..n : seq[i] = x
Descending(seq) == \A i, j \in 1..Len(seq) : i < j => seq[i] > seq[j]

\* What filter keeps: the items wanted and no other.
LEMMA FilterKeeps ==
    ASSUME NEW T, NEW items \in Seq(T), NEW wanted
    PROVE  LET kept == Filter(items, wanted) IN
           /\ kept \in Seq(T)
           /\ \A x : Among(kept, Len(kept), x) <=> x \in wanted /\ Among(items, Len(items), x)
<1> DEFINE N == Len(items)
<1>1. N \in Nat /\ \A i \in 1..N : items[i] \in T
  BY LenProperties, ElementOfSeq
<1>2. PICK g : /\ g = [n \in 0..N |-> FilterStep(g, items, wanted, n)]
               /\ Filter(items, wanted) = g[N]
  BY FilterExists
<1> DEFINE Good(n) == /\ g[n] \in Seq(T)
                      /\ \A x : Among(g[n], Len(g[n]), x) <=> x \in wanted /\ Among(items, n, x)
           Reached == {n \in 0..N : Good(n)}
<1>3. 0 \in Reached
  <2>1. g[0] = <<>>
    BY <1>1, <1>2 DEF FilterStep
  <2>2. /\ <<>> \in Seq(T) /\ Len(<<>>) = 0
        /\ \A x : ~Among(<<>>, 0, x) /\ ~Among(items, 0, x)
    BY EmptySeq DEF Among
  <2>3. Good(0)
    BY <2>1, <2>2
  <2>4. QED
    BY <1>1, <2>3
<1>4. ASSUME NEW n \in 0..(N - 1), n \in Reached
      PROVE  n + 1 \in Reached
  <2>1. n + 1 \in 0..N /\ n + 1 \in 1..N /\ (n + 1) - 1 = n /\ n + 1 # 0 /\ n \in Nat
    BY <1>1
  <2>2. g[n + 1] = IF items[n + 1] \in wanted THEN Append(g[n], items[n + 1]) ELSE g[n]
    <3>1. g[n + 1] = FilterStep(g, items, wanted, n + 1)
      BY <1>2, <2>1
    <3>2. QED
      BY <2>1, <3>1 DEF FilterStep
  <2>3. Good(n)
    BY <1>4
  <2>4. \A x : Among(items, n + 1, x) <=> Among(items, n, x) \/ items[n + 1] = x
    BY <2>1 DEF Among
  <2>5. CASE items[n + 1] \notin wanted
    BY <2>1, <2>2, <2>3, <2>4, <2>5
  <2>6. CASE items[n + 1] \in wanted
    <3> DEFINE s == g[n]
               e == items[n + 1]
    <3>1. s \in Seq(T) /\ e \in T /\ Len(s) \in Nat
      BY <1>1, <2>1, <2>3, LenProperties
    <3> HIDE DEF s, e
    <3>2. /\ Append(s, e) \in Seq(T) /\ Len(Append(s, e)) = Len(s) + 1
          /\ \A i \in 1..Len(s) : Append(s, e)[i] = s[i]
          /\ Append(s, e)[Len(s) + 1] = e
      BY <3>1, AppendProperties
    <3>3. \A x : Among(Append(s, e), Len(Append(s, e)), x) <=> Among(s, Len(s), x) \/ e = x
      BY <3>1, <3>2 DEF Among
    <3>4. g[n + 1] = Append(s, e)
      BY <2>2, <2>6 DEF s, e
    <3>5. /\ g[n + 1] \in Seq(T)
          /\ \A x : Among(g[n + 1], Len(g[n + 1]), x) <=> Among(s, Len(s), x) \/ e = x
      BY <3>2, <3>3, <3>4
    <3>6. Good(n + 1)
      BY <2>3, <2>4, <2>6, <3>5 DEF s, e
    <3>7. QED
      BY <2>1, <3>6
  <2>7. QED
    BY <2>5, <2>6
<1> HIDE DEF Reached
<1>5. 0..N \subseteq Reached
  BY <1>1, <1>3, <1>4, Induction
<1>6. Good(N)
  BY <1>1, <1>5 DEF Reached
<1>7. QED
  BY <1>2, <1>6

\* And in their order: of a descending list a descending one is left.
LEMMA FilterDescends ==
    ASSUME NEW items \in Seq(Nat), Descending(items), NEW wanted
    PROVE  Descending(Filter(items, wanted))
<1> DEFINE N == Len(items)
<1>1. N \in Nat /\ \A i \in 1..N : items[i] \in Nat
  BY LenProperties, ElementOfSeq
<1>2. PICK g : /\ g = [n \in 0..N |-> FilterStep(g, items, wanted, n)]
               /\ Filter(items, wanted) = g[N]
  BY FilterExists
<1> DEFINE Good(n) == /\ g[n] \in Seq(Nat) /\ Descending(g[n])
                      /\ \A i \in 1..Len(g[n]) : Among(items, n, g[n][i])
           Reached == {n \in 0..N : Good(n)}
<1>3. 0 \in Reached
  <2>1. g[0] = <<>>
    BY <1>1, <1>2 DEF FilterStep
  <2>2. <<>> \in Seq(Nat) /\ Len(<<>>) = 0
    BY EmptySeq
  <2>3. Descending(<<>>)
    BY <2>2 DEF Descending
  <2>4. Good(0)
    BY <2>1, <2>2, <2>3
  <2>5. QED
    BY <1>1, <2>4
<1>4. ASSUME NEW n \in 0..(N - 1), n \in Reached
      PROVE  n + 1 \in Reached
  <2>1. n + 1 \in 0..N /\ n + 1 \in 1..N /\ (n + 1) - 1 = n /\ n + 1 # 0 /\ n \in Nat
    BY <1>1
  <2>2. g[n + 1] = IF items[n + 1] \in wanted THEN Append(g[n], items[n + 1]) ELSE g[n]
    <3>1. g[n + 1] = FilterStep(g, items, wanted, n + 1)
      BY <1>2, <2>1
    <3>2. QED
      BY <2>1, <3>1 DEF FilterStep
  <2>3. Good(n)
    BY <1>4
  <2>4. \A x : Among(items, n, x) => Among(items, n + 1, x)
    BY <2>1 DEF Among
  <2>5. CASE items[n + 1] \notin wanted
    BY <2>1, <2>2, <2>3, <2>4, <2>5
  <2>6. CASE items[n + 1] \in wanted
    <3> DEFINE s == g[n]
               e == items[n + 1]
               t == Append(s, e)
    <3>1. s \in Seq(Nat) /\ e \in Nat /\ Len(s) \in Nat
      BY <1>1, <2>1, <2>3, LenProperties
    <3>2. \A i \in 1..Len(s) : s[i] \in Nat /\ s[i] > e
      <4> SUFFICES ASSUME NEW i \in 1..Len(s) PROVE s[i] \in Nat /\ s[i] > e
        OBVIOUS
      <4>1. PICK k \in 1..n : items[k] = s[i]
        BY <2>3 DEF Among
      <4>2. k \in 1..N /\ k < n + 1
        BY <2>1
      <4>3. QED
        BY <2>1, <3>1, <4>1, <4>2, ElementOfSeq DEF Descending
    <3>3. Descending(s) /\ \A i \in 1..Len(s) : Among(items, n + 1, s[i])
      BY <2>3, <2>4
    <3>4. Among(items, n + 1, e)
      BY <2>1 DEF Among
    <3>5. g[n + 1] = t
      BY <2>2, <2>6
    <3> HIDE DEF s, e
    <3>6. /\ t \in Seq(Nat) /\ Len(t) = Len(s) + 1
          /\ \A i \in 1..Len(s) : t[i] = s[i]
          /\ t[Len(s) + 1] = e
      BY <3>1, AppendProperties
    <3> HIDE DEF t
    <3>7. Descending(t)
      <4> SUFFICES ASSUME NEW i \in 1..Len(t), NEW j \in 1..Len(t), i < j
                   PROVE  t[i] > t[j]
        BY DEF Descending
      <4>1. i \in 1..Len(s) /\ t[i] = s[i]
        <5>1. Len(t) = Len(s) + 1 /\ Len(s) \in Nat
          BY <3>1, <3>6
        <5>2. i \in 1..Len(s)
          BY <5>1
        <5>3. QED
          BY <3>6, <5>2
      <4>2. CASE j \in 1..Len(s)
        BY <3>3, <3>6, <4>1, <4>2 DEF Descending
      <4>3. CASE j = Len(s) + 1
        BY <3>2, <3>6, <4>1, <4>3
      <4>4. j \in 1..Len(s) \/ j = Len(s) + 1
        <5>1. Len(t) = Len(s) + 1 /\ Len(s) \in Nat
          BY <3>1, <3>6
        <5>2. QED
          BY <5>1
      <4>5. QED
        BY <4>2, <4>3, <4>4
    <3>8. \A i \in 1..Len(t) : Among(items, n + 1, t[i])
      <4> SUFFICES ASSUME NEW i \in 1..Len(t) PROVE Among(items, n + 1, t[i])
        OBVIOUS
      <4>1. CASE i \in 1..Len(s)
        BY <3>3, <3>6, <4>1
      <4>2. CASE i = Len(s) + 1
        BY <3>4, <3>6, <4>2
      <4>3. QED
        BY <3>1, <3>6, <4>1, <4>2
    <3>9. QED
      BY <2>1, <3>5, <3>6, <3>7, <3>8
  <2>7. QED
    BY <2>5, <2>6
<1> HIDE DEF Reached
<1>5. 0..N \subseteq Reached
  BY <1>1, <1>3, <1>4, Induction
<1>6. Good(N)
  BY <1>1, <1>5 DEF Reached
<1>7. QED
  BY <1>2, <1>6

-----------------------------------------------------------------------------
(* Paged lists.                                                             *)

ListFields == {"page", "rows", "cursor", "loading", "done", "ready", "wait", "pill", "own",
               "early", "seen", "tab", "watched"}

(* A run of the server's rows downwards, as a page is. *)
Run(s) == /\ s \in Seq(Nat)
          /\ \A i \in 1..Len(s) : s[i] >= 1
          /\ \A i \in 1..(Len(s) - 1) : s[i] = s[i + 1] + 1

(* The row low comes below the row high, and no row of another time lies between them. *)
Joins(page, high, low) ==
    low < high /\ IF page \in ByTime THEN OneTime(low + 1, high) ELSE high = low + 1

TopOf(s) == IF s = <<>> THEN 0 ELSE s[1]

NoPage(l) == Len(l.rows) = l.own

(* The rows below the first ones, those put on top as they were written, join up. *)
RunBelow(page, own, r) ==
    /\ r \in Seq(Nat) /\ own \in Nat /\ own <= Len(r)
    /\ \A i \in (own + 1)..Len(r) : r[i] >= 1
    /\ \A i \in (own + 1)..(Len(r) - 1) : Joins(page, r[i], r[i + 1])

RowsOK(l) ==
    /\ RunBelow(l.page, l.own, l.rows) /\ l.cursor \in Nat
    /\ l.page = "federated" => l.own = 0

(* The cursor is the last row, until the federated list has come to its end. *)
CursorOK(l) ==
    \/ NoPage(l) \/ l.cursor = l.rows[Len(l.rows)]
    \/ l.page = "federated" /\ l.done

(* A page on its way continues the rows on screen, or there are none any more. *)
Continues(l, s) == NoPage(l) \/ Joins(l.page, l.cursor, TopOf(s))

WaitOK(l) ==
    \/ l.wait = Nowhere \/ l.wait = Failed
    \/ l.wait = Asked(l.wait[2]) /\ l.wait[2] \in Nat /\ (NoPage(l) \/ l.wait[2] = l.cursor)
    \/ l.wait = Served(l.wait[2]) /\ Run(l.wait[2]) /\ Continues(l, l.wait[2])

(* At the end nothing is asked for any more. *)
DoneOK(l) ==
    l.done => /\ l.wait = Nowhere
              /\ l.page = "federated" => l.ready
              /\ l.page # "federated" => NoPage(l) \/ Joins(l.page, l.rows[Len(l.rows)], 0)

ListSound(l) ==
    /\ l = [f \in ListFields |-> l[f]] /\ l.page \in Lists \ {"videos"}
    /\ RowsOK(l) /\ CursorOK(l) /\ WaitOK(l) /\ DoneOK(l)

ListInv == newest \in Nat /\ ListSound(list)

-----------------------------------------------------------------------------
(* A page and the rows it continues. *)

LEMMA LastRow ==
    ASSUME NEW page, NEW own, NEW r, RunBelow(page, own, r), Len(r) # own
    PROVE  r # <<>> /\ Len(r) > own /\ r[Len(r)] \in Nat /\ r[Len(r)] >= 1
<1>1. own \in Nat /\ Len(r) \in Nat /\ own < Len(r) /\ r # <<>>
  BY LenProperties, EmptySeq DEF RunBelow
<1>2. Len(r) \in (own + 1)..Len(r) /\ Len(r) \in 1..Len(r)
  BY <1>1
<1>3. QED
  BY <1>1, <1>2, ElementOfSeq DEF RunBelow

LEMMA NextJoins ==
    ASSUME NEW page, NEW low \in Nat
    PROVE  Joins(page, low + 1, low)
BY DEF Joins, OneTime

LEMMA PageIsRun ==
    ASSUME NEW page, NEW top \in Nat, NEW before \in Nat,
           NEW first \in PageStarts(page, top, before), NEW s, s = PageRows(first)
    PROVE  /\ Run(s) /\ first \in Nat /\ \A i \in 1..Len(s) : s[i] <= first
           /\ before = Start => first = top
           /\ before # Start => first < before /\ Joins(page, before, TopOf(s))
<1> DEFINE size == IF first < PageSize THEN first ELSE PageSize
<1>1. /\ first \in Nat /\ (before = Start => first = top)
      /\ before # Start => /\ first < before
                           /\ page \in ByTime => OneTime(first + 1, before)
                           /\ page \notin ByTime => first + 1 = before
  BY DEF PageStarts, Start
<1>2. size \in Nat /\ size <= first /\ (size = 0 => first = 0)
  BY <1>1, ListsAssumption
<1>3. \A i \in 1..size : first - i + 1 \in Nat /\ first - i + 1 >= 1
  BY <1>1, <1>2
<1> HIDE DEF size
<1>0. s = [i \in 1..size |-> first - i + 1]
  BY DEF PageRows, size
<1>4. s \in [1..size -> Nat]
  BY <1>0, <1>3
<1>5. s \in Seq(Nat) /\ Len(s) = size
  BY <1>2, <1>4, SeqDef, LenProperties
<1>6. \A i \in 1..(size - 1) : s[i] = s[i + 1] + 1
  BY <1>0, <1>1, <1>2
<1>7. Run(s)
  BY <1>0, <1>2, <1>3, <1>5, <1>6 DEF Run
<1>8. \A i \in 1..Len(s) : s[i] <= first
  <2> SUFFICES ASSUME NEW i \in 1..size PROVE first - i + 1 <= first
    BY <1>0, <1>5
  <2>1. QED
    BY <1>1, <1>2
<1>9. TopOf(s) = first
  <2>1. CASE s = <<>>
    BY <1>2, <1>5, <2>1 DEF TopOf
  <2>2. CASE s # <<>>
    <3>1. 1 \in 1..size
      BY <1>2, <1>5, <2>2, EmptySeq
    <3>2. QED
      BY <1>0, <1>1, <2>2, <3>1 DEF TopOf
  <2>3. QED
    BY <2>1, <2>2
<1>10. before # Start => first < before /\ Joins(page, before, TopOf(s))
  BY <1>1, <1>9 DEF Joins
<1>11. QED
  BY <1>1, <1>7, <1>8, <1>10

LEMMA RowsWithPage ==
    ASSUME NEW l, RowsOK(l), CursorOK(l), ~l.done \/ l.page # "federated",
           NEW s, Run(s), s # <<>>, Continues(l, s)
    PROVE  LET r == l.rows \o s IN
           RunBelow(l.page, l.own, r) /\ r[Len(r)] = s[Len(s)]
<1> DEFINE r == l.rows \o s
           m == Len(l.rows)
           n == Len(s)
<1>1. m \in Nat /\ n \in Nat \ {0} /\ l.own \in Nat /\ l.own <= m
  BY EmptySeq, LenProperties DEF RowsOK, RunBelow, Run
<1>2. r \in Seq(Nat) /\ Len(r) = m + n
  BY ConcatProperties DEF RowsOK, RunBelow, Run
<1>3. \A i \in 1..(m + n) : r[i] = IF i <= m THEN l.rows[i] ELSE s[i - m]
  BY ConcatProperties DEF RowsOK, RunBelow, Run
<1>4. m > l.own => Joins(l.page, l.rows[m], s[1])
  BY <1>1 DEF Continues, CursorOK, NoPage, TopOf
<1> HIDE DEF m, n, r
<1>5. r[m + n] = s[n]
  BY <1>1, <1>3
<1>6. ASSUME NEW i \in (l.own + 1)..(m + n)
      PROVE  r[i] >= 1
  <2>1. CASE i <= m
    BY <1>1, <1>3, <2>1 DEF RowsOK, RunBelow, m
  <2>2. CASE i > m
    <3>1. i - m \in 1..n /\ i \in 1..(m + n)
      BY <1>1, <2>2
    <3>2. r[i] = s[i - m]
      BY <1>1, <1>3, <2>2, <3>1
    <3>3. s[i - m] >= 1
      BY <3>1 DEF Run, n
    <3>4. QED
      BY <3>2, <3>3
  <2>3. QED
    BY <1>1, <2>1, <2>2
<1>7. ASSUME NEW i \in (l.own + 1)..(m + n - 1)
      PROVE  Joins(l.page, r[i], r[i + 1])
  <2>1. CASE i < m
    BY <1>1, <1>3, <2>1 DEF RowsOK, RunBelow, m
  <2>2. CASE i = m
    <3>1. r[i] = l.rows[m] /\ r[i + 1] = s[1] /\ m > l.own
      BY <1>1, <1>3, <2>2
    <3>2. QED
      BY <1>4, <3>1
  <2>3. CASE i > m
    <3>1. i - m \in 1..(n - 1) /\ (i - m) + 1 = (i + 1) - m
      BY <1>1, <2>3
    <3>2. r[i] = s[i - m] /\ r[i + 1] = s[(i - m) + 1]
      BY <1>1, <1>3, <2>3, <3>1
    <3>3. s[(i - m) + 1] \in Nat /\ s[i - m] = s[(i - m) + 1] + 1
      <4>1. (i - m) + 1 \in 1..Len(s) /\ s \in Seq(Nat)
        BY <1>1, <3>1 DEF Run, n
      <4>2. QED
        BY <3>1, <4>1, ElementOfSeq DEF Run, n
    <3>4. QED
      BY <3>2, <3>3, NextJoins
  <2>4. QED
    BY <1>1, <2>1, <2>2, <2>3
<1>8. RunBelow(l.page, l.own, r) /\ r[Len(r)] = s[n]
  BY <1>1, <1>2, <1>5, <1>6, <1>7 DEF RunBelow
<1>9. QED
  BY <1>8 DEF r, n

-----------------------------------------------------------------------------
(* What the pages do with a request, for any of them. *)

Same(l, m) == m.page = l.page /\ m.rows = l.rows /\ m.own = l.own /\ m.cursor = l.cursor

LEMMA AskingSound ==
    ASSUME NEW l, ListSound(l), ~l.done
    PROVE  ListSound(Asking(l))
<1> DEFINE m == Asking(l)
<1>1. /\ m = [f \in ListFields |-> m[f]] /\ Same(l, m)
      /\ m.wait = Asked(l.cursor) /\ m.done = l.done /\ m.ready = l.ready
  BY DEF Asking, ListSound, ListFields, Same
<1>2. m.wait[2] = l.cursor /\ l.cursor \in Nat
  BY <1>1 DEF Asked, ListSound, RowsOK
<1>3. WaitOK(m)
  BY <1>1, <1>2 DEF WaitOK, Same
<1>4. QED
  BY <1>1, <1>3 DEF ListSound, Same, RowsOK, CursorOK, DoneOK, NoPage

LEMMA LoadMoreSound ==
    ASSUME NEW l, ListSound(l)
    PROVE  ListSound(LoadMore(l))
BY AskingSound DEF LoadMore

(* Fields that the rows do not depend on. *)
LEMMA AsideSound ==
    ASSUME NEW l, ListSound(l), NEW m, m = [f \in ListFields |-> m[f]], Same(l, m),
           m.wait = l.wait, m.done = l.done, l.done => m.ready = l.ready
    PROVE  ListSound(m)
BY DEF ListSound, Same, RowsOK, CursorOK, WaitOK, DoneOK, NoPage, Continues

LEMMA ResetSound ==
    ASSUME NEW l, ListSound(l), NEW m, m = [f \in ListFields |-> m[f]],
           m.page = l.page, m.wait = l.wait,
           m.rows = <<>>, m.own = 0, m.cursor = Start, m.done = FALSE
    PROVE  ListSound(m)
<1>0. m.rows \in Seq(Nat) /\ Len(m.rows) = 0 /\ m.cursor = 0
  BY EmptySeq DEF Start
<1>1. NoPage(m) /\ RowsOK(m)
  BY <1>0 DEF NoPage, RowsOK, RunBelow
<1>2. WaitOK(m)
  BY <1>1 DEF WaitOK, ListSound, Continues
<1>3. QED
  BY <1>1, <1>2 DEF ListSound, CursorOK, DoneOK

LEMMA FailedSound ==
    ASSUME NEW l, ListSound(l)
    PROVE  ListSound(Over(l))
<1> DEFINE m == Over(l)
<1>1. /\ m = [f \in ListFields |-> m[f]] /\ Same(l, m)
      /\ m.wait = Nowhere /\ m.done = l.done /\ m.ready = TRUE
  BY DEF Over, ListSound, ListFields, Same
<1>2. QED
  BY <1>1 DEF ListSound, Same, RowsOK, CursorOK, WaitOK, DoneOK, NoPage

LEMMA PageLands ==
    ASSUME NEW l, ListSound(l), l.wait # Nowhere, NEW s, Run(s), Continues(l, s), s # <<>>,
           NEW m, m = [f \in ListFields |-> m[f]], m.page = l.page, m.own = l.own,
           m.rows = l.rows \o s, m.cursor = Next_before(s), m.wait = Nowhere, m.done = FALSE
    PROVE  ListSound(m)
<1>1. ~l.done
  BY DEF ListSound, DoneOK
<1>2. RunBelow(l.page, l.own, l.rows \o s) /\ (l.rows \o s)[Len(l.rows \o s)] = s[Len(s)]
  BY <1>1, RowsWithPage DEF ListSound
<1>3. m.cursor = s[Len(s)] /\ s[Len(s)] \in Nat
  <2>1. s \in Seq(Nat) /\ Len(s) \in Nat \ {0}
    BY EmptySeq DEF Run
  <2>2. s[Len(s)] \in Nat
    BY <2>1, ElementOfSeq
  <2>3. QED
    BY <2>2 DEF Next_before
<1>4. RunBelow(m.page, m.own, m.rows) /\ m.rows[Len(m.rows)] = m.cursor /\ m.cursor \in Nat
  BY <1>2, <1>3
<1>5. RowsOK(m) /\ CursorOK(m)
  BY <1>4 DEF RowsOK, CursorOK, ListSound
<1>6. QED
  BY <1>5 DEF ListSound, WaitOK, DoneOK

LEMMA ExtendSound ==
    ASSUME NEW l, ListSound(l), l.page # "federated",
           NEW s, l.wait = Served(s), Run(s), Continues(l, s)
    PROVE  ListSound(Over(Extend(l, s)))
<1> DEFINE m == Over(Extend(l, s))
<1>0. l.wait # Nowhere
  BY DEF Served, Nowhere
<1>1. CASE s = <<>>
  <2>1. Extend(l, s) = [l EXCEPT !.done = TRUE]
    BY <1>1 DEF Extend
  <2>2. /\ m = [f \in ListFields |-> m[f]] /\ Same(l, m)
        /\ m.wait = Nowhere /\ m.done = TRUE
    BY <2>1 DEF Over, ListSound, ListFields, Same
  <2>3. ~l.done
    BY <1>0 DEF ListSound, DoneOK
  <2>4. NoPage(l) \/ Joins(l.page, l.rows[Len(l.rows)], 0)
    BY <1>1, <2>3 DEF Continues, ListSound, CursorOK, TopOf
  <2>5. QED
    BY <2>2, <2>4 DEF ListSound, Same, RowsOK, CursorOK, WaitOK, DoneOK, NoPage
<1>2. CASE s # <<>>
  <2>1. Extend(l, s) = [l EXCEPT !.rows = l.rows \o s, !.cursor = Next_before(s)]
    BY <1>2 DEF Extend
  <2>2. ~l.done /\ l = [f \in ListFields |-> l[f]]
    BY <1>0 DEF ListSound, DoneOK
  <2>3. /\ m = [f \in ListFields |-> m[f]] /\ m.page = l.page /\ m.own = l.own
        /\ m.rows = l.rows \o s /\ m.cursor = Next_before(s) /\ m.wait = Nowhere /\ m.done = l.done
    BY <2>1, <2>2 DEF Over, ListFields
  <2>4. m.done = FALSE
    BY <2>2, <2>3
  <2>5. QED
    BY <1>0, <1>2, <2>3, <2>4, PageLands
<1>3. QED
  BY <1>1, <1>2

LEMMA RowOnTop ==
    ASSUME NEW page, NEW own, NEW r, RunBelow(page, own, r), NEW row \in Nat
    PROVE  LET q == <<row>> \o r IN
           /\ RunBelow(page, own + 1, q) /\ Len(q) = Len(r) + 1
           /\ Len(r) # own => q[Len(q)] = r[Len(r)]
<1> DEFINE q == <<row>> \o r
           n == Len(r)
<1>1. r \in Seq(Nat) /\ n \in Nat /\ own \in Nat /\ own <= n
  BY LenProperties DEF RunBelow
<1>2. <<row>> \in Seq(Nat) /\ Len(<<row>>) = 1
  OBVIOUS
<1>3. q \in Seq(Nat) /\ Len(q) = n + 1
  BY <1>1, <1>2, ConcatProperties
<1>4. \A i \in 1..(1 + n) : q[i] = IF i <= 1 THEN <<row>>[i] ELSE r[i - 1]
  BY <1>1, <1>2, ConcatProperties
<1>5. \A i \in 2..(n + 1) : q[i] = r[i - 1]
  BY <1>1, <1>4
<1> HIDE DEF q, n
<1>6. ASSUME NEW i \in (own + 2)..(n + 1)
      PROVE  q[i] >= 1
  <2>1. i - 1 \in (own + 1)..n /\ i \in 2..(n + 1)
    BY <1>1
  <2>2. QED
    BY <1>5, <2>1 DEF RunBelow, n
<1>7. ASSUME NEW i \in (own + 2)..n
      PROVE  Joins(page, q[i], q[i + 1])
  <2>1. i - 1 \in (own + 1)..(n - 1) /\ i \in 2..(n + 1) /\ i + 1 \in 2..(n + 1)
    BY <1>1
  <2>2. (i - 1) + 1 = i /\ (i + 1) - 1 = i
    BY <1>1
  <2>3. q[i] = r[i - 1] /\ q[i + 1] = r[(i - 1) + 1]
    BY <1>5, <2>1, <2>2
  <2>4. QED
    BY <2>1, <2>3 DEF RunBelow, n
<1>8. RunBelow(page, own + 1, q)
  BY <1>1, <1>3, <1>6, <1>7 DEF RunBelow
<1>9. n # own => q[n + 1] = r[n]
  BY <1>1, <1>5
<1>10. RunBelow(page, own + 1, q) /\ Len(q) = n + 1 /\ (n # own => q[Len(q)] = r[n])
  BY <1>3, <1>8, <1>9
<1>11. QED
  BY <1>10 DEF q, n

LEMMA PrependSound ==
    ASSUME NEW l, ListSound(l), l.page # "federated", NEW row \in Nat
    PROVE  ListSound(Prepend(l, row))
<1> DEFINE m == Prepend(l, row)
<1>1. /\ m = [f \in ListFields |-> m[f]] /\ m.page = l.page /\ m.cursor = l.cursor
      /\ m.rows = <<row>> \o l.rows /\ m.own = l.own + 1
      /\ m.wait = l.wait /\ m.done = l.done /\ m.ready = l.ready
  BY DEF Prepend, ListSound, ListFields
<1>2. RunBelow(l.page, l.own, l.rows)
  BY DEF ListSound, RowsOK
<1>3. /\ RunBelow(m.page, m.own, m.rows) /\ Len(m.rows) = Len(l.rows) + 1
      /\ Len(l.rows) # l.own => m.rows[Len(m.rows)] = l.rows[Len(l.rows)]
  <2>1. LET q == <<row>> \o l.rows IN
        /\ RunBelow(l.page, l.own + 1, q) /\ Len(q) = Len(l.rows) + 1
        /\ Len(l.rows) # l.own => q[Len(q)] = l.rows[Len(l.rows)]
    BY <1>2, RowOnTop
  <2>2. QED
    BY <1>1, <2>1
<1>4. Len(l.rows) \in Nat /\ l.own \in Nat
  BY <1>2, LenProperties DEF RunBelow
<1>5. NoPage(m) <=> NoPage(l)
  BY <1>1, <1>3, <1>4 DEF NoPage
<1>6. ~NoPage(l) => m.rows[Len(m.rows)] = l.rows[Len(l.rows)]
  BY <1>3 DEF NoPage
<1>7. RowsOK(m)
  BY <1>1, <1>3 DEF ListSound, RowsOK
<1>8. WaitOK(m)
  BY <1>1, <1>5 DEF ListSound, WaitOK, Continues
<1>9. CursorOK(m) /\ DoneOK(m)
  BY <1>1, <1>5, <1>6 DEF ListSound, CursorOK, DoneOK
<1>10. QED
  BY <1>1, <1>7, <1>8, <1>9 DEF ListSound

-----------------------------------------------------------------------------
(* The pages. *)

LEMMA LoadStep ==
    ASSUME ListInv, HomeLoad \/ FeedLoad \/ NotificationsLoad
    PROVE  ListInv'
BY LoadMoreSound DEF ListInv, HomeLoad, FeedLoad, NotificationsLoad

LEMMA AnswerIs ==
    ASSUME NEW l, WaitOK(l), l.wait[1] \in {"served", "failed"}, l.wait # Failed
    PROVE  LET s == l.wait[2] IN l.wait = Served(s) /\ Run(s) /\ Continues(l, s)
BY DEF WaitOK, Nowhere, Asked

LEMMA AskedIs ==
    ASSUME NEW l, WaitOK(l), l.wait[1] = "asked"
    PROVE  l.wait[2] \in Nat /\ (NoPage(l) \/ l.wait[2] = l.cursor)
BY DEF WaitOK, Nowhere, Failed, Served

LEMMA ListAnswerStep ==
    ASSUME ListInv, HomeAnswer \/ FeedAnswer \/ NotificationsAnswer
    PROVE  ListInv'
<1>1. /\ list.page # "federated" /\ list.wait[1] \in {"served", "failed"} /\ newest' = newest
      /\ list' = IF list.wait = Failed THEN Over(list) ELSE Over(Extend(list, list.wait[2]))
  BY DEF HomeAnswer, FeedAnswer, NotificationsAnswer, OnPage
<1>2. ListSound(list) /\ WaitOK(list)
  BY DEF ListInv, ListSound
<1>3. CASE list.wait = Failed
  BY <1>1, <1>2, <1>3, FailedSound DEF ListInv
<1>4. CASE list.wait # Failed
  <2>1. LET s == list.wait[2] IN list.wait = Served(s) /\ Run(s) /\ Continues(list, s)
    BY <1>1, <1>2, <1>4, AnswerIs
  <2>2. ListSound(Over(Extend(list, list.wait[2])))
    BY <1>1, <1>2, <2>1, ExtendSound
  <2>3. QED
    BY <1>1, <1>4, <2>2 DEF ListInv
<1>5. QED
  BY <1>3, <1>4

LEMMA ListReloadStep ==
    ASSUME ListInv, HomeReload \/ ShowNew \/ FeedReload \/ OnNotification
    PROVE  ListInv'
<1> DEFINE cleared == {Reset(list), [Reset(list) EXCEPT !.ready = FALSE],
                       [Reset(list) EXCEPT !.ready = FALSE, !.pill = 0]}
<1>1. ASSUME NEW m \in cleared
      PROVE  ListSound(m)
  <2>1. /\ m = [f \in ListFields |-> m[f]] /\ m.page = list.page /\ m.wait = list.wait
        /\ m.rows = <<>> /\ m.own = 0 /\ m.cursor = Start /\ m.done = FALSE
    BY DEF Reset, ListFields, ListInv, ListSound
  <2>2. QED
    BY <2>1, ResetSound DEF ListInv
<1>2. newest' \in Nat /\ \E m \in cleared : list' = LoadMore(m)
  BY DEF HomeReload, ShowNew, FeedReload, OnNotification, ListInv
<1>3. QED
  BY <1>1, <1>2, LoadMoreSound DEF ListInv

LEMMA ListNewsStep ==
    ASSUME ListInv, HomePosted \/ FeedPosted
    PROVE  ListInv'
<1>1. list.page # "federated" /\ newest' = newest + 1 /\ list' = Prepend(list, newest + 1)
  BY DEF HomePosted, FeedPosted, OnPage
<1>2. QED
  BY <1>1, PrependSound DEF ListInv

LEMMA ListAsideStep ==
    ASSUME ListInv, OnNewPost \/ MarkRead \/ MarkAll \/ ToggleTab
    PROVE  ListInv'
<1>1. /\ list' = [f \in ListFields |-> list'[f]] /\ Same(list, list')
      /\ list'.wait = list.wait /\ list'.done = list.done /\ list'.ready = list.ready
  BY DEF OnNewPost, MarkRead, MarkAll, ToggleTab, ListInv, ListSound, ListFields, Same
<1>2. newest' \in Nat
  BY DEF OnNewPost, MarkRead, MarkAll, ToggleTab, ListInv
<1>3. QED
  BY <1>1, <1>2, AsideSound DEF ListInv

LEMMA FederatedStep ==
    ASSUME ListInv, FederatedLoad \/ FederatedAnswer
    PROVE  ListInv'
<1>1. list.page = "federated" /\ newest' = newest /\ ListSound(list) /\ newest \in Nat
  BY DEF FederatedLoad, FederatedAnswer, OnPage, ListInv
<1>2. CASE FederatedLoad
  <2>1. ~list.done
    BY <1>1, <1>2 DEF FederatedLoad, FederatedView, ListSound, DoneOK
  <2>2. QED
    BY <1>1, <1>2, <2>1, AskingSound DEF FederatedLoad, ListInv
<1>3. CASE FederatedAnswer /\ list.wait = Failed
  <2> DEFINE m == Over([list EXCEPT !.done = TRUE])
  <2>1. /\ m = [f \in ListFields |-> m[f]] /\ Same(list, m)
        /\ m.wait = Nowhere /\ m.done = TRUE /\ m.ready = TRUE
    BY <1>1 DEF Over, ListSound, ListFields, Same
  <2>2. ListSound(m)
    BY <1>1, <2>1 DEF ListSound, Same, RowsOK, CursorOK, WaitOK, DoneOK, NoPage
  <2>3. QED
    BY <1>1, <1>3, <2>2 DEF FederatedAnswer, ListInv
<1>4. CASE FederatedAnswer /\ list.wait # Failed
  <2> DEFINE s == list.wait[2]
             rows == IF list.cursor = Start THEN s ELSE list.rows \o s
             m == Over([list EXCEPT !.rows = rows, !.cursor = Next_before(s),
                                    !.done = list.done \/ s = <<>>])
  <2>1. list.wait = Served(s) /\ Run(s) /\ Continues(list, s) /\ list' = m
    BY <1>1, <1>4, AnswerIs DEF FederatedAnswer, ListSound
  <2>2. list.wait # Nowhere
    BY <2>1 DEF Served, Nowhere
  <2>3. ~list.done /\ list.own = 0 /\ RunBelow(list.page, 0, list.rows) /\ CursorOK(list)
    BY <1>1, <2>2 DEF ListSound, DoneOK, RowsOK
  <2>4. rows = list.rows \o s
    <3>1. CASE NoPage(list)
      <4>1. list.rows = <<>> /\ s \in Seq(Nat)
        BY <2>1, <2>3, <3>1, EmptySeq DEF NoPage, RunBelow, Run
      <4>2. QED
        BY <4>1, ConcatEmptySeq
    <3>2. CASE ~NoPage(list)
      <4>1. list.rows[Len(list.rows)] >= 1
        BY <2>3, <3>2, LastRow DEF NoPage
      <4>2. list.cursor # Start
        BY <2>3, <3>2, <4>1 DEF CursorOK, Start
      <4>3. QED
        BY <4>2
    <3>3. QED
      BY <3>1, <3>2
  <2>5. /\ m = [f \in ListFields |-> m[f]] /\ m.page = list.page /\ m.own = list.own
        /\ m.rows = list.rows \o s /\ m.cursor = Next_before(s) /\ m.wait = Nowhere
        /\ m.done = (list.done \/ s = <<>>) /\ m.ready = TRUE
    BY <1>1, <2>4 DEF Over, ListFields, ListSound
  <2> HIDE DEF m, rows, s
  <2>6. CASE s # <<>>
    <3>1. m.done = FALSE
      BY <2>3, <2>5, <2>6
    <3>2. ListSound(m)
      BY <1>1, <2>1, <2>2, <2>5, <2>6, <3>1, PageLands
    <3>3. QED
      BY <1>1, <2>1, <3>2 DEF ListInv
  <2>7. CASE s = <<>>
    <3>1. m.rows = list.rows /\ m.cursor = Start /\ m.done = TRUE
      <4>1. list.rows \o <<>> = list.rows
        BY <2>3, ConcatEmptySeq DEF RunBelow
      <4>2. QED
        BY <2>5, <2>7, <4>1 DEF Next_before
    <3>2. RowsOK(m)
      BY <1>1, <2>5, <3>1 DEF RowsOK, ListSound, Start
    <3>3. ListSound(m)
      BY <1>1, <2>5, <3>1, <3>2 DEF ListSound, CursorOK, WaitOK, DoneOK
    <3>4. QED
      BY <1>1, <2>1, <3>3 DEF ListInv
  <2>8. QED
    BY <2>6, <2>7
<1>5. QED
  BY <1>2, <1>3, <1>4

(* What the server answers: that it failed, or a page. *)
Serves(s) ==
    \E first \in PageStarts(list.page, newest, list.wait[2]) :
       s = PageRows(first) /\ list' = [list EXCEPT !.wait = Served(s)]

LEMMA ServesRun ==
    ASSUME NEW s, Serves(s), newest \in Nat, list.wait[2] \in Nat
    PROVE  /\ Run(s)
           /\ list.wait[2] # Start => Joins(list.page, list.wait[2], TopOf(s))
           /\ \E first \in Nat : /\ \A k \in 1..Len(s) : s[k] <= first
                                 /\ list.wait[2] = Start => first = newest
                                 /\ list.wait[2] # Start => first < list.wait[2]
<1>1. PICK first \in PageStarts(list.page, newest, list.wait[2]) : s = PageRows(first)
  BY DEF Serves
<1>2. PICK page, before : page = list.page /\ before = list.wait[2]
  OBVIOUS
<1>3. before \in Nat /\ first \in PageStarts(page, newest, before)
  BY <1>2
<1>4. /\ Run(s) /\ first \in Nat /\ \A i \in 1..Len(s) : s[i] <= first
      /\ before = Start => first = newest
      /\ before # Start => first < before /\ Joins(page, before, TopOf(s))
  BY <1>1, <1>3, PageIsRun
<1>5. QED
  BY <1>2, <1>4

LEMMA ServeRowsIs ==
    ASSUME ServeRows
    PROVE  list' = [list EXCEPT !.wait = Failed] \/ \E s : Serves(s)
BY DEF ServeRows, Serves

LEMMA ServeRowsStep ==
    ASSUME ListInv, ServeRows
    PROVE  ListInv'
<1>1. ListSound(list) /\ newest \in Nat /\ newest' = newest /\ list.wait[1] = "asked"
  BY DEF ListInv, ServeRows
<1>2. list.wait[2] \in Nat /\ (NoPage(list) \/ list.wait[2] = list.cursor) /\ ~list.done
  <2>1. list.wait # Nowhere
    BY <1>1 DEF Nowhere
  <2>2. QED
    BY <1>1, <2>1, AskedIs DEF ListSound, DoneOK
<1>3. ASSUME NEW wait, list' = [list EXCEPT !.wait = wait]
      PROVE  /\ list' = [f \in ListFields |-> list'[f]] /\ Same(list, list')
             /\ list'.wait = wait /\ list'.done = list.done /\ list'.ready = list.ready
  BY <1>1, <1>3 DEF ListSound, ListFields, Same
<1>4. CASE list' = [list EXCEPT !.wait = Failed]
  <2>1. WaitOK(list')
    BY <1>3, <1>4 DEF WaitOK
  <2>2. ListSound(list')
    BY <1>1, <1>2, <1>3, <1>4, <2>1 DEF ListSound, Same, RowsOK, CursorOK, DoneOK, NoPage
  <2>3. QED
    BY <1>1, <2>2 DEF ListInv
<1>5. ASSUME NEW s, Serves(s)
      PROVE  ListInv'
  <2>1. list' = [list EXCEPT !.wait = Served(s)]
    BY <1>5 DEF Serves
  <2>2. /\ Run(s)
        /\ list.wait[2] # Start => Joins(list.page, list.wait[2], TopOf(s))
    BY <1>1, <1>2, <1>5, ServesRun
  <2>3. Continues(list, s)
    <3>1. CASE NoPage(list)
      BY <3>1 DEF Continues
    <3>2. CASE ~NoPage(list)
      <4>1. list.rows[Len(list.rows)] >= 1
        BY <1>1, <3>2, LastRow DEF ListSound, RowsOK, NoPage
      <4>2. list.cursor = list.rows[Len(list.rows)] /\ list.cursor >= 1
        BY <1>1, <1>2, <3>2, <4>1 DEF ListSound, CursorOK
      <4>3. QED
        BY <1>2, <2>2, <3>2, <4>2 DEF Continues, Start
    <3>3. QED
      BY <3>1, <3>2
  <2>4. list'.wait = Served(s) /\ list'.wait[2] = s
    BY <1>3, <2>1 DEF Served
  <2>5. Continues(list', s)
    BY <1>3, <2>1, <2>3 DEF Continues, Same, NoPage
  <2>6. WaitOK(list')
    BY <2>2, <2>4, <2>5 DEF WaitOK
  <2>7. ListSound(list')
    BY <1>1, <1>2, <1>3, <2>1, <2>6 DEF ListSound, Same, RowsOK, CursorOK, DoneOK, NoPage
  <2>8. QED
    BY <1>1, <2>7 DEF ListInv
<1>6. QED
  BY <1>4, <1>5, ServeRowsIs

LEMMA ListStep ==
    ASSUME ListInv, [ListsNext]_listVars
    PROVE  ListInv'
<1>1. CASE UNCHANGED listVars
  BY <1>1 DEF listVars, ListInv
<1>2. CASE ListsNext
  <2>1. list.page # "videos"
    BY DEF ListInv, ListSound
  <2>2. ~VideosLoad /\ ~VideosAnswer
    BY <2>1 DEF VideosLoad, VideosAnswer, OnPage
  <2>3. QED
    BY <1>2, <2>2, LoadStep, ListAnswerStep, ListReloadStep, ListNewsStep, ListAsideStep,
       FederatedStep, ServeRowsStep DEF ListsNext
<1>3. QED
  BY <1>1, <1>2

-----------------------------------------------------------------------------
(* One's own posts stay above the pages, but those that the first page brings once more. *)

(* The page on its way, or to be asked for next, begins below the row. *)
Above(l, row) ==
    /\ \A j \in (l.own + 1)..Len(l.rows) : l.rows[j] < row
    /\ l.cursor < row
    /\ l.cursor = Start => l.done \/ l.wait[1] = "served"
    /\ l.wait[1] = "served" => \A k \in 1..Len(l.wait[2]) : l.wait[2][k] < row

(* The server has the rows that are here or on their way. *)
Within(l, n) ==
    /\ \A j \in 1..Len(l.rows) : l.rows[j] <= n
    /\ l.cursor <= n
    /\ l.wait[1] = "served" => \A k \in 1..Len(l.wait[2]) : l.wait[2][k] <= n
    /\ l.wait[1] = "asked" => l.wait[2] <= n /\ (l.cursor = Start \/ l.wait[2] = l.cursor)

TopInv ==
    /\ list.page \notin {"home", "feed"} => list.own = 0
    /\ Within(list, newest)
    /\ \A i \in 1..list.own : list.rows[i] \in list.early \/ Above(list, list.rows[i])

LEMMA ListIs ==
    ASSUME ListInv
    PROVE  /\ list = [f \in ListFields |-> list[f]] /\ newest \in Nat /\ list.page # "videos"
           /\ list.rows \in Seq(Nat) /\ Len(list.rows) \in Nat /\ list.own \in Nat
           /\ list.own <= Len(list.rows) /\ list.cursor \in Nat
           /\ \A i \in 1..Len(list.rows) : list.rows[i] \in Nat
           /\ list.done => list.wait = Nowhere
<1>1. ListSound(list) /\ newest \in Nat
  BY DEF ListInv
<1>2. RunBelow(list.page, list.own, list.rows) /\ list.cursor \in Nat
  BY <1>1 DEF ListSound, RowsOK
<1>3. /\ list.rows \in Seq(Nat) /\ list.own \in Nat /\ list.own <= Len(list.rows)
  BY <1>2 DEF RunBelow
<1>4. Len(list.rows) \in Nat /\ \A i \in 1..Len(list.rows) : list.rows[i] \in Nat
  BY <1>3, LenProperties, ElementOfSeq
<1>5. QED
  BY <1>1, <1>2, <1>3, <1>4 DEF ListSound, DoneOK

LEMMA ServedIs ==
    ASSUME ListInv, list.wait[1] = "served"
    PROVE  /\ Run(list.wait[2])
           /\ \A k \in 1..Len(list.wait[2]) : list.wait[2][k] \in Nat
<1>1. list.wait # Failed
  BY DEF Failed
<1>2. Run(list.wait[2])
  BY <1>1, AnswerIs DEF ListInv, ListSound
<1>3. QED
  BY <1>2, ElementOfSeq DEF Run

(* Only the request changes, or nothing that the rows depend on. *)
LEMMA TopKept ==
    ASSUME ListInv, TopInv, Same(list, list'), list'.early = list.early,
           newest' \in Nat, newest <= newest',
           \/ list'.wait = list.wait /\ list'.done = list.done
           \/ /\ list'.wait[1] \notin {"served", "asked"} /\ list.wait[1] # "served"
              /\ list.done => list'.done
           \/ list'.wait[1] \notin {"served", "asked"} /\ list'.done
           \/ /\ list'.wait = Asked(list.cursor)
              /\ list.own = 0 \/ (list.wait = Nowhere /\ ~list.done)
    PROVE  TopInv'
<1>1. Within(list', newest')
  <2>1. list'.wait[1] = "asked" /\ list'.wait # list.wait => list'.wait[2] = list.cursor
    BY DEF Asked
  <2>2. Asked(list.cursor)[1] = "asked"
    BY DEF Asked
  <2>3. /\ \A j \in 1..Len(list.rows) : list.rows[j] <= newest'
        /\ list.cursor <= newest'
    BY ListIs DEF TopInv, Within
  <2>4. CASE list'.wait = list.wait
    <3>1. list.wait[1] = "served" => \A k \in 1..Len(list.wait[2]) : list.wait[2][k] <= newest'
      <4> SUFFICES ASSUME list.wait[1] = "served", NEW k \in 1..Len(list.wait[2])
                   PROVE  list.wait[2][k] <= newest'
        OBVIOUS
      <4>2. list.wait[2][k] \in Nat
        BY ServedIs
      <4>3. list.wait[2][k] <= newest
        BY DEF TopInv, Within
      <4>4. QED
        BY <4>2, <4>3, ListIs
    <3>2. list.wait[1] = "asked" => list.wait[2] <= newest'
      <4>1. list.wait[1] = "asked" => list.wait[2] \in Nat
        BY AskedIs DEF ListInv, ListSound
      <4>2. QED
        BY <4>1, ListIs DEF TopInv, Within
    <3>3. QED
      BY <2>3, <2>4, <3>1, <3>2 DEF TopInv, Within, Same
  <2>5. CASE list'.wait # list.wait
    BY <2>1, <2>2, <2>3, <2>5 DEF TopInv, Within, Same
  <2>6. QED
    BY <2>4, <2>5
<1>2. ASSUME NEW i \in 1..list.own, Above(list, list.rows[i])
      PROVE  Above(list', list.rows[i])
  <2>1. Nowhere[1] = "idle" /\ Asked(list.cursor)[1] = "asked" /\ 1..0 = {}
    BY DEF Nowhere, Asked
  <2>2. list.own # 0
    BY <2>1
  <2>3. QED
    BY <1>2, <2>1, <2>2 DEF Above, Same
<1>3. QED
  BY <1>1, <1>2 DEF TopInv, Same

LEMMA LoadTop ==
    ASSUME ListInv, TopInv,
           HomeLoad \/ FeedLoad \/ NotificationsLoad \/ FederatedLoad
    PROVE  TopInv'
<1>1. CASE list' = list
  <2>1. newest' = newest
    BY DEF HomeLoad, FeedLoad, NotificationsLoad, FederatedLoad
  <2>2. QED
    BY <1>1, <2>1, TopKept, ListIs DEF Same
<1>2. CASE list' # list
  <2>1. list' = Asking(list) /\ newest' = newest
    BY <1>2 DEF HomeLoad, FeedLoad, NotificationsLoad, FederatedLoad, LoadMore
  <2>2. list.own = 0 \/ (list.wait = Nowhere /\ ~list.done)
    BY <1>2 DEF HomeLoad, FeedLoad, NotificationsLoad, FederatedLoad, LoadMore, TopInv, OnPage
  <2>3. Same(list, list') /\ list'.early = list.early /\ list'.wait = Asked(list.cursor)
    BY <2>1, ListIs DEF Asking, ListFields, Same
  <2>4. QED
    BY <2>1, <2>2, <2>3, TopKept, ListIs
<1>3. QED
  BY <1>1, <1>2

LEMMA AsideTop ==
    ASSUME ListInv, TopInv, OnNewPost \/ MarkRead \/ MarkAll \/ ToggleTab
    PROVE  TopInv'
<1>1. /\ Same(list, list') /\ list'.early = list.early
      /\ list'.wait = list.wait /\ list'.done = list.done
  BY ListIs DEF OnNewPost, MarkRead, MarkAll, ToggleTab, ListFields, Same
<1>2. newest' \in Nat /\ newest <= newest'
  BY ListIs DEF OnNewPost, MarkRead, MarkAll, ToggleTab
<1>3. QED
  BY <1>1, <1>2, TopKept

LEMMA ReloadTop ==
    ASSUME ListInv, TopInv, HomeReload \/ ShowNew \/ FeedReload \/ OnNotification
    PROVE  TopInv'
<1> DEFINE cleared == {Reset(list), [Reset(list) EXCEPT !.ready = FALSE],
                       [Reset(list) EXCEPT !.ready = FALSE, !.pill = 0]}
<1>1. newest' \in {newest, newest + 1} /\ \E m \in cleared : list' = LoadMore(m)
  BY DEF HomeReload, ShowNew, FeedReload, OnNotification
<1>2. ASSUME NEW m \in cleared, list' = LoadMore(m)
      PROVE  /\ list'.rows = <<>> /\ list'.own = 0 /\ list'.cursor = Start
             /\ list'.wait = list.wait \/ list'.wait = Asked(Start)
  <2>1. /\ m = [f \in ListFields |-> m[f]] /\ m.wait = list.wait
        /\ m.rows = <<>> /\ m.own = 0 /\ m.cursor = Start
    BY ListIs DEF Reset, ListFields
  <2> HIDE DEF cleared
  <2>2. QED
    BY <1>2, <2>1 DEF LoadMore, Asking, ListFields
<1>3. newest \in Nat /\ newest' \in Nat /\ newest <= newest'
  BY <1>1, ListIs
<1>4. list.wait[1] = "served" => \A k \in 1..Len(list.wait[2]) : list.wait[2][k] <= newest'
  <2> SUFFICES ASSUME list.wait[1] = "served", NEW k \in 1..Len(list.wait[2])
               PROVE  list.wait[2][k] <= newest'
    OBVIOUS
  <2>2. list.wait[2][k] \in Nat /\ list.wait[2][k] <= newest
    BY ServedIs DEF TopInv, Within
  <2>3. QED
    BY <1>3, <2>2
<1>5. list.wait[1] = "asked" => list.wait[2] <= newest'
  <2>1. list.wait[1] = "asked" => list.wait[2] \in Nat
    BY AskedIs DEF ListInv, ListSound
  <2>2. QED
    BY <1>3, <2>1 DEF TopInv, Within
<1>6. Len(<<>>) = 0 /\ Asked(Start)[1] = "asked" /\ Asked(Start)[2] = 0
  BY DEF Asked, Start
<1>7. PICK m \in cleared : list' = LoadMore(m)
  BY <1>1
<1>8. /\ list'.rows = <<>> /\ list'.own = 0 /\ list'.cursor = Start
      /\ list'.wait = list.wait \/ list'.wait = Asked(Start)
  BY <1>2, <1>7
<1> HIDE DEF cleared
<1>9. Within(list', newest')
  BY <1>3, <1>4, <1>5, <1>6, <1>8 DEF Within, Start
<1>10. QED
  BY <1>8, <1>9 DEF TopInv

LEMMA PostedTop ==
    ASSUME ListInv, TopInv, HomePosted \/ FeedPosted
    PROVE  TopInv'
<1> DEFINE new == newest + 1
           n == Len(list.rows)
<1>1. /\ newest' = new /\ list' = Prepend(list, new) /\ list.page \in {"home", "feed"}
      /\ newest \in Nat /\ new \in Nat
  BY ListIs DEF HomePosted, FeedPosted, OnPage
<1> HIDE DEF new
<1>2. /\ list'.page = list.page /\ list'.rows = <<new>> \o list.rows
      /\ list'.own = list.own + 1 /\ list'.cursor = list.cursor /\ list'.wait = list.wait
      /\ list'.done = list.done
      /\ list'.early = IF FirstPageToCome(list) THEN list.early \cup {new} ELSE list.early
  BY <1>1, ListIs DEF Prepend, ListFields
<1>3. /\ n \in Nat /\ list.own \in Nat /\ list.own <= n /\ list.rows \in Seq(Nat)
      /\ \A i \in 1..n : list.rows[i] \in Nat /\ list.rows[i] <= newest
      /\ list.cursor \in Nat /\ list.cursor <= newest
  BY ListIs DEF TopInv, Within
<1>4. /\ Len(list'.rows) = n + 1 /\ list'.rows[1] = new
      /\ \A i \in 2..(n + 1) : list'.rows[i] = list.rows[i - 1]
  <2>1. <<new>> \in Seq(Nat) /\ Len(<<new>>) = 1 /\ <<new>>[1] = new
    BY <1>1
  <2>2. /\ Len(<<new>> \o list.rows) = 1 + n
        /\ \A i \in 1..(1 + n) : (<<new>> \o list.rows)[i] =
                                   IF i <= 1 THEN <<new>>[i] ELSE list.rows[i - 1]
    BY <1>3, <2>1, ConcatProperties
  <2>3. QED
    BY <1>2, <1>3, <2>1, <2>2
<1> HIDE DEF n
<1>5. list.wait[1] = "served" =>
        \A k \in 1..Len(list.wait[2]) : list.wait[2][k] \in Nat /\ list.wait[2][k] <= newest
  <2> SUFFICES ASSUME list.wait[1] = "served", NEW k \in 1..Len(list.wait[2])
               PROVE  list.wait[2][k] \in Nat /\ list.wait[2][k] <= newest
    OBVIOUS
  <2>2. QED
    BY ServedIs DEF TopInv, Within
<1>6. list.wait[1] = "asked" => list.wait[2] \in Nat /\ list.wait[2] <= newest
  <2>1. list.wait[1] = "asked" => list.wait[2] \in Nat
    BY AskedIs DEF ListInv, ListSound
  <2>2. QED
    BY <2>1 DEF TopInv, Within
<1>7. new > newest
  BY <1>1 DEF new
<1>8. Within(list', new)
  <2>1. \A j \in 1..(n + 1) : list'.rows[j] <= new
    <3> SUFFICES ASSUME NEW j \in 1..(n + 1) PROVE list'.rows[j] <= new
      OBVIOUS
    <3>1. CASE j = 1
      BY <1>1, <1>4, <3>1
    <3>2. CASE j # 1
      <4>1. j \in 2..(n + 1) /\ j - 1 \in 1..n
        BY <1>3, <3>2
      <4>2. list'.rows[j] = list.rows[j - 1]
        BY <1>4, <4>1
      <4>3. list.rows[j - 1] \in Nat /\ list.rows[j - 1] <= newest
        BY <1>3, <4>1
      <4>4. QED
        BY <1>1, <1>7, <4>2, <4>3
    <3>3. QED
      BY <3>1, <3>2
  <2>2. QED
    BY <1>1, <1>2, <1>3, <1>4, <1>5, <1>6, <1>7, <2>1 DEF Within, TopInv
<1>9. \A j \in (list'.own + 1)..Len(list'.rows) :
         j - 1 \in (list.own + 1)..n /\ list'.rows[j] = list.rows[j - 1]
  BY <1>2, <1>3, <1>4
<1>10. ASSUME NEW row, Above(list, row)
       PROVE  Above(list', row)
  BY <1>2, <1>9, <1>10 DEF Above, n
<1>11. ~FirstPageToCome(list) => Above(list', new)
  <2>1. \A j \in (list'.own + 1)..Len(list'.rows) : list'.rows[j] < new
    <3> SUFFICES ASSUME NEW j \in (list'.own + 1)..Len(list'.rows)
                 PROVE  list'.rows[j] < new
      OBVIOUS
    <3>1. j - 1 \in 1..n /\ list'.rows[j] = list.rows[j - 1]
      BY <1>3, <1>9
    <3>2. QED
      BY <1>1, <1>3, <1>7, <3>1
  <2>2. list'.cursor < new
    BY <1>1, <1>2, <1>3, <1>7
  <2>3. ASSUME list'.wait[1] = "served", NEW k \in 1..Len(list'.wait[2])
        PROVE  list'.wait[2][k] < new
    <3>1. list.wait[2][k] \in Nat /\ list.wait[2][k] <= newest
      BY <1>2, <1>5, <2>3
    <3>2. QED
      BY <1>1, <1>2, <1>7, <3>1
  <2>4. ASSUME ~FirstPageToCome(list), list'.cursor = Start
        PROVE  list'.done \/ list'.wait[1] = "served"
    BY <1>2, <2>4 DEF FirstPageToCome
  <2>5. QED
    BY <2>1, <2>2, <2>3, <2>4 DEF Above
<1>12. ASSUME NEW i \in 1..list'.own
       PROVE  list'.rows[i] \in list'.early \/ Above(list', list'.rows[i])
  <2>1. CASE i = 1
    BY <1>2, <1>4, <1>11, <2>1
  <2>2. CASE i # 1
    <3>1. i - 1 \in 1..list.own /\ i \in 2..(n + 1)
      BY <1>2, <1>3, <2>2
    <3>2. list'.rows[i] = list.rows[i - 1]
      BY <1>4, <3>1
    <3>3. list.rows[i - 1] \in list.early \/ Above(list, list.rows[i - 1])
      BY <3>1 DEF TopInv
    <3>4. QED
      BY <1>2, <1>10, <3>2, <3>3
  <2>3. QED
    BY <2>1, <2>2
<1>13. QED
  BY <1>1, <1>2, <1>8, <1>12 DEF TopInv

(* A page that lands below. *)
LEMMA LandTop ==
    ASSUME ListInv, TopInv, NEW s, list.wait = Served(s), Run(s), s # <<>>,
           list'.page = list.page, list'.own = list.own, list'.early = list.early,
           list'.rows = list.rows \o s, list'.cursor = s[Len(s)], list'.wait = Nowhere,
           newest' = newest
    PROVE  TopInv'
<1> DEFINE m == Len(list.rows)
           n == Len(s)
<1>1. /\ m \in Nat /\ list.own \in Nat /\ list.own <= m /\ list.rows \in Seq(Nat)
      /\ newest \in Nat
  BY ListIs
<1>2. s \in Seq(Nat) /\ n \in Nat \ {0} /\ \A k \in 1..n : s[k] \in Nat /\ s[k] >= 1
  <2>1. s \in Seq(Nat) /\ n \in Nat \ {0}
    BY EmptySeq, LenProperties DEF Run
  <2>2. QED
    BY <2>1, ElementOfSeq DEF Run
<1>3. /\ Len(list'.rows) = m + n
      /\ \A i \in 1..(m + n) : list'.rows[i] = IF i <= m THEN list.rows[i] ELSE s[i - m]
  BY <1>1, <1>2, ConcatProperties
<1>4. list.wait[1] = "served" /\ list.wait[2] = s /\ list'.wait[1] = "idle"
  BY DEF Served, Nowhere
<1>5. n \in 1..n
  BY <1>2
<1> HIDE DEF m, n
<1>6. Within(list', newest)
  <2>1. \A j \in 1..(m + n) : list'.rows[j] <= newest
    <3> SUFFICES ASSUME NEW j \in 1..(m + n) PROVE list'.rows[j] <= newest
      OBVIOUS
    <3>1. CASE j <= m
      BY <1>1, <1>3, <3>1 DEF TopInv, Within, m
    <3>2. CASE j > m
      <4>1. j - m \in 1..n
        BY <1>1, <1>2, <3>2
      <4>2. QED
        BY <1>1, <1>3, <1>4, <3>2, <4>1 DEF TopInv, Within, n
    <3>3. j <= m \/ j > m
      BY <1>1, <1>2
    <3>4. QED
      BY <3>1, <3>2, <3>3
  <2>2. list'.cursor <= newest
    BY <1>4, <1>5 DEF TopInv, Within, n
  <2>3. QED
    BY <1>3, <1>4, <2>1, <2>2 DEF Within
<1>7. ASSUME NEW row, Above(list, row)
      PROVE  Above(list', row)
  <2>1. \A j \in (list.own + 1)..(m + n) : list'.rows[j] < row
    <3> SUFFICES ASSUME NEW j \in (list.own + 1)..(m + n) PROVE list'.rows[j] < row
      OBVIOUS
    <3>1. CASE j <= m
      <4>1. j \in (list.own + 1)..m /\ j \in 1..(m + n)
        BY <1>1, <1>2, <3>1
      <4>2. QED
        BY <1>3, <1>7, <3>1, <4>1 DEF Above, m
    <3>2. CASE j > m
      <4>1. j - m \in 1..n /\ j \in 1..(m + n)
        BY <1>1, <1>2, <3>2
      <4>2. list'.rows[j] = s[j - m]
        BY <1>1, <1>3, <3>2, <4>1
      <4>3. QED
        BY <1>4, <1>7, <4>1, <4>2 DEF Above, n
    <3>3. j <= m \/ j > m
      BY <1>1, <1>2
    <3>4. QED
      BY <3>1, <3>2, <3>3
  <2>2. list'.cursor < row /\ list'.cursor # Start
    BY <1>2, <1>4, <1>5, <1>7 DEF Above, Start, n
  <2>3. QED
    BY <1>3, <1>4, <2>1, <2>2 DEF Above
<1>8. ASSUME NEW i \in 1..list.own
      PROVE  list'.rows[i] = list.rows[i]
  BY <1>1, <1>2, <1>3
<1>9. QED
  BY <1>6, <1>7, <1>8 DEF TopInv

LEMMA AnswerTop ==
    ASSUME ListInv, TopInv, HomeAnswer \/ FeedAnswer \/ NotificationsAnswer \/ FederatedAnswer
    PROVE  TopInv'
<1> DEFINE s == list.wait[2]
<1>1. /\ list.wait[1] \in {"served", "failed"} /\ newest' = newest
      /\ list = [f \in ListFields |-> list[f]] /\ newest \in Nat
  BY ListIs DEF HomeAnswer, FeedAnswer, NotificationsAnswer, FederatedAnswer
<1>2. CASE list.wait = Failed
  <2>1. \/ list' = Over(list) \/ list' = Over([list EXCEPT !.done = TRUE])
    BY <1>2 DEF HomeAnswer, FeedAnswer, NotificationsAnswer, FederatedAnswer
  <2>2. /\ Same(list, list') /\ list'.early = list.early /\ list'.wait = Nowhere
        /\ list.done => list'.done
    BY <1>1, <2>1 DEF Over, ListFields, Same
  <2>3. list'.wait[1] = "idle" /\ list.wait[1] = "failed"
    BY <1>2, <2>2 DEF Nowhere, Failed
  <2>4. QED
    BY <1>1, <2>2, <2>3, TopKept
<1>3. CASE list.wait # Failed
  <2>1. list.wait = Served(s) /\ Run(s) /\ Continues(list, s)
    BY <1>1, <1>3, AnswerIs DEF ListInv, ListSound
  <2>2. list.wait # Nowhere /\ ~list.done
    BY <2>1, ListIs DEF Served, Nowhere
  <2>3. s \in Seq(Nat) /\ (s # <<>> => Next_before(s) = s[Len(s)])
    BY <2>1 DEF Run, Next_before
  <2>4. CASE s = <<>>
    <3>1. CASE HomeAnswer \/ FeedAnswer \/ NotificationsAnswer
      <4>1. list' = Over([list EXCEPT !.done = TRUE])
        BY <1>3, <2>4, <3>1 DEF HomeAnswer, FeedAnswer, NotificationsAnswer, Extend
      <4>2. /\ Same(list, list') /\ list'.early = list.early /\ list'.wait = Nowhere
            /\ list'.done
        BY <1>1, <4>1 DEF Over, ListFields, Same
      <4>3. list'.wait[1] = "idle"
        BY <4>2 DEF Nowhere
      <4>4. QED
        BY <1>1, <4>2, <4>3, TopKept
    <3>2. CASE FederatedAnswer
      <4> DEFINE rows == IF list.cursor = Start THEN <<>> ELSE list.rows \o <<>>
      <4>0. list.own = 0
        BY <3>2 DEF FederatedAnswer, TopInv, OnPage
      <4>1. list' = Over([list EXCEPT !.rows = rows, !.cursor = Start,
                                      !.done = list.done \/ <<>> = <<>>])
        BY <1>3, <2>4, <3>2 DEF FederatedAnswer, Next_before
      <4>2. list.rows \o <<>> = list.rows
        BY ListIs, ConcatEmptySeq
      <4>3. rows \in {<<>>, list.rows}
        BY <4>2
      <4> HIDE DEF rows
      <4>4. /\ list'.page = list.page /\ list'.own = list.own /\ list'.rows = rows
            /\ list'.cursor = Start /\ list'.wait = Nowhere
        BY <1>1, <4>1 DEF Over, ListFields
      <4>5. list'.wait[1] = "idle" /\ Len(<<>>) = 0
        BY <4>4 DEF Nowhere
      <4>6. Within(list', newest)
        <5>1. \A j \in 1..Len(rows) : rows[j] <= newest
          <6>1. 1..0 = {}
            OBVIOUS
          <6>2. \A j \in 1..Len(list.rows) : list.rows[j] <= newest
            BY DEF TopInv, Within
          <6>3. QED
            BY <4>3, <4>5, <6>1, <6>2
        <5>2. 0 <= newest
          BY <1>1
        <5>3. QED
          BY <4>4, <4>5, <5>1, <5>2 DEF Within, Start
      <4>7. QED
        BY <1>1, <4>0, <4>4, <4>6 DEF TopInv
    <3>3. QED
      BY <3>1, <3>2
  <2>5. CASE s # <<>>
    <3>1. CASE HomeAnswer \/ FeedAnswer \/ NotificationsAnswer
      <4>1. list' = Over([list EXCEPT !.rows = list.rows \o s, !.cursor = Next_before(s)])
        BY <1>3, <2>5, <3>1 DEF HomeAnswer, FeedAnswer, NotificationsAnswer, Extend
      <4> HIDE DEF s
      <4>2. /\ list'.page = list.page /\ list'.own = list.own /\ list'.early = list.early
            /\ list'.rows = list.rows \o s /\ list'.cursor = Next_before(s)
            /\ list'.wait = Nowhere
        BY <1>1, <4>1 DEF Over, ListFields
      <4>3. QED
        BY <1>1, <2>1, <2>3, <2>5, <4>2, LandTop
    <3>2. CASE FederatedAnswer
      <4> DEFINE rows == IF list.cursor = Start THEN s ELSE list.rows \o s
                 n == Len(s)
                 m == Len(list.rows)
      <4>0. list.own = 0
        BY <3>2 DEF FederatedAnswer, TopInv, OnPage
      <4>1. list' = Over([list EXCEPT !.rows = rows, !.cursor = Next_before(s),
                                      !.done = list.done \/ s = <<>>])
        BY <1>3, <3>2 DEF FederatedAnswer
      <4>2. list.wait[1] = "served" /\ n \in Nat \ {0} /\ m \in Nat /\ list.rows \in Seq(Nat)
        BY <2>1, <2>3, <2>5, EmptySeq, ListIs DEF Served
      <4>3. \A k \in 1..n : s[k] <= newest
        BY <4>2 DEF TopInv, Within
      <4>4. \A j \in 1..m : list.rows[j] <= newest
        BY DEF TopInv, Within
      <4> HIDE DEF s, n, m
      <4>5. \A j \in 1..Len(rows) : rows[j] <= newest
        <5>1. CASE rows = s
          BY <4>3, <5>1 DEF n
        <5>2. CASE rows = list.rows \o s
          <6>0. list.rows \in Seq(Nat) /\ s \in Seq(Nat)
            BY <2>3, <4>2
          <6> HIDE DEF rows
          <6>1. /\ Len(rows) = m + n
                /\ \A i \in 1..(m + n) : rows[i] = IF i <= m THEN list.rows[i] ELSE s[i - m]
            BY <5>2, <6>0, ConcatProperties DEF m, n
          <6>2. \A i \in 1..(m + n) : IF i <= m THEN i \in 1..m ELSE i - m \in 1..n
            BY <4>2
          <6>3. QED
            BY <4>3, <4>4, <6>1, <6>2
        <5>3. QED
          BY <5>1, <5>2
      <4> HIDE DEF rows
      <4>6. /\ list'.page = list.page /\ list'.own = list.own /\ list'.rows = rows
            /\ list'.cursor = Next_before(s) /\ list'.wait = Nowhere
        BY <1>1, <4>1 DEF Over, ListFields
      <4>7. list'.wait[1] = "idle" /\ list'.cursor <= newest
        <5>1. n \in 1..n
          BY <4>2
        <5>2. QED
          BY <2>3, <2>5, <4>3, <4>6, <5>1 DEF Nowhere, n
      <4>8. Within(list', newest)
        BY <4>5, <4>6, <4>7 DEF Within
      <4>9. QED
        BY <1>1, <4>0, <4>6, <4>8 DEF TopInv
    <3>3. QED
      BY <3>1, <3>2
  <2>6. QED
    BY <2>4, <2>5
<1>4. QED
  BY <1>2, <1>3

LEMMA ServeTop ==
    ASSUME ListInv, TopInv, ServeRows
    PROVE  TopInv'
<1>1. /\ list.wait[1] = "asked" /\ newest' = newest /\ newest \in Nat
      /\ list = [f \in ListFields |-> list[f]]
  BY ListIs DEF ServeRows
<1>2. ~list.done
  <2>1. list.wait # Nowhere
    BY <1>1 DEF Nowhere
  <2>2. QED
    BY <2>1, ListIs
<1>3. ASSUME NEW wait, list' = [list EXCEPT !.wait = wait]
      PROVE  /\ Same(list, list') /\ list'.early = list.early /\ list'.wait = wait
             /\ list'.done = list.done
  BY <1>1, <1>3 DEF ListFields, Same
<1>4. CASE list' = [list EXCEPT !.wait = Failed]
  <2>1. list'.wait[1] = "failed"
    BY <1>3, <1>4 DEF Failed
  <2>2. QED
    BY <1>1, <1>3, <1>4, <2>1, TopKept
<1>5. ASSUME NEW s, Serves(s)
      PROVE  TopInv'
  <2>1. list' = [list EXCEPT !.wait = Served(s)]
    BY <1>5 DEF Serves
  <2>2. /\ Same(list, list') /\ list'.early = list.early
        /\ list'.wait[1] = "served" /\ list'.wait[2] = s
    BY <1>3, <2>1 DEF Served
  <2>3. list.wait[2] \in Nat /\ list.wait[2] <= newest
        /\ (list.cursor = Start \/ list.wait[2] = list.cursor)
    BY <1>1, AskedIs DEF ListInv, ListSound, TopInv, Within
  <2>4. PICK first \in Nat :
          /\ \A k \in 1..Len(s) : s[k] <= first
          /\ list.wait[2] = Start => first = newest
          /\ list.wait[2] # Start => first < list.wait[2]
    BY <1>1, <1>5, <2>3, ServesRun
  <2>5. Run(s)
    BY <1>1, <1>5, <2>3, ServesRun
  <2>6. \A k \in 1..Len(s) : s[k] \in Nat
    BY <2>5, ElementOfSeq DEF Run
  <2>7. first <= newest
    BY <1>1, <2>3, <2>4
  <2>8. Within(list', newest)
    BY <1>1, <2>2, <2>4, <2>6, <2>7 DEF TopInv, Within, Same
  <2>9. ASSUME NEW i \in 1..list.own, Above(list, list.rows[i])
        PROVE  Above(list', list.rows[i])
    <3>1. list.rows[i] \in Nat /\ list.cursor \in Nat
      BY ListIs
    <3>2. list.cursor # Start /\ list.cursor < list.rows[i]
      BY <1>1, <1>2, <2>9 DEF Above
    <3>3. \A k \in 1..Len(s) : s[k] < list.rows[i]
      BY <2>3, <2>4, <2>6, <3>1, <3>2
    <3>4. QED
      BY <2>2, <2>9, <3>2, <3>3 DEF Above, Same
  <2>10. QED
    BY <1>1, <2>2, <2>8, <2>9 DEF TopInv, Same
<1>6. QED
  BY <1>4, <1>5, ServeRowsIs

LEMMA TopStep ==
    ASSUME ListInv, TopInv, [ListsNext]_listVars
    PROVE  TopInv'
<1>1. CASE UNCHANGED listVars
  BY <1>1, TopKept, ListIs DEF listVars, Same
<1>2. CASE ListsNext
  <2>1. ~VideosLoad /\ ~VideosAnswer
    BY ListIs DEF VideosLoad, VideosAnswer, OnPage
  <2>2. QED
    BY <1>2, <2>1, LoadTop, AsideTop, ReloadTop, PostedTop, AnswerTop, ServeTop DEF ListsNext
<1>3. QED
  BY <1>1, <1>2

LEMMA JoinsSkip ==
    ASSUME NEW high \in Nat, NEW low \in Nat, Joins(list.page, high, low)
    PROVE  high > low /\ \A row \in Nat : high > row /\ row > low => Skipped(row, high)
BY DEF Joins, Skipped, OneTime

LEMMA RunsJoinUp ==
    ASSUME ListInv, TopInv, list.page # "videos"
    PROVE  PagesJoinUp
<1> DEFINE own == list.own
           n == Len(list.rows)
           paged == SubSeq(list.rows, own + 1, n)
<1>1. RunBelow(list.page, own, list.rows) /\ n \in Nat /\ own \in Nat /\ own <= n /\ list.rows \in Seq(Nat)
  BY LenProperties DEF ListInv, ListSound, RowsOK, RunBelow
<1>2. \A i \in (own + 1)..n : list.rows[i] \in Nat
  BY <1>1, ElementOfSeq
<1> HIDE DEF own, n
<1>3. /\ paged \in Seq(Nat) /\ Len(paged) = n - own
      /\ \A i \in 1..(n - own) : paged[i] = list.rows[own + i]
  <2> DEFINE m == own + 1
  <2>1. m \in Int /\ n \in Int /\ \A i \in m..n : list.rows[i] \in Nat
    BY <1>1, <1>2
  <2> HIDE DEF m
  <2>2. /\ SubSeq(list.rows, m, n) \in Seq(Nat)
        /\ Len(SubSeq(list.rows, m, n)) = IF m <= n THEN n - m + 1 ELSE 0
        /\ \A i \in 1..(n - m + 1) : SubSeq(list.rows, m, n)[i] = list.rows[m + i - 1]
    BY <2>1, SubSeqProperties
  <2>3. paged = SubSeq(list.rows, m, n) /\ n - m + 1 = n - own
    BY <1>1 DEF m
  <2>4. \A i \in 1..(n - own) : m + i - 1 = own + i
    BY <1>1 DEF m
  <2>5. (IF m <= n THEN n - m + 1 ELSE 0) = n - own
    BY <1>1 DEF m
  <2>6. QED
    BY <2>2, <2>3, <2>4, <2>5
<1> HIDE DEF paged
<1>4. ASSUME NEW i \in 1..(Len(paged) - 1)
      PROVE  /\ paged[i] > paged[i + 1]
             /\ \A row \in 1..newest : paged[i] > row /\ row > paged[i + 1] => Skipped(row, paged[i])
  <2>1. /\ own + i \in (own + 1)..(n - 1) /\ own + (i + 1) = (own + i) + 1
        /\ i \in 1..(n - own) /\ i + 1 \in 1..(n - own)
    BY <1>1, <1>3
  <2>2. Joins(list.page, list.rows[own + i], list.rows[(own + i) + 1])
    BY <1>1, <2>1 DEF RunBelow, n
  <2>3. Joins(list.page, paged[i], paged[i + 1])
    BY <1>3, <2>1, <2>2
  <2>4. paged[i] \in Nat /\ paged[i + 1] \in Nat
    BY <1>3, <2>1, ElementOfSeq
  <2>5. QED
    BY <2>3, <2>4, JoinsSkip
<1>5. ASSUME list.done, paged # <<>>, list.page # "federated"
      PROVE  \A row \in 1..(paged[Len(paged)] - 1) : Skipped(row, paged[Len(paged)])
  <2>1. Len(paged) \in Nat \ {0}
    BY <1>3, <1>5, EmptySeq
  <2>2. n # own /\ n - own \in 1..(n - own) /\ own + (n - own) = n
    BY <1>1, <1>3, <2>1
  <2>3. paged[Len(paged)] = list.rows[n]
    BY <1>3, <2>2
  <2>4. Joins(list.page, paged[Len(paged)], 0)
    BY <1>5, <2>2, <2>3 DEF ListInv, ListSound, DoneOK, NoPage, own, n
  <2>5. paged[Len(paged)] \in Nat
    BY <1>3, <2>1, ElementOfSeq
  <2>6. QED
    BY <2>4, <2>5, JoinsSkip
<1>6. ASSUME NEW i \in 1..own, NEW j \in 1..Len(paged)
      PROVE  list.rows[i] > paged[j] \/ list.rows[i] \in list.early
  <2>1. paged[j] = list.rows[own + j] /\ own + j \in (own + 1)..n
    BY <1>1, <1>3
  <2>2. list.rows[i] \in Nat /\ paged[j] \in Nat
    <3>1. i \in 1..n /\ own + j \in 1..n
      BY <1>1, <2>1
    <3>2. QED
      BY <1>1, <2>1, <3>1, ElementOfSeq DEF n
  <2>3. list.rows[i] \in list.early \/ list.rows[own + j] < list.rows[i]
    BY <2>1 DEF TopInv, Above, own, n
  <2>4. QED
    BY <2>1, <2>2, <2>3
<1>7. paged = PagedRows
  BY DEF paged, PagedRows, own, n
<1>8. QED
  BY <1>4, <1>5, <1>6, <1>7 DEF PagesJoinUp, own

-----------------------------------------------------------------------------
(* The videos: rows without a clip are left out, the cursor is the page's.     *)

(* A run is counted down from its first row. *)
LEMMA RunValues ==
    ASSUME NEW s, Run(s), s # <<>>
    PROVE  /\ Len(s) \in Nat \ {0} /\ s[1] \in Nat
           /\ \A i \in 1..Len(s) : s[i] = s[1] - i + 1
<1> DEFINE N == Len(s) - 1
           T == {i \in 0..N : s[i + 1] = s[1] - i}
<1>1. Len(s) \in Nat \ {0} /\ N \in Nat /\ 1 \in 1..Len(s) /\ s \in Seq(Nat)
  BY EmptySeq DEF Run
<1>2. \A i \in 1..Len(s) : s[i] \in Nat
  BY <1>1, ElementOfSeq
<1>3. 0 \in T
  BY <1>1, <1>2
<1>4. ASSUME NEW i \in 0..(N - 1), i \in T
      PROVE  i + 1 \in T
  <2>1. i + 1 \in 1..(Len(s) - 1) /\ i + 1 \in 0..N /\ i \in Nat
        /\ (i + 1) + 1 \in 1..Len(s) /\ i + 1 \in 1..Len(s)
    BY <1>1
  <2>2. s[i + 1] = s[(i + 1) + 1] + 1
    BY <2>1 DEF Run
  <2>3. s[i + 1] = s[1] - i
    BY <1>4
  <2>4. s[(i + 1) + 1] = s[1] - (i + 1)
    BY <1>1, <1>2, <2>1, <2>2, <2>3
  <2>5. QED
    BY <2>1, <2>4
<1> HIDE DEF T
<1>5. 0..N \subseteq T
  BY <1>1, <1>3, <1>4, Induction
<1>6. ASSUME NEW i \in 1..Len(s)
      PROVE  s[i] = s[1] - i + 1
  <2>1. i - 1 \in 0..N /\ (i - 1) + 1 = i
    BY <1>1
  <2>2. s[(i - 1) + 1] = s[1] - (i - 1)
    BY <1>5, <2>1 DEF T
  <2>3. QED
    BY <1>1, <1>2, <2>1, <2>2
<1>7. QED
  BY <1>1, <1>2, <1>6

LEMMA RunDescends ==
    ASSUME NEW s, Run(s), s # <<>>
    PROVE  /\ Descending(s) /\ s[Len(s)] \in Nat /\ s[Len(s)] >= 1
           /\ \A i \in 1..Len(s) : s[i] \in Nat /\ s[Len(s)] <= s[i] /\ s[i] <= s[1]
           /\ \A row \in Nat : s[Len(s)] <= row /\ row <= s[1] => Among(s, Len(s), row)
<1>1. /\ Len(s) \in Nat \ {0} /\ s[1] \in Nat
      /\ \A i \in 1..Len(s) : s[i] = s[1] - i + 1
  BY RunValues
<1>2. \A i \in 1..Len(s) : s[i] \in Nat /\ s[i] >= 1
  BY ElementOfSeq DEF Run
<1>3. Descending(s)
  BY <1>1 DEF Descending
<1>4. Len(s) \in 1..Len(s) /\ s[Len(s)] = s[1] - Len(s) + 1
  BY <1>1
<1>5. ASSUME NEW row \in Nat, s[Len(s)] <= row, row <= s[1]
      PROVE  Among(s, Len(s), row)
  <2>1. s[1] - row + 1 \in 1..Len(s) /\ s[1] - (s[1] - row + 1) + 1 = row
    BY <1>1, <1>4, <1>5
  <2>2. s[s[1] - row + 1] = row
    BY <1>1, <2>1
  <2>3. QED
    BY <2>1, <2>2 DEF Among
<1>6. QED
  BY <1>1, <1>2, <1>3, <1>4, <1>5

(* The videos on screen go down to the cursor, and no clip from the first to there is missing. *)
ClipsBelow(rows, cursor) ==
    /\ rows \in Seq(Nat) /\ Descending(rows) /\ cursor \in Nat
    /\ \A i \in 1..Len(rows) : cursor # Start /\ cursor <= rows[i]
    /\ \A row \in RowClips \cap Nat :
          rows # <<>> /\ cursor <= row /\ row <= rows[1] => Among(rows, Len(rows), row)

After(cursor, s) == cursor # Start => IF s = <<>> THEN cursor = 1 ELSE s[1] = cursor - 1

VideosWait(l) ==
    \/ l.wait = Nowhere \/ l.wait = Failed \/ l.wait = Asked(l.cursor)
    \/ l.wait = Served(l.wait[2]) /\ Run(l.wait[2]) /\ After(l.cursor, l.wait[2])

VideosSound(l) ==
    /\ l = [f \in ListFields |-> l[f]] /\ l.page = "videos" /\ l.own = 0
    /\ ClipsBelow(l.rows, l.cursor) /\ VideosWait(l)

VideosInv == newest \in Nat /\ VideosSound(list)

LEMMA ConcatDescends ==
    ASSUME NEW r \in Seq(Nat), NEW q \in Seq(Nat), Descending(r), Descending(q),
           \A i \in 1..Len(r), j \in 1..Len(q) : r[i] > q[j]
    PROVE  LET c == r \o q IN
           /\ c \in Seq(Nat) /\ Descending(c)
           /\ \A x : Among(c, Len(c), x) <=> Among(r, Len(r), x) \/ Among(q, Len(q), x)
           /\ c # <<>> => c[1] = IF r # <<>> THEN r[1] ELSE q[1]
<1> DEFINE c == r \o q
           m == Len(r)
           n == Len(q)
<1>1. m \in Nat /\ n \in Nat /\ c \in Seq(Nat) /\ Len(c) = m + n
      /\ \A i \in 1..(m + n) : c[i] = IF i <= m THEN r[i] ELSE q[i - m]
  BY LenProperties, ConcatProperties
<1>2. /\ r # <<>> => m > 0
      /\ r = <<>> => m = 0
      /\ c # <<>> => m + n > 0
  BY <1>1, EmptySeq
<1>3. \A i \in 1..m : c[i] = r[i]
  BY <1>1
<1>4. \A i \in (m + 1)..(m + n) : c[i] = q[i - m] /\ i - m \in 1..n
  BY <1>1
<1>5. Descending(c)
  <2> SUFFICES ASSUME NEW i \in 1..Len(c), NEW j \in 1..Len(c), i < j
               PROVE  c[i] > c[j]
    BY DEF Descending
  <2>1. CASE j <= m
    <3>1. i \in 1..m /\ j \in 1..m
      BY <1>1, <2>1
    <3>2. QED
      BY <1>3, <3>1 DEF Descending
  <2>2. CASE i <= m /\ j > m
    <3>1. i \in 1..m /\ j \in (m + 1)..(m + n)
      BY <1>1, <2>2
    <3>2. QED
      BY <1>3, <1>4, <3>1
  <2>3. CASE i > m
    <3>1. i \in (m + 1)..(m + n) /\ j \in (m + 1)..(m + n) /\ i - m < j - m
      BY <1>1, <2>3
    <3>2. QED
      BY <1>4, <3>1 DEF Descending
  <2>4. QED
    BY <1>1, <2>1, <2>2, <2>3
<1>6. ASSUME NEW x
      PROVE  Among(c, Len(c), x) <=> Among(r, Len(r), x) \/ Among(q, Len(q), x)
  <2>1. Among(c, Len(c), x) => Among(r, Len(r), x) \/ Among(q, Len(q), x)
    <3> SUFFICES ASSUME NEW i \in 1..Len(c), c[i] = x
                 PROVE  Among(r, Len(r), x) \/ Among(q, Len(q), x)
      BY DEF Among
    <3>1. i \in 1..m \/ i \in (m + 1)..(m + n)
      BY <1>1
    <3>2. QED
      BY <1>3, <1>4, <3>1 DEF Among
  <2>2. Among(r, Len(r), x) => Among(c, Len(c), x)
    <3> SUFFICES ASSUME NEW i \in 1..m, r[i] = x
                 PROVE  Among(c, Len(c), x)
      BY DEF Among
    <3>1. i \in 1..Len(c)
      BY <1>1
    <3>2. QED
      BY <1>3, <3>1 DEF Among
  <2>3. Among(q, Len(q), x) => Among(c, Len(c), x)
    <3> SUFFICES ASSUME NEW i \in 1..n, q[i] = x
                 PROVE  Among(c, Len(c), x)
      BY DEF Among
    <3>1. i + m \in 1..Len(c) /\ i + m \in (m + 1)..(m + n) /\ (i + m) - m = i
      BY <1>1
    <3>2. c[i + m] = x
      BY <1>4, <3>1
    <3>3. QED
      BY <3>1, <3>2 DEF Among
  <2>4. QED
    BY <2>1, <2>2, <2>3
<1>7. ASSUME c # <<>>
      PROVE  c[1] = IF r # <<>> THEN r[1] ELSE q[1]
  <2>1. 1 \in 1..(m + n)
    BY <1>1, <1>2, <1>7
  <2>2. QED
    BY <1>1, <1>2, <2>1
<1> HIDE DEF c
<1>8. QED
  BY <1>1, <1>5, <1>6, <1>7 DEF c

LEMMA ClipsLand ==
    ASSUME NEW rows, NEW cursor, ClipsBelow(rows, cursor),
           NEW s, Run(s), s # <<>>, After(cursor, s)
    PROVE  ClipsBelow(rows \o Filter(s, RowClips), s[Len(s)])
<1> DEFINE q == Filter(s, RowClips)
           low == s[Len(s)]
           c == rows \o q
<1>0. s \in Seq(Nat) /\ rows \in Seq(Nat) /\ cursor \in Nat
  BY DEF Run, ClipsBelow
<1>1. /\ Descending(s) /\ low \in Nat /\ low >= 1
      /\ \A i \in 1..Len(s) : s[i] \in Nat /\ low <= s[i] /\ s[i] <= s[1]
      /\ \A row \in Nat : low <= row /\ row <= s[1] => Among(s, Len(s), row)
  BY RunDescends
<1>2. /\ q \in Seq(Nat)
      /\ \A x : Among(q, Len(q), x) <=> x \in RowClips /\ Among(s, Len(s), x)
  BY <1>0, FilterKeeps
<1>3. Descending(q)
  BY <1>0, <1>1, FilterDescends
<1> HIDE DEF q, low
<1>4. \A j \in 1..Len(q) : q[j] \in Nat /\ low <= q[j] /\ q[j] <= s[1]
  <2> SUFFICES ASSUME NEW j \in 1..Len(q)
               PROVE  q[j] \in Nat /\ low <= q[j] /\ q[j] <= s[1]
    OBVIOUS
  <2>1. Among(q, Len(q), q[j])
    BY DEF Among
  <2>2. PICK i \in 1..Len(s) : s[i] = q[j]
    BY <1>2, <2>1 DEF Among
  <2>3. QED
    BY <1>1, <2>2
<1>5. \A i \in 1..Len(rows) :
         rows[i] \in Nat /\ cursor <= rows[i] /\ s[1] < rows[i] /\ low <= rows[i]
  <2> SUFFICES ASSUME NEW i \in 1..Len(rows)
               PROVE  rows[i] \in Nat /\ cursor <= rows[i] /\ s[1] < rows[i] /\ low <= rows[i]
    OBVIOUS
  <2>1. rows[i] \in Nat /\ cursor # Start /\ cursor <= rows[i]
    BY <1>0, ElementOfSeq DEF ClipsBelow
  <2>2. s[1] = cursor - 1
    BY <2>1 DEF After
  <2>3. 1 \in 1..Len(s)
    BY <1>0, EmptySeq
  <2>4. low <= s[1] /\ s[1] \in Nat
    BY <1>1, <2>3
  <2>5. QED
    BY <1>0, <1>1, <2>1, <2>2, <2>4
<1>6. 1 \in 1..Len(s) /\ s[1] \in Nat
  BY <1>0, <1>1, EmptySeq
<1>7. \A i \in 1..Len(rows), j \in 1..Len(q) : rows[i] > q[j]
  BY <1>4, <1>5, <1>6
<1>8. /\ c \in Seq(Nat) /\ Descending(c)
      /\ \A x : Among(c, Len(c), x) <=> Among(rows, Len(rows), x) \/ Among(q, Len(q), x)
      /\ c # <<>> => c[1] = IF rows # <<>> THEN rows[1] ELSE q[1]
  BY <1>0, <1>2, <1>3, <1>7, ConcatDescends DEF ClipsBelow
<1> HIDE DEF c
<1>9. ASSUME NEW i \in 1..Len(c)
      PROVE  low # Start /\ low <= c[i]
  <2>1. Among(c, Len(c), c[i])
    BY DEF Among
  <2>2. Among(rows, Len(rows), c[i]) \/ Among(q, Len(q), c[i])
    BY <1>8, <2>1
  <2>3. QED
    BY <1>1, <1>4, <1>5, <2>2 DEF Among, Start
<1>10. ASSUME NEW row \in RowClips \cap Nat, c # <<>>, low <= row, row <= c[1]
       PROVE  Among(c, Len(c), row)
  <2>1. CASE row <= s[1]
    <3>1. Among(s, Len(s), row)
      BY <1>1, <1>10, <2>1
    <3>2. QED
      BY <1>2, <1>8, <3>1
  <2>2. CASE row > s[1]
    <3>1. rows # <<>>
      <4> SUFFICES ASSUME rows = <<>> PROVE FALSE
        OBVIOUS
      <4>1. q # <<>>
        BY <1>0, <1>2, <1>10, ConcatEmptySeq DEF c
      <4>2. 1 \in 1..Len(q)
        BY <1>2, <4>1, EmptySeq
      <4>3. c[1] = q[1] /\ q[1] <= s[1] /\ q[1] \in Nat
        BY <1>4, <1>8, <1>10, <4>2
      <4>4. QED
        BY <1>6, <1>10, <2>2, <4>3
    <3>2. c[1] = rows[1] /\ 1 \in 1..Len(rows)
      BY <1>0, <1>8, <1>10, <3>1, EmptySeq
    <3>3. s[1] = cursor - 1
      BY <3>2 DEF ClipsBelow, After
    <3>4. cursor <= row
      BY <1>0, <1>6, <2>2, <3>3
    <3>5. Among(rows, Len(rows), row)
      BY <1>10, <3>1, <3>2, <3>4 DEF ClipsBelow
    <3>6. QED
      BY <1>8, <3>5
  <2>3. QED
    BY <1>6, <2>1, <2>2
<1>11. ClipsBelow(c, low)
  BY <1>1, <1>8, <1>9, <1>10 DEF ClipsBelow
<1>12. QED
  BY <1>11 DEF c, q, low

LEMMA VideosStep ==
    ASSUME VideosInv, [ListsNext]_listVars
    PROVE  VideosInv'
<1>1. VideosSound(list) /\ newest \in Nat /\ list.page = "videos"
  BY DEF VideosInv, VideosSound
<1>2. CASE UNCHANGED listVars
  BY <1>2 DEF listVars, VideosInv
<1>3. CASE VideosLoad
  <2> DEFINE m == list'
  <2>1. /\ m = [f \in ListFields |-> m[f]] /\ Same(list, m) /\ newest' = newest
        /\ m.wait = list.wait \/ m.wait = Asked(list.cursor)
    BY <1>1, <1>3 DEF VideosLoad, LoadMore, Asking, VideosSound, ListFields, Same
  <2>2. VideosWait(m)
    BY <1>1, <2>1 DEF VideosWait, VideosSound, Same
  <2>3. VideosSound(m)
    BY <1>1, <2>1, <2>2 DEF VideosSound, Same
  <2>4. QED
    BY <1>1, <2>1, <2>3 DEF VideosInv
<1>4. CASE VideosAnswer /\ list.wait = Failed
  <2> DEFINE m == Over([list EXCEPT !.done = TRUE])
  <2>1. m = [f \in ListFields |-> m[f]] /\ Same(list, m) /\ m.wait = Nowhere
    BY <1>1 DEF Over, VideosSound, ListFields, Same
  <2>2. VideosSound(m)
    BY <1>1, <2>1 DEF VideosSound, Same, VideosWait
  <2>3. QED
    BY <1>1, <1>4, <2>2 DEF VideosAnswer, VideosInv
<1>5. CASE VideosAnswer /\ list.wait # Failed
  <2> DEFINE s == list.wait[2]
             q == Filter(s, RowClips)
             m == Over([list EXCEPT !.rows = list.rows \o q,
                                    !.cursor = IF s = <<>> THEN list.cursor ELSE Next_before(s),
                                    !.done = list.done \/ s = <<>>])
  <2>1. list' = m /\ newest' = newest
    BY <1>5 DEF VideosAnswer
  <2>2. Run(s) /\ After(list.cursor, s)
    <3>1. list.wait[1] \in {"served", "failed"}
      BY <1>5 DEF VideosAnswer
    <3>2. list.wait # Nowhere /\ list.wait # Asked(list.cursor)
      BY <3>1 DEF Nowhere, Asked
    <3>3. QED
      BY <1>1, <1>5, <3>2 DEF VideosSound, VideosWait
  <2>3. /\ m = [f \in ListFields |-> m[f]] /\ m.page = list.page /\ m.own = list.own
        /\ m.rows = list.rows \o q /\ m.wait = Nowhere
        /\ m.cursor = IF s = <<>> THEN list.cursor ELSE Next_before(s)
    BY <1>1 DEF Over, VideosSound, ListFields
  <2>4. ClipsBelow(m.rows, m.cursor)
    <3>1. CASE s = <<>>
      <4>1. q \in Seq(Nat) /\ Len(q) = 0
        <5>1. s \in Seq(Nat) /\ q \in Seq(Nat)
              /\ \A x : Among(q, Len(q), x) <=> x \in RowClips /\ Among(s, Len(s), x)
          BY <2>2, FilterKeeps DEF Run
        <5>2. Len(s) = 0
          BY <3>1, EmptySeq
        <5>3. Len(q) \in Nat
          BY <5>1, LenProperties
        <5>4. \A x : ~Among(s, Len(s), x)
          BY <5>2 DEF Among
        <5>5. ~Among(q, Len(q), q[1])
          BY <5>1, <5>4
        <5>6. Len(q) # 0 => 1 \in 1..Len(q)
          BY <5>3
        <5>7. QED
          BY <5>1, <5>5, <5>6 DEF Among
      <4>2. q = <<>>
        BY <4>1, EmptySeq
      <4>3. list.rows \o <<>> = list.rows
        BY <1>1, ConcatEmptySeq DEF VideosSound, ClipsBelow
      <4>4. m.rows = list.rows /\ m.cursor = list.cursor
        BY <2>3, <3>1, <4>2, <4>3
      <4>5. QED
        BY <1>1, <4>4 DEF VideosSound
    <3>2. CASE s # <<>>
      <4>1. ClipsBelow(list.rows \o q, s[Len(s)])
        BY <1>1, <2>2, <3>2, ClipsLand DEF VideosSound
      <4>2. m.cursor = s[Len(s)]
        BY <2>3, <3>2 DEF Next_before
      <4>3. QED
        BY <2>3, <4>1, <4>2
    <3>3. QED
      BY <3>1, <3>2
  <2> HIDE DEF m, q, s
  <2>5. VideosSound(m)
    BY <1>1, <2>3, <2>4 DEF VideosSound, VideosWait
  <2>6. QED
    BY <1>1, <2>1, <2>5 DEF VideosInv
<1>6. CASE ServeRows
  <2> DEFINE m == list'
  <2>1. list.wait[1] = "asked" /\ newest' = newest
    BY <1>6 DEF ServeRows
  <2>2. list.wait = Asked(list.cursor) /\ list.wait[2] = list.cursor /\ list.cursor \in Nat
    <3>1. /\ Nowhere[1] = "idle" /\ Failed[1] = "failed" /\ Asked(list.cursor)[2] = list.cursor
          /\ Served(list.wait[2])[1] = "served"
      BY DEF Nowhere, Failed, Asked, Served
    <3>2. list.wait # Nowhere /\ list.wait # Failed /\ list.wait # Served(list.wait[2])
      BY <2>1, <3>1
    <3>3. list.wait = Asked(list.cursor)
      BY <1>1, <3>2 DEF VideosSound, VideosWait
    <3>4. QED
      BY <1>1, <3>1, <3>3 DEF VideosSound, ClipsBelow
  <2>3. ASSUME NEW wait, list' = [list EXCEPT !.wait = wait]
        PROVE  m = [f \in ListFields |-> m[f]] /\ Same(list, m) /\ m.wait = wait
    BY <1>1, <2>3 DEF VideosSound, ListFields, Same
  <2> HIDE DEF m
  <2>4. VideosWait(m)
    <3>1. CASE list' = [list EXCEPT !.wait = Failed]
      BY <2>3, <3>1 DEF VideosWait
    <3>2. ASSUME NEW s, Serves(s)
          PROVE  VideosWait(m)
      <4>1. Run(s) /\ (list.cursor # Start => Joins("videos", list.cursor, TopOf(s)))
        BY <1>1, <2>1, <2>2, <3>2, ServesRun DEF VideosSound, VideosInv
      <4>2. After(list.cursor, s)
        <5>1. "videos" \notin ByTime
          BY DEF ByTime
        <5>2. list.cursor # Start => list.cursor = TopOf(s) + 1
          BY <4>1, <5>1 DEF Joins
        <5>3. s # <<>> => s[1] \in Nat
          BY <4>1, EmptySeq, ElementOfSeq DEF Run
        <5>4. QED
          BY <2>2, <5>2, <5>3 DEF After, TopOf
      <4>3. list' = [list EXCEPT !.wait = Served(s)] /\ Served(s)[2] = s
        BY <3>2 DEF Serves, Served
      <4>4. Same(list, m) /\ m.wait = Served(s)
        BY <2>3, <4>3
      <4>5. QED
        BY <4>1, <4>2, <4>3, <4>4 DEF VideosWait, Same
    <3>3. QED
      BY <1>6, <3>1, <3>2, ServeRowsIs
  <2>5. m = [f \in ListFields |-> m[f]] /\ Same(list, m)
    <3>1. \E wait : list' = [list EXCEPT !.wait = wait]
      BY <1>6, ServeRowsIs DEF Serves
    <3>2. QED
      BY <2>3, <3>1
  <2>6. VideosSound(m)
    BY <1>1, <2>4, <2>5 DEF VideosSound, Same
  <2>7. QED
    BY <1>1, <2>1, <2>6 DEF VideosInv, m
<1>7. QED
  <2>1. \A page \in {"home", "feed", "federated", "notifications"} : ~OnPage(page)
    BY <1>1 DEF OnPage
  <2>2. CASE ListsNext
    BY <1>3, <1>4, <1>5, <1>6, <2>1, <2>2
    DEF ListsNext, HomeLoad, HomeAnswer, HomeReload, ShowNew, OnNewPost, HomePosted, FeedLoad,
        FeedAnswer, FeedReload, FeedPosted, FederatedLoad, FederatedAnswer, NotificationsLoad,
        NotificationsAnswer, OnNotification, MarkRead, MarkAll, ToggleTab
  <2>3. QED
    BY <1>2, <2>2

LEMMA ClipsJoinUp ==
    ASSUME VideosInv
    PROVE  PagesJoinUp
<1> DEFINE n == Len(list.rows)
<1>1. /\ list.rows \in Seq(Nat) /\ list.own = 0 /\ list.page = "videos"
      /\ ClipsBelow(list.rows, list.cursor)
  BY DEF VideosInv, VideosSound, ClipsBelow
<1>2. n \in Nat /\ \A i \in 1..n : list.rows[i] \in Nat
  BY <1>1, LenProperties, ElementOfSeq
<1>3. PagedRows = list.rows
  BY <1>1, SubSeqFull DEF PagedRows
<1>4. ASSUME NEW i \in 1..(n - 1)
      PROVE  /\ list.rows[i] > list.rows[i + 1]
             /\ \A row \in 1..newest :
                   list.rows[i] > row /\ row > list.rows[i + 1] => row \notin RowClips
  <2>1. i \in 1..n /\ i + 1 \in 1..n /\ 1 \in 1..n /\ i < i + 1
    BY <1>2
  <2>2. list.rows[i] > list.rows[i + 1]
    BY <1>1, <2>1 DEF ClipsBelow, Descending
  <2>3. ASSUME NEW row \in 1..newest, list.rows[i] > row, row > list.rows[i + 1], row \in RowClips
        PROVE  FALSE
    <3>1. row \in RowClips \cap Nat
      BY <2>3 DEF VideosInv
    <3>2. list.rows # <<>>
      BY <1>2, <2>1, EmptySeq
    <3>3. list.cursor <= list.rows[i + 1] /\ list.cursor \in Nat
      BY <1>1, <2>1 DEF ClipsBelow
    <3>4. list.rows[i] <= list.rows[1]
      <4>1. CASE i = 1
        BY <1>2, <2>1, <4>1
      <4>2. CASE i # 1
        <5>1. 1 < i
          BY <4>2
        <5>2. list.rows[1] > list.rows[i]
          BY <1>1, <2>1, <5>1 DEF ClipsBelow, Descending
        <5>3. QED
          BY <1>2, <2>1, <5>2
      <4>3. QED
        BY <4>1, <4>2
    <3>5. list.cursor <= row /\ row <= list.rows[1]
      BY <1>2, <2>1, <2>3, <3>1, <3>3, <3>4
    <3>6. PICK k \in 1..n : list.rows[k] = row
      BY <1>1, <3>1, <3>2, <3>5 DEF ClipsBelow, Among
    <3>7. ~(k < i) /\ ~(k = i) /\ ~(k = i + 1) /\ ~(i + 1 < k)
      <4>1. k < i => list.rows[k] > list.rows[i]
        BY <1>1, <2>1, <3>6 DEF ClipsBelow, Descending
      <4>2. i + 1 < k => list.rows[i + 1] > list.rows[k]
        BY <1>1, <2>1, <3>6 DEF ClipsBelow, Descending
      <4>3. QED
        BY <1>2, <2>1, <2>3, <3>6, <4>1, <4>2
    <3>8. QED
      BY <1>2, <3>7
  <2>4. QED
    BY <2>2, <2>3
<1>5. QED
  BY <1>1, <1>3, <1>4 DEF PagesJoinUp, Shows

\* Rows go down, none comes twice, and none between two of them is missing but those of the
\* upper one's time where the cursor is a time; one's own posts stay above the pages, but those
\* written before the first page was read; and the end that is announced is the server's: for
\* pages of any size, any rows of one time and any order of reloads, live posts, answers and
\* failures.  Of the videos none between two on screen is missing.
\* [InfiniteList, Home, Feed, Notifications, Federated, Videos: loadMore, load, reload;
\* feed.rs 175-192, notifications.rs 191-209]
THEOREM PagesAlwaysJoinUp == ListsSpec => []PagesJoinUp
<1>1. ListsInit => (ListInv /\ TopInv) \/ VideosInv
  <2>1. ASSUME NEW page \in Lists, NEW rows \in 0..(MaxRows - 1), ListOpened(page, rows)
        PROVE  (ListInv /\ TopInv) \/ VideosInv
    <3>1. /\ list = [f \in ListFields |-> list[f]] /\ list.page = page /\ list.wait = Nowhere
          /\ list.rows = <<>> /\ list.own = 0 /\ list.cursor = Start /\ list.done = FALSE
      BY <2>1 DEF ListOpened, Fresh, ListFields
    <3>2. list.rows \in Seq(Nat) /\ Len(list.rows) = 0 /\ newest \in Nat
      <4>1. newest = rows /\ rows \in Nat
        BY <2>1, ListsAssumption DEF ListOpened
      <4>2. QED
        BY <3>1, <4>1, EmptySeq
    <3>3. RowsOK(list) /\ NoPage(list)
      BY <3>1, <3>2 DEF RowsOK, RunBelow, NoPage, Start
    <3>4. page # "videos" => ListSound(list)
      BY <3>1, <3>3 DEF ListSound, CursorOK, WaitOK, DoneOK
    <3>5. ClipsBelow(list.rows, list.cursor)
      BY <3>1, <3>2 DEF ClipsBelow, Descending, Start
    <3>6. page = "videos" => VideosSound(list)
      BY <3>1, <3>5 DEF VideosSound, VideosWait
    <3>7. TopInv
      <4>1. list.wait[1] = "idle"
        BY <3>1 DEF Nowhere
      <4>2. QED
        BY <3>1, <3>2, <4>1 DEF TopInv, Within, Start
    <3>8. QED
      BY <3>2, <3>4, <3>6, <3>7 DEF ListInv, VideosInv
  <2>2. QED
    BY <2>1 DEF ListsInit
<1>2. ListInv /\ TopInv /\ [ListsNext]_listVars => (ListInv /\ TopInv)'
  BY ListStep, TopStep
<1>3. VideosInv /\ [ListsNext]_listVars => VideosInv'
  BY VideosStep
<1>4. (ListInv /\ TopInv) \/ VideosInv => PagesJoinUp
  <2>1. ListInv => list.page # "videos"
    BY DEF ListInv, ListSound
  <2>2. QED
    BY <2>1, RunsJoinUp, ClipsJoinUp
<1>5. QED
  BY <1>1, <1>2, <1>3, <1>4, PTL DEF ListsSpec

-----------------------------------------------------------------------------
(* Pages of one address: what a resource holds, or is about to, is of the    *)
(* name in the address.                                                     *)

ViewFields == {"page", "name", "main", "side", "pinned", "pin", "override", "busy", "carried",
               "astray", "debounce", "replyingTo"}

EntryOK(e) == e = [of |-> e.of, data |-> e.data]

(* What is loaded or on its way is of the name n. *)
Follows(r, n) ==
    \/ r.request[1] = "asked" /\ r.request[2] = n
    \/ r.request[1] = "refused"
    \/ r.request[1] = "served" /\ r.request[2].of = n
    \/ r.request = Quiet /\ (r.failed \/ (r.value # <<>> /\ Value(r).of = n))

(* Values and answers say whose they are. *)
Entries(r) ==
    /\ ResourceOK(r)
    /\ r.value # <<>> => EntryOK(Value(r))
    /\ r.request[1] = "served" => EntryOK(r.request[2])

TwoLists == {"hashtag", "trending", "profile"}

ViewSound(v) ==
    /\ v = [f \in ViewFields |-> v[f]] /\ v.page \in PageKinds
    /\ v.name = Nothing => v.page = "search"
    /\ Entries(v.main) /\ Entries(v.side)
    /\ v.name # Nothing => Follows(v.main, v.name)
    /\ IF v.page \in TwoLists THEN Follows(v.side, v.name) ELSE v.side = Unresolved

LEMMA AskedHolds ==
    ASSUME NEW r, Entries(r), NEW n
    PROVE  Entries(Fetch(r, n)) /\ Follows(Fetch(r, n), n)
<1>1. /\ ResourceOK(Fetch(r, n)) /\ Fetch(r, n).value = r.value
      /\ Fetch(r, n).request[1] = "asked" /\ Fetch(r, n).request[2] = n
  BY Fetched DEF Entries
<1>2. QED
  BY <1>1 DEF Entries, Follows, Value

LEMMA AnswerHolds ==
    ASSUME NEW r, Entries(r), Pending(r), NEW d
    PROVE  LET a == Answer(r, Of(KeyOf(r), d)) IN
           /\ Entries(a) /\ \A n : Follows(r, n) => Follows(a, n)
           /\ a.request[1] = "served" /\ a.request[2] = Of(KeyOf(r), d) /\ a.value = r.value
<1> DEFINE e == Of(KeyOf(r), d)
           a == Answer(r, e)
<1>1. /\ ResourceOK(a) /\ a.value = r.value /\ a.request[1] = "served" /\ a.request[2] = e
  BY Responded DEF Entries
<1>2. EntryOK(e) /\ e.of = KeyOf(r)
  BY DEF EntryOK, Of
<1> HIDE DEF a, e
<1>3. Entries(a)
  BY <1>1, <1>2 DEF Entries, Value
<1>4. ASSUME NEW n, Follows(r, n)
      PROVE  Follows(a, n)
  <2>1. r.request[1] = "asked" /\ r.request[2] = n
    BY <1>4 DEF Follows, Pending, Quiet
  <2>2. QED
    BY <1>1, <1>2, <2>1 DEF Follows, KeyOf
<1>5. QED
  BY <1>1, <1>3, <1>4 DEF a, e

LEMMA RefuseHolds ==
    ASSUME NEW r, Entries(r)
    PROVE  /\ Entries(Refuse(r)) /\ \A n : Follows(Refuse(r), n)
           /\ Refuse(r).request[1] = "refused" /\ Refuse(r).value = r.value
<1>1. ResourceOK(Refuse(r)) /\ Refuse(r).value = r.value /\ Refuse(r).request[1] = "refused"
  BY Responded DEF Entries
<1>2. QED
  BY <1>1 DEF Entries, Follows, Value

LEMMA LandHolds ==
    ASSUME NEW r, Entries(r), Answered(r)
    PROVE  Entries(Land(r)) /\ \A n : Follows(r, n) => Follows(Land(r), n)
<1> DEFINE l == Land(r)
<1>1. ResourceOK(l) /\ l.request = Quiet /\ l.request[1] # "served"
  <2>1. ResourceOK(l) /\ l.request = Quiet
    BY Landed DEF Entries
  <2> HIDE DEF l
  <2>2. QED
    BY <2>1 DEF Quiet
<1>2. CASE r.request[1] = "served"
  <2>1. l.value # <<>> /\ Value(l) = r.request[2] /\ EntryOK(r.request[2])
    <3>1. l.value = <<r.request[2]>> /\ EntryOK(r.request[2])
      BY <1>2, Landed DEF Entries
    <3> HIDE DEF l
    <3>2. QED
      BY <3>1 DEF Value
  <2>2. QED
    BY <1>1, <1>2, <2>1 DEF Entries, Follows, Quiet
<1>3. CASE r.request[1] # "served"
  <2>1. l.value = r.value /\ l.failed = TRUE /\ Value(l) = Value(r)
    BY <1>3, Landed DEF Entries, Value
  <2>2. QED
    BY <1>1, <2>1 DEF Entries, Follows
<1>4. QED
  BY <1>2, <1>3

LEMMA MutateHolds ==
    ASSUME NEW r, Entries(r), r.value # <<>>, NEW v, EntryOK(v), v.of = Value(r).of
    PROVE  /\ Entries(Mutate(r, v)) /\ \A n : Follows(r, n) => Follows(Mutate(r, v), n)
<1> DEFINE m == Mutate(r, v)
<1>1. /\ ResourceOK(m) /\ m.request = r.request /\ m.failed = r.failed
      /\ m.value # <<>> /\ Value(m) = v
  BY DEF Mutate, Entries, ResourceOK, ResourceFields, Value
<1> HIDE DEF m
<1>2. QED
  BY <1>1 DEF Entries, Follows, m

LEMMA GoneHolds ==
    ASSUME NEW r, Entries(r)
    PROVE  Entries(SourceGone(r))
<1>1. ResourceOK(SourceGone(r)) /\ SourceGone(r).request = Quiet /\ SourceGone(r).value = r.value
  BY DEF SourceGone, Entries, ResourceOK, ResourceFields
<1>2. QED
  BY <1>1 DEF Entries, Value, Quiet

-----------------------------------------------------------------------------
(* Steps of the page. *)

(* Steps that leave the address and both resources alone. *)
ViewStays(v, w) ==
    /\ w = [f \in ViewFields |-> w[f]] /\ w.page = v.page
    /\ w.name = v.name /\ w.main = v.main /\ w.side = v.side

LEMMA StayingSound ==
    ASSUME NEW v, ViewSound(v), NEW w, ViewStays(v, w)
    PROVE  ViewSound(w)
BY DEF ViewSound, ViewStays

(* Steps that write the first resource. *)
LEMMA MainSound ==
    ASSUME NEW v, ViewSound(v), NEW w, w = [f \in ViewFields |-> w[f]], w.page = v.page,
           w.name = v.name, w.side = v.side,
           Entries(w.main), w.name # Nothing => Follows(w.main, w.name)
    PROVE  ViewSound(w)
BY DEF ViewSound

LEMMA RefetchedSound ==
    ASSUME NEW v, ViewSound(v)
    PROVE  ViewSound(Refetched(v)) /\ Refetched(v) = [f \in ViewFields |-> Refetched(v)[f]]
<1> DEFINE w == Refetched(v)
<1>1. /\ w = [f \in ViewFields |-> w[f]] /\ w.page = v.page /\ w.name = v.name
      /\ w.side = v.side /\ w.main = Fetch(v.main, v.name)
  BY DEF Refetched, ViewSound, ViewFields
<1>2. Entries(w.main) /\ Follows(w.main, w.name)
  BY <1>1, AskedHolds DEF ViewSound
<1>3. QED
  BY <1>1, <1>2, MainSound

LEMMA GoSound ==
    ASSUME NEW v, ViewSound(v), v.page \notin {"search", "bookmarks", "trash"}, NEW n \in Names
    PROVE  ViewSound(Go(v, n))
<1> DEFINE w == Go(v, n)
<1>0. n # Nothing
  BY PagesAssumption
<1>1. CASE v.page \in TwoLists
  <2>1. /\ w = [f \in ViewFields |-> w[f]] /\ w.page = v.page /\ w.name = n
        /\ w.main = Fetch(v.main, n) /\ w.side = Fetch(v.side, n)
    BY <1>1 DEF Go, HashtagGo, TrendingGo, ProfileGo, ViewSound, ViewFields, TwoLists
  <2>2. QED
    BY <1>0, <1>1, <2>1, AskedHolds DEF ViewSound
<1>2. CASE v.page \in {"followers", "activity", "post"}
  <2>1. /\ w = [f \in ViewFields |-> w[f]] /\ w.page = v.page /\ w.name = n
        /\ w.main = Fetch(v.main, n) /\ w.side = v.side
    BY <1>2 DEF Go, FollowListGo, ActivityGo, PostGo, ViewSound, ViewFields
  <2>2. v.page \notin TwoLists
    BY <1>2 DEF TwoLists
  <2>3. QED
    BY <1>0, <2>1, <2>2, AskedHolds DEF ViewSound
<1>3. QED
  BY <1>1, <1>2 DEF ViewSound, PageKinds, TwoLists

LEMMA NavigateStep ==
    ASSUME ViewSound(view), Navigate
    PROVE  ViewSound(view')
<1>1. PICK n \in Names \ {view.name} :
        view' = [Go(view, n) EXCEPT
                   !.carried = @ \/ view.busy \/ (On("hashtag") /\ view.override # Nothing)]
  BY DEF Navigate
<1>2. ViewSound(Go(view, n))
  BY GoSound DEF Navigate
<1>3. ViewStays(Go(view, n), view')
  BY <1>1, <1>2 DEF ViewStays, ViewSound, ViewFields
<1>4. QED
  BY <1>2, <1>3, StayingSound

LEMMA SearchGoSound ==
    ASSUME NEW v, ViewSound(v), v.page = "search", NEW q
    PROVE  ViewSound(SearchGo(v, q))
<1> DEFINE w == SearchGo(v, q)
<1>1. /\ w = [f \in ViewFields |-> w[f]] /\ w.page = v.page /\ w.name = q /\ w.side = v.side
      /\ w.main = IF q = v.name THEN v.main ELSE IF q = Nothing THEN SourceGone(v.main)
                  ELSE Fetch(v.main, q)
  BY DEF SearchGo, ViewSound, ViewFields
<1>2. Entries(w.main) /\ (w.name # Nothing => Follows(w.main, w.name))
  BY <1>1, AskedHolds, GoneHolds DEF ViewSound
<1>3. w.side = Unresolved /\ w.page \notin TwoLists /\ Entries(w.side)
  BY <1>1 DEF ViewSound, TwoLists
<1>4. QED
  BY <1>1, <1>2, <1>3 DEF ViewSound

LEMMA SearchStep ==
    ASSUME ViewSound(view), OnInput \/ Debounced \/ SearchRoute
    PROVE  ViewSound(view')
<1>1. CASE OnInput
  <2>1. ViewStays(view, view')
    BY <1>1 DEF OnInput, ViewStays, ViewSound, ViewFields
  <2>2. QED
    BY <2>1, StayingSound
<1>2. CASE Debounced
  BY <1>2, SearchGoSound DEF Debounced, On
<1>3. CASE SearchRoute
  <2>1. PICK q \in Names : view' = [SearchGo(view, q) EXCEPT !.debounce = view.debounce]
    BY <1>3 DEF SearchRoute
  <2>2. ViewSound(SearchGo(view, q))
    BY <1>3, SearchGoSound DEF SearchRoute, On
  <2>3. ViewStays(SearchGo(view, q), view')
    BY <2>1, <2>2 DEF ViewStays, ViewSound, ViewFields
  <2>4. QED
    BY <2>2, <2>3, StayingSound
<1>4. QED
  BY <1>1, <1>2, <1>3

LEMMA MainLandsStep ==
    ASSUME ViewSound(view), MainLands
    PROVE  ViewSound(view')
<1> DEFINE v == [view EXCEPT !.main = Land(@)]
<1>1. /\ v = [f \in ViewFields |-> v[f]] /\ v.page = view.page /\ v.name = view.name
      /\ v.side = view.side /\ v.main = Land(view.main)
  BY DEF ViewSound, ViewFields
<1>2. view' = v \/ view' = PinSource(v)
  BY DEF MainLands
<1> HIDE DEF v
<1>3. Entries(v.main) /\ (v.name # Nothing => Follows(v.main, v.name))
  BY <1>1, LandHolds DEF ViewSound, MainLands
<1>4. ViewSound(v)
  BY <1>1, <1>3, MainSound
<1>5. ViewStays(v, v)
  BY <1>1 DEF ViewStays
<1>6. ViewStays(v, PinSource(v))
  <2> DEFINE pin == IF Value(v.main).data.pin THEN Value(v.main).of ELSE Nothing
  <2>1. \/ PinSource(v) = v \/ PinSource(v) = [v EXCEPT !.pin = pin, !.pinned = SourceGone(@)]
        \/ PinSource(v) = [v EXCEPT !.pin = pin, !.pinned = Fetch(@, pin)]
    BY DEF PinSource
  <2>2. QED
    BY <1>1, <2>1 DEF ViewStays, ViewFields
<1>7. QED
  BY <1>2, <1>4, <1>5, <1>6, StayingSound

LEMMA SideStep ==
    ASSUME ViewSound(view), SideLands \/ ServeSide
    PROVE  ViewSound(view')
<1>1. view.page \in TwoLists
  <2>1. view.side # Unresolved
    BY DEF SideLands, ServeSide, Answered, Pending, Unresolved, Quiet
  <2>2. QED
    BY <2>1 DEF ViewSound
<1>2. /\ view' = [f \in ViewFields |-> view'[f]] /\ view'.page = view.page
      /\ view'.name = view.name /\ view'.main = view.main
  BY DEF SideLands, ServeSide, ViewSound, ViewFields
<1>3. Entries(view.side) /\ Follows(view.side, view.name)
  BY <1>1 DEF ViewSound
<1>4. Entries(view'.side) /\ Follows(view'.side, view.name)
  <2>1. CASE SideLands
    <3>1. view'.side = Land(view.side) /\ Answered(view.side)
      BY <2>1 DEF SideLands, ViewSound, ViewFields
    <3>2. QED
      BY <1>3, <3>1, LandHolds
  <2>2. CASE ServeSide
    <3> DEFINE d == SideData(view.page, KeyOf(view.side))
    <3>1. /\ Pending(view.side)
          /\ \/ view'.side = Answer(view.side, Of(KeyOf(view.side), d))
             \/ view'.side = Refuse(view.side)
      BY <2>2 DEF ServeSide, ViewSound, ViewFields
    <3> HIDE DEF d
    <3>2. QED
      BY <1>3, <3>1, AnswerHolds, RefuseHolds
  <2>3. QED
    BY <2>1, <2>2
<1>5. QED
  BY <1>1, <1>2, <1>4 DEF ViewSound

LEMMA ServeMainStep ==
    ASSUME ViewSound(view), ServeMain
    PROVE  ViewSound(view')
<1> DEFINE n == KeyOf(view.main)
<1>1. /\ view' = [f \in ViewFields |-> view'[f]] /\ view'.page = view.page
      /\ view'.name = view.name /\ view'.side = view.side
      /\ Pending(view.main)
      /\ \/ \E d : view'.main = Answer(view.main, Of(n, d))
         \/ view'.main = Refuse(view.main)
  BY DEF ServeMain, ViewSound, ViewFields
<1>2. Entries(view'.main) /\ (view.name # Nothing => Follows(view'.main, view.name))
  BY <1>1, AnswerHolds, RefuseHolds DEF ViewSound
<1>3. QED
  BY <1>1, <1>2, MainSound

LEMMA ClickStep ==
    ASSUME ViewSound(view),
           \/ PinnedLands \/ ServePinned
           \/ ToggleFollow \/ Follow \/ ToggleMute \/ ToggleBlock \/ Unpin \/ Restore
           \/ Reply \/ SendReply
           \/ \E c \in sending : FollowedTag(c) \/ ServeSending(c) \/ FailSending(c)
    PROVE  ViewSound(view')
<1>1. view' = view \/ ViewStays(view, view')
  <2>1. CASE PinnedLands \/ ServePinned
    BY <2>1 DEF PinnedLands, ServePinned, ViewStays, ViewSound, ViewFields
  <2>2. CASE ToggleFollow \/ Follow \/ Reply
    BY <2>2 DEF ToggleFollow, Follow, Reply, ViewStays, ViewSound, ViewFields
  <2>3. CASE ToggleMute \/ ToggleBlock \/ Unpin \/ Restore \/ SendReply
    BY <2>3 DEF ToggleMute, ToggleBlock, Unpin, Restore, SendReply
  <2>4. ASSUME NEW c, FollowedTag(c) \/ ServeSending(c) \/ FailSending(c)
        PROVE  view' = view \/ ViewStays(view, view')
    BY <2>4 DEF FollowedTag, ServeSending, FailSending, ViewStays, ViewSound, ViewFields
  <2>5. QED
    BY <2>1, <2>2, <2>3, <2>4
<1>2. QED
  BY <1>1, StayingSound

LEMMA AnswerStep ==
    ASSUME ViewSound(view), NEW c,
           ProfileFollowed(c) \/ MutedOrBlocked(c) \/ Unpinned(c) \/ Restored(c)
    PROVE  ViewSound(view')
<1>1. CASE ProfileFollowed(c)
  <2> DEFINE v == [view EXCEPT !.busy = FALSE, !.override = c.arg]
  <2>1. ViewStays(view, v) /\ ViewStays(view, [view EXCEPT !.busy = FALSE])
    BY DEF ViewStays, ViewSound, ViewFields
  <2>2. view' = Refetched(v) \/ view' = [view EXCEPT !.busy = FALSE]
    BY <1>1 DEF ProfileFollowed
  <2> HIDE DEF v
  <2>3. QED
    BY <2>1, <2>2, StayingSound, RefetchedSound
<1>2. CASE MutedOrBlocked(c) \/ Restored(c)
  BY <1>2, RefetchedSound DEF MutedOrBlocked, Restored
<1>3. CASE Unpinned(c)
  <2> DEFINE v == Refetched(view)
             w == [v EXCEPT !.pinned = IF view.pin = Nothing THEN @ ELSE Fetch(@, view.pin)]
  <2>1. ViewSound(v) /\ v = [f \in ViewFields |-> v[f]]
    BY RefetchedSound
  <2>2. view' = w \/ view' = view
    BY <1>3 DEF Unpinned
  <2> HIDE DEF v
  <2>3. ViewStays(v, w)
    BY <2>1 DEF ViewStays, ViewFields
  <2>4. QED
    BY <2>1, <2>2, <2>3, StayingSound
<1>4. QED
  BY <1>1, <1>2, <1>3

LEMMA AppendStep ==
    ASSUME ViewSound(view), NEW c, AppendDescendant(c)
    PROVE  ViewSound(view')
<1>1. CASE view' = view
  BY <1>1
<1>2. CASE view' # view
  <2> DEFINE e == Value(view.main)
             x == WithReply(e)
  <2>1. /\ PostView = "thread"
        /\ view' = [view EXCEPT !.main = Mutate(@, x), !.replyingTo = 0]
    BY <1>2 DEF AppendDescendant
  <2>2. view.main.value # <<>>
    BY <2>1 DEF PostView, Shown
  <2>3. EntryOK(e)
    BY <2>2 DEF ViewSound, Entries
  <2> HIDE DEF e
  <2>4. EntryOK(x) /\ x.of = e.of
    BY <2>3 DEF EntryOK, WithReply
  <2>5. /\ view' = [f \in ViewFields |-> view'[f]] /\ view'.page = view.page
        /\ view'.name = view.name /\ view'.side = view.side /\ view'.main = Mutate(view.main, x)
    BY <2>1 DEF ViewSound, ViewFields
  <2> HIDE DEF x
  <2>6. Entries(view'.main) /\ (view.name # Nothing => Follows(view'.main, view.name))
    BY <2>2, <2>4, <2>5, MutateHolds DEF ViewSound, e
  <2>7. QED
    BY <2>5, <2>6, MainSound
<1>3. QED
  BY <1>1, <1>2

PageInv == ViewSound(view)

LEMMA PageStep == PageInv /\ [PagesNext]_pagesVars => PageInv'
<1> SUFFICES ASSUME ViewSound(view), [PagesNext]_pagesVars
             PROVE  ViewSound(view')
  BY DEF PageInv
<1>1. CASE UNCHANGED pagesVars
  BY <1>1 DEF pagesVars
<1>2. CASE CardChanged
  BY <1>2, RefetchedSound DEF CardChanged
<1>3. CASE PagesNext /\ ~CardChanged
  BY <1>3, NavigateStep, SearchStep, MainLandsStep, SideStep, ServeMainStep, ClickStep, AnswerStep,
     AppendStep DEF PagesNext
<1>4. QED
  BY <1>1, <1>2, <1>3

LEMMA SoundShowsAddress == PageInv => PageShowsItsAddress
<1> SUFFICES ASSUME ViewSound(view)
             PROVE  PageShowsItsAddress
  BY DEF PageInv
<1>1. ASSUME NEW r, Entries(r), NEW n, Follows(r, n), ~Loading(r), ~Throws(r)
      PROVE  Shown(r) /\ Value(r).of = n
  BY <1>1 DEF Follows, Loading, Throws, Shown, Quiet
<1>2. ASSUME ~Loading(view.main), MainView \notin {"skeleton", "loading", "hint", "blank"}
      PROVE  Value(view.main).of = view.name
  <2>1. CASE On("search")
    <3>1. MainView = SearchView
      BY <2>1 DEF MainView, On
    <3>2. Results
      BY <1>2, <3>1 DEF SearchView
    <3>3. QED
      BY <3>2 DEF Results
  <2>2. CASE ~On("search")
    <3>1. Shown(view.main)
      BY <1>2, <2>2 DEF MainView, On, HashtagView, FollowListView, TrendingView, ActivityView,
         BookmarksView, TrashView, ProfileView, PostView, ListView, ViewSound, PageKinds
    <3>2. view.name # Nothing
      BY <2>2 DEF On, ViewSound
    <3>3. QED
      BY <1>1, <1>2, <3>1, <3>2 DEF ViewSound, Shown
  <2>3. QED
    BY <2>1, <2>2
<1>3. ASSUME Shown(view.side), ~Loading(view.side)
      PROVE  Value(view.side).of = view.name
  <2>1. view.side # Unresolved
    BY <1>3, Unresolves DEF Shown
  <2>2. QED
    BY <1>1, <1>3, <2>1 DEF ViewSound, Shown
<1>4. ASSUME On("search"), view.name # Nothing, ~Loading(view.main), ~Throws(view.main)
      PROVE  SearchView = "results"
  <2>1. Results
    BY <1>1, <1>4 DEF ViewSound, Results
  <2>2. QED
    BY <1>4, <2>1 DEF SearchView
<1>5. QED
  BY <1>2, <1>3, <1>4 DEF PageShowsItsAddress

LEMMA PagesStartSound == PagesInit => PageInv
<1>1. ASSUME NEW page \in PageKinds, NEW n \in Names \cup {Nothing}, NEW follows,
             n = Nothing => page = "search", PagesOpened(page, n, follows)
      PROVE  ViewSound(view)
  <2>1. /\ view = [f \in ViewFields |-> view[f]] /\ view.page = page /\ view.name = n
        /\ view.main = IF n = Nothing THEN Unresolved ELSE Fetch(Unresolved, n)
        /\ view.side = IF page \in TwoLists THEN Fetch(Unresolved, n) ELSE Unresolved
    BY <1>1 DEF PagesOpened, PageOpened, ViewFields, TwoLists
  <2>2. Entries(Unresolved)
    BY Unresolves DEF Entries, Quiet
  <2>3. QED
    BY <1>1, <2>1, <2>2, AskedHolds DEF ViewSound
<1>2. QED
  BY <1>1, PagesAssumption DEF PagesInit, PageKinds, PageInv

\* Once the answers are in, a page shows what its address names and no earlier name's data,
\* for any names and any order of navigations, clicks, answers and failures.
\* [the sources of createResource in the pages; Search.tsx 11-16, 37-39]
THEOREM PagesShowTheirAddress == PagesSpec => []PageShowsItsAddress
BY PagesStartSound, PageStep, SoundShowsAddress, PTL DEF PagesSpec

-----------------------------------------------------------------------------
(* Follow buttons: what is loaded, what was clicked and the request under    *)
(* way agree with what the server has.                                       *)

SiteFields == {"follows", "mutes", "blocks", "pins", "trash", "replies"}
FollowOps == {"follow", "follow_tag"}

(* The page that sends a request. *)
Sender(op) ==
    CASE op = "follow_tag" -> "hashtag"
      [] op \in {"follow", "mute", "block", "unpin"} -> "profile"
      [] op = "restore" -> "trash"
      [] op = "reply" -> "post"

SentOK(page, c) ==
    /\ c = [op |-> c.op, name |-> c.name, arg |-> c.arg, state |-> c.state]
    /\ c.op \in {"follow_tag", "follow", "mute", "block", "unpin", "restore", "reply"}
    /\ c.op \in FollowOps => c.arg \in {"yes", "no"}
    /\ page = Sender(c.op)

Flying == {c \in sending : c.op \in FollowOps}
InFollows == view.name \in site.follows

(* What was loaded, or is on its way, says whether its name is followed. *)
SideTrue(r, follows) ==
    /\ r.request[1] = "served" => (r.request[2].data <=> r.request[2].of \in follows)
    /\ r.request = Quiet /\ ~r.failed /\ r.value # <<>> =>
         (Value(r).data <=> Value(r).of \in follows)

MainTrue(r, follows) ==
    /\ r.request[1] = "served" => (r.request[2].data.follow <=> r.request[2].of \in follows)
    /\ r.request = Quiet /\ ~r.failed /\ r.value # <<>> =>
         (Value(r).data.follow <=> Value(r).of \in follows)

DataTrue == /\ view.page = "hashtag" => SideTrue(view.side, site.follows)
            /\ view.page = "profile" => MainTrue(view.main, site.follows)

(* The one follow under way is of the name shown, and of the state it will leave. *)
FlyingTrue(c) ==
    /\ c.name = view.name
    /\ c.state = "ok" => (c.arg = "yes" <=> InFollows)
    /\ view.page = "hashtag" => /\ view.override = c.arg
                                /\ c.state # "ok" => (c.arg = "no" <=> InFollows)

FollowTyped ==
    /\ site = [f \in SiteFields |-> site[f]]
    /\ view.override \in {Nothing, "yes", "no"}
    /\ \A c \in sending : SentOK(view.page, c)
    /\ view.busy <=> Flying # {}
    /\ \A c, d \in Flying : c = d

(* Without a follow under way that the server has stored, the button is right. *)
Unstored == (\A c \in Flying : c.state # "ok") /\ (view.page = "hashtag" => Flying = {})
ButtonTrue == IF view.override = Nothing THEN DataTrue ELSE view.override = "yes" <=> InFollows

(* A profile whose owner is blocked has no button any more, or is about to be loaded again. *)
Sunk == view.page = "profile" /\ view.name \in site.blocks
Gone(r) == r.request[1] \in {"asked", "refused"} \/ (r.request = Quiet /\ r.failed)
Blocking == \E c \in sending : c.op = "block" /\ c.state = "ok"

(* Nothing loaded is of somebody blocked, so a click of the block button always blocks. *)
Unblocked(r) ==
    /\ r.request[1] = "served" => ~r.request[2].data.block
    /\ r.value # <<>> => ~Value(r).data.block

BlockTrue ==
    ~view.astray /\ view.page = "profile" =>
       /\ Unblocked(view.main)
       /\ \A c \in sending : c.op = "block" => c.arg = "yes"
       /\ Sunk => Blocking \/ Gone(view.main)

FollowTrue ==
    ~view.carried /\ ~view.astray /\ view.page \in {"hashtag", "profile"} /\ ~Sunk =>
       /\ \A c \in Flying : FlyingTrue(c)
       /\ Unstored => ButtonTrue

FollowInv == FollowTyped /\ FollowTrue

-----------------------------------------------------------------------------
LEMMA FetchedTrue ==
    ASSUME NEW r, ResourceOK(r), NEW n, NEW follows
    PROVE  SideTrue(Fetch(r, n), follows) /\ MainTrue(Fetch(r, n), follows)
<1> DEFINE f == Fetch(r, n)
<1>1. f.request[1] = "asked" /\ f.request # Quiet
  <2>1. f.request = <<"asked", n>>
    BY Fetched
  <2> HIDE DEF f
  <2>2. QED
    BY <2>1 DEF Quiet
<1> HIDE DEF f
<1>2. SideTrue(f, follows) /\ MainTrue(f, follows)
  BY <1>1 DEF SideTrue, MainTrue
<1>3. QED
  BY <1>2 DEF f

LEMMA LandedTrue ==
    ASSUME NEW r, ResourceOK(r), Answered(r), NEW follows
    PROVE  /\ SideTrue(r, follows) => SideTrue(Land(r), follows)
           /\ MainTrue(r, follows) => MainTrue(Land(r), follows)
<1> DEFINE l == Land(r)
<1>1. l.request = Quiet /\ l.request[1] # "served"
  <2>1. l.request = Quiet
    BY Landed
  <2> HIDE DEF l
  <2>2. QED
    BY <2>1 DEF Quiet
<1>2. CASE r.request[1] = "served"
  <2>1. Value(l) = r.request[2]
    <3>1. l.value = <<r.request[2]>>
      BY <1>2, Landed
    <3> HIDE DEF l
    <3>2. QED
      BY <3>1 DEF Value
  <2> HIDE DEF l
  <2>2. SideTrue(r, follows) => SideTrue(l, follows)
    BY <1>1, <1>2, <2>1 DEF SideTrue
  <2>3. MainTrue(r, follows) => MainTrue(l, follows)
    BY <1>1, <1>2, <2>1 DEF MainTrue
  <2>4. QED
    BY <2>2, <2>3 DEF l
<1>3. CASE r.request[1] # "served"
  <2>1. l.failed = TRUE
    BY <1>3, Landed
  <2> HIDE DEF l
  <2>2. SideTrue(l, follows) /\ MainTrue(l, follows)
    BY <1>1, <2>1 DEF SideTrue, MainTrue
  <2>3. QED
    BY <2>2 DEF l
<1>4. QED
  BY <1>2, <1>3

LEMMA RefusedTrue ==
    ASSUME NEW r, ResourceOK(r), NEW follows
    PROVE  SideTrue(Refuse(r), follows) /\ MainTrue(Refuse(r), follows)
<1> DEFINE f == Refuse(r)
<1>1. f.request[1] = "refused" /\ f.request # Quiet
  <2>1. f.request = <<"refused">>
    BY Responded
  <2> HIDE DEF f
  <2>2. QED
    BY <2>1 DEF Quiet
<1> HIDE DEF f
<1>2. SideTrue(f, follows) /\ MainTrue(f, follows)
  BY <1>1 DEF SideTrue, MainTrue
<1>3. QED
  BY <1>2 DEF f

LEMMA AnsweredTrue ==
    ASSUME NEW r, ResourceOK(r), NEW n, NEW d, NEW follows
    PROVE  LET a == Answer(r, Of(n, d)) IN
           /\ (d <=> n \in follows) => SideTrue(a, follows)
           /\ (d.follow <=> n \in follows) => MainTrue(a, follows)
<1> DEFINE e == Of(n, d)
           a == Answer(r, e)
<1>1. e.of = n /\ e.data = d
  BY DEF Of
<1> HIDE DEF e
<1>2. a.request = <<"served", e>>
  BY Responded
<1> HIDE DEF a
<1>3. a.request[1] = "served" /\ a.request[2] = e /\ a.request # Quiet
  BY <1>2 DEF Quiet
<1>4. (d <=> n \in follows) => SideTrue(a, follows)
  BY <1>1, <1>3 DEF SideTrue
<1>5. (d.follow <=> n \in follows) => MainTrue(a, follows)
  BY <1>1, <1>3 DEF MainTrue
<1>6. QED
  BY <1>4, <1>5 DEF a, e

-----------------------------------------------------------------------------
SameButton ==
    /\ view'.page = view.page /\ view'.name = view.name /\ view'.override = view.override
    /\ view'.busy = view.busy /\ view'.carried = view.carried
    /\ ~view'.astray => ~view.astray

LEMMA ButtonKept ==
    ASSUME FollowInv, SameButton, site' = [f \in SiteFields |-> site'[f]],
           site'.follows = site.follows, Sunk => Sunk',
           \A c \in sending' : SentOK(view.page, c),
           Flying' = Flying, ~view'.astray => (DataTrue => DataTrue')
    PROVE  FollowInv'
<1>1. FollowTyped'
  BY DEF FollowInv, FollowTyped, SameButton
<1>2. InFollows' <=> InFollows
  BY DEF InFollows, SameButton
<1>3. \A c : FlyingTrue(c) => FlyingTrue(c)'
  BY <1>2 DEF FlyingTrue, SameButton
<1>4. Unstored' <=> Unstored
  BY DEF Unstored, SameButton
<1>5. ~view'.astray => (ButtonTrue => ButtonTrue')
  BY <1>2 DEF ButtonTrue, SameButton
<1>6. FollowTrue'
  BY <1>3, <1>4, <1>5 DEF FollowInv, FollowTrue, SameButton
<1>7. QED
  BY <1>1, <1>6 DEF FollowInv

(* Steps that only read, load, or send something else than a follow. *)
LEMMA PageKept ==
    ASSUME FollowInv, SameButton, site' = site, sending' = sending,
           ~view'.astray => (DataTrue => DataTrue')
    PROVE  FollowInv'
<1>1. Flying' = Flying
  BY DEF Flying
<1>2. Sunk => Sunk'
  BY DEF Sunk, SameButton
<1>3. QED
  BY <1>1, <1>2, ButtonKept DEF FollowInv, FollowTyped

LEMMA SameData ==
    ASSUME view'.page = view.page, view'.main = view.main, view'.side = view.side,
           site'.follows = site.follows
    PROVE  DataTrue => DataTrue'
BY DEF DataTrue

LEMMA NavigateButton ==
    ASSUME PageInv, FollowInv, Navigate
    PROVE  FollowInv'
<1>1. PICK n \in Names \ {view.name} :
        view' = [Go(view, n) EXCEPT
                   !.carried = @ \/ view.busy \/ (On("hashtag") /\ view.override # Nothing)]
  BY DEF Navigate
<1> DEFINE w == Go(view, n)
<1>2. /\ w = [f \in ViewFields |-> w[f]] /\ w.page = view.page
      /\ w.carried = view.carried /\ w.busy = view.busy
      /\ w.override = IF view.page = "profile" THEN Nothing ELSE view.override
      /\ view.page = "hashtag" => w.side = Fetch(view.side, n)
      /\ view.page = "profile" => w.main = Fetch(view.main, n)
  <2>1. view = [f \in ViewFields |-> view[f]]
    BY DEF PageInv, ViewSound
  <2>2. CASE view.page = "profile"
    BY <2>1, <2>2 DEF Go, ProfileGo, ViewFields
  <2>3. CASE view.page \in {"hashtag", "trending"}
    BY <2>1, <2>3 DEF Go, HashtagGo, TrendingGo, ViewFields
  <2>4. CASE view.page \in {"followers", "activity", "post"}
    BY <2>1, <2>4 DEF Go, FollowListGo, ActivityGo, PostGo, ViewFields
  <2>5. QED
    BY <2>2, <2>3, <2>4 DEF PageInv, ViewSound, PageKinds, Navigate
<1> HIDE DEF w
<1>3. /\ view'.page = view.page /\ view'.busy = view.busy /\ view'.override = w.override
      /\ view'.carried = (\/ view.carried \/ view.busy
                          \/ (view.page = "hashtag" /\ view.override # Nothing))
      /\ view'.main = w.main /\ view'.side = w.side
  BY <1>1, <1>2 DEF ViewFields, On, w
<1>4. site' = site /\ sending' = sending /\ Flying' = Flying
  BY DEF Navigate, Flying
<1>5. FollowTyped'
  BY <1>2, <1>3, <1>4 DEF FollowInv, FollowTyped
<1>6. ASSUME ~view'.carried, view.page \in {"hashtag", "profile"}
      PROVE  Flying' = {} /\ ButtonTrue'
  <2>1. Flying' = {}
    BY <1>3, <1>4, <1>6 DEF FollowInv, FollowTyped
  <2>2. view'.override = Nothing
    BY <1>2, <1>3, <1>6
  <2>3. DataTrue'
    BY <1>2, <1>3, FetchedTrue DEF DataTrue, PageInv, ViewSound, Entries
  <2>4. QED
    BY <2>1, <2>2, <2>3 DEF ButtonTrue
<1>7. QED
  BY <1>3, <1>5, <1>6 DEF FollowInv, FollowTrue

LEMMA AsideButton ==
    ASSUME PageInv, FollowInv,
           \/ OnInput \/ Debounced \/ SearchRoute \/ PinnedLands \/ ServePinned
           \/ CardChanged \/ Reply
    PROVE  FollowInv'
<1>1. site' = site /\ sending' = sending
  BY DEF OnInput, Debounced, SearchRoute, PinnedLands, ServePinned, CardChanged, Reply
<1>2. CASE OnInput \/ PinnedLands \/ ServePinned \/ Reply
  <2>1. SameButton /\ view'.main = view.main /\ view'.side = view.side
    BY <1>2 DEF OnInput, PinnedLands, ServePinned, Reply, SameButton, PageInv, ViewSound, ViewFields
  <2>2. DataTrue => DataTrue'
    BY <1>1, <2>1, SameData DEF SameButton
  <2>3. QED
    BY <1>1, <2>1, <2>2, PageKept
<1>3. CASE Debounced
  <2>1. view.page = "search" /\ view' = SearchGo(view, view.debounce[1])
    BY <1>3 DEF Debounced, On
  <2>2. \/ SameButton
        \/ /\ view'.page = "search" /\ view'.override = view.override
           /\ view'.busy = view.busy
    BY <2>1 DEF SearchGo, SameButton, PageInv, ViewSound, ViewFields
  <2>3. Flying' = Flying
    BY <1>1 DEF Flying
  <2>4. QED
    BY <1>1, <2>1, <2>2, <2>3 DEF FollowInv, FollowTyped, FollowTrue, SameButton
<1>4. CASE SearchRoute
  <2>1. PICK q \in Names : view' = [SearchGo(view, q) EXCEPT !.debounce = view.debounce]
    BY <1>4 DEF SearchRoute
  <2>2. view.page = "search"
    BY <1>4 DEF SearchRoute, On
  <2>3. view'.page = "search" /\ view'.override = view.override /\ view'.busy = view.busy
    BY <2>1, <2>2 DEF SearchGo, PageInv, ViewSound, ViewFields
  <2>4. Flying' = Flying
    BY <1>1 DEF Flying
  <2>5. QED
    BY <1>1, <2>2, <2>3, <2>4 DEF FollowInv, FollowTyped, FollowTrue
<1>5. CASE CardChanged
  <2>1. view.page \in {"bookmarks", "post"} /\ view' = Refetched(view)
    BY <1>5 DEF CardChanged, On
  <2>2. view'.page = view.page /\ view'.override = view.override /\ view'.busy = view.busy
    BY <2>1 DEF Refetched, PageInv, ViewSound, ViewFields
  <2>3. Flying' = Flying
    BY <1>1 DEF Flying
  <2>4. QED
    BY <1>1, <2>1, <2>2, <2>3 DEF FollowInv, FollowTyped, FollowTrue
<1>6. QED
  BY <1>2, <1>3, <1>4, <1>5

LEMMA LoadButton ==
    ASSUME PageInv, FollowInv, MainLands \/ SideLands \/ ServeMain \/ ServeSide
    PROVE  FollowInv'
<1>1. site' = site /\ sending' = sending
  BY DEF MainLands, SideLands, ServeMain, ServeSide
<1>2. ResourceOK(view.main) /\ ResourceOK(view.side) /\ view = [f \in ViewFields |-> view[f]]
  BY DEF PageInv, ViewSound, Entries
<1>3. CASE MainLands
  <2> DEFINE v == [view EXCEPT !.main = Land(@)]
  <2>1. /\ v = [f \in ViewFields |-> v[f]] /\ v.page = view.page /\ v.name = view.name
        /\ v.side = view.side /\ v.main = Land(view.main) /\ v.override = view.override
        /\ v.busy = view.busy /\ v.carried = view.carried /\ v.astray = view.astray
    BY <1>2 DEF ViewFields
  <2>2. view' = v \/ view' = PinSource(v)
    BY <1>3 DEF MainLands
  <2> HIDE DEF v
  <2>3. /\ PinSource(v).page = v.page /\ PinSource(v).name = v.name /\ PinSource(v).side = v.side
        /\ PinSource(v).main = v.main /\ PinSource(v).override = v.override
        /\ PinSource(v).busy = v.busy /\ PinSource(v).carried = v.carried
        /\ PinSource(v).astray = v.astray
    <3> DEFINE pin == IF Value(v.main).data.pin THEN Value(v.main).of ELSE Nothing
    <3>1. \/ PinSource(v) = v \/ PinSource(v) = [v EXCEPT !.pin = pin, !.pinned = SourceGone(@)]
          \/ PinSource(v) = [v EXCEPT !.pin = pin, !.pinned = Fetch(@, pin)]
      BY DEF PinSource
    <3>2. QED
      BY <2>1, <3>1 DEF ViewFields
  <2>4. SameButton /\ view'.main = Land(view.main) /\ view'.side = view.side
    BY <2>1, <2>2, <2>3 DEF SameButton
  <2>5. DataTrue => DataTrue'
    BY <1>1, <1>2, <1>3, <2>4, LandedTrue DEF DataTrue, SameButton, MainLands
  <2>6. QED
    BY <1>1, <2>4, <2>5, PageKept
<1>4. CASE SideLands
  <2>1. SameButton /\ view'.main = view.main /\ view'.side = Land(view.side)
    BY <1>2, <1>4 DEF SideLands, SameButton, ViewFields
  <2>2. DataTrue => DataTrue'
    BY <1>1, <1>2, <1>4, <2>1, LandedTrue DEF DataTrue, SameButton, SideLands
  <2>3. QED
    BY <1>1, <2>1, <2>2, PageKept
<1>5. CASE ServeMain
  <2> DEFINE n == KeyOf(view.main)
             d == MainData(view.page, n)
  <2>1. /\ SameButton /\ view'.side = view.side
        /\ \/ view'.main = Answer(view.main, Of(n, d))
           \/ view'.main = Refuse(view.main)
           \/ view.page # "profile"
           \/ view'.astray
    BY <1>2, <1>5 DEF ServeMain, SameButton, ViewFields, On
  <2>2. view.page = "profile" => (d.follow <=> n \in site.follows)
    BY DEF MainData
  <2> HIDE DEF d, n
  <2>3. view.page = "profile" /\ ~view'.astray => MainTrue(view'.main, site.follows)
    BY <1>2, <2>1, <2>2, AnsweredTrue, RefusedTrue
  <2>4. ~view'.astray => (DataTrue => DataTrue')
    BY <1>1, <2>1, <2>3 DEF DataTrue, SameButton
  <2>5. QED
    BY <1>1, <2>1, <2>4, PageKept
<1>6. CASE ServeSide
  <2> DEFINE n == KeyOf(view.side)
             d == SideData(view.page, n)
  <2>1. /\ SameButton /\ view'.main = view.main
        /\ \/ view'.side = Answer(view.side, Of(n, d))
           \/ view'.side = Refuse(view.side)
    BY <1>2, <1>6 DEF ServeSide, SameButton, ViewFields
  <2>2. view.page = "hashtag" => (d <=> n \in site.follows)
    BY DEF SideData
  <2> HIDE DEF d, n
  <2>3. view.page = "hashtag" => SideTrue(view'.side, site.follows)
    BY <1>2, <2>1, <2>2, AnsweredTrue, RefusedTrue
  <2>4. DataTrue => DataTrue'
    BY <1>1, <2>1, <2>3 DEF DataTrue, SameButton
  <2>5. QED
    BY <1>1, <2>1, <2>4, PageKept
<1>7. QED
  BY <1>3, <1>4, <1>5, <1>6

LEMMA SendingIs ==
    ASSUME NEW op, NEW arg
    PROVE  LET c == Sending(op, arg) IN
           /\ c = [op |-> c.op, name |-> c.name, arg |-> c.arg, state |-> c.state]
           /\ c.op = op /\ c.name = view.name /\ c.arg = arg /\ c.state = "sent"
BY DEF Sending

LEMMA OtherClickButton ==
    ASSUME PageInv, FollowInv, ToggleMute \/ ToggleBlock \/ Unpin \/ Restore \/ SendReply
    PROVE  FollowInv'
<1>1. PICK op, arg :
         /\ op \in {"mute", "block", "unpin", "restore", "reply"} /\ Sender(op) = view.page
         /\ sending' = sending \cup {Sending(op, arg)}
  <2>1. CASE ToggleMute
    BY <2>1 DEF ToggleMute, Sender, On
  <2>2. CASE ToggleBlock
    BY <2>2 DEF ToggleBlock, Sender, On
  <2>3. CASE Unpin
    BY <2>3 DEF Unpin, Sender, On
  <2>4. CASE Restore
    BY <2>4 DEF Restore, Sender, On
  <2>5. CASE SendReply
    BY <2>5 DEF SendReply, Sender, On
  <2>6. QED
    BY <2>1, <2>2, <2>3, <2>4, <2>5
<1>2. view' = view /\ site' = site
  BY DEF ToggleMute, ToggleBlock, Unpin, Restore, SendReply
<1> DEFINE c == Sending(op, arg)
<1>3. /\ c = [op |-> c.op, name |-> c.name, arg |-> c.arg, state |-> c.state] /\ c.op = op
  BY SendingIs
<1> HIDE DEF c
<1>4. SentOK(view.page, c) /\ c.op \notin FollowOps
  BY <1>1, <1>3 DEF SentOK, FollowOps
<1>5. Flying' = Flying
  BY <1>1, <1>4 DEF Flying, c
<1>6. SameButton /\ (DataTrue => DataTrue') /\ (Sunk => Sunk')
  BY <1>2, SameData DEF SameButton, Sunk
<1>7. QED
  BY <1>1, <1>2, <1>4, <1>5, <1>6, ButtonKept DEF FollowInv, FollowTyped, c

(* A click of the follow button sends c. *)
Clicked(c) ==
    /\ SentOK(view.page, c) /\ c.op \in FollowOps /\ c.name = view.name
    /\ c.arg = (IF Following THEN "no" ELSE "yes") /\ c.state = "sent"
    /\ sending' = sending \cup {c} /\ site' = site /\ ~view.busy
    /\ view.page \in {"hashtag", "profile"}
    /\ view'.page = view.page /\ view'.name = view.name /\ view'.main = view.main
    /\ view'.side = view.side /\ view'.busy = TRUE
    /\ view.page = "hashtag" => view'.override = c.arg
    /\ view.page = "profile" => view'.override = view.override
    /\ view'.astray = view.astray
    /\ ~view'.carried => /\ ~view.carried
                         /\ view.page = "hashtag" => view.override # Nothing \/ TagKnown

LEMMA FollowClickIs ==
    ASSUME PageInv, FollowInv, ToggleFollow \/ Follow
    PROVE  \E c : Clicked(c)
<1> DEFINE arg == YesNo(~Following)
<1>1. view = [f \in ViewFields |-> view[f]]
  BY DEF PageInv, ViewSound
<1>2. arg = (IF Following THEN "no" ELSE "yes")
  BY DEF YesNo
<1>3. CASE ToggleFollow
  <2> DEFINE c == Sending("follow_tag", arg)
  <2>1. /\ c = [op |-> c.op, name |-> c.name, arg |-> c.arg, state |-> c.state]
        /\ c.op = "follow_tag" /\ c.name = view.name /\ c.arg = arg /\ c.state = "sent"
    BY SendingIs
  <2>2. /\ sending' = sending \cup {c} /\ site' = site /\ ~view.busy /\ view.page = "hashtag"
        /\ view' = [view EXCEPT !.busy = TRUE, !.override = arg,
                                !.carried = @ \/ (view.override = Nothing /\ ~TagKnown)]
    BY <1>3 DEF ToggleFollow, On, HashtagView, NotBusy
  <2> HIDE DEF c, arg
  <2>3. /\ view'.page = view.page /\ view'.name = view.name /\ view'.main = view.main
        /\ view'.side = view.side /\ view'.busy = TRUE /\ view'.override = arg
        /\ view'.astray = view.astray
        /\ view'.carried = (view.carried \/ (view.override = Nothing /\ ~TagKnown))
    BY <1>1, <2>2 DEF ViewFields
  <2>4. SentOK(view.page, c) /\ c.op \in FollowOps
    BY <1>2, <2>1, <2>2 DEF SentOK, FollowOps, Sender
  <2>5. QED
    BY <1>2, <2>1, <2>2, <2>3, <2>4 DEF Clicked
<1>4. CASE Follow
  <2> DEFINE c == Sending("follow", arg)
  <2>1. /\ c = [op |-> c.op, name |-> c.name, arg |-> c.arg, state |-> c.state]
        /\ c.op = "follow" /\ c.name = view.name /\ c.arg = arg /\ c.state = "sent"
    BY SendingIs
  <2>2. /\ sending' = sending \cup {c} /\ site' = site /\ view.page = "profile"
        /\ view' = [view EXCEPT !.busy = TRUE] /\ "follow" \in ProfileView
    BY <1>4 DEF Follow, On
  <2>3. ~view.busy
    BY <2>2 DEF ProfileView, NotBusy
  <2> HIDE DEF c, arg
  <2>4. /\ view'.page = view.page /\ view'.name = view.name /\ view'.main = view.main
        /\ view'.side = view.side /\ view'.busy = TRUE /\ view'.override = view.override
        /\ view'.carried = view.carried /\ view'.astray = view.astray
    BY <1>1, <2>2 DEF ViewFields
  <2>5. SentOK(view.page, c) /\ c.op \in FollowOps
    BY <1>2, <2>1, <2>2 DEF SentOK, FollowOps, Sender
  <2>6. QED
    BY <1>2, <2>1, <2>2, <2>3, <2>4, <2>5 DEF Clicked
<1>5. QED
  BY <1>3, <1>4

LEMMA FollowClickButton ==
    ASSUME PageInv, FollowInv, ToggleFollow \/ Follow
    PROVE  FollowInv'
<1>0. PICK c : Clicked(c)
  BY FollowClickIs
<1>7. Flying = {} /\ Flying' = {c}
  <2>1. Flying = {}
    BY <1>0 DEF Clicked, FollowInv, FollowTyped
  <2>2. QED
    BY <1>0, <2>1 DEF Flying, Clicked
<1>8. FollowTyped'
  BY <1>0, <1>7 DEF Clicked, FollowInv, FollowTyped
<1>9. ASSUME ~view'.carried, ~view'.astray, ~Sunk'
      PROVE  FlyingTrue(c)' /\ (Unstored' => ButtonTrue')
  <2>1. Unstored /\ ~view.carried /\ ButtonTrue
    BY <1>0, <1>7, <1>9 DEF Clicked, FollowInv, FollowTrue, Unstored, Sunk
  <2>2. InFollows' <=> InFollows
    BY <1>0 DEF Clicked, InFollows
  <2>3. CASE view.page = "hashtag"
    <3>1. Following <=> InFollows
      <4>1. CASE view.override # Nothing
        BY <2>1, <4>1 DEF Following, ButtonTrue
      <4>2. CASE view.override = Nothing
        <5>1. TagKnown
          BY <1>0, <1>9, <2>3, <4>2 DEF Clicked
        <5>2. SideTrue(view.side, site.follows)
          BY <2>1, <2>3, <4>2 DEF ButtonTrue, DataTrue
        <5>3. /\ Shown(view.side) /\ view.side.request = Quiet
              /\ ~view.side.failed /\ view.side.value # <<>>
          BY <5>1 DEF TagKnown, Shown, Loading, Throws
        <5>4. Value(view.side).of = view.name
          <6>1. Entries(view.side) /\ Follows(view.side, view.name)
            BY <2>3 DEF PageInv, ViewSound, TwoLists
          <6>2. QED
            BY <5>3, <6>1 DEF Follows, Quiet
        <5>5. QED
          BY <2>3, <4>2, <5>2, <5>3, <5>4 DEF SideTrue, Following, On, InFollows
      <4>3. QED
        BY <4>1, <4>2
    <3>2. c.arg = "no" <=> InFollows
      BY <1>0, <3>1 DEF Clicked
    <3>3. FlyingTrue(c)'
      BY <1>0, <2>2, <2>3, <3>2 DEF Clicked, FlyingTrue
    <3>4. ~Unstored'
      BY <1>0, <1>7, <2>3 DEF Clicked, Unstored
    <3>5. QED
      BY <3>3, <3>4
  <2>4. CASE view.page # "hashtag"
    <3>1. FlyingTrue(c)'
      BY <1>0, <2>4 DEF Clicked, FlyingTrue
    <3>2. DataTrue => DataTrue'
      BY <1>0, SameData DEF Clicked
    <3>3. ButtonTrue'
      BY <1>0, <2>1, <2>2, <2>4, <3>2 DEF Clicked, ButtonTrue
    <3>4. QED
      BY <3>1, <3>3
  <2>5. QED
    BY <2>3, <2>4
<1>10. FollowTrue'
  BY <1>7, <1>9 DEF FollowTrue
<1>11. QED
  BY <1>8, <1>10 DEF FollowInv

(* An answer takes its request out. *)
LEMMA SendingTaken ==
    ASSUME FollowInv, NEW c \in sending, sending' = sending \ {c}
    PROVE  /\ \A d \in sending' : SentOK(view.page, d)
           /\ c.op \in FollowOps => Flying = {c} /\ Flying' = {}
           /\ c.op \notin FollowOps => Flying' = Flying
<1>1. c.op \in FollowOps => Flying = {c} /\ Flying' = {}
  BY DEF FollowInv, FollowTyped, Flying
<1>2. c.op \notin FollowOps => Flying' = Flying
  BY DEF Flying
<1>3. QED
  BY <1>1, <1>2 DEF FollowInv, FollowTyped

LEMMA OtherAnswerButton ==
    ASSUME PageInv, FollowInv, NEW c \in sending,
           MutedOrBlocked(c) \/ Unpinned(c) \/ Restored(c) \/ AppendDescendant(c)
    PROVE  FollowInv'
<1>1. /\ sending' = sending \ {c} /\ site' = site /\ c.op \notin FollowOps
      /\ c.op \in {"mute", "block", "unpin", "restore", "reply"}
  BY DEF MutedOrBlocked, Unpinned, Restored, AppendDescendant, FollowOps
<1>2. (\A d \in sending' : SentOK(view.page, d)) /\ Flying' = Flying
  BY <1>1, SendingTaken
<1>3. view = [f \in ViewFields |-> view[f]] /\ ResourceOK(view.main)
  BY DEF PageInv, ViewSound, Entries
<1>4. SameButton /\ view'.side = view.side
  <2>1. CASE MutedOrBlocked(c)
    BY <1>3, <2>1 DEF MutedOrBlocked, Refetched, SameButton, ViewFields
  <2>2. CASE Unpinned(c)
    BY <1>3, <2>2 DEF Unpinned, Refetched, SameButton, ViewFields
  <2>3. CASE Restored(c)
    BY <1>3, <2>3 DEF Restored, Refetched, SameButton, ViewFields
  <2>4. CASE AppendDescendant(c)
    <3> DEFINE x == WithReply(Value(view.main))
    <3>1. view' = view \/ view' = [view EXCEPT !.main = Mutate(@, x), !.replyingTo = 0]
      BY <2>4 DEF AppendDescendant
    <3> HIDE DEF x
    <3>2. QED
      BY <1>3, <3>1 DEF SameButton, ViewFields
  <2>5. QED
    BY <2>1, <2>2, <2>3, <2>4
<1>5. \/ view'.main = view.main \/ view'.main = Fetch(view.main, view.name)
      \/ view.page # "profile"
  <2>1. CASE MutedOrBlocked(c)
    BY <1>3, <2>1 DEF MutedOrBlocked, Refetched, ViewFields
  <2>2. CASE Unpinned(c)
    BY <1>3, <2>2 DEF Unpinned, Refetched, ViewFields
  <2>3. CASE Restored(c)
    BY <1>3, <2>3 DEF Restored, Refetched, ViewFields
  <2>4. CASE AppendDescendant(c)
    <3>1. c.op = "reply" /\ view.page = Sender(c.op)
      BY <2>4 DEF AppendDescendant, FollowInv, FollowTyped, SentOK
    <3>2. QED
      BY <3>1 DEF Sender
  <2>5. QED
    BY <2>1, <2>2, <2>3, <2>4
<1>6. DataTrue => DataTrue'
  BY <1>1, <1>3, <1>4, <1>5, FetchedTrue DEF DataTrue, SameButton
<1>7. Sunk => Sunk'
  BY <1>1, <1>4 DEF Sunk, SameButton
<1>8. QED
  BY <1>1, <1>2, <1>4, <1>6, <1>7, ButtonKept DEF FollowInv, FollowTyped

LEMMA FollowAnswerButton ==
    ASSUME PageInv, FollowInv, NEW c \in sending, FollowedTag(c) \/ ProfileFollowed(c)
    PROVE  FollowInv'
<1>1. sending' = sending \ {c} /\ site' = site /\ c.op \in FollowOps
  BY DEF FollowedTag, ProfileFollowed, FollowOps
<1>2. (\A d \in sending' : SentOK(view.page, d)) /\ Flying = {c} /\ Flying' = {}
  BY <1>1, SendingTaken
<1>3. view = [f \in ViewFields |-> view[f]] /\ ResourceOK(view.main)
  BY DEF PageInv, ViewSound, Entries
<1>4. SentOK(view.page, c) /\ c.arg \in {"yes", "no"}
  BY <1>1 DEF FollowInv, FollowTyped, SentOK
<1>5. view.override \in {Nothing, "yes", "no"}
  BY DEF FollowInv, FollowTyped
<1>6. ASSUME view'.page = view.page, view'.name = view.name, view'.busy = FALSE,
             view'.carried = view.carried, view'.astray = view.astray,
             view'.override \in {Nothing, "yes", "no"},
             ~view.carried /\ FlyingTrue(c) /\ (Unstored => ButtonTrue) => ButtonTrue'
      PROVE  FollowInv'
  <2>1. FollowTyped'
    BY <1>1, <1>2, <1>6 DEF FollowInv, FollowTyped
  <2>2. FollowTrue'
    BY <1>1, <1>2, <1>6 DEF FollowInv, FollowTrue, Sunk
  <2>3. QED
    BY <2>1, <2>2 DEF FollowInv
<1>7. CASE FollowedTag(c)
  <2>1. /\ view'.page = view.page /\ view'.name = view.name /\ view'.busy = FALSE
        /\ view'.carried = view.carried /\ view'.astray = view.astray
        /\ view'.override = IF c.state = "ok" THEN view.override ELSE YesNo(c.arg = "no")
    BY <1>3, <1>7 DEF FollowedTag, ViewFields
  <2>2. YesNo(c.arg = "no") = IF c.arg = "no" THEN "yes" ELSE "no"
    BY DEF YesNo
  <2>3. view.page = "hashtag"
    BY <1>4, <1>7 DEF FollowedTag, SentOK, Sender
  <2>4. InFollows' <=> InFollows
    BY <1>1, <2>1 DEF InFollows
  <2>5. ASSUME FlyingTrue(c)
        PROVE  ButtonTrue'
    <3>1. view'.override \in {"yes", "no"} /\ (view'.override = "yes" <=> InFollows)
      BY <1>4, <2>1, <2>2, <2>3, <2>5 DEF FlyingTrue
    <3>2. QED
      BY <2>4, <3>1 DEF ButtonTrue, Nothing
  <2>6. QED
    BY <1>5, <1>6, <2>1, <2>2, <2>5
<1>8. CASE ProfileFollowed(c)
  <2>1. view.page = "profile"
    BY <1>4, <1>8 DEF ProfileFollowed, SentOK, Sender
  <2>2. /\ view'.page = view.page /\ view'.name = view.name /\ view'.busy = FALSE
        /\ view'.carried = view.carried /\ view'.astray = view.astray
        /\ view'.override = IF c.state = "ok" THEN c.arg ELSE view.override
        /\ c.state # "ok" => view'.main = view.main
    BY <1>3, <1>8 DEF ProfileFollowed, Refetched, ViewFields
  <2>3. InFollows' <=> InFollows
    BY <1>1, <2>2 DEF InFollows
  <2>4. ASSUME FlyingTrue(c), Unstored => ButtonTrue
        PROVE  ButtonTrue'
    <3>1. CASE c.state = "ok"
      BY <1>4, <2>2, <2>3, <2>4, <3>1 DEF ButtonTrue, FlyingTrue, Nothing
    <3>2. CASE c.state # "ok"
      <4>1. Unstored
        BY <1>2, <2>1, <3>2 DEF Unstored
      <4>2. DataTrue => DataTrue'
        BY <1>1, <2>1, <2>2, <3>2 DEF DataTrue
      <4>3. QED
        BY <2>2, <2>3, <2>4, <3>2, <4>1, <4>2 DEF ButtonTrue
    <3>3. QED
      BY <3>1, <3>2
  <2>5. QED
    BY <1>4, <1>5, <1>6, <2>2, <2>4
<1>9. QED
  BY <1>7, <1>8

LEMMA StoredIs ==
    ASSUME FollowInv, NEW c \in sending
    PROVE  /\ Stored(c) = [f \in SiteFields |-> Stored(c)[f]]
           /\ c.op \in FollowOps => Stored(c).follows = Marked(site.follows, c)
           /\ c.op \notin FollowOps \cup {"block"} => Stored(c).follows = site.follows
           /\ c.op # "block" => Stored(c).blocks = site.blocks
           /\ c.op = "block" /\ c.arg = "yes" =>
                /\ Stored(c).follows = site.follows \ {c.name}
                /\ Stored(c).blocks = site.blocks \cup {c.name}
<1>1. site = [f \in SiteFields |-> site[f]] /\ SentOK(view.page, c)
  BY DEF FollowInv, FollowTyped
<1>2. CASE c.op \in FollowOps
  BY <1>1, <1>2 DEF Stored, SiteFields, FollowOps
<1>3. CASE c.op = "mute"
  BY <1>1, <1>3 DEF Stored, SiteFields, FollowOps
<1>4. CASE c.op \in {"unpin", "restore"}
  BY <1>1, <1>4 DEF Stored, SiteFields, FollowOps
<1>5. CASE c.op = "reply"
  BY <1>1, <1>5 DEF Stored, SiteFields, FollowOps
<1>6. CASE c.op = "block"
  <2> DEFINE follows == IF c.arg = "yes" THEN site.follows \ {c.name} ELSE site.follows
             blocks == Marked(site.blocks, c)
  <2>1. Stored(c) = [site EXCEPT !.blocks = blocks, !.follows = follows]
    BY <1>6 DEF Stored
  <2>2. c.arg = "yes" => blocks = site.blocks \cup {c.name} /\ follows = site.follows \ {c.name}
    BY DEF Marked
  <2> HIDE DEF follows, blocks
  <2>3. QED
    BY <1>1, <1>6, <2>1, <2>2 DEF SiteFields, FollowOps
<1>7. QED
  BY <1>1, <1>2, <1>3, <1>4, <1>5, <1>6 DEF SentOK, FollowOps

(* The answer d to the request c. *)
ReplyIs(c, d) ==
    /\ d = [op |-> d.op, name |-> d.name, arg |-> d.arg, state |-> d.state]
    /\ d.op = c.op /\ d.name = c.name /\ d.arg = c.arg
    /\ sending' = (sending \ {c}) \cup {d}

LEMMA AnsweredIs ==
    ASSUME FollowInv, NEW c \in sending, NEW state, sending' = AnsweredWith(c, state)
    PROVE  \E d : ReplyIs(c, d) /\ d.state = state
<1> DEFINE d == [c EXCEPT !.state = state]
<1>1. SentOK(view.page, c)
  BY DEF FollowInv, FollowTyped
<1>2. /\ d = [op |-> d.op, name |-> d.name, arg |-> d.arg, state |-> d.state]
      /\ d.op = c.op /\ d.name = c.name /\ d.arg = c.arg /\ d.state = state
  BY <1>1 DEF SentOK
<1>3. sending' = (sending \ {c}) \cup {d}
  BY DEF AnsweredWith
<1> HIDE DEF d
<1>4. QED
  BY <1>2, <1>3 DEF ReplyIs

LEMMA AnswerTyped ==
    ASSUME FollowInv, NEW c \in sending, NEW d, ReplyIs(c, d)
    PROVE  /\ \A e \in sending' : SentOK(view.page, e)
           /\ c.op \notin FollowOps => Flying' = Flying
           /\ c.op \in FollowOps => Flying = {c} /\ Flying' = {d}
<1>1. SentOK(view.page, c) /\ SentOK(view.page, d)
  BY DEF FollowInv, FollowTyped, SentOK, ReplyIs
<1>2. \A e \in sending' : SentOK(view.page, e)
  BY <1>1 DEF FollowInv, FollowTyped, ReplyIs
<1>3. c.op \notin FollowOps => Flying' = Flying
  BY DEF ReplyIs, Flying
<1>4. c.op \in FollowOps => Flying = {c} /\ Flying' = {d}
  BY DEF ReplyIs, FollowInv, FollowTyped, Flying
<1>5. QED
  BY <1>2, <1>3, <1>4

LEMMA ServeButton ==
    ASSUME PageInv, FollowInv, BlockTrue, NEW c \in sending, ServeSending(c)
    PROVE  FollowInv'
<1>1. SentOK(view.page, c) /\ site = [f \in SiteFields |-> site[f]]
  BY DEF FollowInv, FollowTyped
<1>2. PICK state :
        /\ sending' = AnsweredWith(c, state)
        /\ \/ ~Forbidden(c) /\ site' = Stored(c) /\ state = "ok"
           \/ Forbidden(c) /\ site' = site
  BY DEF ServeSending
<1>3. PICK d : ReplyIs(c, d) /\ d.state = state
  BY <1>2, AnsweredIs
<1>4. view' = view /\ c.state = "sent"
  BY DEF ServeSending
<1>5. site' = [f \in SiteFields |-> site'[f]]
  BY <1>1, <1>2, StoredIs
<1>6. CASE c.op \notin FollowOps \cup {"block"}
  <2>1. Flying' = Flying /\ \A e \in sending' : SentOK(view.page, e)
    BY <1>3, <1>6, AnswerTyped
  <2>2. site'.follows = site.follows /\ site'.blocks = site.blocks
    BY <1>2, <1>6, StoredIs
  <2>3. SameButton /\ (DataTrue => DataTrue') /\ (Sunk => Sunk')
    BY <1>4, <2>2, SameData DEF SameButton, Sunk
  <2>4. QED
    BY <1>5, <2>1, <2>2, <2>3, ButtonKept
<1>7. CASE c.op = "block"
  <2>1. Flying' = Flying /\ \A e \in sending' : SentOK(view.page, e)
    BY <1>3, <1>7, AnswerTyped DEF FollowOps
  <2>2. FollowTyped'
    BY <1>4, <1>5, <2>1 DEF FollowInv, FollowTyped
  <2>3. view.page = "profile"
    BY <1>1, <1>7 DEF SentOK, Sender
  <2>4. ASSUME ~view.carried, ~view.astray, ~Sunk'
        PROVE  (\A e \in Flying' : FlyingTrue(e)') /\ (Unstored' => ButtonTrue')
    <3>1. /\ site'.follows = site.follows \ {c.name}
          /\ site'.blocks = site.blocks \cup {c.name}
      BY <1>2, <1>7, <2>3, <2>4, StoredIs DEF BlockTrue, Forbidden
    <3>2. c.name # view.name /\ ~Sunk
      BY <1>4, <2>3, <2>4, <3>1 DEF Sunk
    <3>3. InFollows' <=> InFollows
      BY <1>4, <3>1, <3>2 DEF InFollows
    <3>4. Follows(view.main, view.name)
      BY <2>3 DEF PageInv, ViewSound
    <3>5. DataTrue => DataTrue'
      BY <1>4, <2>3, <3>1, <3>2, <3>4 DEF DataTrue, MainTrue, Follows, Quiet
    <3>6. (\A e \in Flying : FlyingTrue(e)) /\ (Unstored => ButtonTrue)
      BY <2>3, <2>4, <3>2 DEF FollowInv, FollowTrue
    <3>7. \A e : FlyingTrue(e) => FlyingTrue(e)'
      BY <1>4, <3>3 DEF FlyingTrue
    <3>8. Unstored' => Unstored
      BY <1>4, <2>1 DEF Unstored
    <3>9. ButtonTrue => ButtonTrue'
      BY <1>4, <3>3, <3>5 DEF ButtonTrue
    <3>10. QED
      BY <2>1, <3>6, <3>7, <3>8, <3>9
  <2>5. FollowTrue'
    BY <1>4, <2>4 DEF FollowTrue
  <2>6. QED
    BY <2>2, <2>5 DEF FollowInv
<1>8. CASE c.op \in FollowOps
  <2>1. Flying = {c} /\ Flying' = {d} /\ \A e \in sending' : SentOK(view.page, e)
    BY <1>3, <1>8, AnswerTyped
  <2>2. FollowTyped'
    BY <1>3, <1>4, <1>5, <1>8, <2>1 DEF FollowInv, FollowTyped
  <2>3. ASSUME ~view.carried, ~view.astray, ~Sunk', view.page \in {"hashtag", "profile"}
        PROVE  FlyingTrue(d)' /\ ~Unstored'
    <3>1. site'.blocks = site.blocks
      BY <1>2, <1>8, StoredIs DEF FollowOps
    <3>2. ~Sunk
      BY <1>4, <2>3, <3>1 DEF Sunk
    <3>3. FlyingTrue(c)
      BY <2>1, <2>3, <3>2 DEF FollowInv, FollowTrue
    <3>4. ~Forbidden(c)
      <4>1. ASSUME Forbidden(c)
            PROVE  view.page = "profile" /\ view.name \in site.blocks
        BY <1>1, <3>3, <4>1 DEF Forbidden, SentOK, Sender, FlyingTrue
      <4>2. QED
        BY <3>2, <4>1 DEF Sunk
    <3>5. d.state = "ok" /\ site'.follows = Marked(site.follows, c)
      BY <1>2, <1>3, <1>8, <3>4, StoredIs
    <3>6. InFollows' <=> d.arg = "yes"
      BY <1>3, <1>4, <3>3, <3>5 DEF InFollows, Marked, FlyingTrue, ReplyIs
    <3>7. FlyingTrue(d)'
      BY <1>3, <1>4, <3>3, <3>5, <3>6 DEF FlyingTrue, ReplyIs
    <3>8. QED
      BY <2>1, <3>5, <3>7 DEF Unstored
  <2>4. FollowTrue'
    BY <1>4, <2>1, <2>3 DEF FollowTrue
  <2>5. QED
    BY <2>2, <2>4 DEF FollowInv
<1>9. QED
  BY <1>6, <1>7, <1>8

LEMMA FailButton ==
    ASSUME PageInv, FollowInv, NEW c \in sending, FailSending(c)
    PROVE  FollowInv'
<1>1. PICK d : ReplyIs(c, d) /\ d.state = "failed"
  BY AnsweredIs DEF FailSending
<1>2. /\ view'.page = view.page /\ view'.name = view.name /\ view'.main = view.main
      /\ view'.side = view.side /\ view'.busy = view.busy /\ view'.override = view.override
      /\ view'.carried = view.carried
      /\ ~view'.astray => ~view.astray /\ ~(c.state = "ok" /\ c.op \in FollowOps)
  BY DEF FailSending, FollowOps, PageInv, ViewSound, ViewFields
<1>3. site' = site /\ c.state # "failed" /\ SentOK(view.page, c)
  BY DEF FailSending, FollowInv, FollowTyped
<1>4. SameButton /\ (DataTrue => DataTrue') /\ (Sunk => Sunk') /\ (Sunk' => Sunk)
  BY <1>2, <1>3, SameData DEF SameButton, Sunk
<1>5. CASE c.op \notin FollowOps
  BY <1>1, <1>3, <1>4, <1>5, AnswerTyped, ButtonKept DEF FollowInv, FollowTyped
<1>6. CASE c.op \in FollowOps
  <2>1. Flying = {c} /\ Flying' = {d} /\ \A e \in sending' : SentOK(view.page, e)
    BY <1>1, <1>6, AnswerTyped
  <2>2. FollowTyped'
    BY <1>1, <1>2, <1>3, <1>6, <2>1 DEF FollowInv, FollowTyped
  <2>3. ASSUME ~view'.carried, ~view'.astray, ~Sunk', view.page \in {"hashtag", "profile"}
        PROVE  FlyingTrue(d)' /\ (Unstored' => ButtonTrue')
    <3>1. FlyingTrue(c) /\ (Unstored => ButtonTrue) /\ c.state # "ok"
      BY <1>2, <1>4, <1>6, <2>1, <2>3 DEF FollowInv, FollowTrue
    <3>2. InFollows' <=> InFollows
      BY <1>2, <1>3 DEF InFollows
    <3>3. FlyingTrue(d)'
      BY <1>1, <1>2, <3>1, <3>2 DEF FlyingTrue, ReplyIs
    <3>4. Unstored' => Unstored
      BY <1>1, <1>2, <2>1, <3>1 DEF Unstored
    <3>5. ButtonTrue => ButtonTrue'
      BY <1>2, <1>4, <3>2 DEF ButtonTrue
    <3>6. QED
      BY <3>1, <3>3, <3>4, <3>5
  <2>4. FollowTrue'
    BY <1>2, <2>1, <2>3 DEF FollowTrue
  <2>5. QED
    BY <2>2, <2>4 DEF FollowInv
<1>7. QED
  BY <1>5, <1>6

-----------------------------------------------------------------------------
(* Blocks: the page of somebody blocked is loaded again, and not found. *)

LEMMA FetchedGone ==
    ASSUME NEW r, ResourceOK(r), Unblocked(r), NEW n
    PROVE  Unblocked(Fetch(r, n)) /\ Gone(Fetch(r, n))
<1> DEFINE f == Fetch(r, n)
<1>1. f.request[1] = "asked" /\ f.value = r.value
  <2>1. f.request = <<"asked", n>> /\ f.value = r.value
    BY Fetched
  <2> HIDE DEF f
  <2>2. QED
    BY <2>1
<1> HIDE DEF f
<1>2. Unblocked(f) /\ Gone(f)
  BY <1>1 DEF Unblocked, Gone, Value
<1>3. QED
  BY <1>2 DEF f

LEMMA RefusedGone ==
    ASSUME NEW r, ResourceOK(r), Unblocked(r)
    PROVE  Unblocked(Refuse(r)) /\ Gone(Refuse(r))
<1> DEFINE f == Refuse(r)
<1>1. f.request[1] = "refused" /\ f.value = r.value
  <2>1. f.request = <<"refused">> /\ f.value = r.value
    BY Responded
  <2> HIDE DEF f
  <2>2. QED
    BY <2>1
<1> HIDE DEF f
<1>2. Unblocked(f) /\ Gone(f)
  BY <1>1 DEF Unblocked, Gone, Value
<1>3. QED
  BY <1>2 DEF f

LEMMA LandedGone ==
    ASSUME NEW r, ResourceOK(r), Answered(r), Unblocked(r)
    PROVE  Unblocked(Land(r)) /\ (Gone(r) => Gone(Land(r)))
<1> DEFINE l == Land(r)
<1>1. l.request = Quiet /\ l.request[1] # "served"
  <2>1. l.request = Quiet
    BY Landed
  <2> HIDE DEF l
  <2>2. QED
    BY <2>1 DEF Quiet
<1>2. CASE r.request[1] = "served"
  <2>1. l.value = <<r.request[2]>>
    BY <1>2, Landed
  <2> HIDE DEF l
  <2>2. Unblocked(l)
    BY <1>1, <1>2, <2>1 DEF Unblocked, Value
  <2>3. ~Gone(r)
    BY <1>2 DEF Gone, Quiet
  <2>4. QED
    BY <2>2, <2>3 DEF l
<1>3. CASE r.request[1] # "served"
  <2>1. l.failed = TRUE /\ l.value = r.value
    BY <1>3, Landed
  <2> HIDE DEF l
  <2>2. Unblocked(l) /\ Gone(l)
    BY <1>1, <2>1 DEF Unblocked, Gone, Value
  <2>3. QED
    BY <2>2 DEF l
<1>4. QED
  BY <1>2, <1>3

LEMMA ServedOpen ==
    ASSUME NEW r, ResourceOK(r), Unblocked(r), NEW n, NEW d, ~d.block
    PROVE  Unblocked(Answer(r, Of(n, d)))
<1> DEFINE e == Of(n, d)
           a == Answer(r, e)
<1>1. e.data = d
  BY DEF Of
<1> HIDE DEF e
<1>2. a.request = <<"served", e>> /\ a.value = r.value
  BY Responded
<1> HIDE DEF a
<1>3. Unblocked(a)
  BY <1>1, <1>2 DEF Unblocked, Value
<1>4. QED
  BY <1>3 DEF a, e

(* Steps that at most load the profile again, and send nothing that lifts a block. *)
LEMMA BlockKept ==
    ASSUME PageInv, BlockTrue, view'.page = view.page, ~view'.astray => ~view.astray,
           site' = site,
           \/ view'.main = view.main /\ view'.name = view.name /\ sending \subseteq sending'
           \/ \E n : view'.main = Fetch(view.main, n),
           ~view'.astray => \A c \in sending' : c \in sending \/ c.op # "block" \/ c.arg = "yes"
    PROVE  BlockTrue'
<1> SUFFICES ASSUME ~view'.astray, view.page = "profile"
             PROVE  /\ Unblocked(view'.main)
                    /\ \A c \in sending' : c.op = "block" => c.arg = "yes"
                    /\ Sunk' => Blocking' \/ Gone(view'.main)
  BY DEF BlockTrue
<1>1. /\ Unblocked(view.main) /\ \A c \in sending : c.op = "block" => c.arg = "yes"
      /\ Sunk => Blocking \/ Gone(view.main)
  BY DEF BlockTrue
<1>2. CASE view'.main = view.main /\ view'.name = view.name /\ sending \subseteq sending'
  BY <1>1, <1>2 DEF Sunk, Blocking
<1>3. CASE \E n : view'.main = Fetch(view.main, n)
  BY <1>1, <1>3, FetchedGone DEF PageInv, ViewSound, Entries
<1>4. QED
  BY <1>2, <1>3

LEMMA LoadBlock ==
    ASSUME PageInv, BlockTrue, MainLands \/ ServeMain
    PROVE  BlockTrue'
<1>1. /\ site' = site /\ sending' = sending /\ view = [f \in ViewFields |-> view[f]]
      /\ ResourceOK(view.main)
  BY DEF MainLands, ServeMain, PageInv, ViewSound, Entries
<1>2. CASE MainLands
  <2> DEFINE v == [view EXCEPT !.main = Land(@)]
             pin == IF Value(v.main).data.pin THEN Value(v.main).of ELSE Nothing
  <2>1. /\ v = [f \in ViewFields |-> v[f]] /\ v.page = view.page /\ v.name = view.name
        /\ v.main = Land(view.main) /\ v.astray = view.astray
    BY <1>1 DEF ViewFields
  <2>2. \/ view' = v \/ view' = [v EXCEPT !.pin = pin, !.pinned = SourceGone(@)]
        \/ view' = [v EXCEPT !.pin = pin, !.pinned = Fetch(@, pin)]
    BY <1>2 DEF MainLands, PinSource
  <2> HIDE DEF v, pin
  <2>3. /\ view'.page = view.page /\ view'.name = view.name /\ view'.main = Land(view.main)
        /\ view'.astray = view.astray
    BY <2>1, <2>2 DEF ViewFields
  <2>4. QED
    BY <1>1, <1>2, <2>3, LandedGone DEF BlockTrue, Sunk, Blocking, MainLands
<1>3. CASE ServeMain
  <2> SUFFICES ASSUME ~view'.astray, view'.page = "profile"
               PROVE  /\ Unblocked(view'.main)
                      /\ \A c \in sending' : c.op = "block" => c.arg = "yes"
                      /\ Sunk' => Blocking' \/ Gone(view'.main)
    BY DEF BlockTrue
  <2> DEFINE n == KeyOf(view.main)
             d == MainData("profile", n)
  <2>1. /\ view'.page = view.page /\ view'.name = view.name /\ ~view.astray
        /\ Pending(view.main)
        /\ \/ view'.main = Refuse(view.main)
           \/ ~Barred(n) /\ view'.main = Answer(view.main, Of(n, d))
    <3>1. view'.page = view.page /\ view'.name = view.name /\ (~view'.astray => ~view.astray)
      BY <1>1, <1>3 DEF ServeMain, ViewFields
    <3>2. view.page = "profile" /\ Pending(view.main)
      BY <1>3, <3>1 DEF ServeMain
    <3>3. \/ view' = [view EXCEPT !.main = IF Barred(n) THEN Refuse(@) ELSE Answer(@, Of(n, d))]
          \/ view' = [view EXCEPT !.main = Refuse(@)]
      <4>1. ASSUME NEW data, view' = [view EXCEPT !.main = Answer(@, Of(n, data)), !.astray = TRUE]
            PROVE  FALSE
        BY <1>1, <4>1 DEF ViewFields
      <4>2. QED
        BY <1>3, <3>2, <4>1 DEF ServeMain, On
    <3> HIDE DEF n, d
    <3>4. view'.main = (IF Barred(n) THEN Refuse(view.main) ELSE Answer(view.main, Of(n, d)))
          \/ view'.main = Refuse(view.main)
      BY <1>1, <3>3 DEF ViewFields
    <3>5. QED
      BY <3>1, <3>2, <3>4
  <2>2. view.page = "profile" /\ (d.block <=> n \in site.blocks)
    BY <2>1 DEF MainData
  <2>3. n = view.name
    <3>1. Follows(view.main, view.name)
      BY <2>2 DEF PageInv, ViewSound
    <3>2. QED
      BY <2>1, <3>1 DEF Follows, Pending, KeyOf, Quiet
  <2> HIDE DEF d, n
  <2>4. Unblocked(view.main) /\ (Sunk => Barred(n))
    BY <2>1, <2>2, <2>3 DEF BlockTrue, Sunk, Barred, On
  <2>5. ~Barred(n) => ~d.block
    BY <2>2 DEF Barred, On
  <2>6. Sunk' => Sunk
    BY <1>1, <2>1, <2>2 DEF Sunk
  <2>7. CASE view'.main = Refuse(view.main)
    BY <1>1, <2>1, <2>2, <2>4, <2>7, RefusedGone DEF BlockTrue
  <2>8. CASE ~Barred(n) /\ view'.main = Answer(view.main, Of(n, d))
    BY <1>1, <2>1, <2>2, <2>4, <2>5, <2>6, <2>8, ServedOpen DEF BlockTrue
  <2>9. QED
    BY <2>1, <2>7, <2>8
<1>4. QED
  BY <1>2, <1>3

LEMMA RefetchedIs ==
    ASSUME NEW v, v = [f \in ViewFields |-> v[f]]
    PROVE  /\ Refetched(v) = [f \in ViewFields |-> Refetched(v)[f]]
           /\ Refetched(v).page = v.page /\ Refetched(v).astray = v.astray
           /\ Refetched(v).name = v.name /\ Refetched(v).main = Fetch(v.main, v.name)
BY DEF Refetched, ViewFields

LEMMA PlainBlock ==
    ASSUME PageInv, FollowTyped, BlockTrue,
           \/ OnInput \/ Debounced \/ SearchRoute \/ SideLands \/ PinnedLands
           \/ ServeSide \/ ServePinned \/ ToggleFollow \/ Follow \/ ToggleMute \/ ToggleBlock
           \/ Unpin \/ Restore \/ Reply \/ SendReply
    PROVE  BlockTrue'
<1>1. view = [f \in ViewFields |-> view[f]]
  BY DEF PageInv, ViewSound
<1>2. CASE OnInput \/ SideLands \/ PinnedLands \/ ServeSide \/ ServePinned \/ Reply
  <2>1. /\ view'.page = view.page /\ view'.name = view.name /\ view'.main = view.main
        /\ view'.astray = view.astray /\ site' = site /\ sending' = sending
    BY <1>1, <1>2 DEF OnInput, SideLands, PinnedLands, ServeSide, ServePinned, Reply, ViewFields
  <2>2. QED
    BY <2>1, BlockKept
<1>3. CASE Debounced \/ SearchRoute
  <2>1. view'.page = "search"
    BY <1>1, <1>3 DEF Debounced, SearchRoute, SearchGo, On, ViewFields
  <2>2. QED
    BY <2>1 DEF BlockTrue
<1>4. CASE \/ ToggleFollow \/ Follow \/ ToggleMute \/ ToggleBlock
           \/ Unpin \/ Restore \/ SendReply
  <2>1. PICK op, arg :
          /\ sending' = sending \cup {Sending(op, arg)}
          /\ op = "block" => /\ ToggleBlock /\ arg = YesNo(~Value(view.main).data.block)
    BY <1>4 DEF ToggleFollow, Follow, ToggleMute, ToggleBlock, Unpin, Restore, SendReply
  <2> DEFINE c == Sending(op, arg)
  <2>2. c.op = op /\ c.arg = arg
    BY SendingIs
  <2> HIDE DEF c
  <2>3. /\ view'.page = view.page /\ view'.name = view.name /\ view'.main = view.main
        /\ view'.astray = view.astray /\ site' = site
    BY <1>1, <1>4 DEF ToggleFollow, Follow, ToggleMute, ToggleBlock, Unpin, Restore, SendReply,
       ViewFields
  <2>4. ASSUME op = "block", ~view.astray
        PROVE  arg = "yes"
    <3>1. view.page = "profile" /\ view.main.value # <<>>
      BY <2>1, <2>4 DEF ToggleBlock, On, ProfileView, Shown
    <3>2. ~Value(view.main).data.block
      BY <2>4, <3>1 DEF BlockTrue, Unblocked
    <3>3. QED
      BY <2>1, <2>4, <3>2 DEF YesNo
  <2>5. QED
    BY <2>1, <2>2, <2>3, <2>4, BlockKept DEF c
<1>5. QED
  BY <1>2, <1>3, <1>4

LEMMA GoBlock ==
    ASSUME PageInv, BlockTrue, Navigate \/ CardChanged
    PROVE  BlockTrue'
<1>1. /\ view = [f \in ViewFields |-> view[f]] /\ site' = site /\ sending' = sending
  BY DEF PageInv, ViewSound, Navigate, CardChanged
<1>2. CASE CardChanged
  <2>1. view'.page # "profile"
    BY <1>1, <1>2, RefetchedIs DEF CardChanged, On
  <2>2. QED
    BY <2>1 DEF BlockTrue
<1>3. CASE Navigate
  <2>1. PICK n \in Names \ {view.name} :
          view' = [Go(view, n) EXCEPT
                     !.carried = @ \/ view.busy \/ (On("hashtag") /\ view.override # Nothing)]
    BY <1>3 DEF Navigate
  <2> DEFINE w == Go(view, n)
  <2>2. CASE view.page = "profile"
    <3>1. /\ w = [f \in ViewFields |-> w[f]] /\ w.page = view.page
          /\ w.astray = view.astray /\ w.main = Fetch(view.main, n)
      BY <1>1, <2>2 DEF Go, ProfileGo, ViewFields
    <3> HIDE DEF w
    <3>2. /\ view'.page = view.page /\ view'.astray = view.astray
          /\ view'.main = Fetch(view.main, n)
      BY <2>1, <3>1 DEF ViewFields, w
    <3>3. QED
      BY <1>1, <3>2, BlockKept
  <2>3. CASE view.page # "profile"
    <3>1. w = [f \in ViewFields |-> w[f]] /\ w.page = view.page
      <4>1. CASE view.page \in {"hashtag", "trending"}
        BY <1>1, <4>1 DEF Go, HashtagGo, TrendingGo, ViewFields
      <4>2. CASE view.page \in {"followers", "activity", "post"}
        BY <1>1, <4>2 DEF Go, FollowListGo, ActivityGo, PostGo, ViewFields
      <4>3. QED
        BY <1>3, <2>3, <4>1, <4>2 DEF PageInv, ViewSound, PageKinds, Navigate
    <3> HIDE DEF w
    <3>2. view'.page = view.page
      BY <2>1, <3>1 DEF ViewFields, w
    <3>3. QED
      BY <2>3, <3>2 DEF BlockTrue
  <2>4. QED
    BY <2>2, <2>3
<1>4. QED
  BY <1>2, <1>3

LEMMA AnswerBlock ==
    ASSUME PageInv, FollowTyped, BlockTrue, NEW c \in sending,
           \/ FollowedTag(c) \/ ProfileFollowed(c) \/ MutedOrBlocked(c) \/ Unpinned(c)
           \/ Restored(c) \/ AppendDescendant(c)
    PROVE  BlockTrue'
<1>1. view = [f \in ViewFields |-> view[f]]
  BY DEF PageInv, ViewSound
<1>2. site' = site /\ sending' = sending \ {c} /\ SentOK(view.page, c)
  BY DEF FollowedTag, ProfileFollowed, MutedOrBlocked, Unpinned, Restored, AppendDescendant,
     FollowTyped
<1>3. CASE FollowedTag(c) \/ Restored(c) \/ AppendDescendant(c)
  <2>1. view.page \in {"hashtag", "trash", "post"}
    BY <1>2, <1>3 DEF FollowedTag, Restored, AppendDescendant, SentOK, Sender
  <2>2. view'.page = view.page
    <3>1. CASE FollowedTag(c)
      BY <1>1, <3>1 DEF FollowedTag, ViewFields
    <3>2. CASE Restored(c)
      BY <1>1, <3>2, RefetchedIs DEF Restored
    <3>3. CASE AppendDescendant(c)
      BY <1>1, <3>3 DEF AppendDescendant, ViewFields
    <3>4. QED
      BY <1>3, <3>1, <3>2, <3>3
  <2>3. QED
    BY <2>1, <2>2 DEF BlockTrue
<1>4. CASE ProfileFollowed(c) \/ MutedOrBlocked(c) \/ Unpinned(c)
  <2>1. /\ view'.page = view.page /\ view'.astray = view.astray
        /\ \/ view'.main = Fetch(view.main, view.name)
           \/ /\ view'.main = view.main /\ view'.name = view.name
              /\ ~(c.op = "block" /\ c.state = "ok")
    <3>1. CASE ProfileFollowed(c)
      <4> DEFINE v == [view EXCEPT !.busy = FALSE, !.override = c.arg]
      <4>1. /\ v = [f \in ViewFields |-> v[f]] /\ v.page = view.page /\ v.astray = view.astray
            /\ v.main = view.main /\ v.name = view.name
        BY <1>1 DEF ViewFields
      <4>2. view' = Refetched(v) \/ view' = [view EXCEPT !.busy = FALSE]
        BY <3>1 DEF ProfileFollowed
      <4> HIDE DEF v
      <4>3. QED
        BY <1>1, <3>1, <4>1, <4>2, RefetchedIs DEF ProfileFollowed, ViewFields
    <3>2. CASE MutedOrBlocked(c)
      BY <1>1, <3>2, RefetchedIs DEF MutedOrBlocked
    <3>3. CASE Unpinned(c)
      <4> DEFINE v == Refetched(view)
                 pinned == IF view.pin = Nothing THEN v.pinned ELSE Fetch(v.pinned, view.pin)
      <4>1. view' = [v EXCEPT !.pinned = pinned] \/ view' = view
        BY <3>3 DEF Unpinned
      <4>2. /\ v = [f \in ViewFields |-> v[f]] /\ v.page = view.page /\ v.astray = view.astray
            /\ v.name = view.name /\ v.main = Fetch(view.main, view.name)
        BY <1>1, RefetchedIs
      <4> HIDE DEF v, pinned
      <4>3. QED
        BY <1>1, <3>3, <4>1, <4>2 DEF Unpinned, ViewFields
    <3>4. QED
      BY <1>4, <3>1, <3>2, <3>3
  <2>2. CASE view'.main = Fetch(view.main, view.name)
    BY <1>2, <2>1, <2>2, BlockKept
  <2>3. CASE /\ view'.main = view.main /\ view'.name = view.name
             /\ ~(c.op = "block" /\ c.state = "ok")
    <3>1. Blocking => Blocking'
      BY <1>2, <2>3 DEF Blocking
    <3>2. (Sunk' <=> Sunk) /\ sending' \subseteq sending
      BY <1>2, <2>1, <2>3 DEF Sunk
    <3>3. QED
      BY <2>1, <2>3, <3>1, <3>2 DEF BlockTrue
  <2>4. QED
    BY <2>1, <2>2, <2>3
<1>5. QED
  BY <1>3, <1>4

LEMMA ServeBlock ==
    ASSUME PageInv, FollowInv, BlockTrue, NEW c \in sending, ServeSending(c) \/ FailSending(c)
    PROVE  BlockTrue'
<1>1. view = [f \in ViewFields |-> view[f]]
  BY DEF PageInv, ViewSound
<1>2. PICK state : /\ sending' = AnsweredWith(c, state)
                   /\ \/ ServeSending(c) /\ site' = Stored(c) /\ state = "ok"
                      \/ ServeSending(c) /\ c.op = "follow" /\ site' = site
                      \/ FailSending(c) /\ site' = site
  BY DEF ServeSending, FailSending, Forbidden
<1>3. PICK d : ReplyIs(c, d) /\ d.state = state
  BY <1>2, AnsweredIs
<1>4. /\ view'.page = view.page /\ view'.name = view.name /\ view'.main = view.main
      /\ ~view'.astray => ~view.astray
      /\ ~view'.astray => ~(c.op = "block" /\ c.state = "ok")
  BY <1>1 DEF ServeSending, FailSending, ViewFields
<1> SUFFICES ASSUME ~view'.astray, view.page = "profile"
             PROVE  /\ \A e \in sending' : e.op = "block" => e.arg = "yes"
                    /\ Sunk' => Blocking' \/ Gone(view.main)
  BY <1>4 DEF BlockTrue
<1>5. \A e \in sending' : e.op = "block" => e.arg = "yes"
  BY <1>3, <1>4 DEF BlockTrue, ReplyIs
<1>6. Blocking => Blocking'
  BY <1>3, <1>4 DEF Blocking, ReplyIs
<1>7. CASE c.op = "block" /\ state = "ok"
  <2>1. d \in sending' /\ d.op = "block" /\ d.state = "ok"
    BY <1>3, <1>7 DEF ReplyIs
  <2>2. QED
    BY <1>5, <2>1 DEF Blocking
<1>8. CASE ~(c.op = "block" /\ state = "ok")
  <2>1. site'.blocks = site.blocks
    BY <1>2, <1>8, StoredIs
  <2>2. QED
    BY <1>4, <1>5, <1>6, <2>1 DEF Sunk, BlockTrue
<1>9. QED
  BY <1>5, <1>7, <1>8

LEMMA BlockStep == PageInv /\ FollowInv /\ BlockTrue /\ [PagesNext]_pagesVars => BlockTrue'
<1> SUFFICES ASSUME PageInv, FollowInv, BlockTrue, [PagesNext]_pagesVars
             PROVE  BlockTrue'
  OBVIOUS
<1>1. CASE UNCHANGED pagesVars
  BY <1>1, BlockKept DEF pagesVars
<1>2. CASE PagesNext
  BY <1>2, LoadBlock, PlainBlock, GoBlock, AnswerBlock, ServeBlock DEF PagesNext, FollowInv
<1>3. QED
  BY <1>1, <1>2

-----------------------------------------------------------------------------
LEMMA FollowStep == PageInv /\ FollowInv /\ BlockTrue /\ [PagesNext]_pagesVars => FollowInv'
<1> SUFFICES ASSUME PageInv, FollowInv, BlockTrue, [PagesNext]_pagesVars
             PROVE  FollowInv'
  OBVIOUS
<1>1. CASE UNCHANGED pagesVars
  <2>1. view' = view /\ site' = site /\ sending' = sending
    BY <1>1 DEF pagesVars
  <2>2. SameButton /\ (DataTrue => DataTrue')
    BY <2>1, SameData DEF SameButton
  <2>3. QED
    BY <2>1, <2>2, PageKept
<1>2. CASE PagesNext
  BY <1>2, NavigateButton, AsideButton, LoadButton, FollowClickButton, OtherClickButton,
     OtherAnswerButton, FollowAnswerButton, ServeButton, FailButton DEF PagesNext
<1>3. QED
  BY <1>1, <1>2

LEMMA ButtonSaysFollowed == PageInv /\ FollowInv /\ BlockTrue => FollowButtonTruth
<1> SUFFICES ASSUME PageInv, FollowInv, BlockTrue, FollowKnown, sending = {},
                    ~view.carried, ~view.astray
             PROVE  Following <=> InFollows
  BY DEF FollowButtonTruth, InFollows
<1>1. view.page \in {"hashtag", "profile"} /\ Flying = {} /\ ~Blocking
  BY DEF FollowKnown, On, Flying, Blocking
<1>2. ButtonTrue
  <2>1. CASE view.page = "profile"
    <3>1. Shown(view.main) /\ ~Loading(view.main)
      BY <2>1 DEF FollowKnown, On
    <3>2. ~Gone(view.main)
      BY <3>1 DEF Gone, Shown, Loading, Throws, Quiet
    <3>3. ~Sunk
      BY <1>1, <2>1, <3>2 DEF BlockTrue
    <3>4. QED
      BY <1>1, <3>3 DEF FollowInv, FollowTrue, Unstored
  <2>2. CASE view.page # "profile"
    BY <1>1, <2>2 DEF FollowInv, FollowTrue, Unstored, Sunk
  <2>3. QED
    BY <2>1, <2>2
<1>3. CASE view.override # Nothing
  BY <1>2, <1>3 DEF ButtonTrue, Following
<1>4. CASE view.override = Nothing
  <2>1. ASSUME NEW r, Entries(r), Follows(r, view.name), Shown(r), ~Loading(r)
        PROVE  r.request = Quiet /\ ~r.failed /\ r.value # <<>> /\ Value(r).of = view.name
    BY <2>1 DEF Follows, Shown, Loading, Throws, Quiet
  <2>2. CASE On("hashtag")
    <3>1. /\ Shown(view.side) /\ ~Loading(view.side)
          /\ Entries(view.side) /\ Follows(view.side, view.name)
      BY <2>2 DEF FollowKnown, TagKnown, On, PageInv, ViewSound, TwoLists
    <3>2. SideTrue(view.side, site.follows)
      BY <1>2, <1>4, <2>2 DEF ButtonTrue, DataTrue, On
    <3>3. QED
      BY <1>4, <2>1, <2>2, <3>1, <3>2 DEF SideTrue, Following, InFollows
  <2>3. CASE ~On("hashtag")
    <3>1. view.page = "profile" /\ Shown(view.main) /\ ~Loading(view.main)
      BY <2>3 DEF FollowKnown, On
    <3>2. Entries(view.main) /\ Follows(view.main, view.name)
      BY <3>1 DEF PageInv, ViewSound
    <3>3. MainTrue(view.main, site.follows)
      BY <1>2, <1>4, <3>1 DEF ButtonTrue, DataTrue
    <3>4. QED
      BY <1>4, <2>1, <2>3, <3>1, <3>2, <3>3 DEF MainTrue, Following, InFollows
  <2>4. QED
    BY <2>2, <2>3
<1>5. QED
  BY <1>3, <1>4

\* Once the answers are in, a follow button says what the server has, for any names and any
\* order of clicks, blocks, failures and refetches, where nothing was clicked under another name
\* or before the state was known, no follow or block that took effect was told to have failed,
\* and no profile came without its flags.
\* [Profile 68-97, Hashtag 23-40; users.rs 524-537, 825-875, relations.rs 36-62]
THEOREM FollowButtonsTrue == PagesSpec => []FollowButtonTruth
<1>1. PagesInit => FollowInv /\ BlockTrue
  <2>1. ASSUME NEW page, NEW n, NEW follows, PagesOpened(page, n, follows)
        PROVE  FollowInv /\ BlockTrue
    <3>1. /\ site.blocks = {}
          /\ view.page = page /\ view.override = Nothing /\ view.busy = FALSE /\ sending = {}
          /\ site = [f \in SiteFields |-> site[f]]
          /\ page \in {"hashtag", "profile"} => view.side = Fetch(Unresolved, n)
          /\ view.main \in {Unresolved, Fetch(Unresolved, n)}
      BY <2>1 DEF PagesOpened, PageOpened, SiteFields
    <3>2. FollowTyped
      BY <3>1 DEF FollowTyped, Flying
    <3>3. MainTrue(Unresolved, site.follows)
      BY Unresolves DEF MainTrue, Quiet
    <3>4. DataTrue
      BY <3>1, <3>3, FetchedTrue, Unresolves DEF DataTrue
    <3>5. Unblocked(Unresolved)
      BY Unresolves DEF Unblocked, Quiet
    <3>6. Unblocked(view.main)
      BY <3>1, <3>5, Unresolves, FetchedGone
    <3>7. QED
      BY <3>1, <3>2, <3>4, <3>6 DEF FollowInv, FollowTrue, ButtonTrue, Flying, BlockTrue, Sunk
  <2>2. QED
    BY <2>1 DEF PagesInit
<1>2. PagesInit => PageInv
  BY PagesStartSound
<1>3. QED
  BY <1>1, <1>2, PageStep, FollowStep, BlockStep, ButtonSaysFollowed, PTL DEF PagesSpec

-----------------------------------------------------------------------------
(* A post and its composers: no text is eaten.                              *)

BoxFields == {"open", "text", "extra", "warning", "media", "busy", "uploading", "err", "mentions",
              "lookup"}
CardFields == {"open", "page", "thread", "me", "role", "menu", "reacted", "count", "marked",
               "replies", "busy", "editing", "edited", "past", "versions", "pastErr"}

RequestFields == {"op", "kind", "arg", "state", "alive"}
RequestOK(q) ==
    /\ q = [f \in RequestFields |-> q[f]] /\ q.state \in {"sent", "ok", "failed"}
    /\ q.op \in {"post", "upload"} => q.kind \in Kinds

CardOK(c) == c = [f \in CardFields |-> c[f]] /\ c.page \in {"thread", "timeline"}

PostTyped ==
    /\ CardOK(card)
    /\ boxes = [kind \in Kinds |-> boxes[kind]]
    /\ \A kind \in Kinds : boxes[kind] = [f \in BoxFields |-> boxes[kind][f]]
    /\ typed = [kind \in Kinds |-> typed[kind]] /\ posted = [kind \in Kinds |-> posted[kind]]
    /\ \A q \in sends : RequestOK(q)

(* The text of the open composer is saved; a closed one is empty. *)
DraftKept(box, saved) == IF box.open THEN saved.text = box.text ELSE box.text = NoText

MainPost(q) == q.op = "post" /\ q.kind = "main"

(* A main text that is on its way is still in the composer, which waits for it. *)
OnItsWay(box, q) == q.alive => box.open /\ box.busy /\ q.arg = box.text

SendsTrue(box, there, requests) ==
    /\ \A q \in requests : MainPost(q) => OnItsWay(box, q) /\ (q.state = "ok" => q.arg \in there)
    /\ \A q, r \in requests : MainPost(q) /\ q.alive /\ MainPost(r) /\ r.alive => q = r

TextInv ==
    /\ PostTyped /\ DraftKept(boxes["main"], draft)
    /\ SendsTrue(boxes["main"], posted["main"], sends)
    /\ TextNeverEaten

-----------------------------------------------------------------------------
LEMMA SavedText == \A box : SaveDraft(box).text = box.text
BY DEF SaveDraft, DraftOf, NoDraft

LEMMA CardIs ==
    ASSUME NEW c, CardOK(c)
    PROVE  \A root : CardOK(PropsChanged(c, root)) /\ PropsChanged(c, root).me = c.me
BY DEF PropsChanged, CardOK, CardFields

LEMMA ClosedIs ==
    ASSUME NEW me, NEW role
    PROVE  CardOK(Closed(me, role)) /\ Closed(me, role).me = me
BY DEF Closed, CardOK, CardFields

(* The requests after a step are those before, answered or not, or are no main posts; a copy
   that nobody listens to any more has the state of its original. *)
Descends(requests, later) ==
    \A q \in later :
       /\ RequestOK(q)
       /\ MainPost(q) =>
            \/ q \in requests
            \/ ~q.alive /\ \E r \in requests : MainPost(r) /\ r.state = q.state /\ r.arg = q.arg

LEMMA FewerRequests == PostTyped => \A requests \in SUBSET sends : Descends(sends, requests)
BY DEF Descends, PostTyped

LEMMA WithAnother ==
    ASSUME PostTyped, NEW op, NEW kind, NEW arg, op # "post" \/ kind # "main",
           op \in {"post", "upload"} => kind \in Kinds
    PROVE  Descends(sends, sends \cup {Request(op, kind, arg)})
<1> DEFINE q == Request(op, kind, arg)
<1>1. RequestOK(q) /\ q.op = op /\ q.kind = kind
  BY DEF Request, RequestOK, RequestFields
<1>2. ~MainPost(q)
  BY <1>1 DEF MainPost
<1> HIDE DEF q
<1>3. Descends(sends, sends \cup {q})
  BY <1>1, <1>2 DEF Descends, PostTyped
<1>4. QED
  BY <1>3 DEF q

LEMMA DeafIs ==
    ASSUME NEW q, RequestOK(q)
    PROVE  LET r == [q EXCEPT !.alive = FALSE] IN
           /\ RequestOK(r) /\ ~r.alive /\ r.op = q.op /\ r.kind = q.kind
           /\ r.state = q.state /\ r.arg = q.arg
BY DEF RequestOK, RequestFields

LEMMA SomeDeaf ==
    ASSUME PostTyped, NEW later, NEW some \in SUBSET sends,
           \A q \in later : q \in sends \/ \E r \in some : q = [r EXCEPT !.alive = FALSE]
    PROVE  Descends(sends, later)
<1> SUFFICES ASSUME NEW q \in later
             PROVE  /\ RequestOK(q)
                    /\ MainPost(q) => \/ q \in sends
                                      \/ /\ ~q.alive
                                         /\ \E r \in sends : /\ MainPost(r) /\ r.state = q.state
                                                             /\ r.arg = q.arg
  BY DEF Descends
<1>1. CASE q \in sends
  BY <1>1 DEF PostTyped
<1>2. CASE \E r \in some : q = [r EXCEPT !.alive = FALSE]
  BY <1>2, DeafIs DEF PostTyped, MainPost
<1>3. QED
  BY <1>1, <1>2

LEMMA DescendantsTrue ==
    ASSUME NEW box, NEW there, NEW requests, NEW later,
           SendsTrue(box, there, requests), Descends(requests, later)
    PROVE  SendsTrue(box, there, later)
<1>1. ASSUME NEW q \in later, MainPost(q)
      PROVE  OnItsWay(box, q) /\ (q.state = "ok" => q.arg \in there)
  BY <1>1 DEF SendsTrue, Descends, OnItsWay
<1>2. ASSUME NEW q \in later, NEW r \in later, MainPost(q), q.alive, MainPost(r), r.alive
      PROVE  q = r
  BY <1>2 DEF SendsTrue, Descends
<1>3. QED
  BY <1>1, <1>2 DEF SendsTrue

(* Steps of the card, and those of the server that store no text. *)
CardStays == CardOK(card') /\ (card'.me => card.me)

LEMMA CardSteps ==
    ASSUME TextInv, CardStays, boxes' = boxes, draft' = draft, typed' = typed, posted' = posted,
           Descends(sends, sends')
    PROVE  TextInv'
<1>1. PostTyped'
  BY DEF TextInv, PostTyped, CardStays, Descends
<1>2. SendsTrue(boxes["main"], posted["main"], sends')
  BY DescendantsTrue DEF TextInv
<1>3. TextNeverEaten'
  BY DEF TextInv, TextNeverEaten, CardStays
<1>4. QED
  BY <1>1, <1>2, <1>3 DEF TextInv

BoxOK(box) == box = [f \in BoxFields |-> box[f]]

LEMMA PutIs ==
    ASSUME TextInv, NEW kind \in Kinds, NEW box, BoxOK(box), Put(kind, box),
           kind = "main" /\ ~box.open => box.text = NoText
    PROVE  /\ boxes' = [k \in Kinds |-> boxes'[k]]
           /\ \A k \in Kinds : BoxOK(boxes'[k])
           /\ boxes'["main"] = IF kind = "main" THEN box ELSE boxes["main"]
           /\ draft'.text = IF kind = "main" /\ box.open THEN box.text ELSE draft.text
           /\ DraftKept(boxes'["main"], draft')
<1>1. boxes = [k \in Kinds |-> boxes[k]] /\ \A k \in Kinds : BoxOK(boxes[k])
  BY DEF TextInv, PostTyped, BoxOK
<1>2. /\ boxes' = [boxes EXCEPT ![kind] = box]
      /\ draft' = IF kind = "main" /\ box.open THEN SaveDraft(box) ELSE draft
  BY DEF Put
<1>3. draft'.text = IF kind = "main" /\ box.open THEN box.text ELSE draft.text
  BY <1>2, SavedText
<1>4. /\ boxes' = [k \in Kinds |-> boxes'[k]] /\ \A k \in Kinds : BoxOK(boxes'[k])
      /\ boxes'["main"] = IF kind = "main" THEN box ELSE boxes["main"]
  BY <1>1, <1>2 DEF Kinds
<1>5. DraftKept(boxes'["main"], draft')
  BY <1>3, <1>4 DEF TextInv, DraftKept
<1>6. QED
  BY <1>3, <1>4, <1>5

(* Steps of a composer that change neither its text nor whether it waits. *)
LEMMA BoxSteps ==
    ASSUME TextInv, CardStays, NEW kind \in Kinds, NEW box, BoxOK(box), Put(kind, box),
           box.open = Box(kind).open, box.text = Box(kind).text, box.busy = Box(kind).busy,
           typed' = typed, posted' = posted, Descends(sends, sends')
    PROVE  TextInv'
<1>1. kind = "main" /\ ~box.open => box.text = NoText
  BY DEF TextInv, DraftKept, Box
<1>2. /\ boxes' = [k \in Kinds |-> boxes'[k]]
      /\ \A k \in Kinds : BoxOK(boxes'[k])
      /\ boxes'["main"] = IF kind = "main" THEN box ELSE boxes["main"]
      /\ draft'.text = IF kind = "main" /\ box.open THEN box.text ELSE draft.text
      /\ DraftKept(boxes'["main"], draft')
  BY <1>1, PutIs
<1>3. /\ boxes'["main"].open = boxes["main"].open /\ boxes'["main"].text = boxes["main"].text
      /\ boxes'["main"].busy = boxes["main"].busy
  BY <1>2 DEF Box
<1>4. draft'.text = draft.text
  BY <1>2 DEF Box, TextInv, DraftKept
<1>5. SendsTrue(boxes["main"], posted["main"], sends')
  BY DescendantsTrue DEF TextInv
<1>6. SendsTrue(boxes'["main"], posted'["main"], sends')
  BY <1>3, <1>5 DEF SendsTrue, OnItsWay
<1>7. TextNeverEaten'
  BY <1>3, <1>4 DEF TextInv, TextNeverEaten, CardStays
<1>8. PostTyped'
  BY <1>2 DEF TextInv, PostTyped, CardStays, Descends, BoxOK
<1>9. QED
  BY <1>2, <1>6, <1>7, <1>8 DEF TextInv

(* Posting from a composer that is not busy. *)
LEMMA SendStep ==
    ASSUME TextInv, NEW kind \in Kinds, Submit(kind) \/ OnKeyDown(kind)
    PROVE  TextInv'
<1> DEFINE box == Submitting(Box(kind))
           q == Request("post", kind, Box(kind).text)
<1>1. /\ Put(kind, box) /\ Box(kind).open /\ ~Box(kind).busy /\ sends' = sends \cup {q}
      /\ card' = card /\ typed' = typed /\ posted' = posted
  BY DEF Submit, OnKeyDown, ComposeView
<1>2. BoxOK(Box(kind))
  BY DEF TextInv, PostTyped, BoxOK, Box
<1>3. BoxOK(box) /\ box.open = Box(kind).open /\ box.text = Box(kind).text /\ box.busy = TRUE
  BY <1>2 DEF Submitting, BoxOK, BoxFields
<1>4. /\ RequestOK(q) /\ q.op = "post" /\ q.kind = kind /\ q.arg = Box(kind).text
      /\ q.state = "sent" /\ q.alive
  BY DEF Request, RequestOK, RequestFields
<1> HIDE DEF box, q
<1>5. /\ boxes' = [k \in Kinds |-> boxes'[k]]
      /\ \A k \in Kinds : BoxOK(boxes'[k])
      /\ boxes'["main"] = IF kind = "main" THEN box ELSE boxes["main"]
      /\ draft'.text = IF kind = "main" /\ box.open THEN box.text ELSE draft.text
      /\ DraftKept(boxes'["main"], draft')
  BY <1>1, <1>3, PutIs
<1>6. boxes'["main"].text = boxes["main"].text /\ draft'.text = draft.text
  BY <1>1, <1>3, <1>5 DEF Box, TextInv, DraftKept
<1>7. SendsTrue(boxes'["main"], posted["main"], sends')
  <2>1. CASE kind = "main"
    <3>1. \A r \in sends : MainPost(r) => ~r.alive
      BY <1>1, <2>1 DEF TextInv, SendsTrue, OnItsWay, Box
    <3>2. OnItsWay(boxes'["main"], q)
      BY <1>1, <1>3, <1>4, <1>5, <2>1 DEF OnItsWay
    <3>3. \A r \in sends : MainPost(r) =>
              OnItsWay(boxes'["main"], r) /\ (r.state = "ok" => r.arg \in posted["main"])
      BY <3>1 DEF TextInv, SendsTrue, OnItsWay
    <3>4. QED
      BY <1>1, <1>4, <3>1, <3>2, <3>3 DEF SendsTrue
  <2>2. CASE kind # "main"
    <3>1. ~MainPost(q)
      BY <1>4, <2>2 DEF MainPost
    <3>2. QED
      BY <1>1, <1>5, <2>2, <3>1 DEF TextInv, SendsTrue
  <2>3. QED
    BY <2>1, <2>2
<1>8. TextNeverEaten'
  BY <1>1, <1>6 DEF TextInv, TextNeverEaten
<1>9. PostTyped'
  BY <1>1, <1>4, <1>5 DEF TextInv, PostTyped, BoxOK
<1>10. QED
  BY <1>1, <1>5, <1>7, <1>8, <1>9 DEF TextInv

LEMMA KeystrokeStep ==
    ASSUME TextInv, NEW kind \in Kinds, OnKeystroke(kind)
    PROVE  TextInv'
<1>1. PICK box : /\ Put(kind, box) /\ BoxOK(box) /\ box.open = Box(kind).open
                 /\ box.text = typed[kind] + 1 /\ box.busy = Box(kind).busy
  <2>1. BoxOK(Box(kind))
    BY DEF TextInv, PostTyped, BoxOK, Box
  <2>2. PICK name \in BOOLEAN :
          Put(kind, [Box(kind) EXCEPT !.text = typed[kind] + 1,
                                      !.mentions = IF name THEN @ ELSE "none",
                                      !.lookup = IF name THEN "timer"
                                                 ELSE IF @ = "timer" THEN "idle" ELSE @])
    BY DEF OnKeystroke
  <2> DEFINE box == [Box(kind) EXCEPT !.text = typed[kind] + 1,
                                      !.mentions = IF name THEN @ ELSE "none",
                                      !.lookup = IF name THEN "timer"
                                                 ELSE IF @ = "timer" THEN "idle" ELSE @]
  <2>3. /\ BoxOK(box) /\ box.open = Box(kind).open
        /\ box.text = typed[kind] + 1 /\ box.busy = Box(kind).busy
    BY <2>1 DEF BoxOK, BoxFields
  <2>4. QED
    BY <2>2, <2>3
<1>2. /\ Box(kind).open /\ ~Box(kind).busy /\ typed' = [typed EXCEPT ![kind] = @ + 1]
      /\ card' = card /\ posted' = posted /\ sends' = sends
  BY DEF OnKeystroke, ComposeView
<1>3. /\ boxes' = [k \in Kinds |-> boxes'[k]]
      /\ \A k \in Kinds : BoxOK(boxes'[k])
      /\ boxes'["main"] = IF kind = "main" THEN box ELSE boxes["main"]
      /\ draft'.text = IF kind = "main" /\ box.open THEN box.text ELSE draft.text
      /\ DraftKept(boxes'["main"], draft')
  BY <1>1, <1>2, PutIs
<1>4. PostTyped'
  BY <1>2, <1>3 DEF TextInv, PostTyped, BoxOK
<1>5. SendsTrue(boxes'["main"], posted'["main"], sends')
  <2>1. CASE kind = "main"
    <3>1. \A r \in sends : MainPost(r) => ~r.alive
      BY <1>2, <2>1 DEF TextInv, SendsTrue, OnItsWay, Box
    <3>2. QED
      BY <1>2, <3>1 DEF TextInv, SendsTrue, OnItsWay
  <2>2. CASE kind # "main"
    BY <1>2, <1>3, <2>2 DEF TextInv
  <2>3. QED
    BY <2>1, <2>2
<1>6. TextNeverEaten'
  <2>1. CASE kind = "main"
    <3>1. typed'["main"] = typed["main"] + 1 /\ boxes'["main"].text = typed["main"] + 1
      BY <1>1, <1>2, <1>3, <2>1 DEF TextInv, PostTyped
    <3>2. QED
      BY <3>1 DEF TextNeverEaten
  <2>2. CASE kind # "main"
    <3>1. typed'["main"] = typed["main"]
      BY <1>2, <2>2 DEF TextInv, PostTyped, Kinds
    <3>2. QED
      BY <1>2, <1>3, <2>2, <3>1 DEF TextInv, TextNeverEaten
  <2>3. QED
    BY <2>1, <2>2
<1>7. QED
  BY <1>3, <1>4, <1>5, <1>6 DEF TextInv

(* The steps of a composer but posting and typing. *)
LEMMA ComposerStep ==
    ASSUME TextInv, NEW kind \in Kinds,
           \/ MentionTimer(kind) \/ MentionLands(kind) \/ InsertMention(kind)
           \/ InsertAtCursor(kind) \/ WrapSelection(kind) \/ RemoveMedia(kind) \/ PickMedia(kind)
    PROVE  TextInv'
<1>1. BoxOK(Box(kind))
  BY DEF TextInv, PostTyped, BoxOK, Box
<1>2. /\ CardStays /\ typed' = typed /\ posted' = posted
      /\ \/ sends' = sends \/ sends' = sends \cup {Request("upload", kind, NoText)}
  BY DEF MentionTimer, MentionLands, InsertMention, InsertAtCursor, WrapSelection, RemoveMedia,
     PickMedia, CardStays, TextInv, PostTyped
<1>3. Descends(sends, sends')
  BY <1>2, FewerRequests, WithAnother DEF TextInv
<1>4. PICK box : /\ Put(kind, box) /\ BoxOK(box) /\ box.open = Box(kind).open
                 /\ box.text = Box(kind).text /\ box.busy = Box(kind).busy
  <2>1. CASE MentionTimer(kind)
    BY <1>1, <2>1 DEF MentionTimer, BoxOK, BoxFields
  <2>2. CASE MentionLands(kind)
    <3>1. PICK found \in {"none", "some"} :
            Put(kind, [Box(kind) EXCEPT !.lookup = "idle", !.mentions = found])
      BY <2>2 DEF MentionLands
    <3> DEFINE box == [Box(kind) EXCEPT !.lookup = "idle", !.mentions = found]
    <3>2. /\ BoxOK(box) /\ box.open = Box(kind).open
          /\ box.text = Box(kind).text /\ box.busy = Box(kind).busy
      BY <1>1 DEF BoxOK, BoxFields
    <3> HIDE DEF box
    <3>3. QED
      BY <3>1, <3>2 DEF box
  <2>3. CASE InsertMention(kind)
    <3> DEFINE box == [Box(kind) EXCEPT !.extra = TRUE, !.mentions = "none"]
    <3>1. Put(kind, box)
      BY <2>3 DEF InsertMention
    <3>2. /\ BoxOK(box) /\ box.open = Box(kind).open
          /\ box.text = Box(kind).text /\ box.busy = Box(kind).busy
      BY <1>1 DEF BoxOK, BoxFields
    <3> HIDE DEF box
    <3>3. QED
      BY <3>1, <3>2
  <2>4. CASE InsertAtCursor(kind) \/ WrapSelection(kind)
    BY <1>1, <2>4 DEF InsertAtCursor, WrapSelection, BoxOK, BoxFields
  <2>5. CASE RemoveMedia(kind)
    BY <1>1, <2>5 DEF RemoveMedia, BoxOK, BoxFields
  <2>6. CASE PickMedia(kind)
    <3> DEFINE picked == [Box(kind) EXCEPT !.uploading = TRUE, !.err = FALSE]
               refused == [Box(kind) EXCEPT !.err = TRUE]
    <3>1. Put(kind, picked) \/ Put(kind, refused)
      BY <2>6 DEF PickMedia
    <3>2. /\ BoxOK(picked) /\ picked.open = Box(kind).open
          /\ picked.text = Box(kind).text /\ picked.busy = Box(kind).busy
          /\ BoxOK(refused) /\ refused.open = Box(kind).open
          /\ refused.text = Box(kind).text /\ refused.busy = Box(kind).busy
      BY <1>1 DEF BoxOK, BoxFields
    <3> HIDE DEF picked, refused
    <3>3. QED
      BY <3>1, <3>2
  <2>7. QED
    BY <2>1, <2>2, <2>3, <2>4, <2>5, <2>6
<1>5. QED
  BY <1>2, <1>3, <1>4, BoxSteps

LEMMA WarningStep ==
    ASSUME TextInv, SetWarning
    PROVE  TextInv'
<1> DEFINE box == [Box("main") EXCEPT !.warning = ~@]
<1>1. BoxOK(Box("main")) /\ "main" \in Kinds
  BY DEF TextInv, PostTyped, BoxOK, Box, Kinds
<1>2. /\ BoxOK(box) /\ box.open = Box("main").open
      /\ box.text = Box("main").text /\ box.busy = Box("main").busy
  BY <1>1 DEF BoxOK, BoxFields
<1>3. /\ Put("main", box) /\ CardStays /\ typed' = typed /\ posted' = posted
      /\ Descends(sends, sends')
  BY FewerRequests DEF SetWarning, CardStays, TextInv, PostTyped
<1> HIDE DEF box
<1>4. QED
  BY <1>1, <1>2, <1>3, BoxSteps

LEMMA UploadStep ==
    ASSUME TextInv, NEW q \in sends, UploadLands(q)
    PROVE  TextInv'
<1> DEFINE old == Box(q.kind)
           landed == [old EXCEPT !.uploading = FALSE, !.media = @ + 1]
           failed == [old EXCEPT !.uploading = FALSE, !.err = TRUE]
<1>1. BoxOK(old) /\ q.kind \in Kinds
  BY DEF TextInv, PostTyped, BoxOK, Box, RequestOK, UploadLands
<1>2. /\ BoxOK(landed) /\ landed.open = old.open /\ landed.text = old.text /\ landed.busy = old.busy
      /\ BoxOK(failed) /\ failed.open = old.open /\ failed.text = old.text /\ failed.busy = old.busy
  BY <1>1 DEF BoxOK, BoxFields
<1>3. Put(q.kind, IF q.state = "ok" THEN landed ELSE failed)
  BY DEF UploadLands
<1>4. CardStays /\ typed' = typed /\ posted' = posted /\ Descends(sends, sends')
  BY FewerRequests DEF UploadLands, CardStays, TextInv, PostTyped
<1> HIDE DEF landed, failed
<1>5. QED
  BY <1>1, <1>2, <1>3, <1>4, BoxSteps

-----------------------------------------------------------------------------
(* The card. *)

LEMMA CardClickStep ==
    ASSUME TextInv,
           \/ OpenMenu \/ TogglePostReact \/ ToggleBookmark \/ StartEdit \/ CancelEdit \/ SaveEdit
           \/ ToggleHistory \/ DeleteIt \/ Share \/ Report \/ TogglePin
    PROVE  TextInv'
<1>0. CardOK(card)
  BY DEF TextInv, PostTyped
<1>1. CardStays
  <2>1. CASE OpenMenu \/ Share \/ Report \/ DeleteIt
    BY <1>0, <2>1 DEF OpenMenu, Share, Report, DeleteIt, CardStays, CardOK, CardFields
  <2>2. CASE TogglePostReact \/ ToggleBookmark \/ SaveEdit \/ TogglePin
    BY <1>0, <2>2
    DEF TogglePostReact, ToggleBookmark, SaveEdit, TogglePin, CardStays, CardOK, CardFields
  <2>3. CASE StartEdit \/ CancelEdit \/ ToggleHistory
    BY <1>0, <2>3 DEF StartEdit, CancelEdit, ToggleHistory, CardStays, CardOK, CardFields
  <2>4. QED
    BY <2>1, <2>2, <2>3
<1>2. boxes' = boxes /\ draft' = draft /\ typed' = typed /\ posted' = posted
  BY DEF OpenMenu, TogglePostReact, ToggleBookmark, StartEdit, CancelEdit, SaveEdit,
     ToggleHistory, DeleteIt, Share, Report, TogglePin
<1>3. Descends(sends, sends')
  <2>1. \/ sends' = sends
        \/ \E op : op \notin {"post", "upload"} /\ sends' = sends \cup {Request(op, "card", NoText)}
    <3>1. CASE OpenMenu \/ Share \/ StartEdit \/ CancelEdit
      BY <3>1 DEF OpenMenu, Share, StartEdit, CancelEdit
    <3>2. CASE TogglePostReact \/ ToggleBookmark \/ ToggleHistory
      BY <3>2 DEF TogglePostReact, ToggleBookmark, ToggleHistory
    <3>3. CASE SaveEdit \/ DeleteIt \/ Report \/ TogglePin
      BY <3>3 DEF SaveEdit, DeleteIt, Report, TogglePin
    <3>4. QED
      BY <3>1, <3>2, <3>3
  <2>2. QED
    BY <2>1, FewerRequests, WithAnother DEF TextInv
<1>4. QED
  BY <1>1, <1>2, <1>3, CardSteps

LEMMA CardAnswerStep ==
    ASSUME TextInv, NEW q \in sends,
           \/ Reacted(q) \/ Bookmarked(q) \/ Edited(q) \/ HistoryLands(q) \/ Deleted(q) \/ Noted(q)
           \/ Dropped(q)
    PROVE  TextInv'
<1>0. CardOK(card)
  BY DEF TextInv, PostTyped
<1>1. CardStays
  <2>1. CASE Reacted(q)
    <3>1. q.state \in {"sent", "ok", "failed"}
      BY DEF TextInv, PostTyped, RequestOK
    <3>2. \/ card' = [card EXCEPT !.busy = FALSE]
          \/ card' = [card EXCEPT !.busy = FALSE, !.reacted = TRUE, !.count = @ + 1]
          \/ card' = [card EXCEPT !.busy = FALSE, !.reacted = FALSE,
                                  !.count = IF @ > 0 THEN @ - 1 ELSE 0]
      BY <2>1, <3>1 DEF Reacted
    <3>3. QED
      BY <1>0, <3>2 DEF CardStays, CardOK, CardFields
  <2>2. CASE Bookmarked(q) \/ Edited(q)
    BY <1>0, <2>2 DEF Bookmarked, Edited, CardStays, CardOK, CardFields
  <2>3. CASE HistoryLands(q) \/ Noted(q) \/ Dropped(q)
    BY <1>0, <2>3 DEF HistoryLands, Noted, Dropped, CardStays, CardOK, CardFields
  <2>4. CASE Deleted(q)
    <3>1. \/ card' = card \/ card' = [card EXCEPT !.thread = Fetch(@, "post")]
          \/ card' = Closed(card.me, card.role)
      BY <1>0, <2>4 DEF Deleted, CardOK, TextInv, PostTyped, RequestOK
    <3>2. QED
      BY <1>0, <3>1, ClosedIs DEF CardStays, CardOK, CardFields
  <2>5. QED
    BY <2>1, <2>2, <2>3, <2>4
<1>2. boxes' = boxes /\ draft' = draft /\ typed' = typed /\ posted' = posted /\ sends' = sends \ {q}
  BY DEF Reacted, Bookmarked, Edited, HistoryLands, Deleted, Noted, Dropped
<1>3. Descends(sends, sends')
  BY <1>2, FewerRequests DEF TextInv
<1>4. QED
  BY <1>1, <1>2, <1>3, CardSteps

-----------------------------------------------------------------------------
(* The page, the server. *)

LEMMA PageOfPostStep ==
    ASSUME TextInv, RootLands \/ ServeRoot \/ OthersReact
    PROVE  TextInv'
<1>0. CardOK(card)
  BY DEF TextInv, PostTyped
<1>1. CardStays
  <2>1. CASE RootLands
    <3> DEFINE c == [card EXCEPT !.thread = Land(@)]
    <3>1. CardOK(c) /\ c.me = card.me
      BY <1>0 DEF CardOK, CardFields
    <3>2. card' = c \/ card' = PropsChanged(c, c.thread.value[1])
      BY <2>1 DEF RootLands
    <3> HIDE DEF c
    <3>3. QED
      BY <3>1, <3>2, CardIs DEF CardStays
  <2>2. CASE ServeRoot
    BY <1>0, <2>2 DEF ServeRoot, CardStays, CardOK, CardFields
  <2>3. CASE OthersReact
    BY <1>0, <2>3 DEF OthersReact, CardStays
  <2>4. QED
    BY <2>1, <2>2, <2>3
<1>2. /\ boxes' = boxes /\ draft' = draft /\ typed' = typed /\ posted' = posted
      /\ sends' = sends
  BY DEF RootLands, ServeRoot, OthersReact
<1>3. QED
  BY <1>1, <1>2, CardSteps, FewerRequests DEF TextInv

LEMMA RespondedIs ==
    ASSUME NEW q, RequestOK(q), NEW state \in {"ok", "failed"}
    PROVE  LET r == [q EXCEPT !.state = state] IN
           /\ RequestOK(r) /\ r.alive = q.alive /\ r.op = q.op /\ r.kind = q.kind
           /\ r.state = state /\ r.arg = q.arg
BY DEF RequestOK, RequestFields

LEMMA ServeSendStep ==
    ASSUME TextInv, NEW q \in sends, ServeSend(q)
    PROVE  TextInv'
<1>1. PICK state \in {"ok", "failed"} :
        /\ sends' = (sends \ {q}) \cup {[q EXCEPT !.state = state]}
        /\ IF state = "ok" /\ q.op = "post"
           THEN posted' = [posted EXCEPT ![q.kind] = @ \cup {q.arg}] ELSE posted' = posted
  BY DEF ServeSend
<1>2. card' = card /\ boxes' = boxes /\ draft' = draft /\ typed' = typed
  BY DEF ServeSend
<1> DEFINE r == [q EXCEPT !.state = state]
<1>3. /\ RequestOK(r) /\ r.alive = q.alive /\ r.op = q.op /\ r.kind = q.kind
      /\ r.state = state /\ r.arg = q.arg
  BY RespondedIs DEF TextInv, PostTyped
<1>4. sends' = (sends \ {q}) \cup {r}
  BY <1>1
<1> HIDE DEF r
<1>5. /\ posted' = [kind \in Kinds |-> posted'[kind]] /\ posted["main"] \subseteq posted'["main"]
      /\ MainPost(q) /\ state = "ok" => q.arg \in posted'["main"]
  <2>1. posted = [kind \in Kinds |-> posted[kind]]
    BY DEF TextInv, PostTyped
  <2>2. CASE state = "ok" /\ q.op = "post"
    BY <1>1, <2>1, <2>2 DEF Kinds, MainPost
  <2>3. CASE ~(state = "ok" /\ q.op = "post")
    BY <1>1, <2>1, <2>3 DEF MainPost
  <2>4. QED
    BY <2>2, <2>3
<1>6. MainPost(r) <=> MainPost(q)
  BY <1>3 DEF MainPost
<1>7. SendsTrue(boxes["main"], posted'["main"], sends')
  <2>1. ASSUME NEW p \in sends', MainPost(p)
        PROVE  OnItsWay(boxes["main"], p) /\ (p.state = "ok" => p.arg \in posted'["main"])
    BY <1>3, <1>4, <1>5, <1>6, <2>1 DEF TextInv, SendsTrue, OnItsWay
  <2>2. ASSUME NEW p \in sends', NEW s \in sends', MainPost(p), p.alive, MainPost(s), s.alive
        PROVE  p = s
    BY <1>3, <1>4, <1>6, <2>2 DEF TextInv, SendsTrue
  <2>3. QED
    BY <2>1, <2>2 DEF SendsTrue
<1>8. PostTyped'
  BY <1>2, <1>3, <1>4, <1>5 DEF TextInv, PostTyped
<1>9. TextNeverEaten'
  BY <1>2, <1>5 DEF TextInv, TextNeverEaten
<1>10. QED
  BY <1>2, <1>7, <1>8, <1>9 DEF TextInv

-----------------------------------------------------------------------------
(* The reply box, leaving the page, signing out, and a text that was posted. *)

LEMMA BlankIs == BoxOK(Blank) /\ ~Blank.open /\ Blank.text = NoText
BY DEF BoxOK, BoxFields, Blank

LEMMA ReadIs ==
    ASSUME NEW kind \in Kinds
    PROVE  /\ BoxOK(ReadDraft(kind)) /\ ReadDraft(kind).open
           /\ ReadDraft(kind).text = IF kind = "main" THEN draft.text ELSE NoText
BY DEF ReadDraft, BoxOK, BoxFields, Blank, Kinds

(* Everything that was mounted is unmounted: nobody waits for a main text. *)
LEMMA LeavingStep ==
    ASSUME TextInv, CardStays, typed' = typed, posted' = posted,
           boxes' = [kind \in Kinds |-> boxes'[kind]], \A kind \in Kinds : BoxOK(boxes'[kind]),
           DraftKept(boxes'["main"], draft'), Descends(sends, sends'),
           \A q \in sends' : MainPost(q) => ~q.alive,
           ~card'.me \/ draft'.text = draft.text
    PROVE  TextInv'
<1>1. SendsTrue(boxes["main"], posted["main"], sends')
  BY DescendantsTrue DEF TextInv
<1>2. SendsTrue(boxes'["main"], posted'["main"], sends')
  BY <1>1 DEF SendsTrue, OnItsWay
<1>3. TextNeverEaten'
  <2>1. boxes["main"].text = draft.text \/ boxes["main"].text = NoText
    BY DEF TextInv, DraftKept
  <2>2. QED
    BY <2>1 DEF TextInv, TextNeverEaten, CardStays
<1>4. PostTyped'
  BY DEF TextInv, PostTyped, CardStays, Descends, BoxOK
<1>5. QED
  BY <1>2, <1>3, <1>4 DEF TextInv

LEMMA AllDeaf ==
    ASSUME PostTyped
    PROVE  Descends(sends, Unmounted) /\ \A q \in Unmounted : ~q.alive
<1>1. \A q \in Unmounted : \E r \in sends : q = [r EXCEPT !.alive = FALSE]
  BY DEF Unmounted
<1>2. Descends(sends, Unmounted)
  BY <1>1, SomeDeaf
<1>3. ASSUME NEW q \in Unmounted
      PROVE  ~q.alive
  <2>1. PICK r \in sends : q = [r EXCEPT !.alive = FALSE]
    BY <1>1
  <2>2. RequestOK(r)
    BY DEF PostTyped
  <2>3. QED
    BY <2>1, <2>2, DeafIs
<1>4. QED
  BY <1>2, <1>3

LEMMA LeaveStep ==
    ASSUME TextInv, OpenPost \/ OpenTimeline \/ SignOut
    PROVE  TextInv'
<1>0. CardOK(card) /\ typed' = typed /\ posted' = posted /\ "main" \in Kinds
  BY DEF TextInv, PostTyped, OpenPost, OpenTimeline, SignOut, Kinds
<1>1. CASE OpenPost
  <2>1. CardStays
    <3> DEFINE c == Closed(card.me, card.role)
    <3>1. CardOK(c) /\ c.me = card.me
      BY ClosedIs
    <3>2. card' = [c EXCEPT !.open = TRUE, !.thread = Fetch(@, "post")]
      BY <1>1 DEF OpenPost
    <3> HIDE DEF c
    <3>3. QED
      BY <3>1, <3>2 DEF CardStays, CardOK, CardFields
  <2>2. boxes' = [kind \in Kinds |-> Blank] /\ draft' = draft /\ sends' = Unmounted
    BY <1>1 DEF OpenPost
  <2>3. QED
    BY <1>0, <2>1, <2>2, BlankIs, AllDeaf, LeavingStep DEF TextInv, DraftKept
<1>2. CASE OpenTimeline
  <2>1. CardStays
    <3> DEFINE c == Closed(TRUE, card.role)
               m == [c EXCEPT !.open = TRUE, !.page = "timeline",
                              !.thread = Mutate(Unresolved, ServedPost)]
    <3>1. CardOK(c) /\ c.me = TRUE
      BY ClosedIs
    <3>2. card' = Closed(card.me, card.role) \/ card' = PropsChanged(m, ServedPost)
      BY <1>2 DEF OpenTimeline, Listed
    <3>3. card.me
      BY <1>2 DEF OpenTimeline
    <3> HIDE DEF c
    <3>4. CardOK(m)
      BY <3>1 DEF CardOK, CardFields
    <3> HIDE DEF m
    <3>5. QED
      BY <3>2, <3>3, <3>4, CardIs, ClosedIs DEF CardStays
  <2>2. /\ boxes' = [kind \in Kinds |-> IF kind = "main" THEN ReadDraft("main") ELSE Blank]
        /\ draft' = SaveDraft(boxes'["main"]) /\ sends' = Unmounted
    BY <1>2 DEF OpenTimeline
  <2>3. draft'.text = draft.text /\ DraftKept(boxes'["main"], draft')
    BY <1>0, <2>2, ReadIs, SavedText DEF DraftKept
  <2>4. \A kind \in Kinds : BoxOK(boxes'[kind])
    BY <1>0, <2>2, ReadIs, BlankIs
  <2>5. QED
    BY <1>0, <2>1, <2>2, <2>3, <2>4, AllDeaf, LeavingStep DEF TextInv
<1>3. CASE SignOut
  <2>1. CardStays /\ ~card'.me
    BY <1>0, <1>3 DEF SignOut, CardStays, CardOK, CardFields
  <2>2. boxes' = [kind \in Kinds |-> Blank]
    BY <1>3 DEF SignOut
  <2>3. sends' = {IF q.kind \in Kinds THEN [q EXCEPT !.alive = FALSE] ELSE q : q \in sends}
    BY <1>3 DEF SignOut
  <2>4. Descends(sends, sends')
    BY <2>3, SomeDeaf DEF TextInv
  <2>5. \A q \in sends' : MainPost(q) => ~q.alive
    <3>1. ASSUME NEW r \in sends
          PROVE  LET q == IF r.kind \in Kinds THEN [r EXCEPT !.alive = FALSE] ELSE r
                 IN  MainPost(q) => ~q.alive
      BY DeafIs DEF TextInv, PostTyped, MainPost, Kinds
    <3>2. QED
      BY <2>3, <3>1
  <2>6. QED
    BY <1>0, <2>1, <2>2, <2>4, <2>5, BlankIs, LeavingStep DEF DraftKept
<1>4. QED
  BY <1>1, <1>2, <1>3

LEMMA ReplyClickStep ==
    ASSUME TextInv, OnReplyClick
    PROVE  TextInv'
<1>1. /\ boxes' = [boxes EXCEPT !["reply"] = IF @.open THEN Blank ELSE ReadDraft("reply")]
      /\ card' = card /\ draft' = draft /\ typed' = typed /\ posted' = posted
  BY DEF OnReplyClick
<1>2. Descends(sends, sends')
  <2>1. sends' = {IF q.kind = "reply" THEN [q EXCEPT !.alive = FALSE] ELSE q : q \in sends}
    BY DEF OnReplyClick
  <2>2. QED
    BY <2>1, SomeDeaf DEF TextInv
<1>3. /\ boxes' = [kind \in Kinds |-> boxes'[kind]] /\ boxes'["main"] = boxes["main"]
      /\ \A kind \in Kinds : BoxOK(boxes'[kind])
  BY <1>1, BlankIs, ReadIs DEF TextInv, PostTyped, BoxOK, Kinds
<1>4. SendsTrue(boxes["main"], posted["main"], sends')
  BY <1>2, DescendantsTrue DEF TextInv
<1>5. QED
  BY <1>1, <1>2, <1>3, <1>4 DEF TextInv, PostTyped, BoxOK, Descends, TextNeverEaten

LEMMA PostedStep ==
    ASSUME TextInv, NEW q \in sends, Posted(q)
    PROVE  TextInv'
<1> DEFINE old == Box(q.kind)
           failed == [old EXCEPT !.busy = FALSE, !.err = TRUE]
<1>1. /\ q.op = "post" /\ q.alive /\ q.state \in {"ok", "failed"} /\ q.kind \in Kinds
      /\ typed' = typed /\ posted' = posted
  BY DEF Posted, TextInv, PostTyped, RequestOK
<1>2. BoxOK(old) /\ CardOK(card)
  BY <1>1 DEF TextInv, PostTyped, BoxOK, Box
<1>3. /\ BoxOK(failed) /\ failed.open = old.open /\ failed.text = old.text
      /\ BoxOK(Emptied(old)) /\ Emptied(old).open = old.open /\ Emptied(old).text = NoText
  BY <1>2 DEF BoxOK, BoxFields, Emptied
<1>4. \/ q.state = "failed" /\ Put(q.kind, failed) /\ card' = card
      \/ q.state = "ok" /\ Put(q.kind, Emptied(old)) /\ card' = card
      \/ /\ q.kind = "reply" /\ boxes' = [boxes EXCEPT !["reply"] = Blank]
         /\ card' = Replied(card) /\ draft' = draft
  BY <1>1 DEF Posted
<1>5. sends' = {IF r.kind = "reply" /\ q.kind = "reply" /\ q.state = "ok"
                THEN [r EXCEPT !.alive = FALSE] ELSE r : r \in sends \ {q}}
  BY DEF Posted
<1> HIDE DEF failed, old
<1>6. Descends(sends, sends')
  BY <1>5, SomeDeaf DEF TextInv
<1>7. SendsTrue(boxes["main"], posted["main"], sends')
  BY <1>6, DescendantsTrue DEF TextInv
<1>8. CASE q.kind = "main"
  <2>1. MainPost(q) /\ boxes["main"].open /\ old = boxes["main"]
    BY <1>1, <1>8 DEF TextInv, SendsTrue, OnItsWay, MainPost, old, Box
  <2>2. sends' = sends \ {q}
    BY <1>5, <1>8
  <2>3. \A r \in sends' : MainPost(r) => ~r.alive
    BY <1>1, <2>1, <2>2 DEF TextInv, SendsTrue
  <2>4. PICK box : /\ Put("main", box) /\ BoxOK(box) /\ box.open
                   /\ \/ q.state = "failed" /\ box.text = boxes["main"].text
                      \/ q.state = "ok" /\ box.text = NoText
    BY <1>3, <1>4, <1>8, <2>1
  <2>5. /\ boxes' = [k \in Kinds |-> boxes'[k]]
        /\ \A k \in Kinds : BoxOK(boxes'[k])
        /\ boxes'["main"] = box /\ draft'.text = box.text
        /\ DraftKept(boxes'["main"], draft')
    BY <1>1, <1>8, <2>4, PutIs
  <2>6. SendsTrue(boxes'["main"], posted'["main"], sends')
    BY <1>1, <1>7, <2>3 DEF SendsTrue, OnItsWay
  <2>7. TextNeverEaten'
    <3>1. draft.text = boxes["main"].text
      BY <2>1 DEF TextInv, DraftKept
    <3>2. CASE q.state = "failed"
      BY <1>1, <1>4, <1>8, <2>4, <2>5, <3>1, <3>2 DEF TextInv, TextNeverEaten
    <3>3. CASE q.state = "ok"
      <4>1. q.arg = boxes["main"].text /\ q.arg \in posted["main"]
        BY <1>1, <2>1, <3>3 DEF TextInv, SendsTrue, OnItsWay
      <4>2. card' = card
        BY <1>4, <1>8
      <4>3. QED
        BY <1>1, <3>1, <4>1, <4>2 DEF TextInv, TextNeverEaten
    <3>4. QED
      BY <1>1, <3>2, <3>3
  <2>8. PostTyped'
    BY <1>1, <1>4, <1>6, <1>8, <2>5 DEF TextInv, PostTyped, Descends, BoxOK
  <2>9. QED
    BY <2>5, <2>6, <2>7, <2>8 DEF TextInv
<1>9. CASE q.kind = "reply"
  <2>1. /\ boxes' = [boxes EXCEPT !["reply"] = boxes'["reply"]] /\ BoxOK(boxes'["reply"])
        /\ draft' = draft
    <3>1. boxes = [k \in Kinds |-> boxes[k]]
      BY DEF TextInv, PostTyped
    <3>2. QED
      BY <1>3, <1>4, <1>9, <3>1, BlankIs DEF Put, Kinds
  <2>2. /\ boxes' = [k \in Kinds |-> boxes'[k]]
        /\ \A k \in Kinds : BoxOK(boxes'[k])
        /\ boxes'["main"] = boxes["main"]
    BY <2>1 DEF TextInv, PostTyped, Kinds, BoxOK
  <2>3. CardStays
    <3>1. /\ CardOK([card EXCEPT !.replies = @ + 1]) /\ [card EXCEPT !.replies = @ + 1].me = card.me
      BY <1>2 DEF CardOK, CardFields
    <3>2. \/ Replied(card) = PropsChanged(card, card.thread.value[1])
          \/ Replied(card) = card \/ Replied(card) = [card EXCEPT !.replies = @ + 1]
      BY <1>2 DEF Replied, CardOK
    <3>3. card' = card \/ card' = Replied(card)
      BY <1>4
    <3>4. CardOK(card') /\ card'.me = card.me
      BY <1>2, <3>1, <3>2, <3>3, CardIs
    <3>5. QED
      BY <3>4 DEF CardStays
  <2>4. PostTyped'
    BY <1>1, <1>6, <2>2, <2>3 DEF TextInv, PostTyped, CardStays, Descends, BoxOK
  <2>5. QED
    BY <1>1, <1>7, <2>1, <2>2, <2>3, <2>4 DEF TextInv, TextNeverEaten, CardStays
<1>10. QED
  BY <1>1, <1>8, <1>9 DEF Kinds

LEMMA TextStep == TextInv /\ [PostNext]_postVars => TextInv'
<1> SUFFICES ASSUME TextInv, [PostNext]_postVars
             PROVE  TextInv'
  OBVIOUS
<1>1. CASE UNCHANGED postVars
  BY <1>1 DEF postVars, TextInv, PostTyped, TextNeverEaten
<1>2. CASE PostNext
  BY <1>2, ComposerStep, KeystrokeStep, SendStep, WarningStep, UploadStep, CardClickStep,
     CardAnswerStep, PageOfPostStep, ServeSendStep, LeaveStep, ReplyClickStep, PostedStep
  DEF PostNext
<1>3. QED
  BY <1>1, <1>2

\* However posting, failing, leaving and reloading interleave, the text typed last in the main
\* composer is in the composer, in the saved draft, or on the server, for any number of texts
\* and of requests. [Compose.tsx 81-83: "a refresh / accidental navigation never eats a
\* half-written signal"]
THEOREM TextsNeverEaten == PostSpec => []TextNeverEaten
<1>1. PostInit => TextInv
  <2>1. ASSUME NEW role, PostOpened(role)
        PROVE  TextInv
    <3>1. CardOK(card)
      <4> DEFINE c == Closed(TRUE, role)
                 m == [c EXCEPT !.open = TRUE, !.page = "timeline",
                                !.thread = Mutate(Unresolved, ServedPost)]
      <4>1. card = PropsChanged(m, ServedPost)
        BY <2>1 DEF PostOpened, Listed
      <4>2. CardOK(c)
        BY ClosedIs
      <4> HIDE DEF c
      <4>3. CardOK(m)
        BY <4>2 DEF CardOK, CardFields
      <4> HIDE DEF m
      <4>4. QED
        BY <4>1, <4>3, CardIs
    <3>2. /\ boxes = [kind \in Kinds |-> boxes[kind]]
          /\ \A kind \in Kinds : BoxOK(boxes[kind]) /\ boxes[kind].text = NoText
          /\ draft.text = NoText /\ typed = [kind \in Kinds |-> 0]
          /\ posted = [kind \in Kinds |-> {}] /\ sends = {}
      BY <2>1 DEF PostOpened, Blank, BoxOK, BoxFields, NoDraft
    <3>3. PostTyped
      BY <3>1, <3>2 DEF PostTyped, BoxOK
    <3>4. DraftKept(boxes["main"], draft) /\ SendsTrue(boxes["main"], posted["main"], sends)
      BY <3>2 DEF DraftKept, SendsTrue, Kinds
    <3>5. QED
      BY <3>2, <3>3, <3>4 DEF TextInv, TextNeverEaten, Kinds, NoText
  <2>2. QED
    BY <2>1 DEF PostInit
<1>2. TextInv => TextNeverEaten
  BY DEF TextInv
<1>3. QED
  BY <1>1, <1>2, TextStep, PTL DEF PostSpec

-----------------------------------------------------------------------------
(* Settings and administration: the panels settle on what the server holds. *)

PanelFields == {"tab", "me", "busy", "form", "open", "confirmed", "secret", "awaits", "tables"}
OrderFields == {"op", "table", "row", "flag", "state", "alive"}
OwnedFields == {"tables", "profile", "about", "aside", "lost"}
Tabs == SettingsTabs \cup {"admin", "left"}

OrderOK(o) ==
    /\ o = [f \in OrderFields |-> o[f]] /\ o.state \in {"sent", "ok", "failed"}
    /\ o.op = "enroll" => o.table = "totp"

PanelOK(p) ==
    /\ p = [f \in PanelFields |-> p[f]] /\ p.tab \in Tabs
    /\ p.tables = [table \in Tables |-> p.tables[table]]
    /\ \A table \in Tables : ResourceOK(p.tables[table])

OwnedOK(w) == /\ w = [f \in OwnedFields |-> w[f]]
              /\ w.tables = [table \in Tables |-> w.tables[table]]

(* Orders that change a row, the first step of the second factor among them. *)
Writes(o) == o.op \in Changes \cup {"enroll"}

(* An answer to come will have the table loaded again, or tell that it is not. *)
Covered(table, all) == \E o \in all : Writes(o) /\ o.table = table /\ o.state = "ok"

(* Rows as the server has them, but those it changed aside. *)
RowsAgree(rows, w, table) ==
    \A row \in RowIds : rows[row] = w.tables[table][row] \/ <<table, row>> \in w.aside

TableCurrent(t, w, table) ==
    \/ t.request[1] = "asked"
    \/ t.request[1] = "served" /\ RowsAgree(t.request[2], w, table)
    \/ t.request = Quiet /\ Shown(t) /\ RowsAgree(t.value[1], w, table)

TableSound(p, w, all, table) ==
    \/ Covered(table, all)
    \/ table = "totp" /\ p.secret
    \/ TableCurrent(p.tables[table], w, table)

PanelInv ==
    /\ PanelOK(panel) /\ OwnedOK(owned) /\ \A o \in orders : OrderOK(o)
    /\ ~owned.lost =>
          \A table \in TablesOf(panel.tab) : TableSound(panel, owned, orders, table)

(* What was the server's stays so, or has changed aside. *)
RowsKept(w, later, table) ==
    \A row \in RowIds :
       \/ <<table, row>> \in later.aside
       \/ <<table, row>> \notin w.aside /\ later.tables[table][row] = w.tables[table][row]

LEMMA CurrentStays ==
    ASSUME NEW t, NEW w, NEW later, NEW table,
           TableCurrent(t, w, table), RowsKept(w, later, table)
    PROVE  TableCurrent(t, later, table)
<1>1. ASSUME NEW rows, RowsAgree(rows, w, table) PROVE RowsAgree(rows, later, table)
  BY <1>1 DEF RowsAgree, RowsKept
<1>2. QED
  BY <1>1 DEF TableCurrent

-----------------------------------------------------------------------------
LEMMA TabTables == \A tab \in Tabs : TablesOf(tab) \subseteq Tables
BY DEF Tabs, Tables, TablesOf, SettingsTabs

LEMMA OrderIs ==
    ASSUME NEW op, NEW table, NEW row, NEW flag, op = "enroll" => table = "totp"
    PROVE  LET o == [Order(op, table, row) EXCEPT !.flag = flag] IN OrderOK(o)
BY DEF Order, OrderOK, OrderFields

LEMMA ReloadedIs ==
    ASSUME NEW p, PanelOK(p), NEW table
    PROVE  LET q == Reloaded(p, table) IN
           /\ PanelOK(q) /\ q.tab = p.tab /\ q.secret = p.secret
           /\ \A t \in Tables : IF t = table THEN q.tables[t].request[1] = "asked"
                                ELSE q.tables[t] = p.tables[t]
<1> DEFINE q == Reloaded(p, table)
           tables == [p.tables EXCEPT ![table] = Fetch(@, table)]
<1>1. /\ q = [f \in PanelFields |-> q[f]] /\ q.tab = p.tab /\ q.secret = p.secret
      /\ q.tables = tables
  BY DEF Reloaded, PanelOK, PanelFields
<1>2. /\ tables = [t \in Tables |-> tables[t]]
      /\ \A t \in Tables : tables[t] = IF t = table THEN Fetch(p.tables[t], table) ELSE p.tables[t]
  BY DEF PanelOK
<1> HIDE DEF q, tables
<1>3. \A t \in Tables :
         /\ ResourceOK(tables[t])
         /\ IF t = table THEN tables[t].request[1] = "asked" ELSE tables[t] = p.tables[t]
  <2> SUFFICES ASSUME NEW t \in Tables
               PROVE  /\ ResourceOK(tables[t])
                      /\ IF t = table THEN tables[t].request[1] = "asked"
                                      ELSE tables[t] = p.tables[t]
    OBVIOUS
  <2>1. ResourceOK(p.tables[t])
    BY DEF PanelOK
  <2>2. /\ ResourceOK(Fetch(p.tables[t], table))
        /\ Fetch(p.tables[t], table).request[1] = "asked"
    BY <2>1, Fetched
  <2>3. QED
    BY <1>2, <2>1, <2>2
<1>4. PanelOK(q)
  BY <1>1, <1>2, <1>3 DEF PanelOK
<1>5. QED
  BY <1>1, <1>3, <1>4 DEF q

LEMMA FreedIs ==
    ASSUME NEW p, PanelOK(p), NEW o
    PROVE  /\ PanelOK(Freed(p, o)) /\ Freed(p, o).tab = p.tab /\ Freed(p, o).secret = p.secret
           /\ Freed(p, o).tables = p.tables
BY DEF Freed, PanelOK, PanelFields

(* Steps that leave tables alone. *)
SameTables(p) == /\ PanelOK(p) /\ p.tab = panel.tab /\ p.tables = panel.tables
                 /\ panel.secret => p.secret
StillCovered(later) == \A table : Covered(table, orders) => Covered(table, later)

LEMMA PanelKept ==
    ASSUME PanelInv, SameTables(panel'), owned' = owned, \A o \in orders' : OrderOK(o),
           StillCovered(orders')
    PROVE  PanelInv'
BY DEF PanelInv, SameTables, StillCovered, TableSound, OwnedOK

(* Taking out an order that wrote nothing, or nothing yet. *)
LEMMA CoverStays ==
    ASSUME NEW o \in orders, o.state # "ok" \/ ~Writes(o), NEW later, orders \ {o} \subseteq later
    PROVE  StillCovered(later)
BY DEF StillCovered, Covered

LEMMA DoStep ==
    ASSUME PanelInv, NEW flag, NEW op, NEW table, NEW row, op = "enroll" => table = "totp",
           Do(flag, Order(op, table, row))
    PROVE  PanelInv'
<1> DEFINE o == [Order(op, table, row) EXCEPT !.flag = flag]
<1>1. OrderOK(o)
  BY OrderIs
<1>2. /\ orders' = orders \cup {o} /\ owned' = owned
      /\ panel' = panel \/ panel' = [panel EXCEPT !.busy = @ \cup {flag}]
  BY DEF Do
<1> HIDE DEF o
<1>3. SameTables(panel')
  BY <1>2 DEF SameTables, PanelInv, PanelOK, PanelFields
<1>4. StillCovered(orders')
  BY <1>2 DEF StillCovered, Covered
<1>5. QED
  BY <1>1, <1>2, <1>3, <1>4, PanelKept DEF PanelInv

LEMMA RowButtonStep ==
    ASSUME PanelInv, NEW row,
           \/ RevokeToken(row) \/ ToggleHookActive(row) \/ RemoveHook(row) \/ TestHook(row)
           \/ RevokeSession(row) \/ RemovePasskey(row) \/ RevokeInvite(row)
           \/ Resolve(row) \/ Moderate(row) \/ BlockInstance(row) \/ UnblockInstance(row)
           \/ UnsubscribeRelay(row) \/ ToggleRemoteHidden(row)
    PROVE  PanelInv'
<1>1. CASE RevokeToken(row) \/ ToggleHookActive(row) \/ RemoveHook(row) \/ TestHook(row)
  BY <1>1, DoStep DEF RevokeToken, ToggleHookActive, RemoveHook, TestHook
<1>2. CASE RevokeSession(row) \/ RemovePasskey(row) \/ RevokeInvite(row)
  BY <1>2, DoStep DEF RevokeSession, RemovePasskey, RevokeInvite
<1>3. CASE Resolve(row) \/ Moderate(row) \/ BlockInstance(row) \/ UnblockInstance(row)
  BY <1>3, DoStep DEF Resolve, Moderate, BlockInstance, UnblockInstance
<1>4. CASE UnsubscribeRelay(row) \/ ToggleRemoteHidden(row)
  BY <1>4, DoStep DEF UnsubscribeRelay, ToggleRemoteHidden
<1>5. QED
  BY <1>1, <1>2, <1>3, <1>4

LEMMA FormButtonStep ==
    ASSUME PanelInv,
           \/ CreateToken \/ CreateHook \/ AddPasskey \/ CreateInvite \/ SubscribeRelay
           \/ RevokeOthers \/ UploadBlob \/ SaveProfile \/ Wipe
           \/ StartEnroll \/ ConfirmEnroll \/ DisableTotp
    PROVE  PanelInv'
<1>1. CASE CreateToken \/ CreateHook \/ AddPasskey \/ CreateInvite \/ SubscribeRelay
  BY <1>1, DoStep DEF CreateToken, CreateHook, AddPasskey, CreateInvite, SubscribeRelay
<1>2. CASE RevokeOthers \/ UploadBlob \/ SaveProfile \/ Wipe
  BY <1>2, DoStep DEF RevokeOthers, UploadBlob, SaveProfile, Wipe
<1>3. CASE StartEnroll \/ ConfirmEnroll \/ DisableTotp
  BY <1>3, DoStep DEF StartEnroll, ConfirmEnroll, DisableTotp
<1>4. QED
  BY <1>1, <1>2, <1>3

LEMMA TypingStep ==
    ASSUME PanelInv, TypeProfile \/ TypeConfirm \/ \E form \in {"token", "hook"} : FillForm(form)
    PROVE  PanelInv'
<1>1. SameTables(panel')
  <2>1. CASE TypeProfile
    BY <2>1 DEF TypeProfile, SameTables, PanelInv, PanelOK, PanelFields
  <2>2. CASE TypeConfirm
    BY <2>2 DEF TypeConfirm, SameTables, PanelInv, PanelOK, PanelFields
  <2>3. CASE \E form \in {"token", "hook"} : FillForm(form)
    BY <2>3 DEF FillForm, SameTables, PanelInv, PanelOK, PanelFields
  <2>4. QED
    BY <2>1, <2>2, <2>3
<1>2. owned' = owned /\ orders' = orders
  BY DEF TypeProfile, TypeConfirm, FillForm
<1>3. QED
  BY <1>1, <1>2, PanelKept DEF PanelInv, StillCovered

LEMMA MountedIs ==
    ASSUME NEW tab \in Tabs, NEW me
    PROVE  LET p == Mounted(tab, me) IN
           /\ PanelOK(p) /\ p.tab = tab
           /\ \A table \in TablesOf(tab) : p.tables[table].request[1] = "asked"
<1> DEFINE p == Mounted(tab, me)
           tables == [table \in Tables |->
                        IF table \in TablesOf(tab) THEN Fetch(Unresolved, table) ELSE Unresolved]
<1>1. p = [f \in PanelFields |-> p[f]] /\ p.tab = tab /\ p.tables = tables
  BY DEF Mounted, PanelFields
<1>2. ASSUME NEW table \in Tables
      PROVE  /\ ResourceOK(tables[table])
             /\ table \in TablesOf(tab) => tables[table].request[1] = "asked"
  <2>1. /\ ResourceOK(Unresolved) /\ ResourceOK(Fetch(Unresolved, table))
        /\ Fetch(Unresolved, table).request[1] = "asked"
    BY Unresolves, Fetched
  <2>2. tables[table] = IF table \in TablesOf(tab) THEN Fetch(Unresolved, table) ELSE Unresolved
    OBVIOUS
  <2> HIDE DEF tables
  <2>3. QED
    BY <2>1, <2>2
<1>3. tables = [table \in Tables |-> tables[table]]
  OBVIOUS
<1> HIDE DEF p, tables
<1>4. PanelOK(p)
  BY <1>1, <1>2, <1>3 DEF PanelOK
<1>5. \A table \in TablesOf(tab) : p.tables[table].request[1] = "asked"
  BY <1>1, <1>2, TabTables
<1>6. QED
  BY <1>1, <1>4, <1>5 DEF p

LEMMA SwitchStep ==
    ASSUME PanelInv, NEW tab \in SettingsTabs, SwitchTab(tab)
    PROVE  PanelInv'
<1>1. /\ panel' = Mounted(tab, panel.me) /\ owned' = owned
      /\ orders' = {[o EXCEPT !.alive = FALSE] : o \in orders}
                     \cup (IF tab = "profile" THEN {Order("load", "profile", "none")} ELSE {})
  BY DEF SwitchTab
<1>2. /\ PanelOK(panel') /\ panel'.tab = tab
      /\ \A table \in TablesOf(tab) : panel'.tables[table].request[1] = "asked"
  BY <1>1, MountedIs DEF Tabs
<1>3. \A o \in orders : OrderOK([o EXCEPT !.alive = FALSE])
  BY DEF PanelInv, OrderOK, OrderFields
<1>4. OrderOK(Order("load", "profile", "none"))
  BY DEF Order, OrderOK, OrderFields
<1>5. \A o \in orders' : OrderOK(o)
  BY <1>1, <1>3, <1>4
<1>6. \A table \in TablesOf(panel'.tab) : TableSound(panel, owned, orders, table)'
  BY <1>2 DEF TableSound, TableCurrent
<1>7. QED
  BY <1>1, <1>2, <1>5, <1>6 DEF PanelInv, OwnedOK

-----------------------------------------------------------------------------
(* Answers to orders. *)

(* The table of an order is loaded again with its answer. *)
LEMMA ReloadingStep ==
    ASSUME PanelInv, NEW o \in orders, orders' = orders \ {o}, owned' = owned, PanelOK(panel'),
           panel'.tab = panel.tab, panel.secret => panel'.secret \/ o.table = "totp",
           \A t \in Tables : IF t = o.table THEN panel'.tables[t].request[1] = "asked"
                             ELSE panel'.tables[t] = panel.tables[t]
    PROVE  PanelInv'
<1>1. ASSUME ~owned.lost, NEW table \in TablesOf(panel.tab)
      PROVE  TableSound(panel, owned, orders, table)'
  <2>1. table \in Tables /\ TableSound(panel, owned, orders, table)
    BY <1>1, TabTables DEF PanelInv, PanelOK
  <2>2. CASE table = o.table
    BY <2>1, <2>2 DEF TableSound, TableCurrent
  <2>3. CASE table # o.table
    BY <2>1, <2>3 DEF TableSound, Covered
  <2>4. QED
    BY <2>2, <2>3
<1>2. QED
  BY <1>1 DEF PanelInv, OwnedOK

LEMMA ExecutedStep ==
    ASSUME PanelInv, NEW o \in orders, Executed(o) \/ FederationExecuted(o)
    PROVE  PanelInv'
<1>1. orders' = orders \ {o} /\ owned' = owned /\ o.state \in {"ok", "failed"} /\ PanelOK(panel)
  BY DEF Executed, FederationExecuted, PanelInv, OrderOK
<1>2. CASE o.state = "failed"
  <2>1. panel' = Freed(panel, o)
    BY <1>2 DEF Executed, FederationExecuted
  <2>2. SameTables(panel')
    BY <1>1, <2>1, FreedIs DEF SameTables
  <2>3. StillCovered(orders')
    BY <1>1, <1>2, CoverStays
  <2>4. QED
    BY <1>1, <2>2, <2>3, PanelKept DEF PanelInv
<1>3. CASE o.state = "ok"
  <2> DEFINE p == Reloaded(Freed(panel, o), o.table)
             q == Reloaded(panel, o.table)
  <2>1. /\ PanelOK(p) /\ p.tab = panel.tab /\ p.secret = panel.secret
        /\ \A t \in Tables : IF t = o.table THEN p.tables[t].request[1] = "asked"
                             ELSE p.tables[t] = panel.tables[t]
    BY <1>1, FreedIs, ReloadedIs
  <2>2. /\ PanelOK(q) /\ q.tab = panel.tab /\ q.secret = panel.secret
        /\ \A t \in Tables : IF t = o.table THEN q.tables[t].request[1] = "asked"
                             ELSE q.tables[t] = panel.tables[t]
    BY <1>1, ReloadedIs
  <2>3. \/ panel' = [p EXCEPT !.form = IF o.op = "add" THEN "empty" ELSE @,
                              !.secret = @ /\ o.table # "totp"]
        \/ panel' = [q EXCEPT !.awaits = o.table]
    BY <1>3 DEF Executed, FederationExecuted
  <2> HIDE DEF p, q
  <2>4. CASE panel' = [q EXCEPT !.awaits = o.table]
    <3>1. /\ PanelOK(panel') /\ panel'.tab = q.tab /\ panel'.secret = q.secret
          /\ panel'.tables = q.tables
      BY <2>2, <2>4 DEF PanelOK, PanelFields
    <3>2. QED
      BY <1>1, <2>2, <3>1, ReloadingStep
  <2>5. CASE panel' = [p EXCEPT !.form = IF o.op = "add" THEN "empty" ELSE @,
                                !.secret = @ /\ o.table # "totp"]
    <3>1. /\ PanelOK(panel') /\ panel'.tab = p.tab /\ panel'.secret = (p.secret /\ o.table # "totp")
          /\ panel'.tables = p.tables
      BY <2>1, <2>5 DEF PanelOK, PanelFields
    <3>2. panel.secret => panel'.secret \/ o.table = "totp"
      BY <2>1, <3>1
    <3>3. QED
      BY <1>1, <2>1, <3>1, <3>2, ReloadingStep
  <2>6. QED
    BY <2>3, <2>4, <2>5
<1>4. QED
  BY <1>1, <1>2, <1>3

LEMMA EnrolledStep ==
    ASSUME PanelInv, NEW o \in orders, Enrolled(o)
    PROVE  PanelInv'
<1> DEFINE p == Freed(panel, o)
<1>1. /\ orders' = orders \ {o} /\ owned' = owned /\ o.table = "totp" /\ PanelOK(panel)
      /\ panel' = [p EXCEPT !.secret = @ \/ o.state = "ok"]
  BY DEF Enrolled, PanelInv, OrderOK
<1>2. PanelOK(p) /\ p.tab = panel.tab /\ p.secret = panel.secret /\ p.tables = panel.tables
  BY <1>1, FreedIs
<1> HIDE DEF p
<1>3. /\ PanelOK(panel') /\ panel'.tab = panel.tab /\ panel'.tables = panel.tables
      /\ panel'.secret = (panel.secret \/ o.state = "ok")
  BY <1>1, <1>2 DEF PanelOK, PanelFields
<1>4. ASSUME ~owned.lost, NEW table \in TablesOf(panel.tab)
      PROVE  TableSound(panel, owned, orders, table)'
  <2>1. TableSound(panel, owned, orders, table)
    BY <1>4 DEF PanelInv
  <2>2. CASE table = "totp" /\ o.state = "ok"
    BY <1>3, <2>2 DEF TableSound
  <2>3. CASE table # "totp" \/ o.state # "ok"
    <3>1. Covered(table, orders) => Covered(table, orders')
      BY <1>1, <2>3 DEF Covered
    <3>2. QED
      BY <1>1, <1>3, <2>1, <3>1 DEF TableSound
  <2>4. QED
    BY <2>2, <2>3
<1>5. QED
  BY <1>1, <1>3, <1>4 DEF PanelInv, OwnedOK

LEMMA OtherAnswerStep ==
    ASSUME PanelInv, NEW o \in orders,
           Tested(o) \/ AvatarUploaded(o) \/ ProfileLoaded(o) \/ ProfileSaved(o)
    PROVE  PanelInv'
<1>1. /\ orders' = orders \ {o} /\ owned' = owned /\ PanelOK(panel)
      /\ o.op \in {"test", "upload", "load", "save"}
  BY DEF Tested, AvatarUploaded, ProfileLoaded, ProfileSaved, PanelInv
<1> DEFINE p == Freed(panel, o)
<1>2. PanelOK(p) /\ p.tab = panel.tab /\ p.secret = panel.secret /\ p.tables = panel.tables
  BY <1>1, FreedIs
<1>3. \/ panel' = [p EXCEPT !.open = @ \/ o.state = "ok"]
      \/ panel' = [p EXCEPT !.form = IF o.state = "ok" THEN "new" ELSE @]
      \/ panel' = [panel EXCEPT !.form = o.row] \/ panel' = panel
      \/ panel' = [p EXCEPT !.me = IF o.state = "ok" THEN o.row ELSE @]
      \/ panel' = [panel EXCEPT !.me = IF o.state = "ok" THEN o.row ELSE @]
  BY DEF Tested, AvatarUploaded, ProfileLoaded, ProfileSaved
<1> HIDE DEF p
<1>4. SameTables(panel')
  BY <1>1, <1>2, <1>3 DEF SameTables, PanelOK, PanelFields
<1>5. StillCovered(orders')
  BY <1>1, CoverStays DEF Writes, Changes
<1>6. QED
  BY <1>1, <1>4, <1>5, PanelKept DEF PanelInv

LEMMA WipedStep ==
    ASSUME PanelInv, NEW o \in orders, Wiped(o)
    PROVE  PanelInv'
<1>1. o.op = "wipe" /\ o.state \in {"ok", "failed"} /\ owned' = owned /\ PanelOK(panel)
  BY DEF Wiped, PanelInv, OrderOK
<1>2. CASE o.state = "ok"
  <2>1. panel' = Mounted("left", "none") /\ orders' = {}
    BY <1>2 DEF Wiped
  <2>2. PanelOK(panel') /\ panel'.tab = "left"
    BY <2>1, MountedIs DEF Tabs
  <2>3. TablesOf("left") = {}
    BY DEF TablesOf
  <2>4. QED
    BY <1>1, <2>1, <2>2, <2>3 DEF PanelInv, OwnedOK
<1>3. CASE o.state = "failed"
  <2>1. orders' = orders \ {o} /\ (panel' = Freed(panel, o) \/ panel' = panel)
    BY <1>3 DEF Wiped
  <2>2. SameTables(panel')
    BY <1>1, <2>1, FreedIs DEF SameTables
  <2>3. StillCovered(orders')
    BY <1>3, <2>1, CoverStays
  <2>4. QED
    BY <1>1, <2>1, <2>2, <2>3, PanelKept DEF PanelInv
<1>4. QED
  BY <1>1, <1>2, <1>3

LEMMA IgnoredStep ==
    ASSUME PanelInv, NEW o \in orders, Ignored(o)
    PROVE  PanelInv'
<1>1. /\ orders' = orders \ {o} /\ owned' = [owned EXCEPT !.lost = TRUE] /\ panel' = panel
  BY DEF Ignored
<1>2. OwnedOK(owned') /\ owned'.lost = TRUE
  BY <1>1 DEF PanelInv, OwnedOK, OwnedFields
<1>3. QED
  BY <1>1, <1>2 DEF PanelInv

-----------------------------------------------------------------------------
(* The server, and the tables it sends. *)

LEMMA AfterOrderIs ==
    ASSUME OwnedOK(owned), NEW o
    PROVE  LET after == AfterOrder(o) IN
           /\ OwnedOK(after) /\ after.lost = owned.lost /\ after.aside = owned.aside
           /\ \A table \in Tables :
                 table # o.table \/ ~Writes(o) => after.tables[table] = owned.tables[table]
<1> DEFINE after == AfterOrder(o)
<1>1. CASE Writes(o)
  <2>1. PICK what : after = [owned EXCEPT !.tables[o.table][o.row] = what]
    BY <1>1 DEF AfterOrder, Writes, Changes
  <2> HIDE DEF after
  <2> DEFINE tables == [owned.tables EXCEPT ![o.table] = [@ EXCEPT ![o.row] = what]]
  <2>2. /\ after = [f \in OwnedFields |-> after[f]] /\ after.lost = owned.lost
        /\ after.aside = owned.aside /\ after.tables = tables
    BY <2>1 DEF OwnedOK, OwnedFields
  <2>3. /\ tables = [table \in Tables |-> tables[table]]
        /\ \A table \in Tables : table # o.table => tables[table] = owned.tables[table]
    BY DEF OwnedOK
  <2> HIDE DEF tables
  <2>4. QED
    BY <1>1, <2>2, <2>3 DEF OwnedOK, after
<1>2. CASE ~Writes(o)
  <2>1. after = owned \/ after = [owned EXCEPT !.profile = o.row]
    BY <1>2 DEF AfterOrder, Writes, Changes
  <2> HIDE DEF after
  <2>2. QED
    BY <2>1 DEF OwnedOK, OwnedFields, after
<1>3. QED
  BY <1>1, <1>2

LEMMA SettledIs ==
    ASSUME NEW after, OwnedOK(after)
    PROVE  /\ OwnedOK(Settled(after)) /\ Settled(after).lost = after.lost
           /\ \A table \in Tables : RowsKept(after, Settled(after), table)
<1> DEFINE open == {row \in after.about : after.tables["reports"][row] = "on"}
           rows == [row \in RowIds |-> IF row \in open THEN "absent"
                                      ELSE after.tables["reports"][row]]
           s == Settled(after)
<1>1. /\ s = [f \in OwnedFields |-> s[f]] /\ s.lost = after.lost
      /\ s.aside = after.aside \cup ({"reports"} \X open)
      /\ s.tables = [after.tables EXCEPT !["reports"] = rows]
  BY DEF Settled, OwnedOK, OwnedFields
<1>2. \A row \in RowIds : row \in open \/ rows[row] = after.tables["reports"][row]
  OBVIOUS
<1> HIDE DEF s, rows, open
<1>3. /\ s.tables = [table \in Tables |-> s.tables[table]]
      /\ \A table \in Tables : s.tables[table] = IF table = "reports" THEN rows
                                                ELSE after.tables[table]
  BY <1>1 DEF OwnedOK
<1>4. ASSUME NEW table \in Tables, NEW row \in RowIds
      PROVE  \/ <<table, row>> \in s.aside
             \/ <<table, row>> \notin after.aside /\ s.tables[table][row] = after.tables[table][row]
  <2>1. CASE table = "reports" /\ row \in open
    BY <1>1, <2>1
  <2>2. CASE table # "reports" \/ row \notin open
    BY <1>1, <1>2, <1>3, <2>2
  <2>3. QED
    BY <2>1, <2>2
<1>5. QED
  BY <1>1, <1>3, <1>4 DEF OwnedOK, RowsKept, s

LEMMA OutcomeIs ==
    ASSUME OwnedOK(owned), NEW o, NEW after \in Outcomes(o)
    PROVE  /\ OwnedOK(after) /\ after.lost = owned.lost
           /\ \A table \in Tables :
                 (table = o.table /\ Writes(o)) \/ RowsKept(owned, after, table)
<1>1. PICK a : a = AfterOrder(o)
  OBVIOUS
<1>2. after = a \/ after = Settled(a)
  BY <1>1 DEF Outcomes
<1>3. /\ OwnedOK(a) /\ a.lost = owned.lost /\ a.aside = owned.aside
      /\ \A table \in Tables : table # o.table \/ ~Writes(o) => a.tables[table] = owned.tables[table]
  BY <1>1, AfterOrderIs
<1>4. /\ OwnedOK(Settled(a)) /\ Settled(a).lost = owned.lost
      /\ \A table \in Tables : RowsKept(a, Settled(a), table)
  BY <1>3, SettledIs
<1>5. ASSUME NEW table \in Tables, table # o.table \/ ~Writes(o)
      PROVE  RowsKept(owned, after, table)
  <2>1. RowsKept(owned, a, table) \/ \E row \in RowIds : <<table, row>> \in owned.aside
    BY <1>3, <1>5 DEF RowsKept
  <2>2. CASE after = a
    BY <1>3, <1>5, <2>2 DEF RowsKept
  <2>3. CASE after = Settled(a)
    BY <1>3, <1>4, <1>5, <2>3 DEF RowsKept
  <2>4. QED
    BY <1>2, <2>2, <2>3
<1>6. QED
  BY <1>2, <1>3, <1>4, <1>5

LEMMA ServeOrderStep ==
    ASSUME PanelInv, NEW o \in orders, ServeOrder(o)
    PROVE  PanelInv'
<1>1. OrderOK(o) /\ OwnedOK(owned) /\ PanelOK(panel) /\ panel' = panel /\ o.state = "sent"
  BY DEF PanelInv, ServeOrder
<1>2. CASE \E row : /\ owned' \in Outcomes(o)
                    /\ orders' = (orders \ {o}) \cup {[o EXCEPT !.state = "ok", !.row = row]}
  <2>1. PICK row : /\ owned' \in Outcomes(o)
                   /\ orders' = (orders \ {o}) \cup {[o EXCEPT !.state = "ok", !.row = row]}
    BY <1>2
  <2> DEFINE r == [o EXCEPT !.state = "ok", !.row = row]
  <2>2. OrderOK(r) /\ r.op = o.op /\ r.table = o.table /\ r.state = "ok"
    BY <1>1 DEF OrderOK, OrderFields
  <2>3. orders' = (orders \ {o}) \cup {r}
    BY <2>1
  <2> HIDE DEF r
  <2>4. /\ OwnedOK(owned') /\ owned'.lost = owned.lost
        /\ \A table \in Tables :
              (table = o.table /\ Writes(o)) \/ RowsKept(owned, owned', table)
    BY <1>1, <2>1, OutcomeIs
  <2>5. ASSUME ~owned.lost, NEW table \in TablesOf(panel.tab)
        PROVE  TableSound(panel, owned, orders, table)'
    <3>1. table \in Tables /\ TableSound(panel, owned, orders, table)
      BY <2>5, TabTables DEF PanelInv, PanelOK
    <3>2. CASE table = o.table /\ Writes(o)
      <4>1. Covered(table, orders')
        BY <2>2, <2>3, <3>2 DEF Covered, Writes
      <4>2. QED
        BY <4>1 DEF TableSound
    <3>3. CASE RowsKept(owned, owned', table)
      <4>1. Covered(table, orders) => Covered(table, orders')
        BY <1>1, <2>3 DEF Covered
      <4>2. TableCurrent(panel.tables[table], owned, table) =>
                TableCurrent(panel.tables[table], owned', table)
        BY <3>3, CurrentStays
      <4>3. QED
        BY <1>1, <3>1, <4>1, <4>2 DEF TableSound
    <3>4. QED
      BY <2>4, <3>1, <3>2, <3>3
  <2>6. QED
    BY <1>1, <2>2, <2>3, <2>4, <2>5 DEF PanelInv
<1>3. CASE /\ orders' = (orders \ {o}) \cup {[o EXCEPT !.state = "failed"]}
           /\ \/ owned' = owned
              \/ \E after \in {owned} \cup Outcomes(o) : owned' = [after EXCEPT !.lost = TRUE]
  <2> DEFINE r == [o EXCEPT !.state = "failed"]
  <2>1. OrderOK(r)
    BY <1>1 DEF OrderOK, OrderFields
  <2>2. orders' = (orders \ {o}) \cup {r}
    BY <1>3
  <2> HIDE DEF r
  <2>3. CASE owned' = owned
    <3>1. StillCovered(orders')
      BY <1>1, <2>2, CoverStays
    <3>2. QED
      BY <1>1, <2>1, <2>2, <2>3, <3>1, PanelKept DEF PanelInv, SameTables
  <2>4. CASE \E after \in {owned} \cup Outcomes(o) : owned' = [after EXCEPT !.lost = TRUE]
    <3>1. PICK after \in {owned} \cup Outcomes(o) : owned' = [after EXCEPT !.lost = TRUE]
      BY <2>4
    <3>2. OwnedOK(after)
      BY <1>1, OutcomeIs
    <3>3. OwnedOK(owned') /\ owned'.lost = TRUE
      BY <3>1, <3>2 DEF OwnedOK, OwnedFields
    <3>4. QED
      BY <1>1, <2>1, <2>2, <3>3 DEF PanelInv
  <2>5. QED
    BY <1>3, <2>3, <2>4
<1>4. QED
  BY <1>2, <1>3 DEF ServeOrder

LEMMA HookDisabledStep ==
    ASSUME PanelInv, NEW row \in RowIds, HookDisabled(row)
    PROVE  PanelInv'
<1>1. /\ panel' = panel /\ orders' = orders /\ OwnedOK(owned) /\ PanelOK(panel)
      /\ owned' = [owned EXCEPT !.tables["hooks"][row] = "off",
                                !.aside = @ \cup {<<"hooks", row>>}]
  BY DEF HookDisabled, PanelInv
<1> DEFINE rows == [owned.tables["hooks"] EXCEPT ![row] = "off"]
<1>2. \A other \in RowIds : other = row \/ rows[other] = owned.tables["hooks"][other]
  OBVIOUS
<1>3. /\ owned' = [f \in OwnedFields |-> owned'[f]] /\ owned'.lost = owned.lost
      /\ owned'.aside = owned.aside \cup {<<"hooks", row>>}
      /\ owned'.tables = [owned.tables EXCEPT !["hooks"] = rows]
  BY <1>1 DEF OwnedOK, OwnedFields
<1> HIDE DEF rows
<1>4. /\ owned'.tables = [table \in Tables |-> owned'.tables[table]]
      /\ \A table \in Tables : owned'.tables[table] = IF table = "hooks" THEN rows
                                                     ELSE owned.tables[table]
  BY <1>1, <1>3 DEF OwnedOK
<1>5. \A table \in Tables : RowsKept(owned, owned', table)
  BY <1>2, <1>3, <1>4 DEF RowsKept
<1>6. ASSUME ~owned.lost, NEW table \in TablesOf(panel.tab)
      PROVE  TableSound(panel, owned, orders, table)'
  <2>1. table \in Tables /\ TableSound(panel, owned, orders, table)
    BY <1>6, TabTables DEF PanelInv, PanelOK
  <2>2. TableCurrent(panel.tables[table], owned, table) =>
            TableCurrent(panel.tables[table], owned', table)
    BY <1>5, <2>1, CurrentStays
  <2>3. QED
    BY <1>1, <2>1, <2>2 DEF TableSound
<1>7. QED
  BY <1>1, <1>3, <1>4, <1>6 DEF PanelInv, OwnedOK

(* One table changes its request or lands; the rest of the page may change with it. *)
LEMMA OneTableStep ==
    ASSUME PanelInv, NEW table \in Tables, NEW t, ResourceOK(t),
           PanelOK(panel'), panel'.tab = panel.tab, panel'.secret = panel.secret,
           panel'.tables = [panel.tables EXCEPT ![table] = t],
           orders' = orders, OwnedOK(owned'), owned'.tables = owned.tables,
           \/ owned'.lost
           \/ /\ owned'.lost = owned.lost
              /\ owned'.aside \in {owned.aside, owned.aside \ ({table} \X RowIds)}
              /\ TableCurrent(panel.tables[table], owned, table) => TableCurrent(t, owned', table)
    PROVE  PanelInv'
<1>1. ASSUME ~owned'.lost, NEW other \in TablesOf(panel.tab)
      PROVE  TableSound(panel, owned, orders, other)'
  <2>1. other \in Tables /\ TableSound(panel, owned, orders, other)
    BY <1>1, TabTables DEF PanelInv, PanelOK
  <2>2. panel'.tables[other] = IF other = table THEN t ELSE panel.tables[other]
    BY <2>1 DEF PanelInv, PanelOK
  <2>3. CASE other = table
    BY <1>1, <2>1, <2>2, <2>3 DEF TableSound
  <2>4. CASE other # table
    <3>1. RowsKept(owned, owned', other)
      BY <1>1, <2>4 DEF RowsKept
    <3>2. TableCurrent(panel.tables[other], owned, other) =>
              TableCurrent(panel.tables[other], owned', other)
      BY <3>1, CurrentStays
    <3>3. QED
      BY <1>1, <2>1, <2>2, <2>4, <3>2 DEF TableSound
  <2>5. QED
    BY <2>3, <2>4
<1>2. QED
  BY <1>1 DEF PanelInv

LEMMA TableLandsStep ==
    ASSUME PanelInv, NEW table \in Tables, TableLands(table)
    PROVE  PanelInv'
<1> DEFINE old == panel.tables[table]
           t == Land(old)
           p == [panel EXCEPT !.tables[table] = Land(@)]
<1>1. /\ Answered(old) /\ owned' = owned /\ orders' = orders /\ PanelOK(panel) /\ ResourceOK(old)
  BY DEF TableLands, PanelInv, PanelOK
<1>2. /\ ResourceOK(t) /\ t.request = Quiet
      /\ old.request[1] = "served" => t.value = <<old.request[2]>> /\ t.failed = FALSE
  BY <1>1, Landed
<1>3. /\ p = [f \in PanelFields |-> p[f]] /\ p.tab = panel.tab /\ p.secret = panel.secret
      /\ p.tables = [panel.tables EXCEPT ![table] = t]
  BY <1>1 DEF PanelOK, PanelFields
<1>4. panel' = p \/ panel' = [p EXCEPT !.busy = @ \ {"federation"}, !.awaits = "none"]
  BY DEF TableLands
<1> HIDE DEF old, t, p
<1>5. /\ panel' = [f \in PanelFields |-> panel'[f]] /\ panel'.tab = panel.tab
      /\ panel'.secret = panel.secret /\ panel'.tables = [panel.tables EXCEPT ![table] = t]
  BY <1>3, <1>4 DEF PanelFields
<1>6. PanelOK(panel')
  BY <1>1, <1>2, <1>5 DEF PanelOK
<1>7. TableCurrent(old, owned, table) => TableCurrent(t, owned, table)
  BY <1>1, <1>2 DEF TableCurrent, Answered, Quiet, Shown, Throws
<1>8. QED
  BY <1>1, <1>2, <1>5, <1>6, <1>7, OneTableStep DEF PanelInv, OwnedOK, old

LEMMA ServeTableStep ==
    ASSUME PanelInv, NEW table \in Tables, ServeTable(table)
    PROVE  PanelInv'
<1> DEFINE old == panel.tables[table]
           now == owned.tables[table]
           read == [owned EXCEPT !.aside = @ \ ({table} \X RowIds)]
<1>1. orders' = orders /\ PanelOK(panel) /\ ResourceOK(old) /\ OwnedOK(owned)
  BY DEF ServeTable, PanelInv, PanelOK
<1>2. PICK t : /\ panel' = [panel EXCEPT !.tables[table] = t]
               /\ \/ t = Answer(old, now) /\ owned' = read
                  \/ /\ t = Answer(old, Row("absent", "absent")) \/ t = Refuse(old)
                     /\ owned' = [owned EXCEPT !.lost = TRUE]
  BY DEF ServeTable
<1>3. ResourceOK(t)
  BY <1>1, <1>2, Responded
<1>4. /\ panel' = [f \in PanelFields |-> panel'[f]] /\ panel'.tab = panel.tab
      /\ panel'.secret = panel.secret /\ panel'.tables = [panel.tables EXCEPT ![table] = t]
  BY <1>1, <1>2 DEF PanelOK, PanelFields
<1>5. PanelOK(panel')
  BY <1>1, <1>3, <1>4 DEF PanelOK
<1>6. /\ OwnedOK(owned') /\ owned'.tables = owned.tables
      /\ \/ owned'.lost
         \/ /\ owned'.lost = owned.lost /\ owned'.aside = owned.aside \ ({table} \X RowIds)
            /\ t = Answer(old, now)
  BY <1>1, <1>2 DEF OwnedOK, OwnedFields
<1>7. t = Answer(old, now) => TableCurrent(t, owned', table)
  <2>1. LET a == Answer(old, now) IN a.request[1] = "served" /\ a.request[2] = now
    BY <1>1, Responded
  <2>2. QED
    BY <1>6, <2>1 DEF TableCurrent, RowsAgree
<1>8. QED
  BY <1>1, <1>3, <1>4, <1>5, <1>6, <1>7, OneTableStep

LEMMA PanelStep == PanelInv /\ [PanelsNext]_panelVars => PanelInv'
<1> SUFFICES ASSUME PanelInv, [PanelsNext]_panelVars
             PROVE  PanelInv'
  OBVIOUS
<1>1. CASE UNCHANGED panelVars
  BY <1>1, PanelKept DEF panelVars, PanelInv, SameTables, StillCovered
<1>2. CASE PanelsNext
  BY <1>2, SwitchStep, TypingStep, RowButtonStep, FormButtonStep, TableLandsStep, ServeTableStep,
     ExecutedStep, EnrolledStep, OtherAnswerStep, WipedStep, IgnoredStep, ServeOrderStep,
     HookDisabledStep
  DEF PanelsNext
<1>3. QED
  BY <1>1, <1>2

LEMMA SoundIsCurrent == PanelInv => PanelsAreCurrent
<1> SUFFICES ASSUME PanelInv, orders = {}, ~owned.lost, NEW table \in TablesOf(panel.tab),
                    ~Loading(panel.tables[table]), ~panel.secret
             PROVE  /\ Shown(panel.tables[table])
                    /\ \A row \in RowIds :
                          \/ panel.tables[table].value[1][row] = owned.tables[table][row]
                          \/ Aside(table, row)
  BY DEF PanelsAreCurrent
<1>1. TableCurrent(panel.tables[table], owned, table)
  BY DEF PanelInv, TableSound, Covered
<1>2. QED
  BY <1>1 DEF TableCurrent, Loading, Quiet, RowsAgree, Aside

\* Once all is through, each row on screen is the server's, for any number of orders on
\* their way at once, crossing each other and the tables, unless one was refused or came back
\* after its tab was left; a row that changed aside, a report by the decision on its post or a
\* webhook by its deliveries, shows with the next load of its table.
\* [Settings.tsx and Admin.tsx: the refetch after each change; admin.rs 470-492]
THEOREM PanelsAlwaysCurrent == PanelsSpec => []PanelsAreCurrent
<1>1. PanelsInit => PanelInv
  <2>1. ASSUME NEW tab \in Tabs, NEW factor, NEW about, PanelOpened(tab, factor, about)
        PROVE  PanelInv
    <3>1. /\ PanelOK(panel) /\ panel.tab = tab
          /\ \A table \in TablesOf(tab) : panel.tables[table].request[1] = "asked"
      BY <2>1, MountedIs DEF PanelOpened
    <3>2. OwnedOK(owned)
      BY <2>1 DEF PanelOpened, OwnedOK, OwnedFields
    <3>3. \A o \in orders : OrderOK(o)
      BY <2>1 DEF PanelOpened, Order, OrderOK, OrderFields
    <3>4. QED
      BY <3>1, <3>2, <3>3 DEF PanelInv, TableSound, TableCurrent
  <2>2. QED
    BY <2>1, PanelsAssumption DEF PanelsInit, Tabs
<1>2. QED
  BY <1>1, PanelStep, SoundIsCurrent, PTL DEF PanelsSpec

-----------------------------------------------------------------------------
(* A conversation: every message of the other end is on screen, or is announced, asked for *)
(* or on its way, and so is the count of what is unread.                                    *)

ThreadFields == {"peer", "data", "body", "media", "busy", "uploading", "awaiting", "err", "typing",
                 "reactFor", "playing", "selecting", "selected"}
ChatFields == {"box", "unread", "follow", "muted", "silent", "gone", "refused"}
CallFields == {"op", "peer", "ids", "arg", "state"}
Reactions == {"none"} \cup Emoji
Messages == [id : Nat, mine : BOOLEAN, react : Reactions, clip : {"none", "pending", "ready"}]
Events == [kind : {"dm", "typing"}, peer : Peers]

CallOK(c) ==
    /\ c = [f \in CallFields |-> c[f]] /\ c.peer \in Peers /\ c.state \in {"sent", "ok", "failed"}
    /\ c.op = "react" => c.arg \in Reactions

(* Ids by who wrote the message: the other end or the reader. *)
Incoming(msgs) == {msgs[i].id : i \in {j \in DOMAIN msgs : ~msgs[j].mine}}
Outgoing(msgs) == {msgs[i].id : i \in {j \in DOMAIN msgs : msgs[j].mine}}

Boxed  == UNION {Ids(chat.box[p]) : p \in Peers}
Theirs  == UNION {Incoming(chat.box[p]) : p \in Peers}
Written == Boxed \cup chat.gone

(* Messages of the reader, whether they are still there or not. *)
Mine == Written \ Theirs

(* Ids are numbers given once. *)
Numbered == Boxed \cap chat.gone = {} /\ \E n \in Nat : Written = 1..n

BoxesOK ==
    /\ chat = [f \in ChatFields |-> chat[f]]
    /\ chat.box \in [Peers -> Seq(Messages)] /\ Numbered
    /\ \A p \in Peers : Outgoing(chat.box[p]) \subseteq Mine
    /\ chat.unread = [p \in Peers |-> chat.unread[p]]
    /\ chat.silent = [p \in Peers |-> chat.silent[p]]

(* What is on its way up: a request of the reader's. *)
CallSound(c) ==
    /\ CallOK(c)
    /\ c.op = "delete" => c.ids \subseteq Mine
    /\ c.op = "send" /\ c.state = "ok" => \E id \in Nat : c.ids = {id} /\ id \in Mine

CallsSound == \A c \in calls : CallSound(c)

(* What a step of the server does to the messages, seen from the page. *)
MineStay == Mine \subseteq Mine'
NoneComes ==
    \A p \in Peers : Incoming(chat'.box[p]) \ chat'.silent[p] \subseteq Incoming(chat.box[p]) \ chat.silent[p]

-----------------------------------------------------------------------------
(* Lists of messages. *)

LEMMA MessagesAre ==
    ASSUME NEW msgs \in Seq(Messages)
    PROVE  /\ Len(msgs) \in Nat /\ DOMAIN msgs = 1..Len(msgs)
           /\ msgs = [i \in 1..Len(msgs) |-> msgs[i]]
           /\ \A i \in 1..Len(msgs) :
                 /\ msgs[i] \in Messages /\ msgs[i].id \in Nat /\ msgs[i].mine \in BOOLEAN
                 /\ msgs[i].react \in Reactions /\ msgs[i].clip \in {"none", "pending", "ready"}
<1>1. Len(msgs) \in Nat /\ DOMAIN msgs = 1..Len(msgs) /\ msgs \in [1..Len(msgs) -> Messages]
  BY LenProperties
<1>2. \A m \in Messages : m.id \in Nat /\ m.mine \in BOOLEAN /\ m.react \in Reactions
                          /\ m.clip \in {"none", "pending", "ready"}
  BY DEF Messages
<1>3. QED
  BY <1>1, <1>2

LEMMA Appended ==
    ASSUME NEW msgs \in Seq(Messages), NEW m \in Messages
    PROVE  LET now == Append(msgs, m) IN
           /\ now \in Seq(Messages) /\ Ids(now) = Ids(msgs) \cup {m.id}
           /\ Incoming(now) = Incoming(msgs) \cup (IF m.mine THEN {} ELSE {m.id})
           /\ Outgoing(now) = Outgoing(msgs) \cup (IF m.mine THEN {m.id} ELSE {})
<1> DEFINE now == Append(msgs, m)
           n == Len(msgs)
<1>1. n \in Nat /\ DOMAIN msgs = 1..n
  BY MessagesAre
<1>2. /\ now \in Seq(Messages) /\ Len(now) = n + 1 /\ DOMAIN now = 1..(n + 1)
      /\ (\A i \in 1..n : now[i] = msgs[i]) /\ now[n + 1] = m
  BY AppendProperties, LenProperties
<1> HIDE DEF now, n
<1>3. 1..(n + 1) = 1..n \cup {n + 1}
  BY <1>1
<1>4. Ids(now) = Ids(msgs) \cup {m.id}
  BY <1>1, <1>2, <1>3 DEF Ids
<1>5. Incoming(now) = Incoming(msgs) \cup (IF m.mine THEN {} ELSE {m.id})
  BY <1>1, <1>2, <1>3 DEF Incoming
<1>6. Outgoing(now) = Outgoing(msgs) \cup (IF m.mine THEN {m.id} ELSE {})
  BY <1>1, <1>2, <1>3 DEF Outgoing
<1>7. QED
  BY <1>2, <1>4, <1>5, <1>6 DEF now

(* Another list of the same messages in the same places. *)
SameMessages(msgs, now) ==
    /\ now \in Seq(Messages) /\ DOMAIN now = DOMAIN msgs
    /\ \A i \in DOMAIN msgs : now[i].id = msgs[i].id /\ now[i].mine = msgs[i].mine

LEMMA SameIds ==
    ASSUME NEW msgs, NEW now, SameMessages(msgs, now)
    PROVE  Ids(now) = Ids(msgs) /\ Incoming(now) = Incoming(msgs) /\ Outgoing(now) = Outgoing(msgs)
BY DEF SameMessages, Ids, Incoming, Outgoing

LEMMA PatchedSame ==
    ASSUME NEW msgs \in Seq(Messages), NEW id, NEW emoji \in Reactions
    PROVE  SameMessages(msgs, Patched(msgs, id, emoji))
<1> DEFINE now == Patched(msgs, id, emoji)
<1>1. /\ Len(msgs) \in Nat /\ DOMAIN msgs = 1..Len(msgs)
      /\ \A i \in 1..Len(msgs) : msgs[i] \in Messages
  BY MessagesAre
<1>2. \A m \in Messages : /\ [m EXCEPT !.react = emoji] \in Messages
                          /\ [m EXCEPT !.react = emoji].id = m.id
                          /\ [m EXCEPT !.react = emoji].mine = m.mine
  BY DEF Messages
<1>3. /\ now = [i \in 1..Len(msgs) |-> now[i]]
      /\ \A i \in 1..Len(msgs) :
            /\ now[i] \in Messages /\ now[i].id = msgs[i].id /\ now[i].mine = msgs[i].mine
  BY <1>1, <1>2 DEF Patched
<1> HIDE DEF now
<1>4. now \in [1..Len(msgs) -> Messages]
  BY <1>3
<1>5. now \in Seq(Messages) /\ DOMAIN now = DOMAIN msgs
  BY <1>1, <1>4, SeqDef
<1>6. QED
  BY <1>1, <1>3, <1>5 DEF SameMessages, now

LEMMA ReadySame ==
    ASSUME NEW msgs \in Seq(Messages), NEW i \in DOMAIN msgs
    PROVE  SameMessages(msgs, [msgs EXCEPT ![i].clip = "ready"])
<1> DEFINE now == [msgs EXCEPT ![i].clip = "ready"]
           m == [msgs[i] EXCEPT !.clip = "ready"]
<1>1. Len(msgs) \in Nat /\ DOMAIN msgs = 1..Len(msgs) /\ msgs[i] \in Messages
  BY MessagesAre
<1>2. m \in Messages /\ m.id = msgs[i].id /\ m.mine = msgs[i].mine
  BY <1>1 DEF Messages
<1>3. now = [msgs EXCEPT ![i] = m]
  OBVIOUS
<1> HIDE DEF m
<1>4. /\ now \in Seq(Messages) /\ Len(now) = Len(msgs)
      /\ \A j \in 1..Len(msgs) : now[j] = IF j = i THEN m ELSE msgs[j]
  BY <1>1, <1>2, <1>3, ExceptSeq
<1> HIDE DEF now
<1>5. DOMAIN now = DOMAIN msgs
  BY <1>1, <1>4, LenProperties
<1>6. QED
  BY <1>1, <1>2, <1>4, <1>5 DEF SameMessages, now

LEMMA WithoutIds ==
    ASSUME NEW msgs \in Seq(Messages), NEW ids
    PROVE  LET now == Without(msgs, ids) IN
           /\ now \in Seq(Messages) /\ Ids(now) = Ids(msgs) \ ids
           /\ Incoming(now) = Incoming(msgs) \ ids /\ Outgoing(now) = Outgoing(msgs) \ ids
<1> DEFINE wanted == {msg \in Items(msgs) : msg.id \notin ids}
           now == Filter(msgs, wanted)
<1>1. /\ now \in Seq(Messages)
      /\ \A x : Among(now, Len(now), x) <=> x \in wanted /\ Among(msgs, Len(msgs), x)
  BY FilterKeeps
<1>2. DOMAIN msgs = 1..Len(msgs)
  BY MessagesAre
<1>3. \A x : Among(msgs, Len(msgs), x) <=> x \in Items(msgs)
  BY <1>2 DEF Among, Items
<1>4. \A x : Among(now, Len(now), x) <=> x \in Items(msgs) /\ x.id \notin ids
  BY <1>1, <1>3
<1> HIDE DEF now, wanted
<1>5. DOMAIN now = 1..Len(now)
  BY <1>1, MessagesAre
<1>6. \A x : x \in Items(now) <=> x \in Items(msgs) /\ x.id \notin ids
  BY <1>4, <1>5 DEF Among, Items
<1>7. \A s : /\ Ids(s) = {x.id : x \in Items(s)}
             /\ Incoming(s) = {x.id : x \in {y \in Items(s) : ~y.mine}}
             /\ Outgoing(s) = {x.id : x \in {y \in Items(s) : y.mine}}
  BY DEF Ids, Incoming, Outgoing, Items
<1>8. /\ Ids(now) = {x.id : x \in Items(now)} /\ Ids(msgs) = {x.id : x \in Items(msgs)}
      /\ Incoming(now) = {x.id : x \in {y \in Items(now) : ~y.mine}}
      /\ Incoming(msgs) = {x.id : x \in {y \in Items(msgs) : ~y.mine}}
      /\ Outgoing(now) = {x.id : x \in {y \in Items(now) : y.mine}}
      /\ Outgoing(msgs) = {x.id : x \in {y \in Items(msgs) : y.mine}}
  BY <1>7
<1>9. Ids(now) = Ids(msgs) \ ids
  BY <1>6, <1>8
<1>10. Incoming(now) = Incoming(msgs) \ ids /\ Outgoing(now) = Outgoing(msgs) \ ids
  BY <1>6, <1>8
<1>11. QED
  BY <1>1, <1>9, <1>10 DEF Without, now, wanted

LEMMA WrittenBy == \A msgs : Ids(msgs) = Incoming(msgs) \cup Outgoing(msgs)
<1> SUFFICES ASSUME NEW msgs PROVE Ids(msgs) = Incoming(msgs) \cup Outgoing(msgs)
  OBVIOUS
<1>1. DOMAIN msgs = {j \in DOMAIN msgs : ~msgs[j].mine} \cup {j \in DOMAIN msgs : msgs[j].mine}
  OBVIOUS
<1>2. QED
  BY <1>1 DEF Ids, Incoming, Outgoing

-----------------------------------------------------------------------------
(* The messages of the server. *)

LEMMA NothingBoxed ==
    ASSUME BoxesOK, chat' = [f \in ChatFields |-> chat'[f]],
           chat'.box = chat.box, chat'.gone = chat.gone,
           chat'.unread = [p \in Peers |-> chat'.unread[p]], chat'.silent = chat.silent
    PROVE  BoxesOK' /\ MineStay /\ NoneComes
<1>1. Boxed' = Boxed /\ Theirs' = Theirs
  BY DEF Boxed, Theirs
<1>2. Written' = Written
  BY <1>1 DEF Written
<1>3. MineStay
  BY <1>1, <1>2 DEF MineStay, Mine
<1>4. Numbered'
  BY <1>1, <1>2 DEF Numbered, BoxesOK
<1>5. \A p \in Peers : Outgoing(chat'.box[p]) \subseteq Mine'
  BY <1>1, <1>2 DEF BoxesOK, Mine
<1>6. QED
  BY <1>3, <1>4, <1>5 DEF BoxesOK, NoneComes

\* The messages are the same, with another reaction or another clip.
LEMMA SameBoxed ==
    ASSUME BoxesOK, NEW p \in Peers, NEW now, SameMessages(chat.box[p], now),
           chat' = [chat EXCEPT !.box[p] = now]
    PROVE  BoxesOK' /\ MineStay /\ NoneComes
<1>1. /\ chat' = [f \in ChatFields |-> chat'[f]] /\ chat'.unread = chat.unread /\ chat'.silent = chat.silent
      /\ chat'.gone = chat.gone /\ chat'.box = [chat.box EXCEPT ![p] = now]
  BY DEF BoxesOK, ChatFields
<1>2. now \in Seq(Messages)
  BY DEF SameMessages
<1>3. /\ chat'.box \in [Peers -> Seq(Messages)]
      /\ \A q \in Peers : chat'.box[q] = IF q = p THEN now ELSE chat.box[q]
  BY <1>1, <1>2 DEF BoxesOK
<1>4. \A q \in Peers : /\ Ids(chat'.box[q]) = Ids(chat.box[q])
                       /\ Incoming(chat'.box[q]) = Incoming(chat.box[q])
                       /\ Outgoing(chat'.box[q]) = Outgoing(chat.box[q])
  BY <1>3, SameIds
<1>5. Boxed' = Boxed /\ Theirs' = Theirs /\ Written' = Written
  BY <1>1, <1>4 DEF Boxed, Theirs, Written
<1>6. MineStay
  BY <1>5 DEF MineStay, Mine
<1>7. \A q \in Peers : Outgoing(chat'.box[q]) \subseteq Mine'
  BY <1>4, <1>5 DEF BoxesOK, Mine
<1>8. QED
  BY <1>1, <1>3, <1>4, <1>5, <1>6, <1>7 DEF BoxesOK, Numbered, NoneComes

\* The next id.
LEMMA NextId ==
    ASSUME BoxesOK
    PROVE  /\ Made + 1 \in Nat /\ Made + 1 \notin Written
           /\ \E n \in Nat : Written = 1..n /\ Written \cup {Made + 1} = 1..(n + 1)
<1>1. PICK n \in Nat : Written = 1..n
  BY DEF BoxesOK, Numbered
<1>2. IsFiniteSet(1..n) /\ Cardinality(1..n) = n
  BY FS_Interval
<1>3. IsFiniteSet(Boxed) /\ IsFiniteSet(chat.gone)
  BY <1>1, <1>2, FS_Subset DEF Written
<1>4. Cardinality(Written)
         = Cardinality(Boxed) + Cardinality(chat.gone) - Cardinality(Boxed \cap chat.gone)
  BY <1>3, FS_Union DEF Written
<1>5. Cardinality(Boxed) \in Nat /\ Cardinality(chat.gone) \in Nat
  BY <1>3, FS_CardinalityType
<1>6. Made = n
  <2>1. Made = Cardinality(Boxed) + Cardinality(chat.gone)
    BY DEF Made, Boxed
  <2>2. Cardinality(Boxed \cap chat.gone) = 0 /\ Cardinality(Written) = n
    BY <1>1, <1>2, FS_EmptySet DEF BoxesOK, Numbered
  <2>3. QED
    BY <1>4, <1>5, <2>1, <2>2
<1>7. QED
  BY <1>1, <1>6

LEMMA OneMoreBoxed ==
    ASSUME BoxesOK, NEW p \in Peers, NEW m \in Messages, m.id = Made + 1,
           chat' = [f \in ChatFields |-> chat'[f]], chat'.gone = chat.gone,
           chat'.box = [chat.box EXCEPT ![p] = Append(@, m)],
           chat'.unread = [q \in Peers |-> chat'.unread[q]],
           chat'.silent = [q \in Peers |-> chat'.silent[q]]
    PROVE  /\ BoxesOK' /\ MineStay
           /\ \A q \in Peers : q # p => Incoming(chat'.box[q]) = Incoming(chat.box[q])
           /\ Incoming(chat'.box[p]) \subseteq Incoming(chat.box[p]) \cup {m.id}
           /\ m.mine => (\A q \in Peers : Incoming(chat'.box[q]) = Incoming(chat.box[q]))
           /\ m.mine => m.id \in Mine'
<1> DEFINE now == Append(chat.box[p], m)
<1>1. m.id \in Nat /\ m.id \notin Written
  BY NextId
<1>2. PICK n \in Nat : Written = 1..n /\ Written \cup {m.id} = 1..(n + 1)
  BY NextId
<1>3. chat.box[p] \in Seq(Messages) 
  BY DEF BoxesOK
<1>4. /\ now \in Seq(Messages) /\ Ids(now) = Ids(chat.box[p]) \cup {m.id}
      /\ Incoming(now) = Incoming(chat.box[p]) \cup (IF m.mine THEN {} ELSE {m.id})
      /\ Outgoing(now) = Outgoing(chat.box[p]) \cup (IF m.mine THEN {m.id} ELSE {})
  BY <1>3, Appended
<1>5. chat'.box = [chat.box EXCEPT ![p] = now]
  BY DEF BoxesOK
<1> HIDE DEF now
<1>6. /\ chat'.box \in [Peers -> Seq(Messages)] /\ chat'.box[p] = now
      /\ \A q \in Peers : q # p => chat'.box[q] = chat.box[q]
  BY <1>4, <1>5 DEF BoxesOK
<1>7. Boxed' = Boxed \cup {m.id} /\ Written' = Written \cup {m.id}
  <2>1. \A x : x \in Boxed' <=> \E q \in Peers : x \in Ids(chat'.box[q])
    BY DEF Boxed
  <2>2. \A x : x \in Boxed <=> \E q \in Peers : x \in Ids(chat.box[q])
    BY DEF Boxed
  <2>3. \A q \in Peers : Ids(chat'.box[q]) = Ids(chat.box[q]) \cup (IF q = p THEN {m.id} ELSE {})
    BY <1>4, <1>6
  <2>4. \A x : x \in Boxed' <=> x \in Boxed \/ x = m.id
    BY <2>1, <2>2, <2>3
  <2>5. Boxed' = Boxed \cup {m.id}
    BY <2>4
  <2>6. QED
    BY <2>5 DEF Written
<1>8. Theirs' = Theirs \cup (IF m.mine THEN {} ELSE {m.id})
  <2>1. \A x : x \in Theirs' <=> \E q \in Peers : x \in Incoming(chat'.box[q])
    BY DEF Theirs
  <2>2. \A x : x \in Theirs <=> \E q \in Peers : x \in Incoming(chat.box[q])
    BY DEF Theirs
  <2>3. \A x : x \in Theirs' <=> x \in Theirs \/ (~m.mine /\ x = m.id)
    BY <1>4, <1>6, <2>1, <2>2
  <2>4. QED
    BY <2>3
<1>9. MineStay
  BY <1>1, <1>7, <1>8 DEF MineStay, Mine
<1>10. Numbered'
  <2>1. Boxed' \cap chat'.gone = {}
    BY <1>1, <1>7 DEF BoxesOK, Numbered, Written
  <2>2. Written' = 1..(n + 1)
    BY <1>2, <1>7
  <2>3. QED
    BY <2>1, <2>2 DEF Numbered
<1>11. m.id \notin Theirs
  BY <1>1, WrittenBy DEF Theirs, Written, Boxed
<1>12. m.mine => m.id \in Mine'
  <2>1. m.mine => Theirs' = Theirs
    BY <1>8
  <2>2. m.id \in Written'
    BY <1>7
  <2>3. QED
    BY <1>11, <2>1, <2>2 DEF Mine
<1>13. ASSUME NEW q \in Peers PROVE Outgoing(chat'.box[q]) \subseteq Mine'
  <2>1. Outgoing(chat.box[q]) \subseteq Mine
    BY DEF BoxesOK
  <2>2. \/ Outgoing(chat'.box[q]) = Outgoing(chat.box[q])
        \/ m.mine /\ Outgoing(chat'.box[q]) = Outgoing(chat.box[q]) \cup {m.id}
    BY <1>4, <1>6
  <2>3. Outgoing(chat.box[q]) \subseteq Written' /\ Outgoing(chat.box[q]) \cap Theirs' = {}
    BY <2>1, <1>1, <1>7, <1>8 DEF Mine
  <2>4. m.mine => {m.id} \subseteq Written' /\ {m.id} \cap Theirs' = {}
    BY <1>12 DEF Mine
  <2>5. Outgoing(chat'.box[q]) \subseteq Written' /\ Outgoing(chat'.box[q]) \cap Theirs' = {}
    BY <2>2, <2>3, <2>4
  <2>6. QED
    BY <2>5 DEF Mine
<1>14. /\ Incoming(chat'.box[p]) \subseteq Incoming(chat.box[p]) \cup {m.id}
       /\ m.mine => \A q \in Peers : Incoming(chat'.box[q]) = Incoming(chat.box[q])
  BY <1>4, <1>6
<1>15. BoxesOK'
  BY <1>6, <1>10, <1>13 DEF BoxesOK
<1>16. QED
  BY <1>3, <1>6, <1>9, <1>12, <1>14, <1>15

\* Messages of the reader are deleted.
LEMMA FewerBoxed ==
    ASSUME BoxesOK, NEW ids, ids \subseteq Mine,
           chat' = [chat EXCEPT !.box = [p \in Peers |-> Without(@[p], ids)], !.gone = @ \cup ids]
    PROVE  BoxesOK' /\ MineStay /\ NoneComes
<1>1. /\ chat' = [f \in ChatFields |-> chat'[f]] /\ chat'.unread = chat.unread /\ chat'.silent = chat.silent
      /\ chat'.gone = chat.gone \cup ids
      /\ chat'.box = [p \in Peers |-> Without(chat.box[p], ids)]
  BY DEF BoxesOK, ChatFields
<1>2. ASSUME NEW p \in Peers
      PROVE  /\ chat'.box[p] \in Seq(Messages) /\ Ids(chat'.box[p]) = Ids(chat.box[p]) \ ids
             /\ Incoming(chat'.box[p]) = Incoming(chat.box[p]) \ ids
             /\ Outgoing(chat'.box[p]) = Outgoing(chat.box[p]) \ ids
  <2>1. chat.box[p] \in Seq(Messages) /\ chat'.box[p] = Without(chat.box[p], ids)
    BY <1>1 DEF BoxesOK
  <2>2. QED
    BY <2>1, WithoutIds
<1>3. ASSUME NEW p \in Peers PROVE Incoming(chat'.box[p]) = Incoming(chat.box[p])
  <2>1. Incoming(chat.box[p]) \subseteq Theirs
    BY DEF Theirs
  <2>2. QED
    BY <1>2, <2>1 DEF Mine
<1>4. Theirs' = Theirs
  BY <1>3 DEF Theirs
<1>5. Boxed' = Boxed \ ids
  BY <1>2 DEF Boxed
<1>6. Written' = Written
  BY <1>1, <1>5 DEF Written, Mine
<1>7. MineStay
  BY <1>4, <1>6 DEF MineStay, Mine
<1>8. Numbered'
  BY <1>1, <1>5, <1>6 DEF Numbered, BoxesOK
<1>9. \A p \in Peers : Outgoing(chat'.box[p]) \subseteq Mine'
  BY <1>2, <1>4, <1>6 DEF BoxesOK, Mine
<1>10. chat'.box \in [Peers -> Seq(Messages)]
  BY <1>1, <1>2
<1>11. QED
  BY <1>1, <1>3, <1>7, <1>8, <1>9, <1>10 DEF BoxesOK, NoneComes

-----------------------------------------------------------------------------
(* The conversation on the page. *)

ConversationFields == {"peer", "messages", "follow"}

(* What the page was sent, or holds: its own messages are the reader's. *)
ConversationOK(d, mine) ==
    /\ d = [f \in ConversationFields |-> d[f]] /\ d.messages \in Seq(Messages)
    /\ Outgoing(d.messages) \subseteq mine

(* It is the conversation with p and has the messages that are due. *)
Complete(d, p, due) == d.peer = p /\ due \subseteq Ids(d.messages)

DataOK(r, p, due, mine) ==
    /\ r.value # <<>> => ConversationOK(r.value[1], mine)
    /\ \/ r.request = Quiet /\ (r.failed \/ r.value = <<>> \/ Complete(r.value[1], p, due))
       \/ r.request[1] = "asked" /\ r.request[2] = p
       \/ r.request[1] = "refused"
       \/ /\ r.request[1] = "served" /\ ConversationOK(r.request[2], mine)
          /\ Complete(r.request[2], p, due)

LEMMA DataWeakens ==
    ASSUME NEW r, NEW p, NEW due, NEW mine, NEW less, NEW more, DataOK(r, p, due, mine),
           less \subseteq due, mine \subseteq more
    PROVE  DataOK(r, p, less, more)
<1>1. \A d : ConversationOK(d, mine) => ConversationOK(d, more)
  BY DEF ConversationOK
<1>2. \A d : Complete(d, p, due) => Complete(d, p, less)
  BY DEF Complete
<1>3. QED
  BY <1>1, <1>2 DEF DataOK

LEMMA DataAsked ==
    ASSUME NEW r, NEW p, NEW due, NEW mine, NEW q, NEW now, DataOK(r, p, due, mine), ResourceOK(r)
    PROVE  ResourceOK(Fetch(r, q)) /\ DataOK(Fetch(r, q), q, now, mine)
<1>1. /\ ResourceOK(Fetch(r, q)) /\ Fetch(r, q).request = <<"asked", q>>
      /\ Fetch(r, q).value = r.value
  BY Fetched
<1>2. Fetch(r, q).request[1] = "asked" /\ Fetch(r, q).request[2] = q
  BY <1>1
<1>3. QED
  BY <1>1, <1>2 DEF DataOK

LEMMA DataMutates ==
    ASSUME NEW r, NEW p, NEW due, NEW mine, NEW d, DataOK(r, p, due, mine), ResourceOK(r),
           r.value # <<>>, ConversationOK(d, mine),
           Complete(r.value[1], p, due) => Complete(d, p, due)
    PROVE  ResourceOK(Mutate(r, d)) /\ DataOK(Mutate(r, d), p, due, mine)
<1>1. /\ ResourceOK(Mutate(r, d)) /\ Mutate(r, d).value = <<d>>
      /\ Mutate(r, d).request = r.request /\ Mutate(r, d).failed = r.failed
  BY DEF ResourceOK, ResourceFields, Mutate
<1>2. Mutate(r, d).value[1] = d
  BY <1>1
<1>3. QED
  BY <1>1, <1>2 DEF DataOK

LEMMA QuietIs == Quiet[1] = "quiet"
BY DEF Quiet

LEMMA DataLands ==
    ASSUME NEW r, NEW p, NEW due, NEW mine, DataOK(r, p, due, mine), ResourceOK(r), Answered(r)
    PROVE  ResourceOK(Land(r)) /\ DataOK(Land(r), p, due, mine)
<1>1. CASE r.request[1] = "served"
  <2>1. ConversationOK(r.request[2], mine) /\ Complete(r.request[2], p, due)
    BY <1>1, QuietIs DEF DataOK
  <2>2. /\ ResourceOK(Land(r)) /\ Land(r).request = Quiet
        /\ Land(r).value = <<r.request[2]>>
    BY <1>1, Landed
  <2>3. Land(r).value[1] = r.request[2]
    BY <2>2
  <2>4. QED
    BY <2>1, <2>2, <2>3 DEF DataOK
<1>2. CASE r.request[1] # "served"
  <2>1. /\ ResourceOK(Land(r)) /\ Land(r).request = Quiet
        /\ Land(r).value = r.value /\ Land(r).failed
    BY <1>2, Landed
  <2>2. QED
    BY <2>1 DEF DataOK
<1>3. QED
  BY <1>1, <1>2

LEMMA DataServed ==
    ASSUME NEW r, NEW p, NEW due, NEW mine, NEW d, DataOK(r, p, due, mine), ResourceOK(r),
           ConversationOK(d, mine), Complete(d, p, due)
    PROVE  /\ ResourceOK(Answer(r, d)) /\ DataOK(Answer(r, d), p, due, mine)
           /\ ResourceOK(Refuse(r)) /\ DataOK(Refuse(r), p, due, mine)
<1>1. /\ ResourceOK(Answer(r, d)) /\ Answer(r, d).request = <<"served", d>>
      /\ Answer(r, d).value = r.value
      /\ ResourceOK(Refuse(r)) /\ Refuse(r).request = <<"refused">> /\ Refuse(r).value = r.value
  BY Responded
<1>2. /\ Answer(r, d).request[1] = "served" /\ Answer(r, d).request[2] = d
      /\ Refuse(r).request[1] = "refused"
  BY <1>1
<1>3. QED
  BY <1>1, <1>2 DEF DataOK

-----------------------------------------------------------------------------
(* Live events on their way. *)

Coming(p) == \E i \in 1..Len(events) : events[i].kind = "dm" /\ events[i].peer = p

LEMMA FirstEvent ==
    ASSUME events \in Seq(Events), events # <<>>, events' = Tail(events)
    PROVE  /\ events' \in Seq(Events) /\ Head(events) \in Events
           /\ \A p : Coming(p) => Coming(p)' \/ (Head(events).kind = "dm" /\ Head(events).peer = p)
<1>1. /\ events' \in Seq(Events) /\ Head(events) \in Events /\ Len(events) \in Nat
      /\ Head(events) = events[1] /\ Len(events') = Len(events) - 1
      /\ \A i \in 1..Len(events') : events'[i] = events[i + 1]
  BY HeadTailProperties, LenProperties, EmptySeq
<1>2. ASSUME NEW p, NEW i \in 1..Len(events), events[i].kind = "dm", events[i].peer = p
      PROVE  Coming(p)' \/ (Head(events).kind = "dm" /\ Head(events).peer = p)
  <2>1. CASE i = 1
    BY <1>1, <1>2, <2>1
  <2>2. CASE i # 1
    <3>1. i - 1 \in 1..Len(events') /\ events'[i - 1] = events[i]
      BY <1>1, <2>2
    <3>2. QED
      BY <1>2, <3>1 DEF Coming
  <2>3. QED
    BY <2>1, <2>2
<1>3. QED
  BY <1>1, <1>2 DEF Coming

LEMMA AnotherEvent ==
    ASSUME events \in Seq(Events), NEW e \in Events, events' = Append(events, e)
    PROVE  /\ events' \in Seq(Events) /\ \A p : Coming(p) => Coming(p)'
           /\ e.kind = "dm" => Coming(e.peer)'
<1>1. /\ events' \in Seq(Events) /\ Len(events) \in Nat /\ Len(events') = Len(events) + 1
      /\ (\A i \in 1..Len(events) : events'[i] = events[i]) /\ events'[Len(events) + 1] = e
  BY AppendProperties, LenProperties
<1>2. \A i \in 1..Len(events) : i \in 1..Len(events')
  BY <1>1
<1>3. Len(events) + 1 \in 1..Len(events')
  BY <1>1
<1>4. \A p : Coming(p) => Coming(p)'
  BY <1>1, <1>2 DEF Coming
<1>5. e.kind = "dm" => Coming(e.peer)'
  BY <1>1, <1>3 DEF Coming
<1>6. QED
  BY <1>1, <1>4, <1>5

LEMMA NothingComing == events = <<>> => \A p : ~Coming(p)
<1>1. events = <<>> => 1..Len(events) = {}
  OBVIOUS
<1>2. QED
  BY <1>1 DEF Coming

-----------------------------------------------------------------------------
(* The page. *)

(* Messages of the other end's that an event has announced. *)
Due == IF Coming(thread.peer) THEN {}
       ELSE Incoming(chat.box[thread.peer]) \ chat.silent[thread.peer]

ThreadOK ==
    /\ thread = [f \in ThreadFields |-> thread[f]] /\ thread.peer \in Peers
    /\ ResourceOK(thread.data) /\ ResourceOK(badge)
    /\ thread.selected \subseteq Mine
    /\ events \in Seq(Events)

ChatTyped == BoxesOK /\ CallsSound /\ ThreadOK
ChatInv == ChatTyped /\ DataOK(thread.data, thread.peer, Due, Mine)

LEMMA CallIs ==
    ASSUME NEW op, NEW p \in Peers, NEW ids, NEW arg
    PROVE  LET c == Call(op, p, ids, arg) IN
           /\ c = [f \in CallFields |-> c[f]] /\ c.op = op /\ c.peer = p /\ c.ids = ids
           /\ c.arg = arg /\ c.state = "sent"
BY DEF Call, CallFields

\* A request of the reader's is sound, if what it deletes is the reader's.
LEMMA CallsSent ==
    ASSUME CallsSound, MineStay, NEW op, NEW p \in Peers, NEW ids, NEW arg,
           op = "delete" => ids \subseteq Mine, op = "react" => arg \in Reactions,
           calls' \subseteq calls \cup {Call(op, p, ids, arg)}
    PROVE  CallsSound'
<1> DEFINE c == Call(op, p, ids, arg)
<1>1. /\ c = [f \in CallFields |-> c[f]] /\ c.op = op /\ c.peer = p /\ c.ids = ids
      /\ c.arg = arg /\ c.state = "sent"
  BY CallIs
<1>2. calls' \subseteq calls \cup {c}
  OBVIOUS
<1> HIDE DEF c
<1>3. CallSound(c)'
  BY <1>1 DEF CallSound, CallOK, MineStay
<1>4. \A x \in calls : CallSound(x)'
  BY DEF CallsSound, CallSound, MineStay
<1>5. QED
  BY <1>2, <1>3, <1>4 DEF CallsSound

LEMMA CallsLeft ==
    ASSUME CallsSound, MineStay, calls' \subseteq calls
    PROVE  CallsSound'
BY DEF CallsSound, CallSound, MineStay

\* A request is answered; the messages that were sent have an id.
LEMMA CallReplaced ==
    ASSUME CallsSound, MineStay, NEW c, NEW now, CallSound(now)',
           calls' \subseteq (calls \ {c}) \cup {now}
    PROVE  CallsSound'
BY DEF CallsSound, CallSound, MineStay

LEMMA CallAnswered ==
    ASSUME CallsSound, MineStay, NEW c \in calls, NEW state \in {"ok", "failed"},
           c.op # "send" \/ state = "failed",
           calls' \subseteq (calls \ {c}) \cup {[c EXCEPT !.state = state]}
    PROVE  CallsSound'
<1> DEFINE now == [c EXCEPT !.state = state]
<1>1. CallSound(c)
  BY DEF CallsSound
<1>2. /\ now = [f \in CallFields |-> now[f]] /\ now.op = c.op /\ now.peer = c.peer
      /\ now.state = state /\ now.ids = c.ids /\ now.arg = c.arg
  BY <1>1 DEF CallSound, CallOK, CallFields
<1>3. calls' \subseteq (calls \ {c}) \cup {now}
  OBVIOUS
<1> HIDE DEF now
<1>4. CallSound(now)'
  BY <1>1, <1>2 DEF CallSound, CallOK, MineStay
<1>5. QED
  BY <1>3, <1>4, CallReplaced

LEMMA SameChat ==
    ASSUME BoxesOK, chat' = chat \/ Fails
    PROVE  BoxesOK' /\ MineStay /\ NoneComes
<1>1. /\ chat' = [f \in ChatFields |-> chat'[f]]
      /\ chat'.box = chat.box /\ chat'.gone = chat.gone /\ chat'.unread = chat.unread
      /\ chat'.silent = chat.silent
  BY DEF Fails, BoxesOK, ChatFields
<1>2. QED
  BY <1>1, NothingBoxed DEF BoxesOK

\* A step that leaves the conversation on the page alone.
LEMMA PageStays ==
    ASSUME ChatInv, BoxesOK', MineStay, CallsSound', ResourceOK(badge'),
           events' \in Seq(Events), Coming(thread.peer) => Coming(thread.peer)',
           NoneComes \/ Coming(thread.peer)',
           thread' = [f \in ThreadFields |-> thread'[f]], thread'.peer = thread.peer,
           thread'.data = thread.data, thread'.selected \subseteq Mine'
    PROVE  ChatInv'
<1>1. Due' \subseteq Due
  BY DEF Due, NoneComes, ChatInv, ChatTyped, ThreadOK
<1>2. DataOK(thread.data, thread.peer, Due', Mine')
  BY <1>1, DataWeakens DEF ChatInv, MineStay
<1>3. DataOK(thread'.data, thread'.peer, Due', Mine')
  BY <1>2
<1>4. ThreadOK'
  BY DEF ChatInv, ChatTyped, ThreadOK
<1>5. QED
  BY <1>3, <1>4 DEF ChatInv, ChatTyped

\* A step of the page.
LEMMA PageMoves ==
    ASSUME ChatInv, chat' = chat, CallsSound', ResourceOK(badge'), events' \in Seq(Events),
           thread' = [f \in ThreadFields |-> thread'[f]], thread'.peer \in Peers,
           ResourceOK(thread'.data), thread'.selected \subseteq Mine,
           DataOK(thread'.data, thread'.peer, Due', Mine)
    PROVE  ChatInv'
<1>1. Mine' = Mine /\ BoxesOK'
  BY SameChat DEF Mine, Written, Theirs, Boxed, ChatInv, ChatTyped
<1>2. ThreadOK'
  BY <1>1 DEF ThreadOK
<1>3. DataOK(thread'.data, thread'.peer, Due', Mine')
  BY <1>1
<1>4. QED
  BY <1>1, <1>2, <1>3 DEF ChatInv, ChatTyped

LEMMA BubbleIs ==
    ASSUME ChatInv, ThreadShown, NEW msg \in Bubbles
    PROVE  msg \in Messages /\ (msg.mine => msg.id \in Mine)
<1>1. ConversationOK(Data, Mine)
  BY DEF ChatInv, DataOK, ThreadShown, Shown, Data
<1>2. PICK i \in DOMAIN Data.messages : msg = Data.messages[i]
  BY DEF Bubbles, Items
<1>3. msg \in Messages
  BY <1>1, <1>2, MessagesAre DEF ConversationOK
<1>4. msg.mine => msg.id \in Outgoing(Data.messages)
  BY <1>2 DEF Outgoing
<1>5. QED
  BY <1>1, <1>3, <1>4 DEF ConversationOK

(* Clicks that change something else of the page than what it shows. *)
LEMMA ClickAside ==
    ASSUME ChatInv, \/ Type \/ OnPickFile \/ DropMedia \/ Send \/ OpenReact \/ ToggleSelecting
                    \/ ToggleMsgSel \/ DoFollow \/ Play \/ TypingClears
    PROVE  ChatInv'
<1>1. /\ thread' = [f \in ThreadFields |-> thread'[f]] /\ thread'.peer = thread.peer
      /\ thread'.data = thread.data /\ thread'.selected \subseteq Mine
  <2>1. CASE ToggleMsgSel
    <3>1. PICK msg \in Bubbles :
             /\ ThreadShown /\ "check" \in BubbleControls(msg)
             /\ thread' = [thread EXCEPT
                          !.selected = IF msg.id \in @ THEN @ \ {msg.id} ELSE @ \cup {msg.id}]
      BY <2>1 DEF ToggleMsgSel
    <3>2. msg.mine
      BY <3>1 DEF BubbleControls
    <3>3. msg.id \in Mine
      BY <3>1, <3>2, BubbleIs
    <3>4. QED
      BY <3>1, <3>3 DEF ChatInv, ChatTyped, ThreadOK, ThreadFields
  <2>2. CASE Type \/ OnPickFile \/ DropMedia \/ Send
    BY <2>2 DEF Type, OnPickFile, DropMedia, Send, ChatInv, ChatTyped, ThreadOK, ThreadFields
  <2>3. CASE OpenReact
    BY <2>3 DEF OpenReact, ChatInv, ChatTyped, ThreadOK, ThreadFields
  <2>4. CASE ToggleSelecting \/ DoFollow \/ Play \/ TypingClears
    BY <2>4 DEF ToggleSelecting, DoFollow, Play, TypingClears, ChatInv, ChatTyped, ThreadOK,
       ThreadFields
  <2>5. QED
    BY <2>1, <2>2, <2>3, <2>4
<1>2. chat' = chat /\ badge' = badge /\ events' = events
  BY DEF Type, OnPickFile, DropMedia, Send, OpenReact, ToggleSelecting, ToggleMsgSel, DoFollow,
     Play, TypingClears
<1>3. BoxesOK' /\ MineStay /\ NoneComes
  BY <1>2, SameChat DEF ChatInv, ChatTyped
<1>4. CallsSound'
  <2>1. CallsSound /\ thread.peer \in Peers
    BY DEF ChatInv, ChatTyped, ThreadOK
  <2>2. CASE calls' = calls
    BY <1>3, <2>1, <2>2, CallsLeft
  <2>3. CASE OnPickFile
    <3>1. \E arg : calls' = calls \cup {Call("upload", thread.peer, {}, arg)}
      BY <2>3 DEF OnPickFile
    <3>2. QED
      BY <1>3, <2>1, <3>1, CallsSent
  <2>4. CASE DoFollow
    <3>1. \E arg : calls' = calls \cup {Call("follow", thread.peer, {}, arg)}
      BY <2>4 DEF DoFollow
    <3>2. QED
      BY <1>3, <2>1, <3>1, CallsSent
  <2>5. CASE Send
    <3>1. \E arg : calls' = calls \cup {Call("send", thread.peer, {}, arg)}
      BY <2>5 DEF Send
    <3>2. QED
      BY <1>3, <2>1, <3>1, CallsSent
  <2>6. QED
    BY <2>2, <2>3, <2>4, <2>5
       DEF Type, DropMedia, OpenReact, ToggleSelecting, ToggleMsgSel, Play, TypingClears
<1>5. /\ ResourceOK(badge') /\ events' \in Seq(Events)
      /\ Coming(thread.peer) => Coming(thread.peer)'
  BY <1>1, <1>2 DEF ChatInv, ChatTyped, ThreadOK, Coming
<1>6. thread'.selected \subseteq Mine'
  BY <1>1, <1>3 DEF MineStay
<1>7. QED
  BY <1>1, <1>3, <1>4, <1>5, <1>6, PageStays

\* A request that was answered leaves the page as it was, but for what it waits for.
LEMMA AnswerAside ==
    ASSUME ChatInv, chat' = chat, events' = events, calls' \subseteq calls, ResourceOK(badge'),
           thread' = [f \in ThreadFields |-> thread'[f]], thread'.peer = thread.peer,
           thread'.data = thread.data, thread'.selected = thread.selected
    PROVE  ChatInv'
<1>1. BoxesOK' /\ MineStay /\ NoneComes
  BY SameChat DEF ChatInv, ChatTyped
<1>2. CallsSound'
  BY <1>1, CallsLeft DEF ChatInv, ChatTyped
<1>3. /\ events' \in Seq(Events) /\ thread'.selected \subseteq Mine'
      /\ Coming(thread.peer) => Coming(thread.peer)'
  BY <1>1 DEF ChatInv, ChatTyped, ThreadOK, Coming, MineStay
<1>4. QED
  BY <1>1, <1>2, <1>3, PageStays

\* The conversation of the address is asked for.
LEMMA AskedAgain ==
    ASSUME ChatInv, chat' = chat, CallsSound', ResourceOK(badge'), events' \in Seq(Events),
           thread' = [f \in ThreadFields |-> thread'[f]], thread'.peer \in Peers,
           thread'.data = Fetch(thread.data, thread'.peer), thread'.selected = thread.selected
    PROVE  ChatInv'
<1>1. /\ DataOK(thread.data, thread.peer, Due, Mine) /\ ResourceOK(thread.data)
      /\ thread'.selected \subseteq Mine
  BY DEF ChatInv, ChatTyped, ThreadOK
<1>2. /\ ResourceOK(Fetch(thread.data, thread'.peer))
      /\ DataOK(Fetch(thread.data, thread'.peer), thread'.peer, Due', Mine)
  BY <1>1, DataAsked
<1>3. ResourceOK(thread'.data) /\ DataOK(thread'.data, thread'.peer, Due', Mine)
  BY <1>2
<1>4. QED
  BY <1>1, <1>3, PageMoves

LEMMA RefetchIs ==
    ASSUME ThreadOK
    PROVE  LET t == Refetch(thread) IN
           /\ t = [f \in ThreadFields |-> t[f]] /\ t.peer = thread.peer
           /\ t.data = Fetch(thread.data, thread.peer) /\ t.selected = thread.selected
BY DEF ThreadOK, ThreadFields, Refetch

LEMMA ChatLoads ==
    ASSUME ChatInv, Refresh \/ Poll \/ \E p \in Peers : OpenThread(p)
    PROVE  ChatInv'
<1>1. /\ BoxesOK /\ CallsSound /\ ThreadOK /\ ResourceOK(badge) /\ events \in Seq(Events)
      /\ thread.peer \in Peers
  BY DEF ChatInv, ChatTyped, ThreadOK
<1>2. chat' = chat /\ events' = events /\ badge' = badge
  BY DEF Refresh, Poll, OpenThread
<1>3. MineStay
  BY <1>1, <1>2, SameChat
<1>4. CASE Refresh \/ Poll
  <2>1. thread' = Refetch(thread) /\ calls' = calls
    BY <1>4 DEF Refresh, Poll
  <2>2. CallsSound'
    BY <1>1, <1>3, <2>1, CallsLeft
  <2>3. QED
    BY <1>1, <1>2, <2>1, <2>2, RefetchIs, AskedAgain
<1>5. ASSUME NEW p \in Peers, OpenThread(p)
      PROVE  ChatInv'
  <2>1. /\ thread' = [thread EXCEPT !.peer = p, !.data = Fetch(@, p)]
        /\ \E arg : calls' = calls \cup {Call("read", p, {}, arg)}
    BY <1>5 DEF OpenThread
  <2>2. CallsSound'
    BY <1>1, <1>3, <2>1, CallsSent
  <2>3. /\ thread' = [f \in ThreadFields |-> thread'[f]] /\ thread'.peer = p
        /\ thread'.data = Fetch(thread.data, p) /\ thread'.selected = thread.selected
    BY <1>1, <2>1 DEF ThreadOK, ThreadFields
  <2>4. QED
    BY <1>1, <1>2, <2>2, <2>3, AskedAgain
<1>6. QED
  BY <1>4, <1>5

\* The page changes what it shows; a request in flight stays.
LEMMA Rewritten ==
    ASSUME ChatInv, ThreadShown, NEW d, ConversationOK(d, Mine),
           Due \subseteq Ids(Data.messages) => Due \subseteq Ids(d.messages), d.peer = Data.peer,
           chat' = chat, CallsSound', badge' = badge, events' = events,
           thread' = [f \in ThreadFields |-> thread'[f]], thread'.peer = thread.peer,
           thread'.data = Mutate(thread.data, d), thread'.selected \subseteq Mine
    PROVE  ChatInv'
<1>1. /\ DataOK(thread.data, thread.peer, Due, Mine) /\ ResourceOK(thread.data)
      /\ ResourceOK(badge') /\ events' \in Seq(Events) /\ thread.peer \in Peers
  BY DEF ChatInv, ChatTyped, ThreadOK
<1>2. thread.data.value # <<>> /\ Data = thread.data.value[1]
  BY DEF ThreadShown, Shown, Data
<1>3. Complete(Data, thread.peer, Due) => Complete(d, thread.peer, Due)
  BY DEF Complete
<1>4. /\ ResourceOK(Mutate(thread.data, d))
      /\ DataOK(Mutate(thread.data, d), thread.peer, Due, Mine)
  BY <1>1, <1>2, <1>3, DataMutates
<1>5. Due' = Due
  BY DEF Due, Coming
<1>6. ResourceOK(thread'.data) /\ DataOK(thread'.data, thread'.peer, Due', Mine)
  BY <1>4, <1>5
<1>7. QED
  BY <1>1, <1>6, PageMoves

LEMMA DataIs ==
    ASSUME ChatInv, ThreadShown
    PROVE  ConversationOK(Data, Mine) /\ ThreadOK /\ CallsSound /\ BoxesOK /\ Due \cap Mine = {}
<1>1. ConversationOK(Data, Mine)
  BY DEF ChatInv, DataOK, ThreadShown, Shown, Data
<1>2. thread.peer \in Peers
  BY DEF ChatInv, ChatTyped, ThreadOK
<1>3. Due \subseteq Theirs
  BY <1>2 DEF Due, Theirs
<1>4. QED
  BY <1>1, <1>3 DEF ChatInv, ChatTyped, Mine

LEMMA DeleteStep ==
    ASSUME ChatInv, ThreadShown, NEW ids, ids \subseteq Mine, NEW arg,
           NEW chosen, chosen \subseteq Mine,
           NEW selecting,
           thread' = [thread EXCEPT
                        !.data = Mutate(@, [Data EXCEPT !.messages = Without(@, ids)]),
                        !.selected = chosen, !.selecting = selecting],
           calls' = calls \cup {Call("delete", thread.peer, ids, arg)},
           UNCHANGED <<chat, badge, events>>
    PROVE  ChatInv'
<1> DEFINE now == Without(Data.messages, ids)
           d == [Data EXCEPT !.messages = now]
<1>1. /\ ConversationOK(Data, Mine) /\ ThreadOK /\ CallsSound /\ BoxesOK
      /\ Due \cap Mine = {} /\ Data.messages \in Seq(Messages) /\ thread.peer \in Peers
  BY DataIs DEF ConversationOK, ThreadOK
<1>2. /\ now \in Seq(Messages) /\ Ids(now) = Ids(Data.messages) \ ids
      /\ Outgoing(now) = Outgoing(Data.messages) \ ids
  BY <1>1, WithoutIds
<1> HIDE DEF now
<1>3. d.messages = now /\ d.peer = Data.peer /\ d = [f \in ConversationFields |-> d[f]]
  BY <1>1 DEF ConversationOK, ConversationFields
<1>4. /\ thread' = [f \in ThreadFields |-> thread'[f]] /\ thread'.peer = thread.peer
      /\ thread'.data = Mutate(thread.data, d) /\ thread'.selected = chosen
  BY <1>1 DEF ThreadOK, ThreadFields, now
<1> HIDE DEF d
<1>5. ConversationOK(d, Mine)
  BY <1>1, <1>2, <1>3 DEF ConversationOK
<1>6. Due \subseteq Ids(Data.messages) => Due \subseteq Ids(d.messages)
  BY <1>1, <1>2, <1>3
<1>7. MineStay
  BY <1>1, SameChat
<1>8. CallsSound'
  BY <1>1, <1>7, CallsSent
<1>9. QED
  BY <1>3, <1>4, <1>5, <1>6, <1>8, Rewritten

LEMMA DeleteClicks ==
    ASSUME ChatInv, DeleteMsg \/ BulkDeleteMsgs
    PROVE  ChatInv'
<1>1. CASE DeleteMsg
  <2>1. PICK msg \in Bubbles :
          /\ ThreadShown /\ "delete" \in BubbleControls(msg)
          /\ thread' = [thread EXCEPT
                          !.data = Mutate(@, [Data EXCEPT !.messages = Without(@, {msg.id})])]
          /\ calls' = calls \cup {Call("delete", thread.peer, {msg.id}, "one")}
    BY <1>1 DEF DeleteMsg
  <2>2. {msg.id} \subseteq Mine
    <3>1. msg.mine
      BY <2>1 DEF BubbleControls
    <3>2. QED
      BY <2>1, <3>1, BubbleIs
  <2>3. /\ thread' = [thread EXCEPT
                        !.data = Mutate(@, [Data EXCEPT !.messages = Without(@, {msg.id})]),
                        !.selected = thread.selected, !.selecting = thread.selecting]
        /\ thread.selected \subseteq Mine
    BY <2>1 DEF ChatInv, ChatTyped, ThreadOK, ThreadFields
  <2>4. UNCHANGED <<chat, badge, events>>
    BY <1>1 DEF DeleteMsg
  <2>5. QED
    BY <2>1, <2>2, <2>3, <2>4, DeleteStep
<1>2. CASE BulkDeleteMsgs
  <2>1. thread.selected \subseteq Mine
    BY DEF ChatInv, ChatTyped, ThreadOK
  <2>2. /\ ThreadShown
        /\ thread' = [thread EXCEPT
                        !.data = Mutate(@, [Data EXCEPT !.messages = Without(@, thread.selected)]),
                        !.selected = {}, !.selecting = FALSE]
        /\ calls' = calls \cup {Call("delete", thread.peer, thread.selected, "bulk")}
        /\ UNCHANGED <<chat, badge, events>>
    BY <1>2 DEF BulkDeleteMsgs
  <2>3. {} \subseteq Mine
    OBVIOUS
  <2>4. QED
    BY <2>1, <2>2, <2>3, DeleteStep
<1>3. QED
  BY <1>1, <1>2

LEMMA ReactStep ==
    ASSUME ChatInv, ToggleReact
    PROVE  ChatInv'
<1>1. PICK msg \in Bubbles, to \in Reactions :
        /\ ThreadShown
        /\ thread' = [thread EXCEPT
                        !.reactFor = None,
                        !.data = Mutate(@, [Data EXCEPT !.messages = Patched(@, msg.id, to)])]
        /\ calls' = calls \cup {Call("react", thread.peer, {msg.id}, to)}
  BY DEF ToggleReact, Reactions
<1> DEFINE now == Patched(Data.messages, msg.id, to)
           d == [Data EXCEPT !.messages = now]
<1>2. /\ ConversationOK(Data, Mine) /\ ThreadOK /\ CallsSound /\ BoxesOK
      /\ Data.messages \in Seq(Messages) /\ thread.peer \in Peers
  BY <1>1, DataIs DEF ConversationOK, ThreadOK
<1>3. /\ now \in Seq(Messages) /\ Ids(now) = Ids(Data.messages)
      /\ Outgoing(now) = Outgoing(Data.messages)
  BY <1>2, PatchedSame, SameIds DEF SameMessages
<1> HIDE DEF now
<1>4. d.messages = now /\ d.peer = Data.peer /\ d = [f \in ConversationFields |-> d[f]]
  BY <1>2 DEF ConversationOK, ConversationFields
<1>5. /\ thread' = [f \in ThreadFields |-> thread'[f]] /\ thread'.peer = thread.peer
      /\ thread'.data = Mutate(thread.data, d) /\ thread'.selected = thread.selected
  BY <1>1, <1>2 DEF ThreadOK, ThreadFields, now
<1> HIDE DEF d
<1>6. ConversationOK(d, Mine) /\ thread.selected \subseteq Mine
  BY <1>2, <1>3, <1>4 DEF ConversationOK, ThreadOK
<1>7. chat' = chat /\ badge' = badge /\ events' = events
  BY DEF ToggleReact
<1>8. MineStay
  BY <1>2, <1>7, SameChat
<1>9. CallsSound'
  <2>1. \A x : to = x => calls' = calls \cup {Call("react", thread.peer, {msg.id}, x)}
    BY <1>1
  <2>2. QED
    BY <1>1, <1>2, <1>8, CallsSent
<1>10. QED
  BY <1>1, <1>3, <1>4, <1>5, <1>6, <1>7, <1>9, Rewritten

LEMMA SentStep ==
    ASSUME ChatInv, NEW c \in calls, Sent(c)
    PROVE  ChatInv'
<1>1. /\ c.op = "send" /\ c.state # "sent" /\ calls' = calls \ {c} /\ calls' \subseteq calls
      /\ chat' = chat /\ badge' = badge /\ events' = events
  BY DEF Sent
<1>2. ThreadOK /\ CallsSound /\ BoxesOK /\ CallSound(c) /\ ResourceOK(badge')
  BY <1>1 DEF ChatInv, ChatTyped, ThreadOK, CallsSound
<1>3. MineStay /\ CallsSound'
  BY <1>1, <1>2, SameChat, CallsLeft
<1>4. CASE \/ thread' = [thread EXCEPT !.busy = FALSE, !.err = TRUE]
           \/ thread' = [thread EXCEPT !.busy = FALSE, !.body = "", !.media = FALSE]
  <2>1. /\ thread' = [f \in ThreadFields |-> thread'[f]] /\ thread'.peer = thread.peer
        /\ thread'.data = thread.data /\ thread'.selected = thread.selected
    BY <1>2, <1>4 DEF ThreadOK, ThreadFields
  <2>2. QED
    BY <1>1, <1>2, <2>1, AnswerAside
<1>5. CASE /\ c.state # "failed" /\ ThreadShown
           /\ thread' = [thread EXCEPT !.busy = FALSE, !.body = "", !.media = FALSE,
                            !.data = Mutate(@, [Data EXCEPT
                                                  !.messages = Append(@, SentMessage(c))])]
  <2> DEFINE m == SentMessage(c)
             now == Append(Data.messages, m)
             d == [Data EXCEPT !.messages = now]
  <2>1. PICK id \in Nat : c.ids = {id} /\ id \in Mine
    BY <1>1, <1>2, <1>5 DEF CallSound, CallOK
  <2>2. m \in Messages /\ m.id \in Mine /\ m.mine
    BY <2>1 DEF SentMessage, Message, Messages, Reactions
  <2> HIDE DEF m
  <2>3. ConversationOK(Data, Mine) /\ Data.messages \in Seq(Messages)
    BY <1>5, DataIs DEF ConversationOK
  <2>4. /\ now \in Seq(Messages) /\ Ids(now) = Ids(Data.messages) \cup {m.id}
        /\ Outgoing(now) = Outgoing(Data.messages) \cup {m.id}
    BY <2>2, <2>3, Appended
  <2> HIDE DEF now
  <2>5. d.messages = now /\ d.peer = Data.peer /\ d = [f \in ConversationFields |-> d[f]]
    BY <2>3 DEF ConversationOK, ConversationFields
  <2>6. /\ thread' = [f \in ThreadFields |-> thread'[f]] /\ thread'.peer = thread.peer
        /\ thread'.data = Mutate(thread.data, d) /\ thread'.selected = thread.selected
    BY <1>2, <1>5 DEF ThreadOK, ThreadFields, now, m
  <2> HIDE DEF d
  <2>7. ConversationOK(d, Mine) /\ thread.selected \subseteq Mine
    BY <1>2, <2>2, <2>3, <2>4, <2>5 DEF ConversationOK, ThreadOK
  <2>8. Due \subseteq Ids(Data.messages) => Due \subseteq Ids(d.messages)
    BY <2>4, <2>5
  <2>9. QED
    BY <1>1, <1>3, <1>5, <2>5, <2>6, <2>7, <2>8, Rewritten
<1>6. QED
  <2>1. CASE c.state = "failed" \/ Throws(thread.data)
    BY <1>4, <2>1 DEF Sent
  <2>2. CASE c.state # "failed" /\ ~Throws(thread.data) /\ ThreadShown
    BY <1>5, <2>2 DEF Sent, ThreadShown
  <2>3. CASE c.state # "failed" /\ ~Throws(thread.data) /\ ~ThreadShown
    <3>1. thread' = [thread EXCEPT !.busy = FALSE, !.body = "", !.media = FALSE, !.data = @]
      BY <2>3 DEF Sent, ThreadShown
    <3>2. thread' = [thread EXCEPT !.busy = FALSE, !.body = "", !.media = FALSE]
      BY <1>2, <3>1 DEF ThreadOK, ThreadFields
    <3>3. QED
      BY <1>4, <3>2
  <2>4. QED
    BY <2>1, <2>2, <2>3

LEMMA AnswerLands ==
    ASSUME ChatInv, NEW c \in calls, Upload(c) \/ Undone(c) \/ Followed(c) \/ MarkedRead(c)
    PROVE  ChatInv'
<1>1. chat' = chat /\ events' = events /\ calls' = calls \ {c} /\ calls' \subseteq calls
  BY DEF Upload, Undone, Followed, MarkedRead
<1>2. ThreadOK /\ CallsSound /\ BoxesOK /\ ResourceOK(badge) /\ events' \in Seq(Events)
  BY <1>1 DEF ChatInv, ChatTyped, ThreadOK
<1>3. CallsSound'
  BY <1>1, <1>2, SameChat, CallsLeft
<1>4. ResourceOK(badge')
  <2>1. badge' = badge \/ badge' = Fetch(badge, "all")
    BY DEF Upload, Undone, Followed, MarkedRead
  <2>2. ResourceOK(Fetch(badge, "all"))
    BY <1>2, Fetched
  <2>3. QED
    BY <1>2, <2>1, <2>2
<1>5. CASE \/ thread' = Refetch(thread)
           \/ thread' = [Refetch(thread) EXCEPT !.awaiting = TRUE]
  <2> DEFINE t == Refetch(thread)
  <2>1. /\ t = [f \in ThreadFields |-> t[f]] /\ t.peer = thread.peer
        /\ t.data = Fetch(thread.data, thread.peer) /\ t.selected = thread.selected
    BY <1>2, RefetchIs
  <2>2. thread' = t \/ thread' = [t EXCEPT !.awaiting = TRUE]
    BY <1>5
  <2> HIDE DEF t
  <2>3. /\ thread' = [f \in ThreadFields |-> thread'[f]] /\ thread'.peer = thread.peer
        /\ thread'.data = Fetch(thread.data, thread'.peer) /\ thread'.selected = thread.selected
        /\ thread'.peer \in Peers
    <3>1. thread.peer \in Peers
      BY <1>2 DEF ThreadOK
    <3>2. CASE thread' = t
      BY <2>1, <3>1, <3>2
    <3>3. CASE thread' = [t EXCEPT !.awaiting = TRUE]
      BY <2>1, <3>1, <3>3 DEF ThreadFields
    <3>4. QED
      BY <2>2, <3>2, <3>3
  <2>4. QED
    BY <1>1, <1>2, <1>3, <1>4, <2>3, AskedAgain
<1>6. CASE \/ thread' = thread
           \/ thread' = [thread EXCEPT !.busy = FALSE, !.err = TRUE]
           \/ Upload(c)
  <2>1. /\ thread' = [f \in ThreadFields |-> thread'[f]] /\ thread'.peer = thread.peer
        /\ thread'.data = thread.data /\ thread'.selected = thread.selected
    <3>1. CASE Upload(c)
      BY <1>2, <3>1 DEF Upload, ThreadOK, ThreadFields
    <3>2. CASE ~Upload(c)
      BY <1>2, <1>6, <3>2 DEF ThreadOK, ThreadFields
    <3>3. QED
      BY <3>1, <3>2
  <2>2. QED
    BY <1>1, <1>4, <2>1, AnswerAside
<1>7. QED
  BY <1>5, <1>6 DEF Undone, Followed, MarkedRead

LEMMA ThreadLandsStep ==
    ASSUME ChatInv, ThreadLands
    PROVE  ChatInv'
<1>1. /\ Answered(thread.data) /\ chat' = chat /\ badge' = badge /\ events' = events
      /\ calls' = calls /\ calls' \subseteq calls
      /\ thread' = [thread EXCEPT !.data = Land(@), !.busy = @ /\ ~thread.awaiting,
                                  !.awaiting = FALSE]
  BY DEF ThreadLands
<1>2. /\ ThreadOK /\ CallsSound /\ BoxesOK /\ ResourceOK(badge') /\ events' \in Seq(Events)
      /\ ResourceOK(thread.data) /\ thread.peer \in Peers /\ thread.selected \subseteq Mine
      /\ DataOK(thread.data, thread.peer, Due, Mine)
  BY <1>1 DEF ChatInv, ChatTyped, ThreadOK
<1>3. /\ thread' = [f \in ThreadFields |-> thread'[f]] /\ thread'.peer = thread.peer
      /\ thread'.data = Land(thread.data) /\ thread'.selected = thread.selected
  BY <1>1, <1>2 DEF ThreadOK, ThreadFields
<1>4. ResourceOK(Land(thread.data)) /\ DataOK(Land(thread.data), thread.peer, Due, Mine)
  BY <1>1, <1>2, DataLands
<1>5. Due' = Due
  BY <1>1, <1>3 DEF Due, Coming
<1>6. ResourceOK(thread'.data) /\ DataOK(thread'.data, thread'.peer, Due', Mine)
  BY <1>3, <1>4, <1>5
<1>7. CallsSound'
  BY <1>1, <1>2, SameChat, CallsLeft
<1>8. QED
  BY <1>1, <1>2, <1>3, <1>6, <1>7, PageMoves

LEMMA EventStep ==
    ASSUME ChatInv, DmEvent \/ OnTyping
    PROVE  ChatInv'
<1>1. chat' = chat /\ events # <<>> /\ events' = Tail(events)
  BY DEF DmEvent, OnTyping
<1>2. /\ ThreadOK /\ CallsSound /\ BoxesOK /\ ResourceOK(badge) /\ events \in Seq(Events)
      /\ thread.peer \in Peers /\ thread = [f \in ThreadFields |-> thread[f]]
      /\ thread.selected \subseteq Mine
  BY DEF ChatInv, ChatTyped, ThreadOK
<1>3. /\ events' \in Seq(Events)
      /\ \A p : Coming(p) => Coming(p)' \/ (Head(events).kind = "dm" /\ Head(events).peer = p)
  BY <1>1, <1>2, FirstEvent
<1>4. BoxesOK' /\ MineStay /\ NoneComes
  BY <1>1, <1>2, SameChat
<1>5. CASE DmEvent
  <2>1. CallsSound'
    <3>1. CASE calls' = calls
      BY <1>2, <1>4, <3>1, CallsLeft
    <3>2. CASE \E arg : calls' = calls \cup {Call("read", thread.peer, {}, arg)}
      BY <1>2, <1>4, <3>2, CallsSent
    <3>3. CASE Head(events).peer = thread.peer
      BY <1>5, <3>2, <3>3 DEF DmEvent, ReadOnNotif
    <3>4. CASE Head(events).peer # thread.peer
      BY <1>5, <3>1, <3>4 DEF DmEvent, ReadOnNotif
    <3>5. QED
      BY <3>3, <3>4
  <2>2. ResourceOK(badge')
    BY <1>2, <1>5, Fetched DEF DmEvent
  <2>3. CASE Head(events).peer = thread.peer
    <3>1. thread' = Refetch(thread)
      BY <1>5, <2>3 DEF DmEvent, OnNotif
    <3>2. /\ thread' = [f \in ThreadFields |-> thread'[f]] /\ thread'.peer = thread.peer
          /\ thread'.data = Fetch(thread.data, thread'.peer) /\ thread'.selected = thread.selected
      BY <1>2, <3>1, RefetchIs
    <3>3. QED
      BY <1>1, <1>2, <1>3, <2>1, <2>2, <3>2, AskedAgain
  <2>4. CASE Head(events).peer # thread.peer
    <3>1. thread' = thread
      BY <1>5, <2>4 DEF DmEvent, OnNotif
    <3>2. Coming(thread.peer) => Coming(thread.peer)'
      BY <1>3, <2>4, <3>1 DEF Coming
    <3>3. thread'.selected \subseteq Mine'
      BY <1>2, <1>4, <3>1 DEF MineStay
    <3>4. QED
      BY <1>2, <1>3, <1>4, <2>1, <2>2, <3>1, <3>2, <3>3, PageStays
  <2>5. QED
    BY <2>3, <2>4
<1>6. CASE OnTyping
  <2>1. /\ thread' = [f \in ThreadFields |-> thread'[f]] /\ thread'.peer = thread.peer
        /\ thread'.data = thread.data /\ thread'.selected = thread.selected
    BY <1>2, <1>6 DEF OnTyping, ThreadFields
  <2>2. CallsSound' /\ ResourceOK(badge')
    BY <1>2, <1>4, <1>6, CallsLeft DEF OnTyping
  <2>3. Coming(thread.peer) => Coming(thread.peer)'
    <3>1. Head(events).kind # "dm"
      BY <1>6 DEF OnTyping
    <3>2. QED
      BY <1>3, <2>1, <3>1 DEF Coming
  <2>4. thread'.selected \subseteq Mine'
    BY <1>2, <1>4, <2>1 DEF MineStay
  <2>5. QED
    BY <1>3, <1>4, <2>1, <2>2, <2>3, <2>4, PageStays
<1>7. QED
  BY <1>5, <1>6

\* The badge, and a peer who types.
LEMMA BadgeStep ==
    ASSUME ChatInv, BadgeLands \/ ServeBadge \/ \E p \in Peers : PeerTypes(p)
    PROVE  ChatInv'
<1>1. thread' = thread /\ calls' = calls /\ (chat' = chat \/ Fails)
  BY DEF BadgeLands, ServeBadge, PeerTypes
<1>2. /\ ThreadOK /\ CallsSound /\ BoxesOK /\ ResourceOK(badge) /\ events \in Seq(Events)
      /\ thread.selected \subseteq Mine
  BY DEF ChatInv, ChatTyped, ThreadOK
<1>3. BoxesOK' /\ MineStay /\ NoneComes
  BY <1>1, <1>2, SameChat
<1>4. CallsSound' /\ thread'.selected \subseteq Mine'
  BY <1>1, <1>2, <1>3, CallsLeft DEF MineStay
<1>5. ResourceOK(badge')
  <2>1. CASE BadgeLands
    <3>1. ResourceOK(Land(badge)) /\ ResourceOK([Mutate(badge, 0) EXCEPT !.request = Quiet])
      BY <1>2, Landed DEF ResourceOK, ResourceFields, Mutate
    <3>2. QED
      BY <2>1, <3>1 DEF BadgeLands
  <2>2. CASE ServeBadge
    <3>1. ResourceOK(Refuse(badge)) /\ ResourceOK(Answer(badge, Unreads))
      BY <1>2, Responded
    <3>2. QED
      BY <2>2, <3>1 DEF ServeBadge
  <2>3. CASE badge' = badge
    BY <1>2, <2>3
  <2>4. QED
    BY <2>1, <2>2, <2>3 DEF PeerTypes
<1>6. events' \in Seq(Events) /\ (Coming(thread.peer) => Coming(thread.peer)')
  <2>1. CASE events' = events
    BY <1>1, <1>2, <2>1 DEF Coming
  <2>2. ASSUME NEW p \in Peers, PeerTypes(p)
        PROVE  <1>6
    <3>1. [kind |-> "typing", peer |-> p] \in Events
      BY DEF Events
    <3>2. <<[kind |-> "typing", peer |-> p]>> \in Seq(Events)
      BY <3>1
    <3>3. QED
      BY <2>2, <3>2, NothingComing DEF PeerTypes
  <2>3. QED
    BY <2>1, <2>2 DEF BadgeLands, ServeBadge
<1>7. /\ thread' = [f \in ThreadFields |-> thread'[f]] /\ thread'.peer = thread.peer
      /\ thread'.data = thread.data
  BY <1>1, <1>2 DEF ThreadOK
<1>8. QED
  BY <1>3, <1>4, <1>5, <1>6, <1>7, PageStays

LEMMA CallStored ==
    ASSUME ChatInv, NEW c \in calls, ServeCall(c)
    PROVE  BoxesOK' /\ MineStay /\ NoneComes /\ CallsSound'
<1>1. BoxesOK /\ CallsSound /\ CallSound(c) /\ c = [f \in CallFields |-> c[f]] /\ c.peer \in Peers
  BY DEF ChatInv, ChatTyped, CallsSound, CallSound, CallOK
<1>2. chat = [f \in ChatFields |-> chat[f]] /\ \A p \in Peers : chat.box[p] \in Seq(Messages)
  BY <1>1 DEF BoxesOK
<1>3. \/ SendStored(c) \/ ReadStored(c) \/ ReactStored(c) \/ DeleteStored(c)
      \/ FollowStored(c) \/ Uploaded(c)
  BY DEF ServeCall
<1>4. CASE SendStored(c)
  <2> DEFINE m == Message(Made + 1, TRUE, "none")
  <2>1. /\ c.op = "send" /\ chat' = [chat EXCEPT !.box[c.peer] = Append(@, m)]
        /\ calls' = (calls \ {c}) \cup {[c EXCEPT !.state = "ok", !.ids = {m.id}]}
    BY <1>4 DEF SendStored
  <2>2. m \in Messages /\ m.id = Made + 1 /\ m.mine /\ m.id \in Nat
    BY <1>1, NextId DEF Message, Messages, Reactions
  <2> HIDE DEF m
  <2>3. /\ chat' = [f \in ChatFields |-> chat'[f]] /\ chat'.gone = chat.gone
        /\ chat'.unread = chat.unread /\ chat'.box = [chat.box EXCEPT ![c.peer] = Append(@, m)]
        /\ chat'.silent = chat.silent
    BY <1>2, <2>1 DEF ChatFields
  <2>4. /\ chat'.unread = [q \in Peers |-> chat'.unread[q]]
        /\ chat'.silent = [q \in Peers |-> chat'.silent[q]]
    BY <1>1, <2>3 DEF BoxesOK
  <2>5. BoxesOK' /\ MineStay /\ NoneComes /\ m.id \in Mine'
    BY <1>1, <2>2, <2>3, <2>4, OneMoreBoxed DEF NoneComes
  <2>6. CallsSound'
    <3> DEFINE now == [c EXCEPT !.state = "ok", !.ids = {m.id}]
    <3>1. /\ now = [f \in CallFields |-> now[f]] /\ now.op = c.op /\ now.peer = c.peer
          /\ now.state = "ok" /\ now.ids = {m.id} /\ now.arg = c.arg
      BY <1>1 DEF CallFields
    <3>2. calls' \subseteq (calls \ {c}) \cup {now}
      BY <2>1
    <3> HIDE DEF now
    <3>3. CallSound(c)
      BY <1>1
    <3>4. CallOK(now)
      BY <2>1, <3>1, <3>3 DEF CallSound, CallOK
    <3>5. \A x : x = now => CallSound(x)'
      BY <2>1, <2>2, <2>5, <3>1, <3>4 DEF CallSound
    <3>6. QED
      BY <1>1, <2>5, <3>2, <3>5, CallReplaced
  <2>7. QED
    BY <2>5, <2>6
<1>5. ASSUME calls' = Done(c), BoxesOK', MineStay, NoneComes, c.op # "send"
      PROVE  CallsSound'
  <2>1. calls' \subseteq (calls \ {c}) \cup {[c EXCEPT !.state = "ok"]}
    BY <1>5 DEF Done
  <2>2. QED
    BY <1>1, <1>5, <2>1, CallAnswered
<1>6. CASE ReadStored(c) \/ FollowStored(c) \/ Uploaded(c)
  <2>1. /\ chat' = [f \in ChatFields |-> chat'[f]] /\ chat'.gone = chat.gone
        /\ chat'.box = chat.box /\ chat'.unread = [p \in Peers |-> chat'.unread[p]]
        /\ chat'.silent = chat.silent
    <3>1. chat.unread = [p \in Peers |-> chat.unread[p]]
      BY <1>1 DEF BoxesOK
    <3>2. CASE ReadStored(c)
      <4>1. chat' = [chat EXCEPT !.unread[c.peer] = {}]
        BY <3>2 DEF ReadStored
      <4>2. /\ chat' = [f \in ChatFields |-> chat'[f]] /\ chat'.gone = chat.gone
            /\ chat'.box = chat.box /\ chat'.unread = [chat.unread EXCEPT ![c.peer] = {}]
            /\ chat'.silent = chat.silent
        BY <1>2, <4>1 DEF ChatFields
      <4>3. QED
        BY <3>1, <4>2
    <3>3. CASE FollowStored(c) \/ Uploaded(c)
      BY <1>2, <3>1, <3>3 DEF FollowStored, Uploaded, ChatFields
    <3>4. QED
      BY <1>6, <3>2, <3>3
  <2>2. BoxesOK' /\ MineStay /\ NoneComes
    BY <1>1, <2>1, NothingBoxed
  <2>3. QED
    BY <1>5, <1>6, <2>2 DEF ReadStored, FollowStored, Uploaded
<1>7. CASE ReactStored(c)
  <2>1. PICK id : chat' = [chat EXCEPT !.box[c.peer] = Patched(chat.box[c.peer], id, c.arg)]
    BY <1>7 DEF ReactStored
  <2>2. c.arg \in Reactions
    BY <1>1, <1>7 DEF ReactStored, CallSound, CallOK
  <2>3. BoxesOK' /\ MineStay /\ NoneComes
    BY <1>1, <1>2, <2>1, <2>2, PatchedSame, SameBoxed
  <2>4. QED
    BY <1>5, <1>7, <2>3 DEF ReactStored
<1>8. CASE DeleteStored(c)
  <2>1. c.ids \subseteq Mine
    BY <1>1, <1>8 DEF DeleteStored, CallSound
  <2>2. chat' = [chat EXCEPT !.box = [p \in Peers |-> Without(@[p], c.ids)], !.gone = @ \cup c.ids]
    BY <1>8 DEF DeleteStored
  <2>3. BoxesOK' /\ MineStay /\ NoneComes
    BY <1>1, <2>1, <2>2, FewerBoxed
  <2>4. QED
    BY <1>5, <1>8, <2>3 DEF DeleteStored
<1>9. QED
  BY <1>3, <1>4, <1>6, <1>7, <1>8

LEMMA PageUntouched ==
    ASSUME ChatInv, BoxesOK', MineStay, NoneComes \/ Coming(thread.peer)', CallsSound',
           thread' = thread, badge' = badge, events' \in Seq(Events),
           Coming(thread.peer) => Coming(thread.peer)'
    PROVE  ChatInv'
<1>1. /\ ResourceOK(badge') /\ thread' = [f \in ThreadFields |-> thread'[f]]
      /\ thread'.peer = thread.peer /\ thread'.data = thread.data
      /\ thread'.selected \subseteq Mine'
  BY DEF ChatInv, ChatTyped, ThreadOK, MineStay
<1>2. QED
  BY <1>1, PageStays

LEMMA ServeCallStep ==
    ASSUME ChatInv, NEW c \in calls, ServeCall(c) \/ RefuseCall(c) \/ SendRefused(c)
    PROVE  ChatInv'
<1>1. thread' = thread /\ badge' = badge /\ events' = events
  BY DEF ServeCall, RefuseCall, SendRefused
<1>2. events' \in Seq(Events) /\ (Coming(thread.peer) => Coming(thread.peer)')
  BY <1>1 DEF ChatInv, ChatTyped, ThreadOK, Coming
<1>3. CASE ServeCall(c)
  BY <1>1, <1>2, <1>3, CallStored, PageUntouched
<1>4. CASE RefuseCall(c) \/ SendRefused(c)
  <2>1. /\ CallsSound /\ BoxesOK /\ c = [f \in CallFields |-> c[f]]
    BY DEF ChatInv, ChatTyped, CallsSound, CallSound, CallOK
  <2>2. BoxesOK' /\ MineStay /\ NoneComes
    BY <1>4, <2>1, SameChat DEF RefuseCall, SendRefused
  <2>3. calls' = (calls \ {c}) \cup {[c EXCEPT !.state = "failed"]}
    BY <1>4 DEF RefuseCall, SendRefused
  <2>4. CallsSound'
    BY <2>1, <2>2, <2>3, CallAnswered
  <2>5. QED
    BY <1>1, <1>2, <2>2, <2>4, PageUntouched
<1>5. QED
  BY <1>3, <1>4

\* A message of the other end, and those of its messages that no event told of.
LEMMA ReceivedIs ==
    ASSUME BoxesOK, NEW p \in Peers, NEW silent, chat' = Received(p, silent)
    PROVE  /\ BoxesOK' /\ MineStay /\ chat'.refused = chat.refused
           /\ \A q \in Peers : q # p => Incoming(chat'.box[q]) = Incoming(chat.box[q])
           /\ Incoming(chat'.box[p]) \subseteq Incoming(chat.box[p]) \cup {Made + 1}
           /\ chat'.silent = [chat.silent EXCEPT ![p] = silent]
           /\ chat'.unread = [chat.unread EXCEPT ![p] = @ \cup {Made + 1}]
           /\ chat'.silent[p] = silent
           /\ \A q \in Peers : q # p => chat'.silent[q] = chat.silent[q]
<1> DEFINE m == Message(Made + 1, FALSE, IF Made + 1 \in Clips THEN "pending" ELSE "none")
<1>1. /\ chat = [f \in ChatFields |-> chat[f]] /\ chat.unread = [q \in Peers |-> chat.unread[q]]
      /\ chat.silent = [q \in Peers |-> chat.silent[q]]
  BY DEF BoxesOK
<1>2. chat' = [chat EXCEPT !.box[p] = Append(@, m), !.unread[p] = @ \cup {Made + 1},
                           !.silent[p] = silent]
  BY DEF Received
<1>3. m \in Messages /\ m.id = Made + 1
  BY NextId DEF Message, Messages, Reactions
<1> HIDE DEF m
<1>4. /\ chat' = [f \in ChatFields |-> chat'[f]] /\ chat'.gone = chat.gone
      /\ chat'.refused = chat.refused
      /\ chat'.unread = [chat.unread EXCEPT ![p] = @ \cup {Made + 1}]
      /\ chat'.box = [chat.box EXCEPT ![p] = Append(@, m)]
      /\ chat'.silent = [chat.silent EXCEPT ![p] = silent]
  BY <1>1, <1>2 DEF ChatFields
<1>5. /\ chat'.unread = [q \in Peers |-> chat'.unread[q]]
      /\ chat'.silent = [q \in Peers |-> chat'.silent[q]] /\ chat'.silent[p] = silent
      /\ \A q \in Peers : q # p => chat'.silent[q] = chat.silent[q]
  BY <1>1, <1>4
<1>6. /\ BoxesOK' /\ MineStay
      /\ \A q \in Peers : q # p => Incoming(chat'.box[q]) = Incoming(chat.box[q])
      /\ Incoming(chat'.box[p]) \subseteq Incoming(chat.box[p]) \cup {m.id}
  BY <1>3, <1>4, <1>5, OneMoreBoxed
<1>7. QED
  BY <1>3, <1>4, <1>5, <1>6

LEMMA WritingStep ==
    ASSUME ChatInv, NEW p \in Peers,
           Receive(p) \/ ReceiveMuted(p) \/ ReceiveCutOff(p) \/ FollowsBack(p) \/ Transcoded(p)
    PROVE  ChatInv'
<1>1. thread' = thread /\ badge' = badge /\ calls' = calls
  BY DEF Receive, ReceiveMuted, ReceiveCutOff, FollowsBack, Transcoded
<1>2. /\ BoxesOK /\ CallsSound /\ chat = [f \in ChatFields |-> chat[f]]
      /\ chat.box[p] \in Seq(Messages) /\ events \in Seq(Events)
      /\ chat.unread = [q \in Peers |-> chat.unread[q]] /\ thread.peer \in Peers
  BY DEF ChatInv, ChatTyped, BoxesOK, ThreadOK
<1>3. CASE Receive(p)
  <2> DEFINE e == [kind |-> "dm", peer |-> p]
  <2>1. chat' = Received(p, {}) /\ events' = Append(events, e)
    BY <1>3 DEF Receive
  <2>2. e \in Events /\ e.kind = "dm" /\ e.peer = p
    BY DEF Events
  <2> HIDE DEF e
  <2>5. /\ BoxesOK' /\ MineStay
        /\ \A q \in Peers : q # p => /\ Incoming(chat'.box[q]) = Incoming(chat.box[q])
                                     /\ chat'.silent[q] = chat.silent[q]
    BY <1>2, <2>1, ReceivedIs
  <2>6. /\ events' \in Seq(Events) /\ (\A q : Coming(q) => Coming(q)') /\ Coming(e.peer)'
    BY <1>2, <2>1, <2>2, AnotherEvent
  <2>7. Coming(thread.peer) => Coming(thread.peer)'
    BY <1>1, <2>6 DEF Coming
  <2>8. CallsSound'
    BY <1>1, <1>2, <2>5, CallsLeft
  <2>9. CASE thread.peer = p
    <3>1. Coming(thread.peer)'
      BY <1>1, <2>2, <2>6, <2>9 DEF Coming
    <3>2. QED
      BY <1>1, <2>5, <2>6, <2>7, <2>8, <3>1, PageUntouched
  <2>10. CASE thread.peer # p
    <3>1. Due' \subseteq Due
      BY <1>1, <1>2, <2>5, <2>7, <2>10 DEF Due
    <3>2. DataOK(thread.data, thread.peer, Due', Mine')
      BY <2>5, <3>1, DataWeakens DEF ChatInv, MineStay
    <3>3. DataOK(thread'.data, thread'.peer, Due', Mine') /\ ThreadOK'
      BY <1>1, <2>5, <2>6, <3>2 DEF ChatInv, ChatTyped, ThreadOK, MineStay
    <3>4. QED
      BY <2>5, <2>8, <3>3 DEF ChatInv, ChatTyped
  <2>11. QED
    BY <2>9, <2>10
<1>6. ASSUME BoxesOK', MineStay, NoneComes, events' = events
      PROVE  ChatInv'
  <2>1. events' \in Seq(Events) /\ (Coming(thread.peer) => Coming(thread.peer)')
    BY <1>1, <1>2, <1>6 DEF Coming
  <2>2. CallsSound'
    BY <1>1, <1>2, <1>6, CallsLeft
  <2>3. QED
    BY <1>1, <1>6, <2>1, <2>2, PageUntouched
<1>7. CASE ReceiveMuted(p) \/ ReceiveCutOff(p)
  <2>1. chat' = Received(p, chat.silent[p] \cup {Made + 1}) /\ events' = events
    BY <1>7 DEF ReceiveMuted, ReceiveCutOff
  <2>2. /\ BoxesOK' /\ MineStay
        /\ \A q \in Peers : q # p => /\ Incoming(chat'.box[q]) = Incoming(chat.box[q])
                                     /\ chat'.silent[q] = chat.silent[q]
        /\ Incoming(chat'.box[p]) \subseteq Incoming(chat.box[p]) \cup {Made + 1}
        /\ chat'.silent[p] = chat.silent[p] \cup {Made + 1}
    BY <1>2, <2>1, ReceivedIs
  <2>3. NoneComes
    BY <2>2 DEF NoneComes
  <2>4. QED
    BY <1>6, <2>1, <2>2, <2>3
<1>8. CASE FollowsBack(p)
  <2>1. /\ chat' = [f \in ChatFields |-> chat'[f]] /\ chat'.box = chat.box
        /\ chat'.gone = chat.gone /\ chat'.unread = chat.unread /\ chat'.silent = chat.silent
        /\ events' = events
    BY <1>2, <1>8 DEF FollowsBack, ChatFields
  <2>2. QED
    BY <1>2, <1>6, <2>1, NothingBoxed
<1>4. CASE Transcoded(p)
  <2>1. PICK i \in DOMAIN chat.box[p] : chat' = [chat EXCEPT !.box[p][i].clip = "ready"]
    BY <1>4 DEF Transcoded
  <2> DEFINE now == [chat.box[p] EXCEPT ![i].clip = "ready"]
  <2>2. SameMessages(chat.box[p], now)
    BY <1>2, ReadySame
  <2>3. chat' = [chat EXCEPT !.box[p] = now]
    BY <2>1
  <2> HIDE DEF now
  <2>4. BoxesOK' /\ MineStay /\ NoneComes
    BY <1>2, <2>2, <2>3, SameBoxed
  <2>5. events' = events
    BY <1>4 DEF Transcoded
  <2>6. QED
    BY <1>6, <2>4, <2>5
<1>5. QED
  BY <1>3, <1>4, <1>7, <1>8

LEMMA ServeThreadStep ==
    ASSUME ChatInv, ServeThread
    PROVE  ChatInv'
<1>1. /\ Pending(thread.data) /\ badge' = badge /\ events' = events /\ calls' = calls
      /\ chat' = chat \/ Fails
      /\ \/ thread' = [thread EXCEPT !.data = Answer(@, ThreadView(KeyOf(@)))]
         \/ thread' = [thread EXCEPT !.data = Refuse(@)]
  BY DEF ServeThread
<1>2. /\ BoxesOK /\ CallsSound /\ ResourceOK(badge') /\ events' \in Seq(Events)
      /\ thread = [f \in ThreadFields |-> thread[f]] /\ thread.peer \in Peers
      /\ ResourceOK(thread.data) /\ thread.selected \subseteq Mine
      /\ DataOK(thread.data, thread.peer, Due, Mine)
  BY <1>1 DEF ChatInv, ChatTyped, ThreadOK
<1> DEFINE r == thread.data
           d == ThreadView(thread.peer)
<1>3. KeyOf(r) = thread.peer
  BY <1>1, <1>2, QuietIs DEF Pending, KeyOf, DataOK
<1>4. /\ d = [f \in ConversationFields |-> d[f]] /\ d.peer = thread.peer
      /\ d.messages = chat.box[thread.peer]
  BY DEF ThreadView, ConversationFields
<1> HIDE DEF d
<1>5. ConversationOK(d, Mine)
  BY <1>2, <1>4 DEF ConversationOK, BoxesOK
<1>6. Complete(d, thread.peer, Due)
  BY <1>4, WrittenBy DEF Complete, Due
<1>7. /\ ResourceOK(Answer(r, d)) /\ DataOK(Answer(r, d), thread.peer, Due, Mine)
      /\ ResourceOK(Refuse(r)) /\ DataOK(Refuse(r), thread.peer, Due, Mine)
  BY <1>2, <1>5, <1>6, DataServed
<1>8. /\ thread' = [f \in ThreadFields |-> thread'[f]] /\ thread'.peer = thread.peer
      /\ thread'.selected = thread.selected
      /\ thread'.data = Answer(r, d) \/ thread'.data = Refuse(r)
  BY <1>1, <1>2, <1>3 DEF ThreadFields, d
<1>9. ResourceOK(thread'.data) /\ DataOK(thread'.data, thread.peer, Due, Mine)
  BY <1>7, <1>8
<1>10. BoxesOK' /\ MineStay /\ NoneComes
  BY <1>1, <1>2, SameChat
<1>11. Due' \subseteq Due
  BY <1>1, <1>2, <1>8, <1>10 DEF Due, NoneComes, Coming
<1>12. DataOK(thread'.data, thread'.peer, Due', Mine')
  <2>1. DataOK(thread'.data, thread.peer, Due', Mine')
    BY <1>9, <1>10, <1>11, DataWeakens DEF MineStay
  <2>2. QED
    BY <1>8, <2>1
<1>13. CallsSound'
  BY <1>1, <1>2, <1>10, CallsLeft
<1>14. ThreadOK'
  BY <1>2, <1>8, <1>9, <1>10 DEF ThreadOK, MineStay
<1>15. QED
  BY <1>10, <1>12, <1>13, <1>14 DEF ChatInv, ChatTyped

LEMMA ChatStep == ChatInv /\ [ChatNext]_chatVars => ChatInv'
<1> SUFFICES ASSUME ChatInv, [ChatNext]_chatVars
             PROVE  ChatInv'
  OBVIOUS
<1>1. CASE UNCHANGED chatVars
  <2>1. chat' = chat /\ thread' = thread /\ badge' = badge /\ events' = events /\ calls' = calls
    BY <1>1 DEF chatVars
  <2>2. BoxesOK /\ CallsSound /\ events' \in Seq(Events) /\ calls' \subseteq calls
    BY <2>1 DEF ChatInv, ChatTyped, ThreadOK
  <2>3. BoxesOK' /\ MineStay /\ NoneComes
    BY <2>1, <2>2, SameChat
  <2>4. CallsSound'
    BY <2>2, <2>3, CallsLeft
  <2>5. Coming(thread.peer) => Coming(thread.peer)'
    BY <2>1 DEF Coming
  <2>6. QED
    BY <2>1, <2>2, <2>3, <2>4, <2>5, PageUntouched
<1>2. ASSUME NEW p \in Peers,
             \/ OpenThread(p) \/ Receive(p) \/ ReceiveMuted(p) \/ ReceiveCutOff(p)
             \/ FollowsBack(p) \/ PeerTypes(p) \/ Transcoded(p)
      PROVE  ChatInv'
  BY <1>2, ChatLoads, WritingStep, BadgeStep
<1>3. CASE \/ Refresh \/ ThreadLands \/ BadgeLands \/ Poll \/ DmEvent \/ OnTyping
           \/ ServeThread \/ ServeBadge
  BY <1>3, ChatLoads, ThreadLandsStep, BadgeStep, EventStep, ServeThreadStep
<1>4. CASE \/ Type \/ OnPickFile \/ DropMedia \/ Send \/ OpenReact \/ ToggleSelecting
           \/ ToggleMsgSel \/ DoFollow \/ Play \/ TypingClears
  BY <1>4, ClickAside
<1>5. CASE ToggleReact \/ DeleteMsg \/ BulkDeleteMsgs
  BY <1>5, ReactStep, DeleteClicks
<1>6. ASSUME NEW c \in calls,
             \/ Upload(c) \/ Sent(c) \/ Undone(c) \/ Followed(c) \/ MarkedRead(c)
             \/ ServeCall(c) \/ RefuseCall(c) \/ SendRefused(c)
      PROVE  ChatInv'
  BY <1>6, AnswerLands, SentStep, ServeCallStep
<1>7. QED
  BY <1>1, <1>2, <1>3, <1>4, <1>5, <1>6 DEF ChatNext

LEMMA ChatStarts == ChatInit => ChatInv
<1> SUFFICES ASSUME NEW p \in Peers, NEW muted \in SUBSET Mutable, OpenedChat(p, muted)
             PROVE  ChatInv
  BY DEF ChatInit
<1> DEFINE first == Message(1, TRUE, "none")
<1>1. /\ chat.box = [q \in Peers |-> IF q = p THEN <<first>> ELSE <<>>]
      /\ chat.unread = [q \in Peers |-> {}] /\ chat.gone = {}
      /\ chat.silent = [q \in Peers |-> {}]
      /\ chat = [f \in ChatFields |-> chat[f]]
      /\ thread = Opened(p, ThreadView(p)) /\ badge = Mutate(Unresolved, 0)
      /\ events = <<>> /\ calls = {}
  BY DEF OpenedChat, ChatFields
<1>2. first \in Messages /\ first.id = 1 /\ first.mine
  BY DEF Message, Messages, Reactions
<1> HIDE DEF first
<1>3. /\ <<first>> \in Seq(Messages) /\ DOMAIN <<first>> = {1} /\ <<first>>[1] = first
      /\ <<>> \in Seq(Messages) /\ DOMAIN <<>> = {}
  <2>1. <<first>> \in Seq(Messages) /\ <<>> \in Seq(Messages)
    BY <1>2
  <2>2. Len(<<first>>) = 1 /\ Len(<<>>) = 0
    OBVIOUS
  <2>3. QED
    BY <2>1, <2>2, LenProperties
<1>4. /\ Ids(<<first>>) = {1} /\ Incoming(<<first>>) = {} /\ Outgoing(<<first>>) = {1}
      /\ Ids(<<>>) = {} /\ Incoming(<<>>) = {} /\ Outgoing(<<>>) = {}
  <2>1. Ids(<<first>>) = {1} /\ Incoming(<<first>>) = {} /\ Outgoing(<<first>>) = {1}
    BY <1>2, <1>3 DEF Ids, Incoming, Outgoing
  <2>2. Ids(<<>>) = {} /\ Incoming(<<>>) = {} /\ Outgoing(<<>>) = {}
    BY <1>3 DEF Ids, Incoming, Outgoing
  <2>3. QED
    BY <2>1, <2>2
<1>5. /\ \A q \in Peers : chat.box[q] = <<first>> \/ chat.box[q] = <<>>
      /\ chat.box[p] = <<first>> /\ chat.box \in [Peers -> Seq(Messages)]
  BY <1>1, <1>3
<1>6. Boxed = {1} /\ Theirs = {}
  BY <1>4, <1>5 DEF Boxed, Theirs
<1>7. Mine = {1} /\ Written = {1}
  BY <1>1, <1>6 DEF Mine, Written
<1>8. Numbered
  <2>1. 1..1 = {1} /\ 1 \in Nat
    OBVIOUS
  <2>2. QED
    BY <1>1, <1>7, <2>1 DEF Numbered
<1>9. BoxesOK
  BY <1>1, <1>4, <1>5, <1>7, <1>8 DEF BoxesOK
<1>10. /\ thread = [f \in ThreadFields |-> thread[f]] /\ thread.peer = p
       /\ thread.data = Mutate(Unresolved, ThreadView(p)) /\ thread.selected = {}
  BY <1>1 DEF Opened, ThreadFields
<1>11. \A v : LET r == Mutate(Unresolved, v) IN
               ResourceOK(r) /\ r.value = <<v>> /\ r.value[1] = v /\ r.request = Quiet
  BY DEF Mutate, Unresolved, ResourceOK, ResourceFields
<1>12. ThreadOK
  <2>1. events \in Seq(Events)
    BY <1>1
  <2>2. ResourceOK(thread.data) /\ ResourceOK(badge)
    BY <1>1, <1>10, <1>11
  <2>3. QED
    BY <1>10, <2>1, <2>2 DEF ThreadOK
<1> DEFINE d == ThreadView(p)
<1>13. d = [f \in ConversationFields |-> d[f]] /\ d.peer = p /\ d.messages = <<first>>
  BY <1>5 DEF ThreadView, ConversationFields
<1> HIDE DEF d
<1>14. ConversationOK(d, Mine)
  BY <1>3, <1>4, <1>7, <1>13 DEF ConversationOK
<1>15. Complete(d, thread.peer, Due)
  BY <1>4, <1>5, <1>10, <1>13 DEF Complete, Due
<1>16. DataOK(thread.data, thread.peer, Due, Mine)
  <2>1. thread.data.value[1] = d /\ thread.data.request = Quiet
    BY <1>10, <1>11 DEF d
  <2>2. QED
    BY <1>14, <1>15, <2>1 DEF DataOK
<1>17. CallsSound
  BY <1>1 DEF CallsSound
<1>18. QED
  BY <1>9, <1>12, <1>16, <1>17 DEF ChatInv, ChatTyped

LEMMA SoundIsShown == ChatInv => IncomingAlwaysShown
<1> SUFFICES ASSUME ChatInv, ThreadSettled
             PROVE  /\ Data.peer = thread.peer
                    /\ \A i \in DOMAIN chat.box[thread.peer] :
                          ~chat.box[thread.peer][i].mine
                          /\ chat.box[thread.peer][i].id \notin chat.silent[thread.peer]
                             => chat.box[thread.peer][i].id \in Ids(Data.messages)
  BY DEF IncomingAlwaysShown
<1>1. Due = Incoming(chat.box[thread.peer]) \ chat.silent[thread.peer]
  BY NothingComing DEF Due, ThreadSettled
<1>2. Complete(Data, thread.peer, Due)
  BY QuietIs DEF ChatInv, DataOK, ThreadSettled, Shown, Throws, Loading, Data
<1>3. QED
  BY <1>1, <1>2 DEF Complete, Incoming

\* Once events and answers are through, a conversation on screen is the one of the address and
\* shows every message of its other end that an event told of, for any conversations, any number
\* of messages, clicks and failures, whoever is muted, and any order of events and answers: what
\* the page has in flight was asked for after the last event, or holds all that was announced,
\* and what it writes itself takes nothing but the reader's own messages away.
\* [DMThread: the resource, onNotif, and every mutate and refetch; dm.rs 440-486]
THEOREM ConversationsShowWhatCame == ChatSpec => []IncomingAlwaysShown
BY ChatStarts, ChatStep, SoundIsShown, PTL DEF ChatSpec

-----------------------------------------------------------------------------
(* Read and counted. *)

(* What is unread is read by a receipt on its way up, or by the one its event will send. *)
ReceiptDue ==
    \/ chat.unread[thread.peer] \subseteq chat.silent[thread.peer] \/ Coming(thread.peer)
    \/ \E c \in calls : c.op = "read" /\ c.peer = thread.peer /\ c.state = "sent"

(* The badge is to be asked for again. *)
RecountDue == (\E p \in Peers : Coming(p)) \/ \E c \in calls : c.op = "read" /\ c.state = "ok"

(* All that is unread but some silent messages. *)
IsCount(n) ==
    \E missed \in SUBSET UNION {chat.silent[p] : p \in Peers} : n = Cardinality(AllUnread \ missed)

(* What the badge shows, or was asked for, is the count. *)
Counted ==
    \/ badge.request = Quiet /\ \E n : badge.value = <<n>> /\ IsCount(n)
    \/ badge.request[1] = "asked"
    \/ badge.request[1] = "served" /\ \E n : badge.request[2] = n /\ IsCount(n)

ReceiptsArrive == \A c \in calls : c.op = "read" => c.state # "failed"

ReadInv == ~chat.refused => ReceiptDue /\ (RecountDue \/ Counted) /\ ReceiptsArrive

(* Steps that have to do with other requests than receipts and the badge. *)
ReceiptsStay ==
    /\ \A c \in calls : c.op = "read" => c \in calls'
    /\ \A c \in calls' : c.op = "read" => c \in calls

LEMMA ReadKept ==
    ASSUME ReadInv, chat'.unread = chat.unread, chat'.refused = chat.refused,
           chat'.silent = chat.silent,
           thread'.peer = thread.peer, badge' = badge, ReceiptsStay,
           \A p : Coming(p) => Coming(p)'
    PROVE  ReadInv'
<1> SUFFICES ASSUME ~chat.refused PROVE ReceiptDue' /\ (RecountDue \/ Counted)' /\ ReceiptsArrive'
  BY DEF ReadInv
<1>1. ReceiptDue /\ (RecountDue \/ Counted) /\ ReceiptsArrive
  BY DEF ReadInv
<1>2. Coming(thread.peer) => Coming(thread.peer)'
  BY DEF Coming
<1>3. ReceiptDue'
  BY <1>1, <1>2 DEF ReceiptDue, ReceiptsStay
<1>4. ReceiptsArrive'
  BY <1>1 DEF ReceiptsArrive, ReceiptsStay
<1>5. RecountDue => RecountDue'
  BY DEF RecountDue, ReceiptsStay
<1>6. \A n : IsCount(n)' <=> IsCount(n)
  BY DEF IsCount, AllUnread
<1>7. Counted => Counted'
  BY <1>6 DEF Counted
<1>8. QED
  BY <1>1, <1>3, <1>4, <1>5, <1>7

LEMMA SameEvents == events' = events => \A p : Coming(p) => Coming(p)'
BY DEF Coming

\* Other requests are sent.
LEMMA OtherCalls ==
    ASSUME NEW op, NEW p \in Peers, NEW ids, NEW arg, op # "read",
           calls' = calls \cup {Call(op, p, ids, arg)}
    PROVE  ReceiptsStay
<1> DEFINE c == Call(op, p, ids, arg)
<1>1. c.op = op /\ calls' = calls \cup {c}
  BY CallIs
<1> HIDE DEF c
<1>2. QED
  BY <1>1 DEF ReceiptsStay

LEMMA ReadByClicks ==
    ASSUME ChatInv, ReadInv,
           \/ Type \/ OnPickFile \/ DropMedia \/ Send \/ OpenReact \/ ToggleSelecting
           \/ ToggleMsgSel \/ DoFollow \/ Play \/ TypingClears \/ ToggleReact \/ DeleteMsg
           \/ BulkDeleteMsgs \/ Refresh \/ Poll \/ ThreadLands
    PROVE  ReadInv'
<1>1. ThreadOK /\ thread = [f \in ThreadFields |-> thread[f]] /\ thread.peer \in Peers
  BY DEF ChatInv, ChatTyped, ThreadOK
<1>2. thread'.peer = thread.peer
  <2>1. CASE Type \/ OnPickFile \/ DropMedia \/ Send
    BY <1>1, <2>1 DEF Type, OnPickFile, DropMedia, Send, ThreadFields
  <2>2. CASE OpenReact \/ ToggleMsgSel \/ Play
    BY <1>1, <2>2 DEF OpenReact, ToggleMsgSel, Play, ThreadFields
  <2>3. CASE ToggleSelecting \/ DoFollow \/ TypingClears \/ ThreadLands
    BY <1>1, <2>3 DEF ToggleSelecting, DoFollow, TypingClears, ThreadLands, ThreadFields
  <2>4. CASE ToggleReact \/ DeleteMsg \/ BulkDeleteMsgs
    BY <1>1, <2>4 DEF ToggleReact, DeleteMsg, BulkDeleteMsgs, ThreadFields
  <2>5. CASE Refresh \/ Poll
    BY <1>1, <2>5, RefetchIs DEF Refresh, Poll
  <2>6. QED
    BY <2>1, <2>2, <2>3, <2>4, <2>5
<1>3. chat' = chat /\ badge' = badge /\ events' = events
  BY DEF Type, OnPickFile, DropMedia, Send, OpenReact, ToggleSelecting, ToggleMsgSel, DoFollow,
     Play, TypingClears, ToggleReact, DeleteMsg, BulkDeleteMsgs, Refresh, Poll, ThreadLands
<1>4. ReceiptsStay
  <2>1. CASE calls' = calls
    BY <2>1 DEF ReceiptsStay
  <2>2. CASE OnPickFile
    <3>1. \E op, ids, arg : op # "read" /\ calls' = calls \cup {Call(op, thread.peer, ids, arg)}
      BY <2>2 DEF OnPickFile
    <3>2. QED
      BY <1>1, <3>1, OtherCalls
  <2>3. CASE Send
    <3>1. \E op, ids, arg : op # "read" /\ calls' = calls \cup {Call(op, thread.peer, ids, arg)}
      BY <2>3 DEF Send
    <3>2. QED
      BY <1>1, <3>1, OtherCalls
  <2>4. CASE DoFollow
    <3>1. \E op, ids, arg : op # "read" /\ calls' = calls \cup {Call(op, thread.peer, ids, arg)}
      BY <2>4 DEF DoFollow
    <3>2. QED
      BY <1>1, <3>1, OtherCalls
  <2>5. CASE ToggleReact
    <3>1. \E op, ids, arg : op # "read" /\ calls' = calls \cup {Call(op, thread.peer, ids, arg)}
      BY <2>5 DEF ToggleReact
    <3>2. QED
      BY <1>1, <3>1, OtherCalls
  <2>6. CASE DeleteMsg
    <3>1. \E op, ids, arg : op # "read" /\ calls' = calls \cup {Call(op, thread.peer, ids, arg)}
      BY <2>6 DEF DeleteMsg
    <3>2. QED
      BY <1>1, <3>1, OtherCalls
  <2>7. CASE BulkDeleteMsgs
    <3>1. \E op, ids, arg : op # "read" /\ calls' = calls \cup {Call(op, thread.peer, ids, arg)}
      BY <2>7 DEF BulkDeleteMsgs
    <3>2. QED
      BY <1>1, <3>1, OtherCalls
  <2>8. QED
    BY <2>1, <2>2, <2>3, <2>4, <2>5, <2>6, <2>7
       DEF Type, DropMedia, OpenReact, ToggleSelecting, ToggleMsgSel, Play, TypingClears, Refresh,
           Poll, ThreadLands
<1>5. QED
  BY <1>2, <1>3, <1>4, ReadKept, SameEvents

\* The badge is asked for again.
LEMMA BadgeAsked ==
    ASSUME ChatInv, badge' = Fetch(badge, "all")
    PROVE  Counted'
<1>1. badge'.request = <<"asked", "all">>
  BY Fetched DEF ChatInv, ChatTyped, ThreadOK
<1>2. badge'.request[1] = "asked"
  BY <1>1
<1>3. QED
  BY <1>2 DEF Counted

LEMMA ReadByAnswers ==
    ASSUME ChatInv, ReadInv, NEW c \in calls,
           Upload(c) \/ Sent(c) \/ Undone(c) \/ Followed(c) \/ MarkedRead(c)
    PROVE  ReadInv'
<1>1. ThreadOK /\ thread = [f \in ThreadFields |-> thread[f]] /\ CallOK(c)
  BY DEF ChatInv, ChatTyped, ThreadOK, CallsSound, CallSound
<1>2. chat' = chat /\ events' = events /\ calls' = calls \ {c}
  BY DEF Upload, Sent, Undone, Followed, MarkedRead
<1>3. thread'.peer = thread.peer
  <2>1. CASE Upload(c) \/ Sent(c)
    BY <1>1, <2>1 DEF Upload, Sent, ThreadFields
  <2>2. CASE Undone(c) \/ MarkedRead(c)
    BY <1>1, <2>2, RefetchIs DEF Undone, MarkedRead
  <2>3. CASE Followed(c)
    <3> DEFINE t == Refetch(thread)
    <3>1. t = [f \in ThreadFields |-> t[f]] /\ t.peer = thread.peer
      BY <1>1, RefetchIs
    <3>2. \/ thread' = [t EXCEPT !.awaiting = TRUE]
          \/ thread' = [thread EXCEPT !.busy = FALSE, !.err = TRUE]
      BY <2>3 DEF Followed
    <3> HIDE DEF t
    <3>3. QED
      BY <1>1, <3>1, <3>2 DEF ThreadFields
  <2>4. QED
    BY <2>1, <2>2, <2>3
<1>4. CASE c.op # "read" /\ badge' = badge
  <2>1. ReceiptsStay
    BY <1>2, <1>4 DEF ReceiptsStay
  <2>2. QED
    BY <1>2, <1>3, <1>4, <2>1, ReadKept, SameEvents
<1>5. CASE badge' = Fetch(badge, "all") /\ c.state = "ok"
  <2>1. Counted'
    BY <1>5, BadgeAsked
  <2>2. ReceiptDue => ReceiptDue'
    BY <1>2, <1>3, <1>5 DEF ReceiptDue, Coming
  <2>3. ReceiptsArrive => ReceiptsArrive'
    BY <1>2 DEF ReceiptsArrive
  <2>4. QED
    BY <1>2, <2>1, <2>2, <2>3 DEF ReadInv
<1>6. CASE c.op = "read" /\ badge' = badge /\ c.state = "failed"
  <2>1. ~ReceiptsArrive
    BY <1>6 DEF ReceiptsArrive
  <2>2. chat.refused
    BY <2>1 DEF ReadInv
  <2>3. QED
    BY <1>2, <2>2 DEF ReadInv
<1>7. QED
  BY <1>1, <1>4, <1>5, <1>6 DEF Upload, Sent, Undone, Followed, MarkedRead, CallOK

LEMMA ReadByEvents ==
    ASSUME ChatInv, ReadInv, \/ DmEvent \/ OnTyping
                             \/ \E p \in Peers : OpenThread(p) \/ PeerTypes(p)
    PROVE  ReadInv'
<1>1. /\ ThreadOK /\ thread = [f \in ThreadFields |-> thread[f]] /\ thread.peer \in Peers
      /\ events \in Seq(Events)
  BY DEF ChatInv, ChatTyped, ThreadOK
<1>2. CASE DmEvent
  <2>1. chat' = chat /\ events # <<>> /\ events' = Tail(events) /\ badge' = Fetch(badge, "all")
    BY <1>2 DEF DmEvent
  <2>2. Counted'
    BY <2>1, BadgeAsked
  <2>3. \A p : Coming(p) => Coming(p)' \/ (Head(events).kind = "dm" /\ Head(events).peer = p)
    BY <1>1, <2>1, FirstEvent
  <2>4. CASE Head(events).peer = thread.peer
    <3> DEFINE c == Call("read", thread.peer, {}, "")
    <3>1. c.op = "read" /\ c.peer = thread.peer /\ c.state = "sent"
      BY <1>1 DEF Call
    <3>2. calls' = calls \cup {c}
      BY <1>2, <2>4 DEF DmEvent, ReadOnNotif
    <3> HIDE DEF c
    <3>3. thread'.peer = thread.peer
      <4>1. thread' = Refetch(thread)
        BY <1>2, <2>4 DEF DmEvent, OnNotif
      <4>2. QED
        BY <1>1, <4>1, RefetchIs
    <3>4. ReceiptDue'
      BY <3>1, <3>2, <3>3 DEF ReceiptDue
    <3>5. ReceiptsArrive => ReceiptsArrive'
      BY <3>1, <3>2 DEF ReceiptsArrive
    <3>6. QED
      BY <2>1, <2>2, <3>4, <3>5 DEF ReadInv
  <2>5. CASE Head(events).peer # thread.peer
    <3>1. thread' = thread /\ calls' = calls
      BY <1>2, <2>5 DEF DmEvent, OnNotif, ReadOnNotif
    <3>2. Coming(thread.peer) => Coming(thread.peer)'
      BY <2>3, <2>5, <3>1 DEF Coming
    <3>3. ReceiptDue => ReceiptDue'
      BY <2>1, <3>1, <3>2 DEF ReceiptDue
    <3>4. ReceiptsArrive => ReceiptsArrive'
      BY <3>1 DEF ReceiptsArrive
    <3>5. QED
      BY <2>1, <2>2, <3>3, <3>4 DEF ReadInv
  <2>6. QED
    BY <2>4, <2>5
<1>3. CASE OnTyping
  <2>1. /\ chat' = chat /\ badge' = badge /\ calls' = calls /\ events # <<>>
        /\ events' = Tail(events) /\ Head(events).kind # "dm"
    BY <1>3 DEF OnTyping
  <2>2. thread'.peer = thread.peer
    BY <1>1, <1>3 DEF OnTyping, ThreadFields
  <2>3. \A p : Coming(p) => Coming(p)'
    BY <1>1, <2>1, FirstEvent
  <2>4. QED
    BY <2>1, <2>2, <2>3, ReadKept DEF ReceiptsStay
<1>4. ASSUME NEW p \in Peers, OpenThread(p)
      PROVE  ReadInv'
  <2> DEFINE c == Call("read", p, {}, "")
  <2>1. c.op = "read" /\ c.peer = p /\ c.state = "sent"
    BY DEF Call
  <2>2. chat' = chat /\ badge' = badge /\ events' = events /\ calls' = calls \cup {c}
    BY <1>4 DEF OpenThread
  <2> HIDE DEF c
  <2>3. thread'.peer = p
    BY <1>1, <1>4 DEF OpenThread, ThreadFields
  <2>4. ReceiptDue' /\ (ReceiptsArrive => ReceiptsArrive')
    BY <2>1, <2>2, <2>3 DEF ReceiptDue, ReceiptsArrive
  <2>5. RecountDue => RecountDue'
    BY <2>2, SameEvents DEF RecountDue
  <2>6. Counted => Counted'
    <3>1. \A n : IsCount(n)' <=> IsCount(n)
      BY <2>2 DEF IsCount, AllUnread
    <3>2. QED
      BY <2>2, <3>1 DEF Counted
  <2>7. QED
    BY <2>2, <2>4, <2>5, <2>6 DEF ReadInv
<1>5. ASSUME NEW p \in Peers, PeerTypes(p)
      PROVE  ReadInv'
  <2>1. /\ chat' = chat /\ badge' = badge /\ calls' = calls /\ thread' = thread
        /\ events = <<>>
    BY <1>5 DEF PeerTypes
  <2>2. \A q : Coming(q) => Coming(q)'
    BY <2>1, NothingComing
  <2>3. QED
    BY <2>1, <2>2, ReadKept DEF ReceiptsStay
<1>6. QED
  BY <1>2, <1>3, <1>4, <1>5

LEMMA Refused ==
    ASSUME ChatInv, Fails
    PROVE  chat'.refused
BY DEF ChatInv, ChatTyped, BoxesOK, Fails, ChatFields

LEMMA ReadByBadge ==
    ASSUME ChatInv, ReadInv, BadgeLands \/ ServeBadge \/ ServeThread
    PROVE  ReadInv'
<1>1. /\ thread = [f \in ThreadFields |-> thread[f]] /\ ResourceOK(badge)
      /\ calls' = calls /\ events' = events
  BY DEF ChatInv, ChatTyped, ThreadOK, BadgeLands, ServeBadge, ServeThread
<1>2. CASE Fails
  BY <1>2, Refused DEF ReadInv
<1>3. CASE ServeThread /\ chat' = chat
  <2>1. badge' = badge /\ thread'.peer = thread.peer
    BY <1>1, <1>3 DEF ServeThread, ThreadFields
  <2>2. QED
    BY <1>1, <1>3, <2>1, ReadKept, SameEvents DEF ReceiptsStay
<1>4. ASSUME chat' = chat, thread' = thread, Counted => Counted'
      PROVE  ReadInv'
  <2>1. /\ ReceiptDue => ReceiptDue'
        /\ ReceiptsArrive => ReceiptsArrive' /\ (RecountDue => RecountDue')
    BY <1>1, <1>4, SameEvents DEF ReceiptDue, ReceiptsArrive, RecountDue, Coming
  <2>2. QED
    BY <1>4, <2>1 DEF ReadInv
<1>5. CASE BadgeLands
  <2>1. chat' = chat /\ thread' = thread /\ \A n : IsCount(n)' <=> IsCount(n)
    BY <1>5 DEF BadgeLands, IsCount, AllUnread
  <2>2. badge.request # Quiet /\ badge.request[1] # "asked"
    BY <1>5, QuietIs DEF BadgeLands, Answered
  <2>3. ASSUME Counted
        PROVE  Counted'
    <3>1. badge.request[1] = "served" /\ \E n : badge.request[2] = n /\ IsCount(n)
      BY <2>2, <2>3 DEF Counted
    <3>2. badge' = Land(badge)
      BY <1>5, <3>1 DEF BadgeLands
    <3>3. badge'.request = Quiet /\ badge'.value = <<badge.request[2]>>
      BY <1>1, <2>1, <3>1, <3>2, Landed
    <3>4. QED
      BY <2>1, <3>1, <3>3 DEF Counted
  <2>4. QED
    BY <1>4, <2>1, <2>3
<1>6. CASE ServeBadge /\ chat' = chat /\ badge' = Answer(badge, Unreads)
  <2>1. thread' = thread /\ \E n : n = Unreads' /\ IsCount(n)'
    <3>1. AllUnread' \ {} = AllUnread'
      OBVIOUS
    <3>2. QED
      BY <1>6, <3>1 DEF ServeBadge, IsCount, Unreads
  <2>2. badge'.request = <<"served", Unreads'>>
    BY <1>1, <1>6, <2>1, Responded DEF Unreads, AllUnread
  <2>3. badge'.request[1] = "served" /\ \E n : badge'.request[2] = n /\ IsCount(n)'
    BY <2>1, <2>2
  <2>4. QED
    BY <1>4, <1>6, <2>1, <2>3 DEF Counted
<1>7. QED
  BY <1>2, <1>3, <1>5, <1>6 DEF ServeBadge, ServeThread

LEMMA ReadByServer ==
    ASSUME ChatInv, ReadInv,
           \/ \E p \in Peers : \/ Receive(p) \/ ReceiveMuted(p) \/ ReceiveCutOff(p)
                              \/ FollowsBack(p) \/ Transcoded(p)
           \/ \E c \in calls : ServeCall(c) \/ RefuseCall(c) \/ SendRefused(c)
    PROVE  ReadInv'
<1>1. /\ chat = [f \in ChatFields |-> chat[f]] /\ thread.peer \in Peers
      /\ chat.unread = [p \in Peers |-> chat.unread[p]] /\ events \in Seq(Events)
      /\ \A c \in calls : CallOK(c)
  BY DEF ChatInv, ChatTyped, BoxesOK, ThreadOK, CallsSound, CallSound
<1>2. thread' = thread /\ badge' = badge
  BY DEF Receive, ReceiveMuted, ReceiveCutOff, FollowsBack, Transcoded, ServeCall, RefuseCall,
     SendRefused
<1>3. ASSUME NEW p \in Peers, Receive(p)
      PROVE  ReadInv'
  <2> DEFINE e == [kind |-> "dm", peer |-> p]
             id == Made + 1
  <2>1. chat' = Received(p, {}) /\ events' = Append(events, e) /\ calls' = calls
    BY <1>3 DEF Receive
  <2>2. e \in Events /\ e.kind = "dm" /\ e.peer = p
    BY DEF Events
  <2> HIDE DEF e, id
  <2>3. /\ chat'.refused = chat.refused
        /\ \A q \in Peers : q # p => /\ chat'.unread[q] = chat.unread[q]
                                     /\ chat'.silent[q] = chat.silent[q]
    BY <1>1, <2>1, ReceivedIs DEF ChatInv, ChatTyped
  <2>4. (\A q : Coming(q) => Coming(q)') /\ Coming(p)'
    <3>1. Coming(e.peer)' <=> Coming(p)'
      BY <2>2 DEF Coming
    <3>2. (\A q : Coming(q) => Coming(q)') /\ \A q : q = e.peer => Coming(q)'
      BY <1>1, <2>1, <2>2, AnotherEvent DEF Coming
    <3>3. QED
      BY <2>2, <3>2
  <2>5. RecountDue'
    BY <2>4 DEF RecountDue
  <2>6. ReceiptDue => ReceiptDue'
    <3>1. CASE thread.peer = p
      BY <1>2, <2>4, <3>1 DEF ReceiptDue, Coming
    <3>2. CASE thread.peer # p
      <4>1. /\ chat'.unread[thread.peer] = chat.unread[thread.peer]
            /\ chat'.silent[thread.peer] = chat.silent[thread.peer]
        BY <1>1, <2>3, <3>2
      <4>2. Coming(thread.peer) => Coming(thread.peer)'
        BY <1>2, <2>4 DEF Coming
      <4>3. QED
        BY <1>2, <2>1, <4>1, <4>2 DEF ReceiptDue
    <3>3. QED
      BY <3>1, <3>2
  <2>7. ReceiptsArrive => ReceiptsArrive'
    BY <2>1 DEF ReceiptsArrive
  <2>8. QED
    BY <2>3, <2>5, <2>6, <2>7 DEF ReadInv
<1>4. ASSUME NEW p \in Peers, Transcoded(p)
      PROVE  ReadInv'
  <2>1. PICK i : chat' = [chat EXCEPT !.box[p][i].clip = "ready"]
    BY <1>4 DEF Transcoded
  <2>2. chat'.unread = chat.unread /\ chat'.refused = chat.refused
    BY <1>1, <2>1 DEF ChatFields
  <2>3. events' = events /\ calls' = calls /\ chat'.silent = chat.silent
    BY <1>1, <1>4, <2>1 DEF Transcoded, ChatFields
  <2>4. QED
    BY <1>2, <2>2, <2>3, ReadKept, SameEvents DEF ReceiptsStay
<1>5. ASSUME NEW c \in calls, RefuseCall(c)
      PROVE  ReadInv'
  BY <1>5, Refused DEF RefuseCall, ReadInv
<1>6. ASSUME NEW c \in calls, NEW now, c.op # "read", now.op = c.op,
             calls' = (calls \ {c}) \cup {now}, events' = events,
             chat'.unread = chat.unread, chat'.refused = chat.refused,
             chat'.silent = chat.silent
      PROVE  ReadInv'
  <2>1. ReceiptsStay
    BY <1>6 DEF ReceiptsStay
  <2>2. QED
    BY <1>2, <1>6, <2>1, ReadKept, SameEvents
<1>7. ASSUME NEW c \in calls, SendRefused(c)
      PROVE  ReadInv'
  <2>1. [c EXCEPT !.state = "failed"].op = c.op
    BY <1>1 DEF CallOK, CallFields
  <2>2. QED
    BY <1>6, <1>7, <2>1 DEF SendRefused
<1>8. ASSUME NEW c \in calls, ServeCall(c), c.op # "read"
      PROVE  ReadInv'
  <2>1. c = [f \in CallFields |-> c[f]] /\ events' = events
    BY <1>1, <1>8 DEF CallOK, ServeCall
  <2>2. \E now : calls' = (calls \ {c}) \cup {now} /\ now.op = c.op
    <3>1. /\ [c EXCEPT !.state = "ok"].op = c.op
          /\ \A ids : [c EXCEPT !.state = "ok", !.ids = ids].op = c.op
      BY <2>1 DEF CallFields
    <3>2. CASE SendStored(c)
      BY <3>1, <3>2 DEF SendStored
    <3>3. CASE calls' = Done(c)
      BY <3>1, <3>3 DEF Done
    <3>4. QED
      BY <1>8, <3>2, <3>3
         DEF ServeCall, ReadStored, ReactStored, DeleteStored, FollowStored, Uploaded
  <2>3. /\ chat'.unread = chat.unread /\ chat'.refused = chat.refused
        /\ chat'.silent = chat.silent
    <3>1. CASE SendStored(c)
      BY <1>1, <3>1 DEF SendStored, ChatFields
    <3>2. CASE ReactStored(c)
      BY <1>1, <3>2 DEF ReactStored, ChatFields
    <3>3. CASE DeleteStored(c)
      BY <1>1, <3>3 DEF DeleteStored, ChatFields
    <3>4. CASE FollowStored(c) \/ Uploaded(c)
      BY <1>1, <3>4 DEF FollowStored, Uploaded, ChatFields
    <3>5. QED
      BY <1>8, <3>1, <3>2, <3>3, <3>4 DEF ServeCall, ReadStored
  <2>4. QED
    BY <1>6, <1>8, <2>1, <2>2, <2>3
<1>9. ASSUME NEW c \in calls, ServeCall(c), c.op = "read"
      PROVE  ReadInv'
  <2> DEFINE now == [c EXCEPT !.state = "ok"]
  <2>1. /\ chat' = [chat EXCEPT !.unread[c.peer] = {}] /\ calls' = (calls \ {c}) \cup {now}
        /\ events' = events
    BY <1>9 DEF ServeCall, SendStored, ReadStored, ReactStored, DeleteStored, FollowStored,
       Uploaded, Done
  <2>2. now.op = "read" /\ now.state = "ok" /\ c.peer \in Peers
    BY <1>1, <1>9 DEF CallOK, CallFields
  <2> HIDE DEF now
  <2>3. /\ chat'.refused = chat.refused /\ chat'.silent = chat.silent
        /\ chat'.unread = [chat.unread EXCEPT ![c.peer] = {}]
    BY <1>1, <2>1 DEF ChatFields
  <2>4. RecountDue'
    BY <2>1, <2>2 DEF RecountDue
  <2>5. ReceiptsArrive => ReceiptsArrive'
    BY <2>1, <2>2 DEF ReceiptsArrive
  <2>6. ReceiptDue => ReceiptDue'
    <3>1. CASE c.peer = thread.peer
      <4>1. chat'.unread[thread'.peer] = {}
        BY <1>1, <1>2, <2>3, <3>1
      <4>2. QED
        BY <4>1 DEF ReceiptDue
    <3>2. CASE c.peer # thread.peer
      <4>1. chat'.unread[thread.peer] = chat.unread[thread.peer]
        BY <1>1, <2>3, <3>2
      <4>2. Coming(thread.peer) => Coming(thread.peer)'
        BY <1>2, <2>1 DEF Coming
      <4>3. QED
        BY <1>2, <2>1, <3>2, <4>1, <4>2 DEF ReceiptDue
    <3>3. QED
      BY <3>1, <3>2
  <2>7. QED
    BY <2>3, <2>4, <2>5, <2>6 DEF ReadInv
<1>10. ASSUME NEW p \in Peers, FollowsBack(p)
       PROVE  ReadInv'
  <2>1. /\ chat'.unread = chat.unread /\ chat'.refused = chat.refused
        /\ chat'.silent = chat.silent /\ events' = events /\ calls' = calls
    BY <1>1, <1>10 DEF FollowsBack, ChatFields
  <2>2. QED
    BY <1>2, <2>1, ReadKept, SameEvents DEF ReceiptsStay
<1>11. ASSUME NEW p \in Peers, ReceiveMuted(p) \/ ReceiveCutOff(p)
       PROVE  ReadInv'
  <2> DEFINE id == Made + 1
  <2>1. /\ chat' = Received(p, chat.silent[p] \cup {id}) /\ events' = events /\ calls' = calls
    BY <1>11 DEF ReceiveMuted, ReceiveCutOff
  <2>2. /\ chat'.refused = chat.refused
        /\ chat'.silent = [chat.silent EXCEPT ![p] = chat.silent[p] \cup {id}]
        /\ chat'.unread = [chat.unread EXCEPT ![p] = @ \cup {id}]
    BY <1>1, <2>1, ReceivedIs DEF ChatInv, ChatTyped
  <2> HIDE DEF id
  <2>3. chat.silent = [q \in Peers |-> chat.silent[q]]
    BY DEF ChatInv, ChatTyped, BoxesOK
  <2>4. \A q \in Peers :
           /\ chat'.silent[q] = IF q = p THEN chat.silent[q] \cup {id} ELSE chat.silent[q]
           /\ chat'.unread[q] = IF q = p THEN chat.unread[q] \cup {id} ELSE chat.unread[q]
    BY <1>1, <2>2, <2>3
  <2>5. ReceiptDue => ReceiptDue'
    BY <1>1, <1>2, <2>1, <2>4 DEF ReceiptDue, Coming
  <2>6. RecountDue => RecountDue'
    BY <2>1 DEF RecountDue, Coming
  <2>7. ASSUME NEW n, IsCount(n)
        PROVE  IsCount(n)'
    <3> DEFINE All == UNION {chat.silent[q] : q \in Peers}
    <3>1. PICK missed \in SUBSET All : n = Cardinality(AllUnread \ missed)
      BY <2>7 DEF IsCount
    <3>2. AllUnread' = AllUnread \cup {id}
      <4>1. \A x : x \in AllUnread' <=> \E q \in Peers : x \in chat'.unread[q]
        BY DEF AllUnread
      <4>2. \A x : x \in AllUnread <=> \E q \in Peers : x \in chat.unread[q]
        BY DEF AllUnread
      <4>3. \A x : x \in AllUnread' <=> x \in AllUnread \/ x = id
        BY <2>4, <4>1, <4>2
      <4>4. QED
        BY <4>3
    <3>3. All' = All \cup {id}
      <4>1. \A x : x \in All' <=> \E q \in Peers : x \in chat'.silent[q]
        OBVIOUS
      <4>2. \A x : x \in All <=> \E q \in Peers : x \in chat.silent[q]
        OBVIOUS
      <4> HIDE DEF All
      <4>3. \A x : x \in All' <=> x \in All \/ x = id
        BY <2>4, <4>1, <4>2
      <4>4. QED
        BY <4>3
    <3>4. PICK more \in SUBSET All' : AllUnread' \ more = AllUnread \ missed
      <4>1. CASE id \in AllUnread
        <5>1. missed \in SUBSET All' /\ AllUnread' \ missed = AllUnread \ missed
          BY <3>1, <3>2, <3>3, <4>1
        <5>2. QED
          BY <5>1
      <4>2. CASE id \notin AllUnread
        <5> DEFINE more == missed \cup {id}
        <5>1. more \in SUBSET All' /\ AllUnread' \ more = AllUnread \ missed
          BY <3>1, <3>2, <3>3, <4>2
        <5>2. QED
          BY <5>1
      <4>3. QED
        BY <4>1, <4>2
    <3>5. QED
      BY <3>1, <3>4 DEF IsCount
  <2>8. Counted => Counted'
    BY <1>2, <2>7 DEF Counted
  <2>9. ReceiptsArrive => ReceiptsArrive'
    BY <2>1 DEF ReceiptsArrive
  <2>10. QED
    BY <2>2, <2>5, <2>6, <2>8, <2>9 DEF ReadInv
<1>12. QED
  BY <1>3, <1>4, <1>5, <1>7, <1>8, <1>9, <1>10, <1>11

LEMMA ReadStep == ChatInv /\ ReadInv /\ [ChatNext]_chatVars => ReadInv'
<1> SUFFICES ASSUME ChatInv, ReadInv, [ChatNext]_chatVars
             PROVE  ReadInv'
  OBVIOUS
<1>1. CASE UNCHANGED chatVars
  BY <1>1, ReadKept, SameEvents DEF chatVars, ReceiptsStay
<1>2. CASE \/ \E p \in Peers : \/ OpenThread(p) \/ PeerTypes(p) \/ Receive(p) \/ ReceiveMuted(p)
                                \/ ReceiveCutOff(p) \/ FollowsBack(p) \/ Transcoded(p)
           \/ DmEvent \/ OnTyping
  BY <1>2, ReadByEvents, ReadByServer
<1>3. CASE BadgeLands \/ ServeBadge \/ ServeThread
  BY <1>3, ReadByBadge
<1>4. CASE \/ Type \/ OnPickFile \/ DropMedia \/ Send \/ OpenReact \/ ToggleSelecting
           \/ ToggleMsgSel \/ DoFollow \/ Play \/ TypingClears \/ ToggleReact \/ DeleteMsg
           \/ BulkDeleteMsgs \/ Refresh \/ Poll \/ ThreadLands
  BY <1>4, ReadByClicks
<1>5. ASSUME NEW c \in calls,
             \/ Upload(c) \/ Sent(c) \/ Undone(c) \/ Followed(c) \/ MarkedRead(c)
             \/ ServeCall(c) \/ RefuseCall(c) \/ SendRefused(c)
      PROVE  ReadInv'
  BY <1>5, ReadByAnswers, ReadByServer
<1>6. QED
  BY <1>1, <1>2, <1>3, <1>4, <1>5 DEF ChatNext

LEMMA ReadStarts == ChatInit => ReadInv
<1> SUFFICES ASSUME NEW p \in Peers, NEW muted \in SUBSET Mutable, OpenedChat(p, muted)
             PROVE  ReadInv
  BY DEF ChatInit
<1>1. /\ chat.unread = [q \in Peers |-> {}] /\ thread.peer = p /\ calls = {}
      /\ badge = Mutate(Unresolved, 0)
  BY DEF OpenedChat, Opened
<1>2. IsCount(0)
  <2>1. UNION {chat.unread[q] : q \in Peers} = {}
    BY <1>1
  <2>2. AllUnread \ {} = {}
    BY <2>1 DEF AllUnread
  <2>3. QED
    BY <2>2, FS_EmptySet DEF IsCount
<1>3. badge.request = Quiet /\ badge.value = <<0>>
  BY <1>1 DEF Mutate, Unresolved
<1>4. QED
  BY <1>1, <1>2, <1>3 DEF ReadInv, ReceiptDue, Counted, ReceiptsArrive

LEMMA ReadMeansCounted == ReadInv => ReadAndCounted
<1> SUFFICES ASSUME ReadInv, events = <<>>, calls = {}, ~Loading(badge), ~chat.refused
             PROVE  /\ chat.unread[thread.peer] \subseteq chat.silent[thread.peer]
                    /\ \E n : badge.value = <<n>> /\ IsCount(n)
  BY DEF ReadAndCounted, IsCount
<1>1. \A p : ~Coming(p)
  BY NothingComing
<1>2. badge.request = Quiet
  BY DEF Loading
<1>3. QED
  BY <1>1, <1>2, QuietIs DEF ReadInv, ReceiptDue, RecountDue, Counted

\* Once all is through and nothing failed, what the open conversation was told of is read and the
\* badge counts all that is unread but messages no event told of, for any conversations and any
\* order of events, receipts and answers: what is unread has an event or a receipt to come, and a
\* count that is too old one that will have it made again.
\* [DMThread 205-208, 238; Layout 159-160; auth.ts 70-80; dm.rs 440-486]
THEOREM AlwaysReadAndCounted == ChatSpec => []ReadAndCounted
<1>1. ChatInv /\ ReadInv /\ [ChatNext]_chatVars => (ChatInv /\ ReadInv)'
  BY ChatStep, ReadStep
<1>2. QED
  BY <1>1, ChatStarts, ReadStarts, ReadMeansCounted, PTL DEF ChatSpec
=============================================================================
