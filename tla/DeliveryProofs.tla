--------------------------- MODULE DeliveryProofs ---------------------------
(***************************************************************************)
(* Proofs about the deliveries of notifications, for any number of hooks,  *)
(* permits, streams and events.  A webhook is switched off for as many     *)
(* failures as the limit says, of which at most as many as there are       *)
(* permits are of calls begun before its owner switched it on; and an      *)
(* event sent to an account with an open stream is not lost.               *)
(***************************************************************************)
EXTENDS Webhooks, NotificationHub, FiniteSetTheorems, SequenceTheorems, TLAPS

(* The calls to a hook that were begun before it was switched on. *)
Stale(h) == {d \in Deliveries : deliveries[d].hook = h /\ deliveries[d].stale}

HookInv(h) ==
    /\ hooks[h].active \/ hooks[h].there => hooks[h].used
    /\ hooks[h].active => hooks[h].streak < StreakLimit
    /\ hooks[h].streak + Cardinality(Stale(h)) <= failedCalls[h] + Cardinality(Deliveries)

HooksInv == HooksTypeOK /\ \A h \in Hooks : HookInv(h)

-----------------------------------------------------------------------------
(* There are at most as many stale calls as permits, and fewer once one of them ends. *)
LEMMA StaleBounded ==
    ASSUME NEW S, S \subseteq Deliveries
    PROVE  /\ Cardinality(S) \in Nat /\ Cardinality(Deliveries) \in Nat
           /\ Cardinality(S) <= Cardinality(Deliveries)
           /\ \A d \in S : Cardinality(S \ {d}) = Cardinality(S) - 1
           /\ \A T \in SUBSET S : Cardinality(T) \in Nat /\ Cardinality(T) <= Cardinality(S)
<1>1. IsFiniteSet(Deliveries)
  BY WebhooksAssumption
<1>2. IsFiniteSet(S)
  BY <1>1, FS_Subset
<1>3. Cardinality(S) \in Nat /\ Cardinality(Deliveries) \in Nat
  BY <1>1, <1>2, FS_CardinalityType
<1>4. Cardinality(S) <= Cardinality(Deliveries)
  BY <1>1, FS_Subset
<1>5. \A d \in S : Cardinality(S \ {d}) = Cardinality(S) - 1
  BY <1>2, FS_RemoveElement
<1>6. \A T \in SUBSET S : Cardinality(T) \in Nat /\ Cardinality(T) <= Cardinality(S)
  BY <1>2, FS_Subset, FS_CardinalityType
<1>7. QED
  BY <1>3, <1>4, <1>5, <1>6

LEMMA HooksInitially == HooksInit => HooksInv
<1> SUFFICES ASSUME HooksInit PROVE HooksInv
  OBVIOUS
<1>1. HooksTypeOK
  BY DEF HooksInit, HooksTypeOK, HookRow, NoHookRow, HookCall, NoHookCall
<1>2. ASSUME NEW h \in Hooks PROVE HookInv(h)
  <2>1. Stale(h) \subseteq Deliveries
    BY DEF Stale
  <2>2. hooks[h] = NoHookRow /\ failedCalls[h] = 0
    BY DEF HooksInit
  <2>3. QED
    BY <2>1, <2>2, StaleBounded DEF HookInv, NoHookRow
<1>3. QED
  BY <1>1, <1>2 DEF HooksInv

(* A step that leaves a hook's row and count alone, and adds no stale call to it. *)
LEMMA HookUntouched ==
    ASSUME HooksInv, NEW h \in Hooks, hooks'[h] = hooks[h], failedCalls'[h] = failedCalls[h],
           Stale(h)' \subseteq Stale(h)
    PROVE  HookInv(h)'
<1>1. Stale(h) \subseteq Deliveries
  BY DEF Stale
<1>2. Cardinality(Stale(h)') <= Cardinality(Stale(h))
  BY <1>1, StaleBounded
<1>3. Cardinality(Stale(h)') \in Nat /\ Cardinality(Stale(h)) \in Nat
      /\ Cardinality(Deliveries) \in Nat
  BY <1>1, StaleBounded
<1>4. hooks[h].streak \in Nat /\ failedCalls[h] \in Nat
  BY DEF HooksInv, HooksTypeOK, HookRow
<1>5. QED
  BY <1>2, <1>3, <1>4 DEF HooksInv, HookInv

(* A step after which a hook has no failures to its name. *)
LEMMA HookCleared ==
    ASSUME NEW h \in Hooks, hooks'[h].streak = 0, hooks'[h].used,
           failedCalls'[h] \in Nat
    PROVE  HookInv(h)'
<1>1. Stale(h)' \subseteq Deliveries
  BY DEF Stale
<1>2. QED
  BY <1>1, StaleBounded, WebhooksAssumption DEF HookInv

(* What the UPDATE of a delivery makes of a row. *)
LEMMA RecordedRow ==
    ASSUME NEW row \in HookRow, NEW ok \in BOOLEAN
    PROVE  /\ Recorded(row, ok) \in HookRow
           /\ Recorded(row, ok).streak = IF ok THEN 0 ELSE row.streak + 1
           /\ Recorded(row, ok).active = (row.active /\ (ok \/ row.streak + 1 < StreakLimit))
           /\ Recorded(row, ok).used = row.used /\ Recorded(row, ok).there = row.there
<1>1. row = [there |-> row.there, used |-> row.used, active |-> row.active,
             streak |-> row.streak]
      /\ row.there \in BOOLEAN /\ row.used \in BOOLEAN /\ row.active \in BOOLEAN
      /\ row.streak \in Nat
  BY DEF HookRow
<1>2. DEFINE on == row.active /\ (ok \/ row.streak + 1 < StreakLimit)
             streak == IF ok THEN 0 ELSE row.streak + 1
<1>3. on \in BOOLEAN /\ streak \in Nat
  BY <1>1
<1>e. Recorded(row, ok) = [row EXCEPT !.streak = streak, !.active = on]
  BY Zenon DEF Recorded
<1> HIDE DEF on, streak
<1>4. Recorded(row, ok) = [there |-> row.there, used |-> row.used, active |-> on,
                          streak |-> streak]
  BY <1>1, <1>e
<1>5. Recorded(row, ok) \in HookRow /\ Recorded(row, ok).streak = streak
      /\ Recorded(row, ok).active = on /\ Recorded(row, ok).used = row.used
      /\ Recorded(row, ok).there = row.there
  BY <1>1, <1>3, <1>4 DEF HookRow
<1>6. QED
  BY <1>5, Zenon DEF on, streak

(* The orders in which a fan-out may find the rows are sequences of hooks. *)
LEMMA Permuted ==
    ASSUME NEW order \in SetToAllKPermutations(Hooks)
    PROVE  order \in Seq(Hooks)
<1>1. PICK S \in SUBSET Hooks : order \in SetToSeqs(S)
  BY DEF SetToAllKPermutations
<1>2. order \in [1..Cardinality(S) -> Hooks]
  BY <1>1 DEF SetToSeqs
<1>3. Cardinality(S) \in Nat
  BY WebhooksAssumption, FS_Subset, FS_CardinalityType
<1>4. QED
  BY <1>2, <1>3

LEMMA HooksTyped == HooksTypeOK /\ [HooksNext]_hookVars => HooksTypeOK'
<1> SUFFICES ASSUME HooksTypeOK, [HooksNext]_hookVars PROVE HooksTypeOK'
  OBVIOUS
<1> USE DEF HooksTypeOK
<1>1. CASE CountHooks
  BY <1>1 DEF CountHooks, HookEvent
<1>2. ASSUME NEW h \in Hooks, NEW active \in BOOLEAN, InsertHook(h, active) PROVE HooksTypeOK'
  <2>1. [there |-> TRUE, used |-> TRUE, active |-> active, streak |-> 0] \in HookRow
    BY DEF HookRow
  <2>2. QED
    BY <1>2, <2>1 DEF InsertHook
<1>3. ASSUME NEW h \in Hooks, NEW active \in BOOLEAN, UpdateHook(h, active) PROVE HooksTypeOK'
  <2>1. Updated(hooks[h], active) \in HookRow
    BY DEF Updated, HookRow
  <2>2. hooks' \in [Hooks -> HookRow] /\ failedCalls' \in [Hooks -> Nat]
    BY <1>3, <2>1 DEF UpdateHook
  <2>3. deliveries' \in [Deliveries -> HookCall]
    BY <1>3 DEF UpdateHook, HookCall
  <2>4. QED
    BY <1>3, <2>2, <2>3 DEF UpdateHook, HookEvent
<1>4. ASSUME NEW h \in Hooks, RemoveHook(h) PROVE HooksTypeOK'
  <2>1. [hooks[h] EXCEPT !.there = FALSE, !.active = FALSE] \in HookRow
    BY DEF HookRow
  <2>2. hooks' \in [Hooks -> HookRow]
    BY <1>4, <2>1 DEF RemoveHook
  <2>3. QED
    BY <1>4, <2>2 DEF RemoveHook, HookEvent
<1>5. ASSUME NEW h \in Hooks, TestHook(h) PROVE HooksTypeOK'
  BY <1>5 DEF TestHook, HookEvent
<1>6. ASSUME NEW order \in SetToAllKPermutations(Hooks), DispatchEvent(order) PROVE HooksTypeOK'
  <2>1. order \in Seq(Hooks)
    BY Permuted
  <2>2. DEFINE room == IF Len(order) < HookRoom THEN Len(order) ELSE HookRoom
  <2>3. Len(order) \in Nat /\ HookRoom \in Int /\ room \in Int /\ room <= Len(order)
    BY <2>1, LenProperties, WebhooksAssumption DEF HookRoom
  <2>4. \A i \in 1..room : order[i] \in Hooks
    BY <2>1, <2>3, LenProperties, ElementOfSeq
  <2> HIDE DEF room
  <2>5. SubSeq(order, 1, room) \in Seq(Hooks)
    BY <2>3, <2>4, SubSeqProperties
  <2>6. hookJobs' \in Seq(Hooks)
    BY <1>6, <2>5, ConcatProperties DEF DispatchEvent, room
  <2>7. QED
    BY <1>6, <2>6 DEF DispatchEvent, HookEvent
<1>7. ASSUME NEW d \in Deliveries, SpawnDelivery(d) PROVE HooksTypeOK'
  BY <1>7 DEF SpawnDelivery, HookCall
<1>8. ASSUME NEW d \in Deliveries, NEW ok \in BOOLEAN, DeliverCall(d, ok) PROVE HooksTypeOK'
  <2>a. deliveries[d].hook \in Hooks
    BY <1>8 DEF DeliverCall, HookCall
  <2>b. Recorded(hooks[deliveries[d].hook], ok) \in HookRow
    BY <2>a, RecordedRow
  <2>1. hooks' \in [Hooks -> HookRow]
    BY <1>8, <2>a, <2>b DEF DeliverCall
  <2>2. failedCalls' \in [Hooks -> Nat]
    BY <1>8, <2>a DEF DeliverCall
  <2>3. deliveries' \in [Deliveries -> HookCall]
    BY <1>8 DEF DeliverCall, HookCall, NoHookCall
  <2>4. QED
    BY <1>8, <2>1, <2>2, <2>3 DEF DeliverCall
<1>9. CASE RestartDispatcher
  BY <1>9 DEF RestartDispatcher, HookCall, NoHookCall
<1>10. CASE UNCHANGED hookVars
  BY <1>10 DEF hookVars
<1>11. QED
  BY <1>1, <1>2, <1>3, <1>4, <1>5, <1>6, <1>7, <1>8, <1>9, <1>10 DEF HooksNext

(* Every step keeps the count of failures of each hook. *)
LEMMA HooksStep == HooksInv /\ [HooksNext]_hookVars => HooksInv'
<1> SUFFICES ASSUME HooksInv, [HooksNext]_hookVars PROVE HooksInv'
  OBVIOUS
<1>t. HooksTypeOK /\ HooksTypeOK'
  BY HooksTyped DEF HooksInv
<1> SUFFICES ASSUME NEW g \in Hooks PROVE HookInv(g)'
  BY <1>t DEF HooksInv
<1>0. /\ hooks[g] \in HookRow /\ hooks'[g] \in HookRow
      /\ failedCalls[g] \in Nat /\ failedCalls'[g] \in Nat
      /\ hooks[g].streak \in Nat /\ hooks'[g].streak \in Nat
  BY <1>t DEF HooksTypeOK, HookRow
<1>s. /\ Cardinality(Stale(g)) \in Nat /\ Cardinality(Deliveries) \in Nat
      /\ Cardinality(Stale(g)) <= Cardinality(Deliveries)
      /\ \A d \in Stale(g) : Cardinality(Stale(g) \ {d}) = Cardinality(Stale(g)) - 1
  <2>1. Stale(g) \subseteq Deliveries
    BY DEF Stale
  <2>2. QED
    BY <2>1, StaleBounded
<1>i. HookInv(g)
  BY DEF HooksInv
(* Most steps leave the row, the count and the calls alone. *)
<1>u. ASSUME UNCHANGED <<hooks, failedCalls, deliveries>> PROVE HookInv(g)'
  <2>1. Stale(g)' \subseteq Stale(g)
    BY <1>u DEF Stale
  <2>2. QED
    BY <1>u, <2>1, HookUntouched
<1>1. CASE CountHooks
  BY <1>1, <1>u DEF CountHooks
<1>2. ASSUME NEW h \in Hooks, NEW active \in BOOLEAN, InsertHook(h, active) PROVE HookInv(g)'
  <2>1. CASE g = h
    <3>1. hooks'[g] = [there |-> TRUE, used |-> TRUE, active |-> active, streak |-> 0]
      BY <1>2, <1>t, <2>1 DEF InsertHook, HooksTypeOK
    <3>2. QED
      BY <3>1, <1>0, HookCleared
  <2>2. CASE g # h
    <3>1. hooks'[g] = hooks[g] /\ failedCalls'[g] = failedCalls[g]
      BY <1>2, <1>t, <2>2 DEF InsertHook, HooksTypeOK
    <3>2. Stale(g)' \subseteq Stale(g)
      BY <1>2 DEF InsertHook, Stale
    <3>3. QED
      BY <3>1, <3>2, HookUntouched
  <2>3. QED
    BY <2>1, <2>2
<1>3. ASSUME NEW h \in Hooks, NEW active \in BOOLEAN, UpdateHook(h, active) PROVE HookInv(g)'
  <2>0. hooks' = [hooks EXCEPT ![h] = Updated(@, active)] /\ hooks[h].there
    BY <1>3 DEF UpdateHook
  <2>1. CASE g = h /\ active
    <3>1. hooks'[g] = Updated(hooks[g], active)
      BY <2>0, <2>1, <1>t DEF HooksTypeOK
    <3>2. hooks'[g].streak = 0
      BY <3>1, <2>1, <1>0 DEF Updated, HookRow
    <3>3. hooks'[g].used = hooks[g].used
      BY <3>1, <1>0 DEF Updated, HookRow
    <3>4. hooks[g].used
      BY <2>0, <2>1 DEF HooksInv, HookInv
    <3>5. QED
      BY <3>2, <3>3, <3>4, <1>0, HookCleared
  <2>2. CASE g = h /\ ~active
    <3>1. hooks'[g] = Updated(hooks[g], active)
      BY <2>0, <2>2, <1>t DEF HooksTypeOK
    <3>2. /\ hooks'[g].streak = hooks[g].streak /\ ~hooks'[g].active
          /\ hooks'[g].used = hooks[g].used
      BY <3>1, <2>2, <1>0 DEF Updated, HookRow
    <3>3. failedCalls' = failedCalls /\ Stale(g)' = Stale(g)
      BY <1>3, <1>t, <2>2 DEF UpdateHook, Stale, HooksTypeOK
    <3>4. hooks[g].used
      BY <2>0, <2>2, <1>i DEF HookInv
    <3>5. QED
      BY <3>2, <3>3, <3>4, <1>i DEF HookInv
  <2>3. CASE g # h
    <3>1. hooks'[g] = hooks[g]
      BY <2>0, <2>3, <1>t DEF HooksTypeOK
    <3>2. failedCalls'[g] = failedCalls[g]
      BY <1>3, <2>3, <1>t DEF UpdateHook, HooksTypeOK
    <3>3. \A d \in Deliveries : deliveries[d].hook # h => deliveries'[d] = deliveries[d]
      BY <1>3 DEF UpdateHook
    <3>4. \A d \in Deliveries : deliveries'[d].hook = deliveries[d].hook
      BY <1>3, <1>t DEF UpdateHook, HooksTypeOK, HookCall
    <3>5. Stale(g)' \subseteq Stale(g)
      BY <3>3, <3>4, <2>3 DEF Stale
    <3>6. QED
      BY <3>1, <3>2, <3>5, HookUntouched
  <2>4. QED
    BY <2>1, <2>2, <2>3
<1>4. ASSUME NEW h \in Hooks, RemoveHook(h) PROVE HookInv(g)'
  <2>r. ASSUME NEW row \in HookRow
        PROVE  LET gone == [row EXCEPT !.there = FALSE, !.active = FALSE]
               IN  gone.streak = row.streak /\ gone.used = row.used /\ ~gone.active
    BY DEF HookRow
  <2>0. hooks'[g] = IF g = h THEN [hooks[g] EXCEPT !.there = FALSE, !.active = FALSE]
                    ELSE hooks[g]
    BY <1>4, <1>t DEF RemoveHook, HooksTypeOK
  <2>1. /\ hooks'[g].streak = hooks[g].streak /\ hooks'[g].used = hooks[g].used
        /\ hooks'[g] = hooks[g] \/ ~hooks'[g].active
    BY <1>0, <2>0, <2>r
  <2>2. failedCalls' = failedCalls /\ Stale(g)' = Stale(g)
    BY <1>4 DEF RemoveHook, Stale
  <2>3. hooks[h].there
    BY <1>4 DEF RemoveHook
  <2>4. hooks[g].used \/ hooks'[g] = hooks[g]
    BY <2>0, <2>3, <1>i DEF HookInv
  <2>5. QED
    BY <2>1, <2>2, <2>4, <1>i DEF HookInv
<1>5. ASSUME NEW h \in Hooks, TestHook(h) PROVE HookInv(g)'
  BY <1>5, <1>u DEF TestHook
<1>6. ASSUME NEW order \in SetToAllKPermutations(Hooks), DispatchEvent(order) PROVE HookInv(g)'
  BY <1>6, <1>u DEF DispatchEvent
<1>7. ASSUME NEW d \in Deliveries, SpawnDelivery(d) PROVE HookInv(g)'
  <2>1. Stale(g)' \subseteq Stale(g)
    BY <1>7, <1>t DEF SpawnDelivery, Stale, HooksTypeOK
  <2>2. QED
    BY <1>7, <2>1, HookUntouched DEF SpawnDelivery
<1>8. ASSUME NEW d \in Deliveries, NEW ok \in BOOLEAN, DeliverCall(d, ok) PROVE HookInv(g)'
  <2>0. deliveries' = [deliveries EXCEPT ![d] = NoHookCall] /\ deliveries[d].hook \in Hooks
    BY <1>8, <1>t DEF DeliverCall, HooksTypeOK, HookCall
  <2>1. Stale(g)' = Stale(g) \ {d}
    <3>1. \A e \in Deliveries : deliveries'[e] = IF e = d THEN NoHookCall ELSE deliveries[e]
      BY <2>0, <1>t DEF HooksTypeOK
    <3>2. ~NoHookCall.stale
      BY DEF NoHookCall
    <3>3. QED
      BY <3>1, <3>2 DEF Stale
  <2>2. CASE hooks'[g] = hooks[g] /\ failedCalls'[g] = failedCalls[g]
    BY <2>1, <2>2, HookUntouched
  <2>3. CASE /\ g = deliveries[d].hook /\ hooks[g].there
             /\ hooks'[g] = Recorded(hooks[g], ok)
             /\ failedCalls'[g] = IF ok THEN 0 ELSE IF deliveries[d].stale THEN failedCalls[g]
                                                    ELSE failedCalls[g] + 1
    <3>0. /\ hooks'[g].streak = IF ok THEN 0 ELSE hooks[g].streak + 1
          /\ hooks'[g].active = (hooks[g].active /\ (ok \/ hooks[g].streak + 1 < StreakLimit))
          /\ hooks'[g].used = hooks[g].used
      BY <1>0, <2>3, RecordedRow
    <3>1. hooks'[g].active => hooks[g].active /\ (ok \/ hooks[g].streak + 1 < StreakLimit)
      BY <3>0, Zenon
    <3>2. hooks'[g].used
      BY <3>0, <2>3, <1>i DEF HookInv
    <3>3. CASE ok
      BY <3>0, <3>2, <3>3, <1>0, HookCleared
    <3>4. CASE ~ok
      <4>1. hooks'[g].streak = hooks[g].streak + 1
        BY <3>0, <3>4
      <4>2. hooks'[g].active => hooks'[g].streak < StreakLimit
        BY <3>1, <3>4, <4>1
      <4>3. CASE deliveries[d].stale
        <5>1. d \in Stale(g)
          BY <2>3, <4>3 DEF Stale
        <5>2. Cardinality(Stale(g)') = Cardinality(Stale(g)) - 1
          BY <5>1, <2>1, <1>s
        <5>3. failedCalls'[g] = failedCalls[g]
          BY <2>3, <3>4, <4>3
        <5>4. QED
          BY <5>2, <5>3, <4>1, <4>2, <3>2, <1>s, <1>0, <1>i DEF HookInv
      <4>4. CASE ~deliveries[d].stale
        <5>1. Stale(g)' = Stale(g)
          BY <2>1, <4>4 DEF Stale
        <5>2. failedCalls'[g] = failedCalls[g] + 1
          BY <2>3, <3>4, <4>4
        <5>3. QED
          BY <5>1, <5>2, <4>1, <4>2, <3>2, <1>s, <1>0, <1>i DEF HookInv
      <4>5. QED
        BY <4>3, <4>4
    <3>5. QED
      BY <3>3, <3>4
  <2>4. QED
    <3>1. CASE UNCHANGED <<hooks, failedCalls>>
      BY <3>1, <2>2
    <3>2. CASE g # deliveries[d].hook
      BY <1>8, <1>t, <2>0, <2>2, <3>2 DEF DeliverCall, HooksTypeOK
    <3>3. CASE /\ g = deliveries[d].hook /\ hooks[g].there
               /\ hooks' = [hooks EXCEPT ![deliveries[d].hook] = Recorded(@, ok)]
               /\ failedCalls' = [failedCalls EXCEPT ![deliveries[d].hook] =
                     IF ok THEN 0 ELSE IF deliveries[d].stale THEN @ ELSE @ + 1]
      <4>1. hooks'[g] = Recorded(hooks[g], ok)
        BY <3>3, <1>t DEF HooksTypeOK
      <4>2. failedCalls'[g] = IF ok THEN 0 ELSE IF deliveries[d].stale THEN failedCalls[g]
                                                ELSE failedCalls[g] + 1
        BY <3>3, <1>t DEF HooksTypeOK
      <4>3. QED
        BY <4>1, <4>2, <3>3, <2>3
    <3>4. QED
      BY <3>1, <3>2, <3>3, <1>8 DEF DeliverCall
<1>9. CASE RestartDispatcher
  <2>1. Stale(g)' \subseteq Stale(g)
    BY <1>9 DEF RestartDispatcher, Stale, NoHookCall
  <2>2. QED
    BY <1>9, <2>1, HookUntouched DEF RestartDispatcher
<1>10. CASE UNCHANGED hookVars
  BY <1>10, <1>u DEF hookVars
<1>11. QED
  BY <1>1, <1>2, <1>3, <1>4, <1>5, <1>6, <1>7, <1>8, <1>9, <1>10 DEF HooksNext

(* HooksTypeOK and the count of HooksInv hold of every reachable state. *)
LEMMA HooksInvariant == HooksInit /\ [][HooksNext]_hookVars => []HooksInv
<1>1. HooksInit => HooksInv
  BY HooksInitially
<1>2. HooksInv /\ [HooksNext]_hookVars => HooksInv'
  BY HooksStep
<1>3. QED
  BY <1>1, <1>2, PTL

(* A hook goes from on to off, with another streak, only by a delivery that failed. *)
LEMMA SwitchedOff ==
    ASSUME HooksInv, [HooksNext]_hookVars, NEW g \in Hooks, hooks[g].active,
           ~hooks'[g].active, hooks'[g].streak # hooks[g].streak
    PROVE  hooks'[g].streak = StreakLimit
<1>t. HooksTypeOK /\ HookInv(g)
  BY DEF HooksInv
<1>0. hooks[g] \in HookRow /\ hooks[g].streak \in Nat
  BY <1>t DEF HooksTypeOK, HookRow
<1>1. ASSUME NEW h \in Hooks, NEW active \in BOOLEAN, InsertHook(h, active) PROVE FALSE
  <2>1. hooks[g].used
    BY <1>t DEF HookInv
  <2>2. QED
    BY <1>1, <1>t, <2>1 DEF InsertHook, HooksTypeOK
<1>2. ASSUME NEW h \in Hooks, NEW active \in BOOLEAN, UpdateHook(h, active) PROVE FALSE
  <2>1. hooks'[g] = hooks[g] \/ hooks'[g] = Updated(hooks[g], active)
    BY <1>2, <1>t DEF UpdateHook, HooksTypeOK
  <2>2. Updated(hooks[g], active).active = active
        /\ (~active => Updated(hooks[g], active).streak = hooks[g].streak)
    BY <1>0 DEF Updated, HookRow
  <2>3. QED
    BY <2>1, <2>2
<1>3. ASSUME NEW h \in Hooks, RemoveHook(h) PROVE FALSE
  <2>1. hooks'[g] = hooks[g] \/ hooks'[g] = [hooks[g] EXCEPT !.there = FALSE, !.active = FALSE]
    BY <1>3, <1>t DEF RemoveHook, HooksTypeOK
  <2>2. [hooks[g] EXCEPT !.there = FALSE, !.active = FALSE].streak = hooks[g].streak
    BY <1>0 DEF HookRow
  <2>3. QED
    BY <2>1, <2>2
<1>4. ASSUME NEW d \in Deliveries, NEW ok \in BOOLEAN, DeliverCall(d, ok)
      PROVE  hooks'[g].streak = StreakLimit
  <2>1. hooks'[g] = hooks[g] \/ hooks'[g] = Recorded(hooks[g], ok)
    BY <1>4, <1>t DEF DeliverCall, HooksTypeOK
  <2>2. /\ Recorded(hooks[g], ok).streak = IF ok THEN 0 ELSE hooks[g].streak + 1
        /\ Recorded(hooks[g], ok).active =
              (hooks[g].active /\ (ok \/ hooks[g].streak + 1 < StreakLimit))
    BY <1>0, RecordedRow
  <2>3. ~(ok \/ hooks[g].streak + 1 < StreakLimit)
    BY <2>1, <2>2, Zenon
  <2>4. hooks'[g].streak = hooks[g].streak + 1
    BY <2>1, <2>2, <2>3
  <2>5. hooks[g].streak < StreakLimit
    BY <1>t DEF HookInv
  <2>6. QED
    BY <2>3, <2>4, <2>5, <1>0, WebhooksAssumption
<1>5. hooks' # hooks
  OBVIOUS
<1>6. QED
  BY <1>1, <1>2, <1>3, <1>4, <1>5
  DEF HooksNext, hookVars, CountHooks, TestHook, DispatchEvent, SpawnDelivery, RestartDispatcher

(* The dispatcher switches a webhook off at the limit exactly, and then nearly all the failures
   that count are of calls begun since the owner switched it on (webhooks.rs:10, :387). *)
THEOREM HooksOffForCause == HooksSpec => DisabledForCause
<1> DEFINE ForCause == \A h \in Hooks :
          hooks[h].active /\ ~hooks'[h].active /\ hooks'[h].streak # hooks[h].streak =>
             /\ hooks'[h].streak = StreakLimit
             /\ failedCalls'[h] + Cardinality(Deliveries) >= StreakLimit
<1>1. HooksInv /\ [HooksNext]_hookVars => [ForCause]_hookVars
  <2> SUFFICES ASSUME HooksInv, [HooksNext]_hookVars, NEW h \in Hooks, hooks[h].active,
                      ~hooks'[h].active, hooks'[h].streak # hooks[h].streak
               PROVE  /\ hooks'[h].streak = StreakLimit
                      /\ failedCalls'[h] + Cardinality(Deliveries) >= StreakLimit
    OBVIOUS
  <2>1. hooks'[h].streak = StreakLimit
    BY SwitchedOff
  <2>2. HooksInv'
    BY HooksStep
  <2>3. hooks'[h].streak + Cardinality(Stale(h)') <= failedCalls'[h] + Cardinality(Deliveries)
    BY <2>2 DEF HooksInv, HookInv
  <2>4. Cardinality(Stale(h)') \in Nat /\ Cardinality(Deliveries) \in Nat
    <3>1. Stale(h)' \subseteq Deliveries
      BY DEF Stale
    <3>2. QED
      BY <3>1, StaleBounded
  <2>5. failedCalls'[h] \in Nat
    BY <2>2 DEF HooksInv, HooksTypeOK
  <2>6. QED
    BY <2>1, <2>3, <2>4, <2>5, WebhooksAssumption
<1>2. HooksSpec => []HooksInv
  BY HooksInvariant DEF HooksSpec
<1>3. QED
  BY <1>1, <1>2, PTL DEF HooksSpec, DisabledForCause

-----------------------------------------------------------------------------
(* The hub. *)

(* An open stream is on the channel its account's entry leads to. *)
StreamAt(s) ==
    IF streams[s].open
    THEN streams[s].chan # NoChan /\ entry[streams[s].user] = streams[s].chan
    ELSE due[s] = {}

OwnChannels ==
    \A u, v \in Listeners : entry[u] # NoChan /\ entry[u] = entry[v] => u = v

InRing(s, e) == \E i \in 1..Len(streams[s].ring) : streams[s].ring[i] = e

HubInv ==
    /\ HubTypeOK /\ OwnChannels
    /\ \A s \in Streams : StreamAt(s)
    /\ \A s \in Streams : \A e \in due[s] : InHands(s, e) \/ InRing(s, e)

(* The fields of a stream, one of which a step may replace. *)
LEMMA StreamFields ==
    ASSUME NEW st \in Stream, NEW r \in Seq(Nat), NEW new, new = [st EXCEPT !.ring = r]
    PROVE  /\ new \in Stream /\ new.ring = r
           /\ new.open = st.open /\ new.user = st.user /\ new.chan = st.chan
  BY DEF Stream

LEMMA ClosedStream == NoStream \in Stream /\ ~NoStream.open
<1>1. (CHOOSE u \in Listeners : TRUE) \in Listeners
  BY HubAssumption
<1>2. << >> \in Seq(Nat)
  BY EmptySeq
<1>3. QED
  BY <1>1, <1>2 DEF NoStream, Stream

LEMMA HubInitially == HubInit => HubInv
<1> SUFFICES ASSUME HubInit PROVE HubInv
  OBVIOUS
<1>1. HubTypeOK
  BY ClosedStream DEF HubInit, HubTypeOK, NoSender, Sender
<1>2. \A s \in Streams : ~streams[s].open /\ due[s] = {}
  BY ClosedStream DEF HubInit
<1>3. OwnChannels
  BY DEF HubInit, OwnChannels
<1>4. QED
  BY <1>1, <1>2, <1>3 DEF HubInv, StreamAt

(* Tidying the map spares the entries of open streams, and invents none. *)
LEMMA TidyKeeps ==
    ASSUME HubInv
    PROVE  /\ Retained \in [Listeners -> Chans \cup {NoChan}]
           /\ \A u \in Listeners : Retained[u] \in {entry[u], NoChan}
           /\ \A s \in Streams : streams[s].open =>
                 Retained[streams[s].user] = streams[s].chan /\ Strong(streams[s].chan)
<1>t. HubTypeOK /\ \A s \in Streams : StreamAt(s)
  BY DEF HubInv
<1>1. \A s \in Streams : streams[s].open =>
         /\ streams[s].user \in Listeners /\ streams[s].chan = entry[streams[s].user]
         /\ Strong(streams[s].chan)
  BY <1>t DEF StreamAt, Strong, HubTypeOK, Stream
<1>2. CASE Cardinality(MapEntries) >= RetainAt
  <2>1. Retained = [u \in Listeners |-> IF Strong(entry[u]) THEN entry[u] ELSE NoChan]
    BY <1>2 DEF Retained
  <2>2. QED
    BY <2>1, <1>1, <1>t DEF HubTypeOK
<1>3. CASE ~(Cardinality(MapEntries) >= RetainAt)
  <2>1. Retained = entry
    BY <1>3 DEF Retained
  <2>2. QED
    BY <2>1, <1>1, <1>t DEF HubTypeOK
<1>4. QED
  BY <1>2, <1>3

LEMMA SubscribeStep == ASSUME HubInv, NEW s \in Streams, NEW u \in Listeners, Subscribe(s, u)
                       PROVE  HubInv'
<1>t. HubTypeOK /\ OwnChannels /\ \A q \in Streams : StreamAt(q)
  BY DEF HubInv
<1>1. PICK c \in IF Strong(Retained[u]) THEN {Retained[u]} ELSE FreeChans :
         /\ entry' = [Retained EXCEPT ![u] = c]
         /\ streams' = [streams EXCEPT ![s] = [open |-> TRUE, user |-> u, chan |-> c,
                                               ring |-> <<>>]]
  BY DEF Subscribe
<1>2. c \in Chans /\ c # NoChan
  BY <1>1, TidyKeeps, HubAssumption DEF Strong, FreeChans
<1>3. entry' \in [Listeners -> Chans \cup {NoChan}]
  BY <1>1, <1>2, TidyKeeps
<1>4. [open |-> TRUE, user |-> u, chan |-> c, ring |-> <<>>] \in Stream
  <2>1. << >> \in Seq(Nat)
    BY EmptySeq
  <2>2. QED
    BY <1>2, <2>1 DEF Stream
<1>5. HubTypeOK'
  BY <1>1, <1>3, <1>4, <1>t DEF Subscribe, HubTypeOK
(* Nobody else's entry leads to the channel. *)
<1>6. \A v \in Listeners \ {u} : Retained[v] # c
  <2>1. CASE Strong(Retained[u])
    BY <1>1, <1>2, <1>t, <2>1, TidyKeeps DEF OwnChannels
  <2>2. CASE ~Strong(Retained[u])
    BY <1>1, <1>2, <2>2, TidyKeeps DEF FreeChans
  <2>3. QED
    BY <2>1, <2>2
<1>7. OwnChannels'
  BY <1>1, <1>6, <1>t, TidyKeeps DEF OwnChannels
<1>8. ASSUME NEW q \in Streams PROVE StreamAt(q)'
  <2>1. CASE q = s
    BY <1>1, <1>2, <1>t, <2>1, TidyKeeps DEF StreamAt, HubTypeOK
  <2>2. CASE q # s
    <3>1. streams'[q] = streams[q] /\ due'[q] = due[q]
      BY <1>1, <1>t, <2>2 DEF Subscribe, HubTypeOK
    <3>2. CASE ~streams[q].open
      BY <3>1, <3>2, <1>t DEF StreamAt
    <3>3. CASE streams[q].open
      <4>1. streams[q].user \in Listeners /\ Retained[streams[q].user] = streams[q].chan
            /\ Strong(streams[q].chan)
        BY <3>3, <1>t, TidyKeeps DEF HubTypeOK, Stream
      <4>2. entry'[streams[q].user] = streams[q].chan
        BY <1>1, <4>1, TidyKeeps
      <4>3. QED
        BY <3>1, <3>3, <4>2, <1>t DEF StreamAt
    <3>4. QED
      BY <3>2, <3>3
  <2>3. QED
    BY <2>1, <2>2
<1>9. ASSUME NEW q \in Streams, NEW e \in due'[q] PROVE InHands(q, e)' \/ InRing(q, e)'
  <2>1. q # s /\ streams'[q] = streams[q] /\ due'[q] = due[q] /\ senders' = senders
    BY <1>1, <1>9, <1>t DEF Subscribe, HubTypeOK
  <2>2. QED
    BY <2>1, <1>9 DEF HubInv, InHands, InRing
<1>10. QED
  BY <1>5, <1>7, <1>8, <1>9 DEF HubInv

LEMMA LookUpStep == ASSUME HubInv, NEW p \in Senders, NEW u \in Listeners, LookUp(p, u)
                    PROVE  HubInv'
<1>t. HubTypeOK /\ OwnChannels /\ \A q \in Streams : StreamAt(q)
  BY DEF HubInv
<1>1. /\ notices' = notices + 1 /\ notices' \in Nat /\ streams' = streams
      /\ senders[p].chan = NoChan
      /\ \A q \in Streams : due'[q] = IF streams[q].open /\ streams[q].user = u
                                      THEN due[q] \cup {notices'} ELSE due[q]
  BY <1>t DEF LookUp, HubTypeOK
<1>2. CASE Strong(entry[u])
  <2>1. entry' = entry
        /\ senders' = [senders EXCEPT ![p] = [chan |-> entry[u], event |-> notices']]
    BY <1>2 DEF LookUp
  <2>2. HubTypeOK'
    <3>1. senders' \in [Senders -> Sender]
      BY <2>1, <1>1, <1>t DEF HubTypeOK, Sender
    <3>2. due' \in [Streams -> SUBSET Nat]
      BY <1>1, <1>t DEF LookUp, HubTypeOK
    <3>3. QED
      BY <3>1, <3>2, <2>1, <1>1, <1>t DEF HubTypeOK
  <2>3. ASSUME NEW q \in Streams PROVE StreamAt(q)'
    BY <2>1, <1>1, <1>t DEF StreamAt
  <2>4. ASSUME NEW q \in Streams, NEW e \in due'[q] PROVE InHands(q, e)' \/ InRing(q, e)'
    <3>0. streams[q].open /\ streams[q].chan # NoChan
          /\ streams[q].chan = entry[streams[q].user]
      BY <2>4, <1>1, <1>t DEF StreamAt
    <3>1. CASE e \in due[q]
      <4>1. CASE InRing(q, e)
        BY <4>1, <1>1 DEF InRing
      <4>2. CASE InHands(q, e)
        <5>1. PICK r \in Senders : senders[r].chan = streams[q].chan /\ senders[r].event = e
          BY <4>2 DEF InHands
        <5>2. r # p
          BY <5>1, <3>0, <1>1
        <5>3. senders'[r] = senders[r]
          BY <5>2, <2>1, <1>t DEF HubTypeOK
        <5>4. QED
          BY <5>1, <5>3, <1>1 DEF InHands
      <4>3. QED
        BY <3>1, <4>1, <4>2 DEF HubInv
    <3>2. CASE e \notin due[q]
      <4>1. e = notices' /\ streams[q].user = u
        BY <3>2, <2>4, <1>1
      <4>2. senders'[p] = [chan |-> entry[u], event |-> notices']
        BY <2>1, <1>t DEF HubTypeOK
      <4>3. QED
        BY <4>1, <4>2, <3>0, <1>1 DEF InHands
    <3>3. QED
      BY <3>1, <3>2
  <2>5. OwnChannels'
    BY <2>1, <1>t DEF OwnChannels
  <2>6. QED
    BY <2>2, <2>3, <2>4, <2>5 DEF HubInv
<1>3. CASE ~Strong(entry[u])
  <2>1. entry' = [entry EXCEPT ![u] = NoChan] /\ senders' = senders
    BY <1>3 DEF LookUp
  (* An open stream of the account would hold the channel. *)
  <2>2. \A q \in Streams : streams[q].open => streams[q].user # u
    BY <1>3, <1>t DEF StreamAt, Strong
  <2>3. \A q \in Streams : due'[q] = due[q]
    BY <2>2, <1>1
  <2>4. due' \in [Streams -> SUBSET Nat]
    BY <1>1, <1>t DEF LookUp, HubTypeOK
  <2>5. HubTypeOK'
    BY <2>1, <2>4, <1>1, <1>t DEF HubTypeOK
  <2>6. ASSUME NEW q \in Streams PROVE StreamAt(q)'
    BY <2>1, <2>2, <2>3, <1>1, <1>t DEF StreamAt, HubTypeOK, Stream
  <2>7. OwnChannels'
    BY <2>1, <1>t DEF OwnChannels, HubTypeOK
  <2>8. \A q \in Streams : \A e \in due'[q] : InHands(q, e)' \/ InRing(q, e)'
    BY <2>1, <2>3, <1>1 DEF HubInv, InHands, InRing
  <2>9. QED
    BY <2>5, <2>6, <2>7, <2>8 DEF HubInv
<1>4. QED
  BY <1>2, <1>3

LEMMA SendStep == ASSUME HubInv, NEW p \in Senders, Send(p)
                  PROVE  HubInv'
<1>t. HubTypeOK /\ OwnChannels /\ \A q \in Streams : StreamAt(q)
  BY DEF HubInv
<1>1. /\ entry' = entry /\ due' = due /\ notices' = notices
      /\ senders' = [senders EXCEPT ![p] = NoSender]
      /\ senders[p].chan # NoChan
  BY DEF Send
<1>2. \A q \in Streams : streams'[q] =
         IF streams[q].open /\ streams[q].chan = senders[p].chan
         THEN [streams[q] EXCEPT !.ring = Append(streams[q].ring, senders[p].event)]
         ELSE streams[q]
  BY <1>t DEF Send, HubTypeOK
<1>3. ASSUME NEW q \in Streams
      PROVE  /\ Append(streams[q].ring, senders[p].event) \in Seq(Nat)
             /\ streams[q].ring \in Seq(Nat) /\ streams[q] \in Stream
             /\ senders[p].event \in Nat
  <2>1. streams[q].ring \in Seq(Nat) /\ streams[q] \in Stream /\ senders[p].event \in Nat
    BY <1>t DEF HubTypeOK, Stream, Sender
  <2>2. QED
    BY <2>1, AppendProperties
(* A stream keeps its account and channel, and what it had in its ring. *)
<1>4. ASSUME NEW q \in Streams
      PROVE  /\ streams'[q] \in Stream /\ streams'[q].open = streams[q].open
             /\ streams'[q].user = streams[q].user /\ streams'[q].chan = streams[q].chan
             /\ \A e : InRing(q, e) => InRing(q, e)'
             /\ \A e : /\ e = senders[p].event
                      /\ streams[q].open /\ streams[q].chan = senders[p].chan
                      => InRing(q, e)'
  <2>1. CASE streams[q].open /\ streams[q].chan = senders[p].chan
    <3>1. streams'[q] = [streams[q] EXCEPT !.ring = Append(streams[q].ring, senders[p].event)]
      BY <1>2, <2>1
    <3>2. /\ streams'[q] \in Stream /\ streams'[q].open = streams[q].open
          /\ streams'[q].user = streams[q].user /\ streams'[q].chan = streams[q].chan
          /\ streams'[q].ring = Append(streams[q].ring, senders[p].event)
      <4> DEFINE ring == Append(streams[q].ring, senders[p].event)
      <4>1. ring \in Seq(Nat) /\ streams[q] \in Stream
        BY <1>3
      <4>2. streams'[q] = [streams[q] EXCEPT !.ring = ring]
        BY <3>1
      <4> HIDE DEF ring
      <4>3. /\ streams'[q] \in Stream /\ streams'[q].open = streams[q].open
            /\ streams'[q].user = streams[q].user /\ streams'[q].chan = streams[q].chan
            /\ streams'[q].ring = ring
        BY <4>1, <4>2, StreamFields
      <4>4. QED
        BY <4>3 DEF ring
    <3>3. LET r == streams[q].ring
              a == streams'[q].ring IN
          /\ Len(r) \in Nat /\ Len(a) = Len(r) + 1 /\ a[Len(a)] = senders[p].event
          /\ \A i \in 1..Len(r) : a[i] = r[i]
      BY <3>2, <1>3, AppendProperties, LenProperties
    <3>4. \A e : InRing(q, e) => InRing(q, e)'
      BY <3>3 DEF InRing
    <3>5. \A e : e = senders[p].event => InRing(q, e)'
      BY <3>3 DEF InRing
    <3>6. QED
      BY <3>2, <3>4, <3>5
  <2>2. CASE ~(streams[q].open /\ streams[q].chan = senders[p].chan)
    <3>1. streams'[q] = streams[q]
      BY <1>2, <2>2
    <3>2. QED
      BY <3>1, <2>2, <1>3 DEF InRing
  <2>3. QED
    BY <2>1, <2>2
<1>5. HubTypeOK'
  <2>1. streams' = [q \in Streams |-> streams'[q]]
    BY DEF Send
  <2>2. streams' \in [Streams -> Stream]
    BY <2>1, <1>4
  <2>3. senders' \in [Senders -> Sender]
    BY <1>1, <1>t DEF HubTypeOK, Sender, NoSender
  <2>4. QED
    BY <2>2, <2>3, <1>1, <1>t DEF HubTypeOK
<1>6. \A q \in Streams : StreamAt(q)'
  BY <1>1, <1>4, <1>t DEF StreamAt
<1>7. ASSUME NEW q \in Streams, NEW e \in due'[q] PROVE InHands(q, e)' \/ InRing(q, e)'
  <2>0. e \in due[q] /\ streams[q].open
    BY <1>7, <1>1, <1>t DEF StreamAt
  <2>1. CASE InRing(q, e)
    BY <2>1, <1>4
  <2>2. CASE InHands(q, e)
    <3>1. PICK r \in Senders : senders[r].chan = streams[q].chan /\ senders[r].event = e
      BY <2>2 DEF InHands
    <3>2. CASE r = p
      BY <3>1, <3>2, <2>0, <1>4
    <3>3. CASE r # p
      <4>1. senders'[r] = senders[r]
        BY <3>3, <1>1, <1>t DEF HubTypeOK
      <4>2. QED
        BY <4>1, <3>1, <1>4 DEF InHands
    <3>4. QED
      BY <3>2, <3>3
  <2>3. QED
    BY <2>0, <2>1, <2>2 DEF HubInv
<1>8. QED
  BY <1>1, <1>5, <1>6, <1>7, <1>t DEF HubInv, OwnChannels

(* A stream takes events off the front of its ring: what it takes is heard or told. *)
LEMMA TakeStep ==
    ASSUME HubInv, NEW s \in Streams, NEW n \in Nat, NEW r \in Seq(Nat),
           n <= Len(streams[s].ring), Len(r) = Len(streams[s].ring) - n,
           \A i \in 1..Len(r) : r[i] = streams[s].ring[i + n],
           streams' = [streams EXCEPT ![s].ring = r],
           due' = [due EXCEPT ![s] = @ \ {streams[s].ring[i] : i \in 1..n}],
           UNCHANGED <<entry, senders, notices>>
    PROVE  HubInv'
<1>t. HubTypeOK /\ OwnChannels /\ \A q \in Streams : StreamAt(q)
  BY DEF HubInv
<1>1. /\ streams'[s] = [streams[s] EXCEPT !.ring = r]
      /\ \A q \in Streams \ {s} : streams'[q] = streams[q] /\ due'[q] = due[q]
      /\ due'[s] = due[s] \ {streams[s].ring[i] : i \in 1..n}
  BY <1>t DEF HubTypeOK
<1>2. /\ streams'[s] \in Stream /\ streams'[s].ring = r
      /\ streams'[s].open = streams[s].open /\ streams'[s].user = streams[s].user
      /\ streams'[s].chan = streams[s].chan
  <2>1. streams[s] \in Stream
    BY <1>t DEF HubTypeOK
  <2>2. QED
    BY <1>1, <2>1, StreamFields
<1>3. HubTypeOK'
  <2>1. streams' = [streams EXCEPT ![s] = streams'[s]]
    BY <1>1
  <2>2. streams' \in [Streams -> Stream]
    BY <2>1, <1>2, <1>t DEF HubTypeOK
  <2>3. due' \in [Streams -> SUBSET Nat]
    BY <1>t DEF HubTypeOK
  <2>4. QED
    BY <2>2, <2>3, <1>t DEF HubTypeOK
<1>4. \A q \in Streams : StreamAt(q)'
  BY <1>1, <1>2, <1>t DEF StreamAt
<1>5. ASSUME NEW q \in Streams, NEW e \in due'[q] PROVE InHands(q, e)' \/ InRing(q, e)'
  <2>1. e \in due[q] /\ (InHands(q, e) \/ InRing(q, e))
    BY <1>5, <1>1 DEF HubInv
  <2>2. CASE q # s
    BY <2>1, <2>2, <1>1 DEF InHands, InRing
  <2>3. CASE q = s /\ InHands(q, e)
    BY <2>3, <1>2 DEF InHands
  <2>4. CASE q = s /\ InRing(q, e)
    <3>1. PICK i \in 1..Len(streams[s].ring) : streams[s].ring[i] = e
      BY <2>4 DEF InRing
    <3>2. i \notin 1..n
      BY <3>1, <1>5, <1>1, <2>4
    <3>3. Len(streams[s].ring) \in Nat
      BY <1>t, LenProperties DEF HubTypeOK, Stream
    <3>4. i - n \in 1..Len(r) /\ r[i - n] = e
      <4>1. i - n \in 1..Len(r) /\ (i - n) + n = i
        BY <3>2, <3>3
      <4>2. QED
        BY <4>1, <3>1
    <3>5. QED
      BY <3>4, <2>4, <1>2 DEF InRing
  <2>5. QED
    BY <2>1, <2>2, <2>3, <2>4
<1>6. QED
  BY <1>3, <1>4, <1>5, <1>t DEF HubInv, OwnChannels

LEMMA HubStep == HubInv /\ [HubNext]_hubVars => HubInv'
<1> SUFFICES ASSUME HubInv, [HubNext]_hubVars PROVE HubInv'
  OBVIOUS
<1>t. HubTypeOK /\ OwnChannels /\ \A q \in Streams : StreamAt(q)
  BY DEF HubInv
<1>r. \A s \in Streams : streams[s].ring \in Seq(Nat)
  BY <1>t DEF HubTypeOK, Stream
<1>1. ASSUME NEW s \in Streams, NEW u \in Listeners, Subscribe(s, u) PROVE HubInv'
  BY <1>1, SubscribeStep
<1>2. ASSUME NEW s \in Streams, Close(s) PROVE HubInv'
  <2>1. /\ streams'[s] = NoStream /\ due'[s] = {}
        /\ \A q \in Streams \ {s} : streams'[q] = streams[q] /\ due'[q] = due[q]
    BY <1>2, <1>t DEF Close, HubTypeOK
  <2>2. HubTypeOK'
    BY <1>2, <1>t, ClosedStream DEF Close, HubTypeOK
  <2>3. \A q \in Streams : StreamAt(q)'
    BY <1>2, <2>1, <1>t, ClosedStream DEF Close, StreamAt
  <2>4. ASSUME NEW q \in Streams, NEW e \in due'[q] PROVE InHands(q, e)' \/ InRing(q, e)'
    <3>1. q # s /\ e \in due[q]
      BY <2>4, <2>1
    <3>2. QED
      BY <3>1, <2>1, <1>2 DEF HubInv, InHands, InRing, Close
  <2>5. OwnChannels'
    BY <1>2, <1>t DEF Close, OwnChannels
  <2>6. QED
    BY <2>2, <2>3, <2>4, <2>5 DEF HubInv
<1>3. ASSUME NEW s \in Streams, Hear(s) PROVE HubInv'
  <2>1. streams[s].ring # <<>>
    BY <1>3 DEF Hear
  <2>2. LET ring == streams[s].ring IN
        /\ Tail(ring) \in Seq(Nat) /\ Len(ring) \in Nat /\ Len(Tail(ring)) = Len(ring) - 1
        /\ \A i \in 1..Len(Tail(ring)) : Tail(ring)[i] = ring[i + 1]
        /\ 1 <= Len(ring)
    BY <2>1, <1>r, HeadTailProperties, LenProperties, EmptySeq
  <2>3. {Head(streams[s].ring)} = {streams[s].ring[i] : i \in 1..1}
    BY <2>1, <1>r
  <2>4. QED
    BY <1>3, <2>2, <2>3, TakeStep DEF Hear
<1>4. ASSUME NEW s \in Streams, Resync(s) PROVE HubInv'
  <2>0. DEFINE ring == streams[s].ring
               lost == Len(ring) - RingCap
               kept == SubSeq(ring, lost + 1, Len(ring))
  <2>1. lost > 0 /\ Len(ring) \in Nat /\ lost \in Nat /\ lost <= Len(ring)
    <3>1. Len(ring) \in Nat
      BY <1>r, LenProperties
    <3>2. lost > 0
      BY <1>4 DEF Resync
    <3>3. QED
      BY <3>1, <3>2, HubAssumption
  <2>2. \A i \in lost + 1..Len(ring) : ring[i] \in Nat
    BY <2>1, <1>r, ElementOfSeq
  <2>3. /\ kept \in Seq(Nat) /\ Len(kept) = Len(ring) - lost
        /\ \A i \in 1..Len(kept) : kept[i] = ring[i + lost]
    <3> HIDE DEF lost, ring
    <3>1. /\ kept \in Seq(Nat)
          /\ Len(kept) = IF lost + 1 <= Len(ring) THEN Len(ring) - (lost + 1) + 1 ELSE 0
          /\ \A i \in 1..(Len(ring) - (lost + 1) + 1) : kept[i] = ring[lost + 1 + i - 1]
      BY <2>1, <2>2, SubSeqProperties
    <3>2. QED
      BY <3>1, <2>1
  <2>4. QED
    BY <1>4, <2>1, <2>3, TakeStep DEF Resync
<1>5. ASSUME NEW p \in Senders, NEW u \in Listeners, LookUp(p, u) PROVE HubInv'
  BY <1>5, LookUpStep
<1>6. ASSUME NEW p \in Senders, Send(p) PROVE HubInv'
  BY <1>6, SendStep
<1>7. CASE RestartHub
  <2>1. HubTypeOK'
    BY <1>7, <1>t, ClosedStream DEF RestartHub, HubTypeOK, Sender, NoSender
  <2>2. \A q \in Streams : ~streams'[q].open /\ due'[q] = {}
    BY <1>7, ClosedStream DEF RestartHub
  <2>3. OwnChannels'
    BY <1>7 DEF RestartHub, OwnChannels
  <2>4. QED
    BY <2>1, <2>2, <2>3 DEF HubInv, StreamAt
<1>8. CASE UNCHANGED hubVars
  BY <1>8 DEF hubVars, HubInv, HubTypeOK, OwnChannels, StreamAt, InHands, InRing
<1>9. QED
  BY <1>1, <1>2, <1>3, <1>4, <1>5, <1>6, <1>7, <1>8 DEF HubNext

(* Whatever is sent to an account with an open stream is on its way to it, until the stream has
   heard it or is told to resync (state.rs:75-87, notifications.rs:46-64). *)
THEOREM NothingUnheard == HubSpec => []HeardOrTold
<1>1. HubInit => HubInv
  BY HubInitially
<1>2. HubInv /\ [HubNext]_hubVars => HubInv'
  BY HubStep
<1>3. HubInv => HeardOrTold
  BY DEF HubInv, HeardOrTold, InRing
<1>4. QED
  BY <1>1, <1>2, <1>3, PTL DEF HubSpec

(* The hub's map and streams stay of their types, whoever comes and goes. *)
THEOREM HubAlwaysTyped == HubSpec => []HubTypeOK
<1>1. HubInit => HubInv
  BY HubInitially
<1>2. HubInv /\ [HubNext]_hubVars => HubInv'
  BY HubStep
<1>3. HubInv => HubTypeOK
  BY DEF HubInv
<1>4. QED
  BY <1>1, <1>2, <1>3, PTL DEF HubSpec
=============================================================================
