------------------------------ MODULE Webhooks ------------------------------
(***************************************************************************)
(* The webhooks of one account and the dispatcher that calls them          *)
(* (routes/webhooks.rs).  A notification fans out into a bounded channel   *)
(* that sheds; one consumer drains it and takes a permit before it spawns  *)
(* a delivery; each delivery records how it went in one UPDATE, which      *)
(* switches a hook off that has failed too often in a row.  Calls queued   *)
(* or under way outlive the owner's changes to the hook.                   *)
(*                                                                         *)
(* Abstracted away: secrets and signatures, the events a hook listens to   *)
(* (a fan-out reaches some of the hooks), the delivery log, which nothing  *)
(* but its page reads, and the rate limit of test calls.                   *)
(***************************************************************************)
EXTENDS Integers, Sequences, FiniteSets, SequencesExt

CONSTANTS
    Hooks,          \* ids of the rows ever inserted
    NoHook,         \* no row
    MaxHooks,       \* MAX_WEBHOOKS_PER_USER
    StreakLimit,    \* failures in a row that switch a hook off
    HookQueueCap,   \* QUEUE_CAP, and one for the job that waits
    Deliveries,     \* delivery tasks; there are MAX_CONCURRENT_DELIVERIES permits
    MaxEvents       \* bound: notifications, test calls and changes by the owner

ASSUME WebhooksAssumption ==
    /\ IsFiniteSet(Deliveries) /\ IsFiniteSet(Hooks) /\ NoHook \notin Hooks
    /\ MaxHooks \in Nat \ {0} /\ StreakLimit \in Nat \ {0} /\ HookQueueCap \in Nat \ {0}
    /\ MaxEvents \in Nat

VARIABLES
    hooks,          \* the rows
    counted,        \* requests to create a hook that found the count below the limit
    hookJobs,       \* the channel, and the job received that waits for a permit
    deliveries,     \* the tasks
    failedCalls,    \* history: failures in a row of calls begun since the owner switched it on
    hookEvents

hookVars == <<hooks, counted, hookJobs, deliveries, failedCalls, hookEvents>>

HookRow    == [there : BOOLEAN, used : BOOLEAN, active : BOOLEAN, streak : Nat]
NoHookRow  == [there |-> FALSE, used |-> FALSE, active |-> FALSE, streak |-> 0]
(* `stale` is history: the call was begun before the owner switched the hook on. *)
HookCall   == [hook : Hooks \cup {NoHook}, stale : BOOLEAN]
NoHookCall == [hook |-> NoHook, stale |-> FALSE]

HooksInit ==
    /\ hooks = [h \in Hooks |-> NoHookRow] /\ counted = 0
    /\ hookJobs = <<>> /\ deliveries = [d \in Deliveries |-> NoHookCall]
    /\ failedCalls = [h \in Hooks |-> 0] /\ hookEvents = 0

HookEvent == hookEvents < MaxEvents /\ hookEvents' = hookEvents + 1

OwnHooks == {h \in Hooks : hooks[h].there}

-----------------------------------------------------------------------------
(* The owner's requests. *)

(* create counts the rows and inserts in another statement, so requests that count at the
   same time may pass the limit together. *)
CountHooks ==
    /\ HookEvent /\ Cardinality(OwnHooks) < MaxHooks
    /\ counted' = counted + 1
    /\ UNCHANGED <<hooks, hookJobs, deliveries, failedCalls>>

InsertHook(h, active) ==
    /\ counted > 0 /\ ~hooks[h].used
    /\ hooks' = [hooks EXCEPT ![h] = [there |-> TRUE, used |-> TRUE, active |-> active,
                                      streak |-> 0]]
    /\ counted' = counted - 1
    /\ UNCHANGED <<hookJobs, deliveries, failedCalls, hookEvents>>

(* mutant: switching a hook on forgets to clear its streak *)
UpdatedKeepsStreak(row, active) == [row EXCEPT !.active = active]

Updated(row, active) ==
    [row EXCEPT !.active = active, !.streak = IF active THEN 0 ELSE @]

UpdateHook(h, active) ==
    /\ HookEvent /\ hooks[h].there
    /\ hooks' = [hooks EXCEPT ![h] = Updated(@, active)]
    /\ failedCalls' = IF active THEN [failedCalls EXCEPT ![h] = 0] ELSE failedCalls
    /\ deliveries' = [d \in Deliveries |->
                        IF active /\ deliveries[d].hook = h
                        THEN [deliveries[d] EXCEPT !.stale = TRUE] ELSE deliveries[d]]
    /\ UNCHANGED <<counted, hookJobs>>

RemoveHook(h) ==
    /\ HookEvent /\ hooks[h].there
    /\ hooks' = [hooks EXCEPT ![h] = [@ EXCEPT !.there = FALSE, !.active = FALSE]]
    /\ UNCHANGED <<counted, hookJobs, deliveries, failedCalls>>

-----------------------------------------------------------------------------
(* The dispatcher. *)

HookServed(h) == hooks[h].there /\ hooks[h].active /\ hooks[h].streak < StreakLimit

HookRoom == HookQueueCap - Len(hookJobs)

(* Reading the rows and filling the channel is one step: a job sent later than the rows were
   read is like one that waited longer.  What the channel has no room for is shed. *)
DispatchEvent(order) ==
    /\ HookEvent /\ \A i \in 1..Len(order) : HookServed(order[i])
    /\ hookJobs' = hookJobs \o SubSeq(order, 1, IF Len(order) < HookRoom THEN Len(order)
                                                ELSE HookRoom)
    /\ UNCHANGED <<hooks, counted, deliveries, failedCalls>>

(* A test call goes to a hook that is switched off, too. *)
TestHook(h) ==
    /\ HookEvent /\ hooks[h].there /\ HookRoom > 0
    /\ hookJobs' = Append(hookJobs, h)
    /\ UNCHANGED <<hooks, counted, deliveries, failedCalls>>

SpawnDelivery(d) ==
    /\ hookJobs # <<>> /\ deliveries[d].hook = NoHook
    /\ deliveries' = [deliveries EXCEPT ![d] = [hook |-> Head(hookJobs), stale |-> FALSE]]
    /\ hookJobs' = Tail(hookJobs)
    /\ UNCHANGED <<hooks, counted, failedCalls, hookEvents>>

Recorded(row, ok) ==
    [row EXCEPT !.streak = IF ok THEN 0 ELSE @ + 1,
                !.active = @ /\ (ok \/ row.streak + 1 < StreakLimit)]

(* The call is refused, fails or is answered; one UPDATE records it, unless that fails or the
   row is gone. *)
DeliverCall(d, ok) ==
    LET h == deliveries[d].hook IN
    /\ h # NoHook
    /\ deliveries' = [deliveries EXCEPT ![d] = NoHookCall]
    /\ \/ /\ hooks[h].there
          /\ hooks' = [hooks EXCEPT ![h] = Recorded(@, ok)]
          /\ failedCalls' = [failedCalls EXCEPT ![h] =
                               IF ok THEN 0 ELSE IF deliveries[d].stale THEN @ ELSE @ + 1]
       \/ UNCHANGED <<hooks, failedCalls>>
    /\ UNCHANGED <<counted, hookJobs, hookEvents>>

(* The server is restarted: what was queued and under way is lost. *)
RestartDispatcher ==
    /\ counted' = 0 /\ hookJobs' = <<>>
    /\ deliveries' = [d \in Deliveries |-> NoHookCall]
    /\ UNCHANGED <<hooks, failedCalls, hookEvents>>

HooksNext ==
    \/ CountHooks
    \/ \E h \in Hooks, active \in BOOLEAN : InsertHook(h, active) \/ UpdateHook(h, active)
    \/ \E h \in Hooks : RemoveHook(h) \/ TestHook(h)
    \/ \E order \in SetToAllKPermutations(Hooks) : DispatchEvent(order)
    \/ \E d \in Deliveries : SpawnDelivery(d) \/ \E ok \in BOOLEAN : DeliverCall(d, ok)
    \/ RestartDispatcher

HooksSpec == HooksInit /\ [][HooksNext]_hookVars

-----------------------------------------------------------------------------
(* Properties. *)

HooksTypeOK ==
    /\ hooks \in [Hooks -> HookRow] /\ counted \in Nat
    /\ hookJobs \in Seq(Hooks)
    /\ deliveries \in [Deliveries -> HookCall]
    /\ failedCalls \in [Hooks -> Nat] /\ hookEvents \in Nat

(* webhooks.rs:10, "20 disables the webhook automatically": the dispatcher switches a hook off
   at the limit exactly, and but for the calls that were under way when the owner switched it
   on, of which there are no more than permits, every failure counted is of a call begun since. *)
DisabledForCause ==
    [][\A h \in Hooks :
          hooks[h].active /\ ~hooks'[h].active /\ hooks'[h].streak # hooks[h].streak =>
             /\ hooks'[h].streak = StreakLimit
             /\ failedCalls'[h] + Cardinality(Deliveries) >= StreakLimit]_hookVars
=============================================================================
