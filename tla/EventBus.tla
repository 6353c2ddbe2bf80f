------------------------------- MODULE EventBus -------------------------------
(***************************************************************************)
(* The in-process event bus: a bounded queue under queue_mutex, one        *)
(* dispatcher thread, a subscriber registry under registry_mutex and a     *)
(* lock per subscriber.  Every critical section is one action.             *)
(*                                                                         *)
(* An event is its coalescing key (kind, source, netns, ifindex, socket)   *)
(* with the sequence number publish() gave it.  publish() and subscribe()  *)
(* are each one critical section and do not look at the calling thread, so *)
(* one action stands for a call from any thread, a callback included.      *)
(***************************************************************************)
EXTENDS Integers, Sequences

CONSTANTS
    Capacity,          \* configured queue capacity
    Keys,              \* coalescing keys of the published events
    Replaceable,       \* the keys of replaceable gauges
    Filters,           \* subscription filters: the sets of keys they match
    Stoppers,          \* external threads that call stop()
    SequenceModulus,   \* 2^64 in the code: next_sequence wraps to 0 here
    MaxSubscribers,    \* bound: subscribe() calls
    MaxDrops           \* bound: counted drops

ASSUME BusAssumption ==
    /\ Capacity \in Nat \ {0}
    /\ Replaceable \subseteq Keys
    /\ Filters \subseteq SUBSET Keys
    /\ SequenceModulus \in Nat \ {0, 1}
    /\ MaxSubscribers \in Nat
    /\ MaxDrops \in Nat
    /\ "dispatcher" \notin Stoppers

VARIABLES
    queue, next_sequence, started, stopping, stopped, join_claimed, joined,
    accepted, dispatched, drops, coalesces, high_water,   \* EventBusTelemetry
    subscribers,       \* ids in the registry map
    next_subscriber,
    filter, active, in_flight,
    owner,             \* progress of the external owner's unsubscribe()
    dpc, event, targets, current,   \* the dispatcher thread
    spc,               \* each stopper: "idle", "await" or "join"
    waiting,           \* threads blocked in queue_cv.wait
    admitted,          \* history: key of the n-th accepted event
    log,               \* history: sequence numbers taken off the queue
    delivered,         \* history: sequence numbers each callback was given
    selfRemoved        \* history: ids unsubscribed from inside a callback

queueVars == <<queue, next_sequence, started, stopping, stopped>>
joinVars  == <<join_claimed, joined, spc>>
subVars   == <<subscribers, next_subscriber, filter, active, in_flight, owner, selfRemoved>>
dispVars  == <<dpc, event, targets, current>>
histVars  == <<admitted, log, delivered>>
counters  == <<accepted, dispatched, drops, coalesces, high_water>>
vars == <<queueVars, joinVars, subVars, dispVars, histVars, counters, waiting>>

Ids     == 1 .. MaxSubscribers
SeqNums == 1 .. (SequenceModulus - 1)
Event   == [key : Keys, seq : SeqNums]
None    == 0

Init ==
    /\ queue = <<>> /\ next_sequence = 1
    /\ started = FALSE /\ stopping = FALSE /\ stopped = FALSE
    /\ join_claimed = FALSE /\ joined = FALSE
    /\ accepted = 0 /\ dispatched = 0 /\ drops = 0 /\ coalesces = 0 /\ high_water = 0
    /\ subscribers = {} /\ next_subscriber = 1
    /\ filter = [s \in Ids |-> {}]
    /\ active = [s \in Ids |-> FALSE]
    /\ in_flight = [s \in Ids |-> 0]
    /\ owner = [s \in Ids |-> "unborn"]
    /\ dpc = "unstarted" /\ event = <<>> /\ targets = {} /\ current = None
    /\ spc = [t \in Stoppers |-> "idle"]
    /\ waiting = {}
    /\ admitted = <<>> /\ log = <<>> /\ delivered = [s \in Ids |-> <<>>]
    /\ selfRemoved = {}

-----------------------------------------------------------------------------
(* queue_cv.  A notified thread re-evaluates its predicate before it goes on. *)

\* Mutant: publish() forgets to notify.
NotifyNobody == UNCHANGED waiting

NotifyOne == \/ waiting = {} /\ waiting' = {}
             \/ \E t \in waiting : waiting' = waiting \ {t}
NotifyAll == waiting' = {}

Start ==
    /\ ~started /\ ~stopped
    /\ started' = TRUE
    /\ dpc' = "wait"
    /\ UNCHANGED <<queue, next_sequence, stopping, stopped, joinVars, subVars, event,
                   targets, current, histVars, counters, waiting>>

-----------------------------------------------------------------------------
(* publish(): rejected, dropped at capacity, coalesced, or appended. *)

\* Mutant: publish() does not look at `stopping`.
AcceptingWhileStopping == started /\ ~stopped /\ next_sequence # 0

Accepting == started /\ ~stopping /\ ~stopped /\ next_sequence # 0

\* Mutant: any queued event may be replaced, whatever its key.
CoalescibleAnyKey(k) == {i \in 1 .. Len(queue) : k \in Replaceable}

(* The queued replaceable events with key k. *)
Coalescible(k) == {i \in 1 .. Len(queue) : k \in Replaceable /\ queue[i].key = k}

Full == Len(queue) = Capacity

PublishDropped(k) ==
    /\ ~Accepting \/ (Full /\ Coalescible(k) = {})
    /\ drops < MaxDrops
    /\ drops' = drops + 1
    /\ UNCHANGED <<queueVars, joinVars, subVars, dispVars, histVars, waiting, accepted,
                   dispatched, coalesces, high_water>>

\* Mutant: push_front.
PushFront(q, e) == <<e>> \o q

PushBack(q, e) == Append(q, e)

Admit(k, q) ==
    /\ queue' = PushBack(q, [key |-> k, seq |-> next_sequence])
    /\ next_sequence' = (next_sequence + 1) % SequenceModulus
    /\ admitted' = Append(admitted, k)
    /\ NotifyOne
    /\ UNCHANGED <<started, stopping, stopped, joinVars, subVars, dispVars, log, delivered>>

PublishAppended(k) ==
    /\ Accepting /\ ~Full
    /\ Admit(k, queue)
    /\ accepted' = accepted + 1
    /\ high_water' = IF high_water < Len(queue) + 1 THEN Len(queue) + 1 ELSE high_water
    /\ UNCHANGED <<dispatched, drops, coalesces>>

\* Mutant: the coalesced publication is not counted.
CountAcceptedOnly == accepted' = accepted + 1 /\ UNCHANGED coalesces

CountCoalesced == accepted' = accepted + 1 /\ coalesces' = coalesces + 1

(* queue.erase(existing) *)
Erase(q, i) == SubSeq(q, 1, i - 1) \o SubSeq(q, i + 1, Len(q))

PublishCoalesced(k) ==
    /\ Accepting /\ Full
    /\ \E i \in Coalescible(k) :
          /\ \A j \in Coalescible(k) : i <= j
          /\ Admit(k, Erase(queue, i))
    /\ CountCoalesced
    /\ UNCHANGED <<dispatched, drops, high_water>>

Publish(k) == PublishDropped(k) \/ PublishAppended(k) \/ PublishCoalesced(k)

-----------------------------------------------------------------------------
Subscribe(f) ==
    /\ next_subscriber <= MaxSubscribers
    /\ LET s == next_subscriber IN
          /\ subscribers' = subscribers \cup {s}
          /\ filter' = [filter EXCEPT ![s] = f]
          /\ active' = [active EXCEPT ![s] = TRUE]
          /\ owner' = [owner EXCEPT ![s] = "held"]
    /\ next_subscriber' = next_subscriber + 1
    /\ UNCHANGED <<in_flight, selfRemoved, queueVars, joinVars, dispVars, histVars,
                   counters, waiting>>

(* Subscription::unsubscribe() empties the token: a subscription that a      *)
(* callback has removed left its token empty.                                *)
EmptyToken(s) == s \notin subscribers

(* unsubscribe() by the owner, outside any callback: the registry section,   *)
(* which an empty token does not reach.                                      *)
UnsubscribeErase(s) ==
    /\ owner[s] = "held"
    /\ subscribers' = subscribers \ {s}
    /\ owner' = [owner EXCEPT ![s] = IF EmptyToken(s) THEN "returned" ELSE "erased"]
    /\ UNCHANGED <<next_subscriber, filter, active, in_flight, selfRemoved, queueVars,
                   joinVars, dispVars, histVars, counters, waiting>>

(* The subscriber's own section, up to the wait for in_flight = 0. *)
UnsubscribeDeactivate(s) ==
    /\ owner[s] = "erased"
    /\ active' = [active EXCEPT ![s] = FALSE]
    /\ owner' = [owner EXCEPT ![s] = "waiting"]
    /\ UNCHANGED <<subscribers, next_subscriber, filter, in_flight, selfRemoved, queueVars,
                   joinVars, dispVars, histVars, counters, waiting>>

\* Mutant: unsubscribe() does not wait for the running callback.
AnyCallbackState(s) == in_flight[s] >= 0

NoCallbackRunning(s) == in_flight[s] = 0

UnsubscribeReturn(s) ==
    /\ owner[s] = "waiting"
    /\ NoCallbackRunning(s)
    /\ owner' = [owner EXCEPT ![s] = "returned"]
    /\ UNCHANGED <<subscribers, next_subscriber, filter, active, in_flight, selfRemoved,
                   queueVars, joinVars, dispVars, histVars, counters, waiting>>

(* unsubscribe() of s from inside a running callback.  Only the dispatcher   *)
(* executes callbacks, so s is either the running one (no wait) or idle.     *)
CallbackUnsubscribe(s) ==
    /\ dpc = "callback"
    /\ owner[s] = "held" /\ s \in subscribers
    /\ subscribers' = subscribers \ {s}
    /\ active' = [active EXCEPT ![s] = FALSE]
    /\ selfRemoved' = selfRemoved \cup {s}
    /\ UNCHANGED <<next_subscriber, filter, in_flight, owner, queueVars, joinVars,
                   dispVars, histVars, counters, waiting>>

-----------------------------------------------------------------------------
(* stop() up to its return, its join or its wait. *)
RequestStop ==
    /\ started /\ ~joined
    /\ stopping' = TRUE
    /\ IF stopping THEN UNCHANGED waiting ELSE NotifyAll
    /\ UNCHANGED <<queue, next_sequence, started, stopped>>

StopCall(t) ==
    /\ spc[t] = "idle"
    /\ RequestStop
    /\ join_claimed' = TRUE
    /\ spc' = [spc EXCEPT ![t] = IF join_claimed THEN "await" ELSE "join"]
    /\ UNCHANGED <<joined, subVars, dispVars, histVars, counters>>

(* stop() on the dispatcher thread returns without joining. *)
CallbackStop ==
    /\ dpc = "callback"
    /\ RequestStop
    /\ UNCHANGED <<joinVars, subVars, dispVars, histVars, counters>>

\* Mutant: the joining stop() does not wake the other callers.
MarkJoinedSilently == joined' = TRUE /\ UNCHANGED waiting

MarkJoined == joined' = TRUE /\ NotifyAll

StopJoin(t) ==
    /\ spc[t] = "join" /\ dpc = "exited"
    /\ MarkJoined
    /\ spc' = [spc EXCEPT ![t] = "idle"]
    /\ UNCHANGED <<join_claimed, queueVars, subVars, dispVars, histVars, counters>>

StopAwait(t) ==
    /\ spc[t] = "await" /\ t \notin waiting
    /\ IF joined THEN spc' = [spc EXCEPT ![t] = "idle"] /\ UNCHANGED waiting
                 ELSE waiting' = waiting \cup {t} /\ UNCHANGED spc
    /\ UNCHANGED <<join_claimed, joined, queueVars, subVars, dispVars, histVars, counters>>

-----------------------------------------------------------------------------
(* dispatchLoop() *)
DispatchWait ==
    /\ dpc = "wait" /\ "dispatcher" \notin waiting
    /\ ~stopping /\ queue = <<>>
    /\ waiting' = waiting \cup {"dispatcher"}
    /\ UNCHANGED <<queueVars, joinVars, subVars, dispVars, histVars, counters>>

DispatchTake ==
    /\ dpc = "wait" /\ "dispatcher" \notin waiting
    /\ queue # <<>>
    /\ event' = <<Head(queue)>>
    /\ queue' = Tail(queue)
    /\ log' = Append(log, Head(queue).seq)
    /\ dpc' = "collect"
    /\ UNCHANGED <<next_sequence, started, stopping, stopped, joinVars, subVars, targets,
                   current, admitted, delivered, counters, waiting>>

DispatchCollect ==
    /\ dpc = "collect"
    /\ targets' = {s \in subscribers : event[1].key \in filter[s]}
    /\ dpc' = "deliver"
    /\ UNCHANGED <<event, current, queueVars, joinVars, subVars, histVars, counters, waiting>>

\* Mutant: the target's `active` flag is not looked at.
AlwaysCallable(s) == s \in targets

Callable(s) == active[s]

RemainingAfter(s) == targets \ {s}

(* The next target in id order: skipped when inactive, else called. *)
DispatchDeliver ==
    /\ dpc = "deliver"
    /\ \E s \in targets :
          /\ \A u \in targets : s <= u
          /\ targets' = RemainingAfter(s)
          /\ IF Callable(s)
             THEN /\ in_flight' = [in_flight EXCEPT ![s] = @ + 1]
                  /\ current' = s
                  /\ dpc' = "callback"
                  /\ delivered' = [delivered EXCEPT ![s] = Append(@, event[1].seq)]
             ELSE UNCHANGED <<in_flight, current, dpc, delivered>>
    /\ UNCHANGED <<event, subscribers, next_subscriber, filter, active, owner, selfRemoved,
                   queueVars, joinVars, admitted, log, counters, waiting>>

\* Mutant: in_flight is not decremented after the callback.
LeakInFlight == UNCHANGED in_flight

LeaveCallback == in_flight' = [in_flight EXCEPT ![current] = @ - 1]

(* The callback returned, or threw and the exception was swallowed. *)
DispatchFinish ==
    /\ dpc = "callback"
    /\ LeaveCallback
    /\ current' = None
    /\ dpc' = "deliver"
    /\ UNCHANGED <<event, targets, subscribers, next_subscriber, filter, active, owner,
                   selfRemoved, queueVars, joinVars, histVars, counters, waiting>>

DispatchDone ==
    /\ dpc = "deliver" /\ targets = {}
    /\ dispatched' = dispatched + 1
    /\ event' = <<>>
    /\ dpc' = "wait"
    /\ UNCHANGED <<targets, current, queueVars, joinVars, subVars, histVars, accepted, drops,
                   coalesces, high_water, waiting>>

StoppingAndDrained == queue = <<>> /\ stopping

DispatchExit ==
    /\ dpc = "wait" /\ "dispatcher" \notin waiting
    /\ StoppingAndDrained
    /\ dpc' = "stopping"
    /\ UNCHANGED <<event, targets, current, queueVars, joinVars, subVars, histVars, counters,
                   waiting>>

DispatchStopped ==
    /\ dpc = "stopping"
    /\ stopped' = TRUE
    /\ dpc' = "notify"
    /\ UNCHANGED <<queue, next_sequence, started, stopping, event, targets, current, joinVars,
                   subVars, histVars, counters, waiting>>

DispatchNotify ==
    /\ dpc = "notify"
    /\ NotifyAll
    /\ dpc' = "exited"
    /\ UNCHANGED <<event, targets, current, queueVars, joinVars, subVars, histVars, counters>>

Dispatcher ==
    \/ DispatchWait \/ DispatchTake \/ DispatchCollect \/ DispatchDeliver
    \/ DispatchFinish \/ DispatchDone \/ DispatchExit \/ DispatchStopped
    \/ DispatchNotify

Next ==
    \/ Start
    \/ \E k \in Keys : Publish(k)
    \/ \E f \in Filters : Subscribe(f)
    \/ \E s \in Ids : UnsubscribeErase(s) \/ UnsubscribeDeactivate(s)
                      \/ UnsubscribeReturn(s) \/ CallbackUnsubscribe(s)
    \/ \E t \in Stoppers : StopCall(t) \/ StopJoin(t) \/ StopAwait(t)
    \/ CallbackStop
    \/ Dispatcher

Spec == Init /\ [][Next]_vars

(* Every started thread is scheduled and every callback returns; nobody has  *)
(* to publish, subscribe or call stop().                                     *)
Fairness ==
    /\ WF_vars(Dispatcher)
    /\ \A s \in Ids : WF_vars(UnsubscribeDeactivate(s)) /\ WF_vars(UnsubscribeReturn(s))
    /\ \A t \in Stoppers : WF_vars(StopJoin(t)) /\ WF_vars(StopAwait(t))

FairSpec == Spec /\ Fairness
-----------------------------------------------------------------------------
(* Properties *)

QueueTypes ==
    /\ queue \in Seq(Event) /\ Len(queue) <= Capacity
    /\ next_sequence \in 0 .. (SequenceModulus - 1)
    /\ admitted \in Seq(Keys) /\ log \in Seq(SeqNums)

CounterTypes ==
    /\ accepted \in Nat /\ dispatched \in Nat /\ drops \in Nat /\ coalesces \in Nat
    /\ high_water \in 0 .. Capacity

ThreadTypes ==
    /\ started \in BOOLEAN /\ stopping \in BOOLEAN /\ stopped \in BOOLEAN
    /\ join_claimed \in BOOLEAN /\ joined \in BOOLEAN
    /\ dpc \in {"unstarted", "wait", "collect", "deliver", "callback",
                "stopping", "notify", "exited"}
    /\ event \in Seq(Event) /\ Len(event) <= 1
    /\ spc \in [Stoppers -> {"idle", "await", "join"}]
    /\ waiting \subseteq Stoppers \cup {"dispatcher"}

SubscriberTypes ==
    /\ subscribers \subseteq Ids /\ next_subscriber \in 1 .. (MaxSubscribers + 1)
    /\ filter \in [Ids -> SUBSET Keys]
    /\ active \in [Ids -> BOOLEAN]
    /\ in_flight \in [Ids -> {0, 1}]
    /\ owner \in [Ids -> {"unborn", "held", "erased", "waiting", "returned"}]
    /\ targets \subseteq Ids /\ current \in Ids \cup {None}
    /\ delivered \in [Ids -> Seq(SeqNums)]
    /\ selfRemoved \subseteq Ids

(* Types of the bus state (event_bus.cpp, EventBus::State).                  *)
TypeOK == QueueTypes /\ CounterTypes /\ ThreadTypes /\ SubscriberTypes

(* Telemetry conservation: every accepted publication is dispatched, was     *)
(* coalesced away, is still queued, or is in the dispatcher's hands.         *)
Conservation ==
    accepted = dispatched + coalesces + Len(queue) + Len(event)

(* stop() drains: once the dispatcher has set `stopped` nothing accepted is  *)
(* left behind, although publishers and callbacks kept publishing during it. *)
DrainedWhenStopped ==
    stopped => /\ queue = <<>> /\ event = <<>>
               /\ accepted = dispatched + coalesces

(* An accepted event never disappears unless it is a replaceable gauge and a *)
(* newer event with the identical key was accepted after it.                 *)
LostOnlyIfSuperseded ==
    \A n \in DOMAIN admitted :
        \/ \E i \in DOMAIN queue : queue[i].seq = n
        \/ \E i \in DOMAIN log : log[i] = n
        \/ /\ admitted[n] \in Replaceable
           /\ \E m \in DOMAIN admitted : m > n /\ admitted[m] = admitted[n]

(* Events leave the bus in admission order: what was taken, then what is     *)
(* queued, carries strictly increasing sequence numbers.                     *)
AdmissionOrder ==
    /\ \A i, j \in DOMAIN queue : i < j => queue[i].seq < queue[j].seq
    /\ \A i, j \in DOMAIN log : i < j => log[i] < log[j]
    /\ \A i \in DOMAIN log, j \in DOMAIN queue : log[i] < queue[j].seq

(* Between two events a registered subscriber has been given, in order and   *)
(* once each, exactly the last events that match its filter: subscribing and *)
(* unsubscribing elsewhere in a dispatch never makes it miss one.            *)
GaplessDelivery ==
    dpc = "wait" => \A s \in subscribers : \A i \in DOMAIN delivered[s] :
        LET given == delivered[s][i] IN
        /\ \E k \in DOMAIN log : log[k] = given
        /\ admitted[given] \in filter[s]
        /\ \A j \in DOMAIN delivered[s] : i < j => given < delivered[s][j]
        /\ \A k \in DOMAIN log : log[k] > given /\ admitted[log[k]] \in filter[s]
                                  => \E j \in DOMAIN delivered[s] : delivered[s][j] = log[k]

(* No event is missed on its way from publish() to a callback: neither in the *)
(* queue nor in a dispatch.                                                  *)
NoEventIsMissed == LostOnlyIfSuperseded /\ GaplessDelivery

(* An external unsubscribe() of a subscription that no callback removed      *)
(* returns only when no callback of it is running.                           *)
UnsubscribeSynchronises ==
    \A s \in Ids : owner[s] = "returned" /\ s \notin selfRemoved => in_flight[s] = 0

(* No callback starts after unsubscribe() returned, to the owner or to a     *)
(* callback that removed the subscription.                                   *)
NoCallbackAfterUnsubscribe ==
    [][\A s \in Ids : delivered'[s] # delivered[s]
                         => owner[s] # "returned" /\ s \notin selfRemoved]_vars

(* docs/ARCHITECTURE.md: an external unsubscribe waits for the callback that *)
(* is already running.                                                       *)
ExternalUnsubscribeWaits ==
    \A s \in Ids : owner[s] = "returned" => in_flight[s] = 0

(* Every external stop() call returns, concurrent ones included.             *)
StopReturns == \A t \in Stoppers : spc[t] # "idle" ~> spc[t] = "idle"

(* Every external unsubscribe() call returns.                                *)
UnsubscribeReturns ==
    \A s \in Ids : owner[s] \in {"erased", "waiting"} ~> owner[s] = "returned"

(* Every accepted event is eventually taken for dispatch or superseded, also *)
(* when stop() arrives while it is queued.                                   *)
AcceptedIsHandled ==
    \A n \in SeqNums :
        n \in DOMAIN admitted ~> \A i \in DOMAIN queue : queue[i].seq # n

Channel == INSTANCE EventChannel WITH
    pending <- queue, taken <- log, closed <- stopping, finished <- stopped

(* The bus implements the lossy FIFO channel of EventChannel.                *)
ChannelSpec == Channel!Spec
=============================================================================
