---------------------------- MODULE EventBusProofs ----------------------------
(***************************************************************************)
(* Proofs about the event bus for every capacity, key set, set of filters, *)
(* number of subscribers and set of stopping threads.                      *)
(***************************************************************************)
EXTENDS EventBus, TLAPS

-----------------------------------------------------------------------------
(* Sequences. *)

\* A sequence is a function from the numbers up to its length.
LEMMA LengthOf ==
    ASSUME NEW S, NEW s \in Seq(S)
    PROVE  Len(s) \in Nat /\ DOMAIN s = 1 .. Len(s) /\ s \in [1 .. Len(s) -> S]
  OBVIOUS

\* Only <<>> has no element.
LEMMA NoElements ==
    ASSUME NEW S
    PROVE  /\ <<>> \in Seq(S) /\ Len(<<>>) = 0
           /\ \A s \in Seq(S) : s # <<>> => Len(s) \in Nat \ {0}
  OBVIOUS

\* push_back(): one more element, at the end.
LEMMA Appended ==
    ASSUME NEW S, NEW s \in Seq(S), NEW x \in S
    PROVE  /\ Append(s, x) \in Seq(S) /\ Append(s, x) # <<>>
           /\ Len(Append(s, x)) = Len(s) + 1 /\ Append(s, x)[Len(s) + 1] = x
           /\ \A i \in 1 .. Len(s) : Append(s, x)[i] = s[i]
  OBVIOUS

\* pop_front(): what is left moves up one place.
LEMMA HeadAndTail ==
    ASSUME NEW S, NEW s \in Seq(S), s # <<>>
    PROVE  /\ Head(s) \in S /\ Tail(s) \in Seq(S) /\ Len(Tail(s)) = Len(s) - 1
           /\ \A i \in 1 .. Len(Tail(s)) : Tail(s)[i] = s[i + 1]
  OBVIOUS

\* The elements of a part of a sequence.
LEMMA PartOf ==
    ASSUME NEW S, NEW s, NEW m \in Int, NEW n \in Int, \A i \in m .. n : s[i] \in S
    PROVE  /\ SubSeq(s, m, n) \in Seq(S)
           /\ Len(SubSeq(s, m, n)) = IF m <= n THEN n - m + 1 ELSE 0
           /\ \A i \in 1 .. n - m + 1 : SubSeq(s, m, n)[i] = s[m + i - 1]
  OBVIOUS

\* The elements of two sequences in a row.
LEMMA Joined ==
    ASSUME NEW S, NEW s \in Seq(S), NEW t \in Seq(S)
    PROVE  /\ s \o t \in Seq(S) /\ Len(s \o t) = Len(s) + Len(t)
           /\ \A i \in 1 .. Len(s) + Len(t) :
                 (s \o t)[i] = IF i <= Len(s) THEN s[i] ELSE t[i - Len(s)]
  OBVIOUS

-----------------------------------------------------------------------------
(* Where the dispatcher is decides what it holds: an event between taking    *)
(* and counting it, a callback while one runs, and nothing but an empty,     *)
(* closed queue once it left its loop.                                       *)
DispatcherInv ==
    /\ started <=> dpc # "unstarted"
    /\ event = <<>> <=> dpc \notin {"collect", "deliver", "callback"}
    /\ current = None <=> dpc # "callback"
    /\ dpc \in {"stopping", "notify", "exited"} => stopping /\ queue = <<>>
    /\ stopped <=> dpc \in {"notify", "exited"}
    /\ \A s \in Ids : in_flight[s] = IF s = current THEN 1 ELSE 0
    /\ stopping => started

(* The queue after the oldest event with the published key was erased.       *)
LEMMA EraseType ==
    ASSUME NEW S, NEW q \in Seq(S), NEW i \in 1 .. Len(q)
    PROVE  /\ Erase(q, i) \in Seq(S)
           /\ Len(Erase(q, i)) = Len(q) - 1
           /\ \A j \in 1 .. (Len(q) - 1) :
                 Erase(q, i)[j] = IF j < i THEN q[j] ELSE q[j + 1]
<1> DEFINE a == SubSeq(q, 1, i - 1)
           b == SubSeq(q, i + 1, Len(q))
<1>0. Len(q) \in Nat /\ \A j \in 1 .. Len(q) : q[j] \in S
  BY LengthOf
<1>1. /\ a \in Seq(S) /\ Len(a) = i - 1
      /\ \A j \in 1 .. (i - 1) : a[j] = q[j]
  <2>1. \A j \in 1 .. (i - 1) : q[j] \in S
    BY <1>0
  <2>2. /\ a \in Seq(S)
        /\ Len(a) = IF 1 <= i - 1 THEN (i - 1) - 1 + 1 ELSE 0
        /\ \A j \in 1 .. ((i - 1) - 1 + 1) : a[j] = q[1 + j - 1]
    BY <2>1, <1>0, PartOf
  <2> QED BY <2>2, <1>0
<1>2. /\ b \in Seq(S) /\ Len(b) = Len(q) - i
      /\ \A j \in 1 .. (Len(q) - i) : b[j] = q[i + j]
  <2>1. \A j \in (i + 1) .. Len(q) : q[j] \in S
    BY <1>0
  <2>2. /\ b \in Seq(S)
        /\ Len(b) = IF i + 1 <= Len(q) THEN Len(q) - (i + 1) + 1 ELSE 0
        /\ \A j \in 1 .. (Len(q) - (i + 1) + 1) : b[j] = q[(i + 1) + j - 1]
    BY <2>1, <1>0, PartOf
  <2> QED BY <2>2, <1>0
<1>3. /\ a \o b \in Seq(S)
      /\ Len(a \o b) = Len(a) + Len(b)
      /\ \A j \in 1 .. (Len(a) + Len(b)) :
            (a \o b)[j] = IF j <= Len(a) THEN a[j] ELSE b[j - Len(a)]
  BY <1>1, <1>2, Joined
<1> HIDE DEF a, b
<1>4. ASSUME NEW j \in 1 .. (Len(q) - 1)
      PROVE  (a \o b)[j] = IF j < i THEN q[j] ELSE q[j + 1]
  <2>1. CASE j < i
    BY <2>1, <1>0, <1>1, <1>2, <1>3
  <2>2. CASE j >= i
    <3>1. j - (i - 1) \in 1 .. (Len(q) - i) /\ i + (j - (i - 1)) = j + 1
      BY <2>2, <1>0
    <3>2. (a \o b)[j] = b[j - (i - 1)]
      BY <2>2, <1>0, <1>1, <1>2, <1>3
    <3>3. b[j - (i - 1)] = q[j + 1]
      BY <3>1, <1>2
    <3> QED BY <3>2, <3>3, <2>2, <1>0
  <2>3. j < i \/ j >= i
    BY <1>0
  <2> QED BY <2>1, <2>2, <2>3
<1>5. Erase(q, i) = a \o b
  BY DEF Erase, a, b
<1> QED BY <1>0, <1>1, <1>2, <1>3, <1>4, <1>5

BusInv == TypeOK /\ DispatcherInv

USE DEF queueVars, joinVars, subVars, dispVars, histVars, counters

LEMMA BusInit == Init => BusInv
<1> SUFFICES ASSUME Init PROVE BusInv
  OBVIOUS
<1> USE BusAssumption DEF Init, Ids, None
<1>1. QueueTypes /\ CounterTypes
  BY DEF QueueTypes, CounterTypes
<1>2. ThreadTypes
  <2>1. event \in Seq(Event) /\ Len(event) <= 1
    OBVIOUS
  <2>2. spc \in [Stoppers -> {"idle", "await", "join"}]
    OBVIOUS
  <2> QED BY <2>1, <2>2 DEF ThreadTypes
<1>3. SubscriberTypes
  BY DEF SubscriberTypes
<1>4. DispatcherInv
  BY DEF DispatcherInv
<1> QED BY <1>1, <1>2, <1>3, <1>4 DEF BusInv, TypeOK

(* publish() appends an event numbered next_sequence, in whichever way it    *)
(* found room for it.                                                        *)
LEMMA AdmitType ==
    ASSUME BusInv, NEW k \in Keys, NEW q \in Seq(Event), Len(q) < Capacity,
           Accepting, Admit(k, q)
    PROVE  /\ QueueTypes' /\ Len(queue') = Len(q) + 1
           /\ ThreadTypes' /\ SubscriberTypes' /\ DispatcherInv'
<1> DEFINE e == [key |-> k, seq |-> next_sequence]
<1>1. e \in Event
  BY BusAssumption DEF BusInv, TypeOK, QueueTypes, Accepting, Event, SeqNums
<1>2. queue' = Append(q, e)
  BY DEF Admit, PushBack
<1>3. queue' \in Seq(Event) /\ Len(queue') = Len(q) + 1
  BY <1>1, <1>2, Appended
<1>4. next_sequence' \in 0 .. (SequenceModulus - 1)
  BY BusAssumption DEF Admit, BusInv, TypeOK, QueueTypes
<1>5. QueueTypes'
  BY <1>3, <1>4, BusAssumption DEF Admit, BusInv, TypeOK, QueueTypes
<1>6. ThreadTypes'
  BY DEF Admit, NotifyOne, BusInv, TypeOK, ThreadTypes
<1>7. SubscriberTypes'
  BY DEF Admit, BusInv, TypeOK, SubscriberTypes
<1>8. DispatcherInv'
  BY DEF Admit, Accepting, BusInv, DispatcherInv
<1> QED BY <1>3, <1>5, <1>6, <1>7, <1>8

LEMMA PublishType ==
    ASSUME BusInv, NEW k \in Keys, Publish(k) PROVE BusInv'
<1>1. CASE PublishDropped(k)
  <2>1. CounterTypes'
    BY <1>1 DEF BusInv, TypeOK, CounterTypes, PublishDropped
  <2>2. QueueTypes' /\ ThreadTypes' /\ SubscriberTypes' /\ DispatcherInv'
    BY <1>1 DEF BusInv, TypeOK, QueueTypes, ThreadTypes, SubscriberTypes, DispatcherInv,
                PublishDropped
  <2> QED BY <2>1, <2>2 DEF BusInv, TypeOK
<1>2. CASE PublishAppended(k)
  <2>1. queue \in Seq(Event) /\ Len(queue) < Capacity
    BY <1>2, BusAssumption DEF PublishAppended, Full, BusInv, TypeOK, QueueTypes
  <2>2. QueueTypes' /\ ThreadTypes' /\ SubscriberTypes' /\ DispatcherInv'
    BY <1>2, <2>1, AdmitType DEF PublishAppended
  <2>3. CounterTypes'
    BY <1>2, <2>1, BusAssumption DEF BusInv, TypeOK, CounterTypes, PublishAppended
  <2> QED BY <2>2, <2>3 DEF BusInv, TypeOK
<1>3. CASE PublishCoalesced(k)
  <2>1. PICK i \in Coalescible(k) : Admit(k, Erase(queue, i))
    BY <1>3 DEF PublishCoalesced
  <2>2. queue \in Seq(Event) /\ i \in 1 .. Len(queue) /\ Len(queue) = Capacity
    BY <1>3, <2>1 DEF Coalescible, PublishCoalesced, Full, BusInv, TypeOK, QueueTypes
  <2>3. /\ Erase(queue, i) \in Seq(Event)
        /\ Len(Erase(queue, i)) < Capacity
    BY <2>2, EraseType, BusAssumption
  <2>4. QueueTypes' /\ ThreadTypes' /\ SubscriberTypes' /\ DispatcherInv'
    BY <1>3, <2>1, <2>3, AdmitType DEF PublishCoalesced
  <2>5. CounterTypes'
    BY <1>3 DEF BusInv, TypeOK, CounterTypes, PublishCoalesced, CountCoalesced
  <2> QED BY <2>4, <2>5 DEF BusInv, TypeOK
<1> QED BY <1>1, <1>2, <1>3 DEF Publish

LEMMA StartType == ASSUME BusInv, Start PROVE BusInv'
<1> USE DEF Start, BusInv, TypeOK
<1>1. QueueTypes' /\ CounterTypes' /\ SubscriberTypes'
  BY DEF QueueTypes, CounterTypes, SubscriberTypes
<1>2. ThreadTypes'
  BY DEF ThreadTypes
<1>3. DispatcherInv'
  BY DEF DispatcherInv
<1> QED BY <1>1, <1>2, <1>3

LEMMA SubscriberType ==
    ASSUME BusInv,
           \/ \E f \in Filters : Subscribe(f)
           \/ \E s \in Ids : UnsubscribeErase(s) \/ UnsubscribeDeactivate(s)
                             \/ UnsubscribeReturn(s) \/ CallbackUnsubscribe(s)
    PROVE  BusInv'
<1> USE DEF BusInv, TypeOK, Subscribe, UnsubscribeErase, EmptyToken, UnsubscribeDeactivate,
            UnsubscribeReturn, CallbackUnsubscribe
<1>1. QueueTypes' /\ CounterTypes'
  BY DEF QueueTypes, CounterTypes
<1>2. ThreadTypes'
  BY DEF ThreadTypes
<1>3. SubscriberTypes'
  <2>1. ASSUME NEW f \in Filters, Subscribe(f) PROVE SubscriberTypes'
    BY <2>1, BusAssumption DEF SubscriberTypes, Ids
  <2>2. ASSUME NEW s \in Ids, UnsubscribeErase(s) PROVE SubscriberTypes'
    BY <2>2 DEF SubscriberTypes
  <2>3. ASSUME NEW s \in Ids, UnsubscribeDeactivate(s) \/ UnsubscribeReturn(s)
        PROVE  SubscriberTypes'
    BY <2>3 DEF SubscriberTypes
  <2>4. ASSUME NEW s \in Ids, CallbackUnsubscribe(s) PROVE SubscriberTypes'
    BY <2>4 DEF SubscriberTypes
  <2> QED BY <2>1, <2>2, <2>3, <2>4
<1>4. DispatcherInv'
  BY DEF DispatcherInv
<1> QED BY <1>1, <1>2, <1>3, <1>4

LEMMA StopType ==
    ASSUME BusInv,
           CallbackStop \/ \E t \in Stoppers : StopCall(t) \/ StopJoin(t) \/ StopAwait(t)
    PROVE  BusInv'
<1> USE DEF BusInv, TypeOK, CallbackStop, StopCall, StopJoin, StopAwait, RequestStop,
            MarkJoined, NotifyAll
<1>1. QueueTypes' /\ CounterTypes' /\ SubscriberTypes'
  BY DEF QueueTypes, CounterTypes, SubscriberTypes
<1>2. ThreadTypes'
  <2>1. CASE CallbackStop
    BY <2>1 DEF ThreadTypes
  <2>2. ASSUME NEW t \in Stoppers, StopCall(t) PROVE ThreadTypes'
    BY <2>2 DEF ThreadTypes
  <2>3. ASSUME NEW t \in Stoppers, StopJoin(t) PROVE ThreadTypes'
    BY <2>3 DEF ThreadTypes
  <2>4. ASSUME NEW t \in Stoppers, StopAwait(t) PROVE ThreadTypes'
    BY <2>4 DEF ThreadTypes
  <2> QED BY <2>1, <2>2, <2>3, <2>4
<1>3. DispatcherInv'
  BY DEF DispatcherInv
<1> QED BY <1>1, <1>2, <1>3

(* The event in the dispatcher's hands is one event of the queue's type.     *)
LEMMA TakeType ==
    ASSUME BusInv, DispatchTake
    PROVE  /\ queue \in Seq(Event) /\ queue # <<>> /\ Head(queue) \in Event
           /\ queue' \in Seq(Event) /\ Len(queue') = Len(queue) - 1
           /\ log' = Append(log, Head(queue).seq) /\ Head(queue).seq \in SeqNums
           /\ event' \in Seq(Event) /\ Len(event') = 1
<1>1. queue \in Seq(Event) /\ queue # <<>>
  BY DEF DispatchTake, BusInv, TypeOK, QueueTypes
<1>2. /\ Head(queue) \in Event
      /\ Tail(queue) \in Seq(Event) /\ Len(Tail(queue)) = Len(queue) - 1
  BY <1>1, HeadAndTail
<1>3. Head(queue).seq \in SeqNums
  BY <1>2 DEF Event
<1> QED BY <1>1, <1>2, <1>3 DEF DispatchTake

LEMMA DispatcherType == ASSUME BusInv, Dispatcher PROVE BusInv'
<1> USE DEF BusInv, TypeOK
<1>1. CASE DispatchWait
  BY <1>1 DEF DispatchWait, QueueTypes, CounterTypes, ThreadTypes, SubscriberTypes,
              DispatcherInv
<1>2. CASE DispatchTake
  <2>1. QueueTypes' /\ CounterTypes'
    <3>1. log' \in Seq(SeqNums)
      <4>1. log \in Seq(SeqNums)
        BY DEF QueueTypes
      <4>2. log' = Append(log, Head(queue).seq) /\ Head(queue).seq \in SeqNums
        BY <1>2, TakeType
      <4> QED BY <4>1, <4>2, Appended
    <3>2. queue' \in Seq(Event) /\ Len(queue') <= Capacity
      BY <1>2, TakeType, LengthOf, BusAssumption DEF QueueTypes
    <3> QED BY <1>2, <3>1, <3>2 DEF DispatchTake, QueueTypes, CounterTypes
  <2>2. ThreadTypes'
    BY <1>2, TakeType DEF DispatchTake, ThreadTypes
  <2>3. SubscriberTypes' /\ DispatcherInv'
    BY <1>2, TakeType DEF DispatchTake, SubscriberTypes, DispatcherInv
  <2> QED BY <2>1, <2>2, <2>3
<1>3. CASE DispatchCollect
  BY <1>3 DEF DispatchCollect, QueueTypes, CounterTypes, ThreadTypes, SubscriberTypes,
              DispatcherInv
<1>4. CASE DispatchDeliver
  <2>0. /\ dpc = "deliver"
        /\ UNCHANGED <<event, subscribers, next_subscriber, filter, active, owner,
                       selfRemoved, queueVars, stopping, started, stopped>>
    BY <1>4 DEF DispatchDeliver
  <2>1. QueueTypes' /\ CounterTypes' /\ ThreadTypes'
    BY <1>4 DEF DispatchDeliver, QueueTypes, CounterTypes, ThreadTypes
  <2>2. PICK s \in targets :
          /\ targets' = targets \ {s}
          /\ IF active[s]
             THEN /\ in_flight' = [in_flight EXCEPT ![s] = @ + 1]
                  /\ current' = s
                  /\ dpc' = "callback"
                  /\ delivered' = [delivered EXCEPT ![s] = Append(@, event[1].seq)]
             ELSE UNCHANGED <<in_flight, current, dpc, delivered>>
    BY <1>4 DEF DispatchDeliver, Callable, RemainingAfter
  <2>3. s \in Ids /\ s # None /\ current = None /\ in_flight[s] = 0
    BY <2>0, BusAssumption DEF SubscriberTypes, DispatcherInv, Ids, None
  <2>4. event[1].seq \in SeqNums
    <3>1. event \in Seq(Event) /\ event # <<>>
      BY <2>0 DEF ThreadTypes, DispatcherInv
    <3>2. event[1] \in Event
      BY <3>1, NoElements, LengthOf
    <3> QED BY <3>2 DEF Event
  <2>5. CASE active[s]
    <3>1. delivered' \in [Ids -> Seq(SeqNums)]
      <4>1. delivered \in [Ids -> Seq(SeqNums)] /\ delivered[s] \in Seq(SeqNums)
        BY <2>3 DEF SubscriberTypes
      <4>2. Append(delivered[s], event[1].seq) \in Seq(SeqNums)
        BY <4>1, <2>4, Appended
      <4> QED BY <2>2, <2>5, <4>1, <4>2
    <3>2. /\ in_flight' = [in_flight EXCEPT ![s] = 1]
          /\ in_flight \in [Ids -> {0, 1}]
      BY <2>2, <2>3, <2>5 DEF SubscriberTypes
    <3>3. SubscriberTypes'
      BY <2>0, <2>2, <2>3, <2>5, <3>1, <3>2 DEF SubscriberTypes
    <3>4. \A u \in Ids : in_flight'[u] = IF u = current' THEN 1 ELSE 0
      BY <2>2, <2>3, <2>5, <3>2, BusAssumption DEF DispatcherInv, Ids, None
    <3>5. DispatcherInv'
      BY <2>0, <2>2, <2>3, <2>5, <3>4, SMTT(30) DEF DispatcherInv
    <3> QED BY <2>1, <3>3, <3>5
  <2>6. CASE ~active[s]
    BY <2>0, <2>1, <2>2, <2>6 DEF SubscriberTypes, DispatcherInv
  <2> QED BY <2>5, <2>6
<1>5. CASE DispatchFinish
  <2>1. current \in Ids /\ in_flight[current] = 1
    BY <1>5 DEF DispatchFinish, DispatcherInv, SubscriberTypes
  <2>2. SubscriberTypes'
    BY <1>5, <2>1 DEF DispatchFinish, LeaveCallback, SubscriberTypes
  <2>3. QueueTypes' /\ CounterTypes' /\ ThreadTypes'
    BY <1>5 DEF DispatchFinish, QueueTypes, CounterTypes, ThreadTypes
  <2>4. DispatcherInv'
    BY <1>5, <2>1, BusAssumption
       DEF DispatchFinish, LeaveCallback, DispatcherInv, SubscriberTypes, Ids, None
  <2> QED BY <2>2, <2>3, <2>4
<1>6. CASE DispatchDone
  BY <1>6 DEF DispatchDone, QueueTypes, CounterTypes, ThreadTypes, SubscriberTypes,
              DispatcherInv
<1>7. CASE DispatchExit
  BY <1>7 DEF DispatchExit, StoppingAndDrained, QueueTypes, CounterTypes, ThreadTypes,
              SubscriberTypes, DispatcherInv
<1>8. CASE DispatchStopped
  BY <1>8 DEF DispatchStopped, QueueTypes, CounterTypes, ThreadTypes, SubscriberTypes,
              DispatcherInv
<1>9. CASE DispatchNotify
  BY <1>9 DEF DispatchNotify, NotifyAll, QueueTypes, CounterTypes, ThreadTypes,
              SubscriberTypes, DispatcherInv
<1> QED BY <1>1, <1>2, <1>3, <1>4, <1>5, <1>6, <1>7, <1>8, <1>9 DEF Dispatcher

LEMMA BusStep == BusInv /\ [Next]_vars => BusInv'
<1> SUFFICES ASSUME BusInv, [Next]_vars PROVE BusInv'
  OBVIOUS
<1>1. CASE Next
  BY <1>1, StartType, PublishType, SubscriberType, StopType, DispatcherType DEF Next
<1>2. CASE UNCHANGED vars
  BY <1>2 DEF vars, BusInv, TypeOK, QueueTypes, CounterTypes, ThreadTypes, SubscriberTypes,
              DispatcherInv
<1> QED BY <1>1, <1>2

(* Every reachable state of the bus has the types of EventBus::State, the    *)
(* queue never outgrows its configured capacity and a callback is counted in *)
(* flight at most once.                                                      *)
THEOREM TypeCorrect == Spec => []TypeOK
<1>1. Spec => []BusInv
  BY BusInit, BusStep, PTL DEF Spec
<1>2. BusInv => TypeOK
  BY DEF BusInv
<1> QED BY <1>1, <1>2, PTL

(* Conservation is inductive given the types: each action moves one event    *)
(* from one term of the sum to another.                                      *)
LEMMA ConservationStep == BusInv /\ Conservation /\ [Next]_vars => Conservation'
<1> SUFFICES ASSUME BusInv, Conservation, [Next]_vars PROVE Conservation'
  OBVIOUS
<1>0. /\ accepted \in Nat /\ dispatched \in Nat /\ coalesces \in Nat
      /\ queue \in Seq(Event) /\ event \in Seq(Event)
      /\ Len(queue) \in Nat /\ Len(event) \in Nat
  BY LengthOf DEF BusInv, TypeOK, QueueTypes, CounterTypes, ThreadTypes
<1>1. ASSUME NEW k \in Keys, Publish(k) PROVE Conservation'
  <2>1. CASE PublishDropped(k)
    BY <2>1 DEF PublishDropped, Conservation
  <2>2. CASE PublishAppended(k)
    <3>1. Len(queue) < Capacity
      BY <2>2, BusAssumption DEF PublishAppended, Full, BusInv, TypeOK, QueueTypes
    <3>2. Len(queue') = Len(queue) + 1
      BY <1>0, <2>2, <3>1, AdmitType DEF PublishAppended
    <3>3. /\ accepted' = accepted + 1
          /\ UNCHANGED <<dispatched, coalesces, event>>
      BY <2>2 DEF PublishAppended, Admit
    <3> QED BY <1>0, <3>2, <3>3 DEF Conservation
  <2>3. CASE PublishCoalesced(k)
    <3>1. PICK i \in Coalescible(k) : Admit(k, Erase(queue, i))
      BY <2>3 DEF PublishCoalesced
    <3>2. i \in 1 .. Len(queue) /\ Len(queue) = Capacity
      BY <2>3, <3>1 DEF Coalescible, PublishCoalesced, Full
    <3>3. Erase(queue, i) \in Seq(Event) /\ Len(Erase(queue, i)) = Len(queue) - 1
      BY <1>0, <3>2, EraseType
    <3>4. Len(queue') = Len(queue)
      BY <1>0, <2>3, <3>1, <3>2, <3>3, AdmitType DEF PublishCoalesced
    <3> QED BY <1>0, <2>3, <3>1, <3>4
            DEF PublishCoalesced, CountCoalesced, Admit, Conservation
  <2> QED BY <1>1, <2>1, <2>2, <2>3 DEF Publish
<1>2. CASE DispatchTake
  <2>1. event = <<>>
    BY <1>2 DEF DispatchTake, BusInv, DispatcherInv
  <2>2. Len(queue') = Len(queue) - 1 /\ Len(event') = 1
    BY <1>2, TakeType
  <2> QED BY <1>0, <1>2, <2>1, <2>2 DEF DispatchTake, Conservation
<1>3. CASE DispatchDone
  <2>0. event # <<>> /\ Len(event) <= 1
    BY <1>3 DEF DispatchDone, BusInv, DispatcherInv, TypeOK, ThreadTypes
  <2>1. Len(event) = 1
    <3>1. Len(event) # 0
      BY <1>0, <2>0, NoElements
    <3>2. Len(event) \in Nat /\ Len(event) <= 1
      BY <1>0, <2>0
    <3>3. \A n \in Nat : n # 0 /\ n <= 1 => n = 1
      OBVIOUS
    <3> QED BY <3>1, <3>2, <3>3
  <2> QED BY <1>0, <1>3, <2>1 DEF DispatchDone, Conservation
<1>4. CASE Dispatcher /\ ~DispatchTake /\ ~DispatchDone
  BY <1>4 DEF Dispatcher, DispatchWait, DispatchCollect, DispatchDeliver, DispatchFinish,
              DispatchExit, DispatchStopped, DispatchNotify, Conservation
<1>5. CASE \/ Start \/ CallbackStop
           \/ \E f \in Filters : Subscribe(f)
           \/ \E s \in Ids : UnsubscribeErase(s) \/ UnsubscribeDeactivate(s)
                             \/ UnsubscribeReturn(s) \/ CallbackUnsubscribe(s)
           \/ \E t \in Stoppers : StopCall(t) \/ StopJoin(t) \/ StopAwait(t)
  BY <1>5 DEF Start, CallbackStop, Subscribe, UnsubscribeErase, UnsubscribeDeactivate,
              UnsubscribeReturn, CallbackUnsubscribe, StopCall, StopJoin, StopAwait,
              RequestStop, Conservation
<1>6. CASE UNCHANGED vars
  BY <1>6 DEF vars, Conservation
<1> QED BY <1>1, <1>2, <1>3, <1>4, <1>5, <1>6 DEF Next

(* The telemetry of the bus adds up in every reachable state: publish(),     *)
(* coalescing and the dispatcher lose count of no accepted event.            *)
THEOREM ConservationHolds == Spec => []Conservation
<1>1. Init => Conservation
  BY DEF Init, Conservation
<1>2. Spec => [](BusInv /\ Conservation)
  BY <1>1, BusInit, BusStep, ConservationStep, PTL DEF Spec
<1> QED BY <1>2, PTL

(* stop() drains the queue: the dispatcher sets `stopped` only when every    *)
(* accepted event was dispatched or coalesced away.                          *)
THEOREM StopDrains == Spec => []DrainedWhenStopped
<1>1. Init => Conservation
  BY DEF Init, Conservation
<1>2. BusInv /\ Conservation => DrainedWhenStopped
  <2> SUFFICES ASSUME BusInv, Conservation, stopped PROVE DrainedWhenStopped
    BY DEF DrainedWhenStopped
  <2>1. queue = <<>> /\ event = <<>>
    BY DEF BusInv, DispatcherInv
  <2>2. accepted \in Nat /\ dispatched \in Nat /\ coalesces \in Nat
    BY DEF BusInv, TypeOK, CounterTypes
  <2>3. accepted = dispatched + coalesces
    BY <2>1, <2>2 DEF Conservation
  <2> QED BY <2>1, <2>3 DEF DrainedWhenStopped
<1>3. Spec => [](BusInv /\ Conservation)
  BY <1>1, BusInit, BusStep, ConservationStep, PTL DEF Spec
<1> QED BY <1>2, <1>3, PTL

-----------------------------------------------------------------------------
(* Subscriptions *)

(* How far unsubscribe() got, by the owner or inside a callback, against the *)
(* registry, the active flag and the callbacks in flight.  `active` can be   *)
(* set only while the owner has not reached the subscriber's own section,    *)
(* which is why a dispatcher that collected its targets earlier skips it.    *)
SubscriptionInv ==
    \A s \in Ids :
        /\ s >= next_subscriber => owner[s] = "unborn"
        /\ owner[s] = "unborn" => s \notin selfRemoved /\ s \notin subscribers
        /\ active[s] => /\ s \notin selfRemoved
                        /\ owner[s] = "erased" \/ (owner[s] = "held" /\ s \in subscribers)
        /\ owner[s] = "held" => s \in subscribers \/ s \in selfRemoved
        /\ s \in selfRemoved => s \notin subscribers /\ ~active[s]
        /\ s \in subscribers => owner[s] = "held"
        /\ owner[s] = "returned" /\ s \notin selfRemoved => in_flight[s] = 0

LEMMA SubscriptionInit == Init => SubscriptionInv
  BY BusAssumption DEF Init, SubscriptionInv, Ids

LEMMA SubscriptionStep == BusInv /\ SubscriptionInv /\ [Next]_vars => SubscriptionInv'
<1> SUFFICES ASSUME BusInv, SubscriptionInv, [Next]_vars PROVE SubscriptionInv'
  OBVIOUS
<1>0. SubscriberTypes
  BY DEF BusInv, TypeOK
<1>1. ASSUME NEW f \in Filters, Subscribe(f) PROVE SubscriptionInv'
  BY <1>0, <1>1, BusAssumption DEF Subscribe, SubscriptionInv, SubscriberTypes, Ids
<1>2. ASSUME NEW s \in Ids, UnsubscribeErase(s) PROVE SubscriptionInv'
  BY <1>0, <1>2 DEF UnsubscribeErase, EmptyToken, SubscriptionInv, SubscriberTypes
<1>3. ASSUME NEW s \in Ids, UnsubscribeDeactivate(s) PROVE SubscriptionInv'
  BY <1>0, <1>3 DEF UnsubscribeDeactivate, SubscriptionInv, SubscriberTypes
<1>4. ASSUME NEW s \in Ids, UnsubscribeReturn(s) PROVE SubscriptionInv'
  BY <1>0, <1>4 DEF UnsubscribeReturn, NoCallbackRunning, SubscriptionInv, SubscriberTypes
<1>5. ASSUME NEW s \in Ids, CallbackUnsubscribe(s) PROVE SubscriptionInv'
  BY <1>0, <1>5 DEF CallbackUnsubscribe, SubscriptionInv, SubscriberTypes
<1>6. CASE DispatchDeliver
  <2>1. PICK s \in targets :
          IF active[s] THEN in_flight' = [in_flight EXCEPT ![s] = @ + 1]
                       ELSE in_flight' = in_flight
    BY <1>6 DEF DispatchDeliver, Callable
  <2>2. UNCHANGED <<subscribers, next_subscriber, active, owner, selfRemoved>>
    BY <1>6 DEF DispatchDeliver
  <2>3. s \in Ids
    BY <1>0 DEF SubscriberTypes
  <2> QED BY <1>0, <2>1, <2>2, <2>3 DEF SubscriptionInv, SubscriberTypes
<1>7. CASE DispatchFinish
  <2>1. /\ in_flight' = [in_flight EXCEPT ![current] = @ - 1]
        /\ UNCHANGED <<subscribers, next_subscriber, active, owner, selfRemoved>>
    BY <1>7 DEF DispatchFinish, LeaveCallback
  <2>2. current \in Ids /\ in_flight[current] = 1
    BY <1>7 DEF DispatchFinish, BusInv, DispatcherInv, TypeOK, SubscriberTypes
  <2> QED BY <1>0, <2>1, <2>2 DEF SubscriptionInv, SubscriberTypes
<1>8. CASE UNCHANGED subVars
  BY <1>8 DEF SubscriptionInv
<1>9. \/ \E f \in Filters : Subscribe(f)
      \/ \E s \in Ids : UnsubscribeErase(s) \/ UnsubscribeDeactivate(s)
                        \/ UnsubscribeReturn(s) \/ CallbackUnsubscribe(s)
      \/ DispatchDeliver \/ DispatchFinish \/ UNCHANGED subVars
  <2>1. ASSUME NEW k \in Keys, Publish(k) PROVE UNCHANGED subVars
    BY <2>1 DEF Publish, PublishDropped, PublishAppended, PublishCoalesced, Admit
  <2>2. CASE Dispatcher
    BY <2>2 DEF Dispatcher, DispatchWait, DispatchTake, DispatchCollect, DispatchDone,
                DispatchExit, DispatchStopped, DispatchNotify
  <2>3. ASSUME NEW t \in Stoppers, StopCall(t) \/ StopJoin(t) \/ StopAwait(t)
        PROVE  UNCHANGED subVars
    BY <2>3 DEF StopCall, StopJoin, StopAwait
  <2>4. CASE Start \/ CallbackStop \/ UNCHANGED vars
    BY <2>4 DEF Start, CallbackStop, vars
  <2> QED BY <2>1, <2>2, <2>3, <2>4 DEF Next
<1> QED BY <1>1, <1>2, <1>3, <1>4, <1>5, <1>6, <1>7, <1>8, <1>9

LEMMA SubscriptionsHold == Spec => [](BusInv /\ SubscriptionInv)
  BY BusInit, BusStep, SubscriptionInit, SubscriptionStep, PTL DEF Spec

(* unsubscribe() by an owner that found its subscription in the registry     *)
(* returns only after the callback that was running has finished.            *)
THEOREM UnsubscribeWaits == Spec => []UnsubscribeSynchronises
<1>1. SubscriptionInv => UnsubscribeSynchronises
  BY DEF SubscriptionInv, UnsubscribeSynchronises
<1> QED BY <1>1, SubscriptionsHold, PTL

(* The dispatcher never calls a subscriber whose unsubscribe() has returned, *)
(* although it copied its targets out of the registry before.                *)
THEOREM NoLateCallback == Spec => NoCallbackAfterUnsubscribe
<1> DEFINE Late == \A s \in Ids : delivered'[s] # delivered[s]
                      => owner[s] # "returned" /\ s \notin selfRemoved
<1>1. BusInv /\ SubscriptionInv /\ [Next]_vars => [Late]_vars
  <2> SUFFICES ASSUME BusInv, SubscriptionInv, Next PROVE Late
    OBVIOUS
  <2>1. CASE DispatchDeliver
    <3>1. PICK s \in targets :
            IF active[s] THEN delivered' = [delivered EXCEPT ![s] = Append(@, event[1].seq)]
                         ELSE delivered' = delivered
      BY <2>1 DEF DispatchDeliver, Callable
    <3>2. delivered \in [Ids -> Seq(SeqNums)] /\ s \in Ids
      BY DEF BusInv, TypeOK, SubscriberTypes
    <3> QED BY <3>1, <3>2 DEF SubscriptionInv
  <2>2. CASE ~DispatchDeliver
    <3>1. ASSUME NEW k \in Keys, Publish(k) PROVE UNCHANGED delivered
      BY <3>1 DEF Publish, PublishDropped, PublishAppended, PublishCoalesced, Admit
    <3>2. CASE Dispatcher
      BY <2>2, <3>2 DEF Dispatcher, DispatchWait, DispatchTake, DispatchCollect,
            DispatchFinish, DispatchDone, DispatchExit, DispatchStopped, DispatchNotify
    <3>3. ASSUME NEW t \in Stoppers, StopCall(t) \/ StopJoin(t) \/ StopAwait(t)
          PROVE  UNCHANGED delivered
      BY <3>3 DEF StopCall, StopJoin, StopAwait
    <3>4. CASE \/ Start \/ CallbackStop
               \/ \E f \in Filters : Subscribe(f)
               \/ \E s \in Ids : UnsubscribeErase(s) \/ UnsubscribeDeactivate(s)
                                 \/ UnsubscribeReturn(s) \/ CallbackUnsubscribe(s)
      BY <3>4 DEF Start, CallbackStop, Subscribe, UnsubscribeErase, UnsubscribeDeactivate,
                  UnsubscribeReturn, CallbackUnsubscribe
    <3> QED BY <3>1, <3>2, <3>3, <3>4 DEF Next
  <2> QED BY <2>1, <2>2
<1>2. Spec => [][Late]_vars
  BY <1>1, SubscriptionsHold, PTL DEF Spec
<1> QED BY <1>2 DEF NoCallbackAfterUnsubscribe

-----------------------------------------------------------------------------
(* Order *)

(* AdmissionOrder with the reason it holds: while the counter has not        *)
(* wrapped, every number handed out so far is below it.                      *)
Numbered(q, r, n) ==
    /\ \A i, j \in 1 .. Len(q) : i < j => q[i].seq < q[j].seq
    /\ \A i, j \in 1 .. Len(r) : i < j => r[i] < r[j]
    /\ \A i \in 1 .. Len(r), j \in 1 .. Len(q) : r[i] < q[j].seq
    /\ n # 0 => /\ \A i \in 1 .. Len(q) : q[i].seq < n
                /\ \A i \in 1 .. Len(r) : r[i] < n

OrderInv == Numbered(queue, log, next_sequence)

(* Past the last sequence number the counter is 0, and publish() stops.      *)
LEMMA WrapsToZero ==
    ASSUME NEW n \in SeqNums, (n + 1) % SequenceModulus # 0
    PROVE  (n + 1) % SequenceModulus = n + 1
<1>1. CASE n + 1 < SequenceModulus
  BY <1>1, BusAssumption DEF SeqNums
<1>2. CASE n + 1 = SequenceModulus
  BY <1>2, BusAssumption
<1> QED BY <1>1, <1>2, BusAssumption DEF SeqNums

LEMMA OrderedAppend ==
    ASSUME NEW q \in Seq(Event), NEW r \in Seq(SeqNums), NEW k \in Keys,
           NEW n \in SeqNums, Numbered(q, r, n)
    PROVE  Numbered(Append(q, [key |-> k, seq |-> n]), r, (n + 1) % SequenceModulus)
<1> DEFINE e == [key |-> k, seq |-> n]
           p == Append(q, e)
           m == (n + 1) % SequenceModulus
<1>1. e \in Event /\ e.seq = n
  BY DEF Event
<1>2. /\ Len(q) \in Nat /\ Len(r) \in Nat /\ Len(p) = Len(q) + 1
      /\ \A i \in 1 .. Len(q) : p[i] = q[i]
      /\ p[Len(q) + 1] = e
  <2>1. Len(q) \in Nat /\ Len(r) \in Nat
    BY LengthOf
  <2>2. e \in Event
    BY <1>1
  <2> HIDE DEF e
  <2>3. /\ Len(Append(q, e)) = Len(q) + 1 /\ Append(q, e)[Len(q) + 1] = e
        /\ \A i \in 1 .. Len(q) : Append(q, e)[i] = q[i]
    BY <2>2, Appended
  <2> QED BY <2>1, <2>3, Zenon
<1>3. /\ \A i \in 1 .. Len(q) : q[i] \in Event /\ q[i].seq \in SeqNums
      /\ \A i \in 1 .. Len(r) : r[i] \in SeqNums
  <2>1. /\ \A i \in 1 .. Len(q) : q[i] \in Event
        /\ \A i \in 1 .. Len(r) : r[i] \in SeqNums
    BY LengthOf
  <2> QED BY <2>1 DEF Event
<1>4. m # 0 => m = n + 1
  BY WrapsToZero
<1> HIDE DEF e, p, m
<1>5. SeqNums \subseteq Int /\ n \in Int
  BY BusAssumption DEF SeqNums
<1>6. \A i, j \in 1 .. Len(p) : i < j => p[i].seq < p[j].seq
  <2> SUFFICES ASSUME NEW i \in 1 .. Len(p), NEW j \in 1 .. Len(p), i < j
               PROVE  p[i].seq < p[j].seq
    OBVIOUS
  <2>1. i \in 1 .. Len(q) /\ (j \in 1 .. Len(q) \/ j = Len(q) + 1)
    BY <1>2
  <2>2. CASE j \in 1 .. Len(q)
    BY <1>2, <2>1, <2>2 DEF Numbered
  <2>3. CASE j = Len(q) + 1
    <3>1. p[i] = q[i] /\ p[j].seq = n
      BY <1>1, <1>2, <2>1, <2>3
    <3>2. n # 0 /\ q[i].seq < n
      BY <2>1, BusAssumption DEF Numbered, SeqNums
    <3> QED BY <3>1, <3>2
  <2> QED BY <2>1, <2>2, <2>3
<1>7. \A i \in 1 .. Len(r), j \in 1 .. Len(p) : r[i] < p[j].seq
  <2> SUFFICES ASSUME NEW i \in 1 .. Len(r), NEW j \in 1 .. Len(p)
               PROVE  r[i] < p[j].seq
    OBVIOUS
  <2>1. j \in 1 .. Len(q) \/ j = Len(q) + 1
    BY <1>2
  <2>2. CASE j \in 1 .. Len(q)
    BY <1>2, <2>2 DEF Numbered
  <2>3. CASE j = Len(q) + 1
    <3>1. n # 0 /\ r[i] < n
      BY DEF Numbered, SeqNums
    <3> QED BY <1>1, <1>2, <2>3, <3>1
  <2> QED BY <2>1, <2>2, <2>3
<1>8. ASSUME m # 0
      PROVE  /\ \A i \in 1 .. Len(p) : p[i].seq < m
             /\ \A i \in 1 .. Len(r) : r[i] < m
  <2>1. \A i \in 1 .. Len(p) : p[i].seq = n \/ (p[i].seq \in SeqNums /\ p[i].seq < n)
    <3> SUFFICES ASSUME NEW i \in 1 .. Len(p)
                 PROVE  p[i].seq = n \/ (p[i].seq \in SeqNums /\ p[i].seq < n)
      OBVIOUS
    <3>1. i \in 1 .. Len(q) \/ i = Len(q) + 1
      BY <1>2
    <3> QED BY <1>1, <1>2, <1>3, <3>1 DEF Numbered, SeqNums
  <2>2. \A i \in 1 .. Len(r) : r[i] \in SeqNums /\ r[i] < n
    <3>1. n # 0
      BY DEF SeqNums
    <3> QED BY <1>3, <3>1 DEF Numbered
  <2>3. m = n + 1
    BY <1>4, <1>8
  <2> QED BY <1>5, <2>1, <2>2, <2>3 DEF SeqNums
<1>9. \A i, j \in 1 .. Len(r) : i < j => r[i] < r[j]
  BY DEF Numbered
<1>10. Numbered(p, r, m)
  BY <1>6, <1>7, <1>8, <1>9 DEF Numbered
<1> QED BY <1>10 DEF e, p, m

LEMMA OrderedErase ==
    ASSUME NEW q \in Seq(Event), NEW r \in Seq(SeqNums), NEW n, NEW i \in 1 .. Len(q),
           Numbered(q, r, n)
    PROVE  Numbered(Erase(q, i), r, n)
<1> DEFINE p == Erase(q, i)
           old(j) == IF j < i THEN j ELSE j + 1
<1>1. /\ Len(q) \in Nat /\ Len(p) = Len(q) - 1
      /\ \A j \in 1 .. (Len(q) - 1) : p[j] = IF j < i THEN q[j] ELSE q[j + 1]
  BY EraseType, LengthOf
<1> HIDE DEF p
<1>2. \A j \in 1 .. Len(p) : old(j) \in 1 .. Len(q) /\ p[j] = q[old(j)]
  BY <1>1
<1>3. \A j, l \in 1 .. Len(p) : j < l => old(j) < old(l)
  BY <1>1
<1> HIDE DEF old
<1>4. Numbered(p, r, n)
  BY <1>2, <1>3 DEF Numbered
<1> QED BY <1>4 DEF p

LEMMA OrderedTake ==
    ASSUME NEW q \in Seq(Event), q # <<>>, NEW r \in Seq(SeqNums), NEW n \in Int,
           Numbered(q, r, n)
    PROVE  Numbered(Tail(q), Append(r, Head(q).seq), n)
<1> DEFINE p == Tail(q)
           t == Append(r, Head(q).seq)
<1>1. /\ Head(q) \in Event /\ Head(q) = q[1] /\ Len(q) \in Nat /\ Len(q) # 0
      /\ Len(p) = Len(q) - 1 /\ \A i \in 1 .. Len(p) : p[i] = q[i + 1]
  BY HeadAndTail, NoElements, LengthOf
<1>2. Head(q).seq \in SeqNums
  BY <1>1 DEF Event
<1>3. /\ Len(r) \in Nat /\ Len(t) = Len(r) + 1
      /\ \A i \in 1 .. Len(r) : t[i] = r[i]
      /\ t[Len(r) + 1] = q[1].seq
  BY <1>1, <1>2, Appended, LengthOf
<1>4. \A i \in 1 .. Len(t) : i \in 1 .. Len(r) \/ i = Len(r) + 1
  BY <1>3
<1>5. 1 \in 1 .. Len(q) /\ \A i \in 1 .. Len(p) : i + 1 \in 1 .. Len(q) /\ 1 < i + 1
  BY <1>1
<1> HIDE DEF p, t
<1>6. \A i, j \in 1 .. Len(p) : i < j => p[i].seq < p[j].seq
  <2> SUFFICES ASSUME NEW i \in 1 .. Len(p), NEW j \in 1 .. Len(p), i < j
               PROVE  p[i].seq < p[j].seq
    OBVIOUS
  <2>1. i + 1 < j + 1
    BY <1>1
  <2> QED BY <1>1, <1>5, <2>1 DEF Numbered
<1>7. \A i, j \in 1 .. Len(t) : i < j => t[i] < t[j]
  <2> SUFFICES ASSUME NEW i \in 1 .. Len(t), NEW j \in 1 .. Len(t), i < j
               PROVE  t[i] < t[j]
    OBVIOUS
  <2>1. i \in 1 .. Len(r)
    BY <1>3
  <2> QED BY <1>3, <1>4, <1>5, <2>1 DEF Numbered
<1>8. \A i \in 1 .. Len(t), j \in 1 .. Len(p) : t[i] < p[j].seq
  BY <1>1, <1>3, <1>4, <1>5 DEF Numbered
<1>9. n # 0 => /\ \A i \in 1 .. Len(p) : p[i].seq < n
               /\ \A i \in 1 .. Len(t) : t[i] < n
  BY <1>1, <1>3, <1>4, <1>5 DEF Numbered
<1>10. Numbered(p, t, n)
  BY <1>6, <1>7, <1>8, <1>9 DEF Numbered
<1> QED BY <1>10 DEF p, t

(* What an accepting publish() does to the queue and to the counter.         *)
LEMMA AdmitOrder ==
    ASSUME BusInv, NEW k \in Keys, NEW q \in Seq(Event), Accepting, Admit(k, q),
           Numbered(q, log, next_sequence)
    PROVE  OrderInv'
<1>1. next_sequence \in SeqNums /\ log \in Seq(SeqNums)
  BY BusAssumption DEF Accepting, BusInv, TypeOK, QueueTypes, SeqNums
<1>2. Numbered(Append(q, [key |-> k, seq |-> next_sequence]), log,
               (next_sequence + 1) % SequenceModulus)
  BY <1>1, OrderedAppend
<1> QED BY <1>2 DEF Admit, PushBack, OrderInv

(* Only publish() and the dispatcher touch the queue.                        *)
LEMMA QueueSteps ==
    ASSUME [Next]_vars
    PROVE  \/ \E k \in Keys : Publish(k)
           \/ DispatchTake
           \/ UNCHANGED <<queue, log, next_sequence, admitted>>
<1>1. CASE Dispatcher
  BY <1>1 DEF Dispatcher, DispatchWait, DispatchCollect, DispatchDeliver, DispatchFinish,
              DispatchDone, DispatchExit, DispatchStopped, DispatchNotify
<1>2. ASSUME NEW t \in Stoppers, StopCall(t) \/ StopJoin(t) \/ StopAwait(t)
      PROVE  UNCHANGED <<queue, log, next_sequence, admitted>>
  BY <1>2 DEF StopCall, StopJoin, StopAwait, RequestStop
<1>3. CASE \/ Start \/ CallbackStop \/ UNCHANGED vars
           \/ \E f \in Filters : Subscribe(f)
           \/ \E s \in Ids : UnsubscribeErase(s) \/ UnsubscribeDeactivate(s)
                             \/ UnsubscribeReturn(s) \/ CallbackUnsubscribe(s)
  BY <1>3 DEF Start, CallbackStop, RequestStop, vars, Subscribe, UnsubscribeErase,
              UnsubscribeDeactivate, UnsubscribeReturn, CallbackUnsubscribe
<1> QED BY <1>1, <1>2, <1>3 DEF Next

LEMMA OrderStep == BusInv /\ OrderInv /\ [Next]_vars => OrderInv'
<1> SUFFICES ASSUME BusInv, OrderInv, [Next]_vars PROVE OrderInv'
  OBVIOUS
<1>0. queue \in Seq(Event) /\ log \in Seq(SeqNums) /\ next_sequence \in Int
  BY BusAssumption DEF BusInv, TypeOK, QueueTypes
<1>1. ASSUME NEW k \in Keys, Publish(k) PROVE OrderInv'
  <2>1. CASE PublishDropped(k)
    BY <2>1 DEF PublishDropped, OrderInv
  <2>2. CASE PublishAppended(k)
    BY <1>0, <2>2, AdmitOrder DEF PublishAppended, OrderInv
  <2>3. CASE PublishCoalesced(k)
    <3>1. PICK i \in 1 .. Len(queue) : Admit(k, Erase(queue, i))
      BY <2>3 DEF PublishCoalesced, Coalescible
    <3>2. Erase(queue, i) \in Seq(Event)
      BY <1>0, EraseType
    <3>3. Numbered(Erase(queue, i), log, next_sequence)
      BY <1>0, OrderedErase DEF OrderInv
    <3> QED BY <2>3, <3>1, <3>2, <3>3, AdmitOrder DEF PublishCoalesced
  <2> QED BY <1>1, <2>1, <2>2, <2>3 DEF Publish
<1>2. CASE DispatchTake
  <2>1. queue # <<>>
    BY <1>2 DEF DispatchTake
  <2>2. Numbered(Tail(queue), Append(log, Head(queue).seq), next_sequence)
    BY <1>0, <2>1, OrderedTake DEF OrderInv
  <2> QED BY <1>2, <2>2 DEF DispatchTake, OrderInv
<1>3. CASE UNCHANGED <<queue, log, next_sequence, admitted>>
  BY <1>3 DEF OrderInv
<1> QED BY <1>1, <1>2, <1>3, QueueSteps

LEMMA OrderHolds == Spec => [](BusInv /\ OrderInv)
<1>1. Init => OrderInv
  BY DEF Init, OrderInv, Numbered
<1> QED BY <1>1, BusInit, BusStep, OrderStep, PTL DEF Spec

(* The dispatcher takes events in the order publish() accepted them, through *)
(* coalescing and up to the wrap of the sequence counter.                    *)
THEOREM OrderIsKept == Spec => []AdmissionOrder
<1>1. BusInv /\ OrderInv => AdmissionOrder
  <2> SUFFICES ASSUME BusInv, OrderInv PROVE AdmissionOrder
    OBVIOUS
  <2>1. DOMAIN queue = 1 .. Len(queue) /\ DOMAIN log = 1 .. Len(log)
    BY LengthOf DEF BusInv, TypeOK, QueueTypes
  <2> QED BY <2>1 DEF OrderInv, Numbered, AdmissionOrder
<1> QED BY <1>1, OrderHolds, PTL

-----------------------------------------------------------------------------
(* Nothing is missed on the way to the queue's head *)

(* LostOnlyIfSuperseded with what makes it inductive: the number of an event *)
(* is its place among the admitted ones, until the counter has wrapped.      *)
Superseded(n) ==
    /\ admitted[n] \in Replaceable
    /\ \E m \in 1 .. Len(admitted) : m > n /\ admitted[m] = admitted[n]

AdmissionsInv ==
    /\ next_sequence # 0 => next_sequence = Len(admitted) + 1
    /\ \A i \in 1 .. Len(queue) : /\ queue[i].seq \in 1 .. Len(admitted)
                                  /\ admitted[queue[i].seq] = queue[i].key
    /\ \A i \in 1 .. Len(log) : log[i] \in 1 .. Len(admitted)
    /\ \A n \in 1 .. Len(admitted) : \/ \E i \in 1 .. Len(queue) : queue[i].seq = n
                                     \/ \E i \in 1 .. Len(log) : log[i] = n
                                     \/ Superseded(n)

(* q is the queue, or the queue without an event that k replaces.            *)
Remains(q, k) ==
    /\ \A i \in 1 .. Len(q) : \E j \in 1 .. Len(queue) : q[i] = queue[j]
    /\ \A j \in 1 .. Len(queue) : \/ \E i \in 1 .. Len(q) : q[i] = queue[j]
                                  \/ queue[j].key = k /\ k \in Replaceable

(* An accepted publication.                                                  *)
LEMMA AdmitKeepsAdmissions ==
    ASSUME BusInv, AdmissionsInv, NEW k \in Keys, NEW q \in Seq(Event), Accepting, Admit(k, q),
           Remains(q, k)
    PROVE  AdmissionsInv'
<1> DEFINE n == Len(admitted)
           e == [key |-> k, seq |-> next_sequence]
<1>0. /\ admitted \in Seq(Keys) /\ n \in Nat /\ Len(q) \in Nat
      /\ next_sequence = n + 1 /\ next_sequence \in SeqNums /\ SequenceModulus \in Nat \ {0, 1}
  <2>1. /\ admitted \in Seq(Keys) /\ next_sequence \in 0 .. (SequenceModulus - 1)
        /\ next_sequence # 0
    BY DEF BusInv, TypeOK, QueueTypes, Accepting
  <2>2. next_sequence = n + 1
    BY <2>1 DEF AdmissionsInv
  <2>3. SequenceModulus \in Nat \ {0, 1}
    BY BusAssumption
  <2>4. next_sequence \in SeqNums
    BY <2>1, <2>3 DEF SeqNums
  <2> QED BY <2>1, <2>2, <2>3, <2>4, LengthOf
<1>1. /\ queue' = Append(q, e) /\ admitted' = Append(admitted, k) /\ log' = log
      /\ next_sequence' = (next_sequence + 1) % SequenceModulus
  BY DEF Admit, PushBack
<1>2. /\ Len(admitted') = n + 1 /\ admitted'[n + 1] = k
      /\ \A m \in 1 .. n : admitted'[m] = admitted[m]
  <2>1. admitted \in Seq(Keys) /\ admitted' = Append(admitted, k)
    BY <1>0, <1>1
  <2> QED BY <2>1, Appended
<1>3. /\ Len(queue') = Len(q) + 1 /\ queue'[Len(q) + 1] = e
      /\ \A i \in 1 .. Len(q) : queue'[i] = q[i]
  <2>1. e \in Event /\ queue' = Append(q, e)
    BY <1>0, <1>1 DEF Event
  <2> HIDE DEF e
  <2>2. /\ Len(Append(q, e)) = Len(q) + 1 /\ Append(q, e)[Len(q) + 1] = e
        /\ \A i \in 1 .. Len(q) : Append(q, e)[i] = q[i]
    BY <2>1, Appended
  <2> QED BY <2>1, <2>2, Zenon
<1>10. e.key = k /\ e.seq = n + 1
  BY <1>0
<1> HIDE DEF n, e
<1>4. next_sequence' # 0 => next_sequence' = n + 2
  <2>1. next_sequence' # 0 => next_sequence' = next_sequence + 1
    BY <1>0, <1>1, WrapsToZero
  <2> QED BY <1>0, <2>1
<1>5. ASSUME NEW i \in 1 .. Len(queue')
      PROVE  /\ queue'[i].seq \in 1 .. n + 1 /\ admitted'[queue'[i].seq] = queue'[i].key
  <2>1. CASE i \in 1 .. Len(q)
    <3>1. PICK j \in 1 .. Len(queue) : q[i] = queue[j]
      BY <2>1 DEF Remains
    <3>2. queue[j].seq \in 1 .. n /\ admitted[queue[j].seq] = queue[j].key
      BY DEF AdmissionsInv, n
    <3> QED BY <1>0, <1>2, <1>3, <2>1, <3>1, <3>2
  <2>2. CASE i = Len(q) + 1
    BY <1>0, <1>2, <1>3, <1>10, <2>2
  <2> QED BY <1>0, <1>3, <2>1, <2>2
<1>6. \A i \in 1 .. Len(log) : log[i] \in 1 .. n + 1
  BY <1>0 DEF AdmissionsInv, n
<1>7. ASSUME NEW m \in 1 .. n + 1
      PROVE  \/ \E i \in 1 .. Len(queue') : queue'[i].seq = m
             \/ \E i \in 1 .. Len(log) : log[i] = m
             \/ Superseded(m)'
  <2>0. Len(q) + 1 \in 1 .. Len(queue') /\ \A i \in 1 .. Len(q) : i \in 1 .. Len(queue')
    BY <1>0, <1>3
  <2>1. CASE m = n + 1
    BY <1>3, <1>10, <2>0, <2>1
  <2>2. CASE m \in 1 .. n
    <3>1. ASSUME NEW l \in 1 .. n + 1, m < l, admitted'[l] = admitted[m], admitted[m] \in Replaceable
          PROVE  Superseded(m)'
      BY <1>2, <2>2, <3>1 DEF Superseded
    <3>2. ASSUME NEW j \in 1 .. Len(queue), queue[j].seq = m
          PROVE  (\E i \in 1 .. Len(queue') : queue'[i].seq = m) \/ Superseded(m)'
      <4>1. CASE \E i \in 1 .. Len(q) : q[i] = queue[j]
        BY <1>3, <2>0, <3>2, <4>1
      <4>2. CASE queue[j].key = k /\ k \in Replaceable
        <5>1. admitted[m] = k
          BY <3>2, <4>2 DEF AdmissionsInv
        <5>2. m < n + 1 /\ n + 1 \in 1 .. n + 1
          BY <1>0, <2>2
        <5> QED BY <1>2, <3>1, <4>2, <5>1, <5>2
      <4> QED BY <4>1, <4>2 DEF Remains
    <3>3. ASSUME Superseded(m) PROVE Superseded(m)'
      <4>1. PICK l \in 1 .. n : l > m /\ admitted[l] = admitted[m] /\ admitted[m] \in Replaceable
        BY <3>3 DEF Superseded, n
      <4>2. l \in 1 .. n + 1 /\ m < l /\ admitted'[l] = admitted[m]
        BY <1>0, <1>2, <4>1
      <4> QED BY <3>1, <4>1, <4>2
    <3> QED BY <2>2, <3>2, <3>3 DEF AdmissionsInv, n
  <2> QED BY <1>0, <2>1, <2>2
<1>8. /\ Len(admitted') = n + 1
      /\ next_sequence' # 0 => next_sequence' = Len(admitted') + 1
  BY <1>0, <1>2, <1>4
<1>9. log' = log
  BY <1>1
<1> QED BY <1>5, <1>6, <1>7, <1>8, <1>9 DEF AdmissionsInv

LEMMA TakeKeepsAdmissions == ASSUME BusInv, AdmissionsInv, DispatchTake PROVE AdmissionsInv'
<1>0. queue \in Seq(Event) /\ queue # <<>> /\ log \in Seq(SeqNums)
  BY DEF DispatchTake, BusInv, TypeOK, QueueTypes
<1>1. /\ Len(queue) \in Nat \ {0} /\ Len(log) \in Nat /\ Head(queue) = queue[1]
      /\ Len(queue') = Len(queue) - 1
      /\ \A i \in 1 .. Len(queue) - 1 : queue'[i] = queue[i + 1]
  BY <1>0, HeadAndTail, NoElements, LengthOf DEF DispatchTake
<1>2. /\ Len(log') = Len(log) + 1 /\ log'[Len(log) + 1] = queue[1].seq
      /\ \A i \in 1 .. Len(log) : log'[i] = log[i]
  <2>1. queue[1] \in Event
    BY <1>0, HeadAndTail, <1>1
  <2>2. queue[1].seq \in SeqNums
    BY <2>1 DEF Event
  <2> QED BY <1>0, <1>1, <2>2, Appended DEF DispatchTake
<1>3. UNCHANGED <<next_sequence, admitted>>
  BY DEF DispatchTake
<1>4. \A i \in 1 .. Len(queue') : i + 1 \in 1 .. Len(queue) /\ queue'[i] = queue[i + 1]
  BY <1>1
<1>5. \A i \in 1 .. Len(log') : log'[i] \in 1 .. Len(admitted)
  BY <1>1, <1>2 DEF AdmissionsInv
<1>6. ASSUME NEW n \in 1 .. Len(admitted)
      PROVE  \/ \E i \in 1 .. Len(queue') : queue'[i].seq = n
             \/ \E i \in 1 .. Len(log') : log'[i] = n
             \/ Superseded(n)
  <2>1. ASSUME NEW j \in 1 .. Len(queue), queue[j].seq = n
        PROVE  \/ \E i \in 1 .. Len(queue') : queue'[i].seq = n
               \/ \E i \in 1 .. Len(log') : log'[i] = n
    <3>1. CASE j = 1
      <4>1. Len(log) + 1 \in 1 .. Len(log')
        BY <1>1, <1>2
      <4> QED BY <1>2, <2>1, <3>1, <4>1
    <3>2. CASE j # 1
      <4>1. j - 1 \in 1 .. Len(queue') /\ queue'[j - 1] = queue[j]
        BY <1>1, <3>2
      <4> QED BY <2>1, <4>1
    <3> QED BY <3>1, <3>2
  <2>2. ASSUME NEW j \in 1 .. Len(log), log[j] = n PROVE \E i \in 1 .. Len(log') : log'[i] = n
    <3>1. j \in 1 .. Len(log')
      BY <1>1, <1>2
    <3> QED BY <1>2, <2>2, <3>1
  <2> QED BY <2>1, <2>2 DEF AdmissionsInv
<1>7. \A n : Superseded(n)' <=> Superseded(n)
  BY <1>3 DEF Superseded
<1> QED BY <1>3, <1>4, <1>5, <1>6, <1>7 DEF AdmissionsInv

LEMMA AdmissionsStep == BusInv /\ AdmissionsInv /\ [Next]_vars => AdmissionsInv'
<1> SUFFICES ASSUME BusInv, AdmissionsInv, [Next]_vars PROVE AdmissionsInv'
  OBVIOUS
<1>0. queue \in Seq(Event) /\ Len(queue) \in Nat
  BY LengthOf DEF BusInv, TypeOK, QueueTypes
<1>1. ASSUME NEW k \in Keys, Publish(k) PROVE AdmissionsInv'
  <2>1. CASE PublishDropped(k)
    BY <2>1 DEF PublishDropped, AdmissionsInv, Superseded
  <2>2. CASE PublishAppended(k)
    <3>1. Remains(queue, k)
      BY DEF Remains
    <3> QED BY <1>0, <2>2, <3>1, AdmitKeepsAdmissions DEF PublishAppended
  <2>3. CASE PublishCoalesced(k)
    <3>1. PICK i \in Coalescible(k) : Admit(k, Erase(queue, i))
      BY <2>3 DEF PublishCoalesced
    <3>2. i \in 1 .. Len(queue) /\ k \in Replaceable /\ queue[i].key = k
      BY <3>1 DEF Coalescible
    <3> DEFINE q == Erase(queue, i)
    <3>3. /\ q \in Seq(Event) /\ Len(q) = Len(queue) - 1
          /\ \A j \in 1 .. (Len(queue) - 1) : q[j] = IF j < i THEN queue[j] ELSE queue[j + 1]
      BY <1>0, <3>2, EraseType
    <3>4. Accepting /\ Admit(k, q)
      BY <2>3, <3>1 DEF PublishCoalesced
    <3> HIDE DEF q
    <3>5. \A j \in 1 .. Len(q) : \E l \in 1 .. Len(queue) : q[j] = queue[l]
      <4>1. \A j \in 1 .. Len(q) : j \in 1 .. Len(queue) /\ j + 1 \in 1 .. Len(queue)
        BY <1>0, <3>3
      <4> QED BY <3>3, <4>1
    <3>6. ASSUME NEW l \in 1 .. Len(queue)
          PROVE  \/ \E j \in 1 .. Len(q) : q[j] = queue[l]
                 \/ queue[l].key = k /\ k \in Replaceable
      <4>1. CASE l < i
        <5>1. l \in 1 .. Len(q) /\ q[l] = queue[l]
          BY <1>0, <3>2, <3>3, <4>1
        <5> QED BY <5>1
      <4>2. CASE l > i
        <5>1. l - 1 \in 1 .. Len(q) /\ q[l - 1] = queue[l]
          BY <1>0, <3>2, <3>3, <4>2
        <5> QED BY <5>1
      <4>3. CASE l = i
        BY <3>2, <4>3
      <4> QED BY <3>2, <4>1, <4>2, <4>3
    <3>7. Remains(q, k)
      BY <3>5, <3>6 DEF Remains
    <3> QED BY <3>3, <3>4, <3>7, AdmitKeepsAdmissions
  <2> QED BY <1>1, <2>1, <2>2, <2>3 DEF Publish
<1>2. CASE UNCHANGED <<queue, log, next_sequence, admitted>>
  BY <1>2 DEF AdmissionsInv, Superseded
<1> QED BY <1>1, <1>2, QueueSteps, TakeKeepsAdmissions

-----------------------------------------------------------------------------
(* Nothing is missed on the way to the callbacks *)

(* The event the dispatcher holds has yet to be given to s.                  *)
Owed(s) == \/ dpc = "collect" /\ event[1].key \in filter[s]
           \/ dpc \in {"deliver", "callback"} /\ s \in targets

(* What s was given is, up to the event it is owed, a gapless end of what    *)
(* was taken and matches its filter.                                         *)
Gapless(s) ==
    \A i \in 1 .. Len(delivered[s]) :
        /\ \E k \in 1 .. Len(log) : log[k] = delivered[s][i]
        /\ admitted[delivered[s][i]] \in filter[s]
        /\ Owed(s) => delivered[s][i] < event[1].seq
        /\ \A j \in 1 .. Len(delivered[s]) : i < j => delivered[s][i] < delivered[s][j]
        /\ \A k \in 1 .. Len(log) : log[k] > delivered[s][i] /\ admitted[log[k]] \in filter[s]
              => \/ \E j \in 1 .. Len(delivered[s]) : delivered[s][j] = log[k]
                 \/ Owed(s) /\ log[k] = event[1].seq

EventInv ==
    event # <<>> => /\ log # <<>> /\ event[1].seq = log[Len(log)]
                    /\ admitted[event[1].seq] = event[1].key

TargetsInv ==
    \A s \in targets : /\ s < next_subscriber
                       /\ dpc \in {"deliver", "callback"} => event[1].key \in filter[s]

GivenInv ==
    \A s \in Ids : /\ s >= next_subscriber => delivered[s] = <<>>
                   /\ s \in subscribers => active[s] /\ Gapless(s)

DeliveryInv == EventInv /\ TargetsInv /\ GivenInv

(* What the deliveries rest on: all the invariants above.                    *)
DispatchInv == BusInv /\ SubscriptionInv /\ OrderInv /\ AdmissionsInv /\ DeliveryInv

LEMMA DispatchTypes ==
    ASSUME DispatchInv
    PROVE  /\ log \in Seq(SeqNums) /\ Len(log) \in Nat
           /\ \A k \in 1 .. Len(log) : log[k] \in Int /\ log[k] \in 1 .. Len(admitted)
           /\ \A s \in Ids : /\ delivered[s] \in Seq(SeqNums) /\ Len(delivered[s]) \in Nat
                             /\ \A i \in 1 .. Len(delivered[s]) : delivered[s][i] \in Int
           /\ next_subscriber \in Nat /\ Ids \subseteq Nat
           /\ \A s \in subscribers : s \in Ids /\ s < next_subscriber
           /\ targets \subseteq Ids
<1>1. /\ log \in Seq(SeqNums) /\ next_subscriber \in Nat /\ Ids \subseteq Nat
      /\ delivered \in [Ids -> Seq(SeqNums)] /\ subscribers \subseteq Ids /\ targets \subseteq Ids
  BY BusAssumption DEF DispatchInv, BusInv, TypeOK, QueueTypes, SubscriberTypes, Ids
<1>2. SeqNums \subseteq Int
  BY BusAssumption DEF SeqNums
<1>3. \A k \in 1 .. Len(log) : log[k] \in SeqNums
  BY <1>1, LengthOf
<1>4. ASSUME NEW s \in Ids
      PROVE  /\ delivered[s] \in Seq(SeqNums) /\ Len(delivered[s]) \in Nat
             /\ \A i \in 1 .. Len(delivered[s]) : delivered[s][i] \in SeqNums
  BY <1>1, LengthOf
<1>5. \A s \in subscribers : s < next_subscriber
  BY <1>1 DEF DispatchInv, SubscriptionInv
<1>6. \A k \in 1 .. Len(log) : log[k] \in 1 .. Len(admitted)
  BY DEF DispatchInv, AdmissionsInv
<1> QED BY <1>1, <1>2, <1>3, <1>4, <1>5, <1>6, LengthOf

(* A step that neither takes an event nor gives s one.                       *)
LEMMA GaplessKept ==
    ASSUME NEW s, Gapless(s), delivered'[s] = delivered[s], filter'[s] = filter[s], log' = log,
           \A k \in 1 .. Len(log) : admitted'[log[k]] = admitted[log[k]],
           Owed(s)' <=> Owed(s), Owed(s) => event' = event
    PROVE  Gapless(s)'
<1>1. ASSUME NEW i \in 1 .. Len(delivered[s])
      PROVE  /\ \E k \in 1 .. Len(log) : log[k] = delivered[s][i]
             /\ admitted'[delivered[s][i]] \in filter[s]
             /\ Owed(s)' => delivered[s][i] < event'[1].seq
             /\ \A j \in 1 .. Len(delivered[s]) : i < j => delivered[s][i] < delivered[s][j]
  BY DEF Gapless
<1>2. ASSUME NEW i \in 1 .. Len(delivered[s]), NEW k \in 1 .. Len(log),
             log[k] > delivered[s][i], admitted'[log[k]] \in filter[s]
      PROVE  \/ \E j \in 1 .. Len(delivered[s]) : delivered[s][j] = log[k]
             \/ Owed(s)' /\ log[k] = event'[1].seq
  BY <1>2 DEF Gapless
<1>3. ASSUME NEW i \in 1 .. Len(delivered'[s])
      PROVE  /\ \E k \in 1 .. Len(log') : log'[k] = delivered'[s][i]
             /\ admitted'[delivered'[s][i]] \in filter'[s]
             /\ Owed(s)' => delivered'[s][i] < event'[1].seq
             /\ \A j \in 1 .. Len(delivered'[s]) : i < j => delivered'[s][i] < delivered'[s][j]
  BY <1>1, <1>3, Zenon
<1>4. ASSUME NEW i \in 1 .. Len(delivered'[s]), NEW k \in 1 .. Len(log'),
             log'[k] > delivered'[s][i], admitted'[log'[k]] \in filter'[s]
      PROVE  \/ \E j \in 1 .. Len(delivered'[s]) : delivered'[s][j] = log'[k]
             \/ Owed(s)' /\ log'[k] = event'[1].seq
  BY <1>2, <1>4, Zenon
<1> QED BY <1>3, <1>4, Zenon DEF Gapless

LEMMA PublishDelivers == ASSUME DispatchInv, NEW k \in Keys, Publish(k) PROVE DeliveryInv'
<1>1. UNCHANGED <<dpc, event, targets, filter, active, subscribers, next_subscriber, delivered, log>>
  BY DEF Publish, PublishDropped, PublishAppended, PublishCoalesced, Admit
<1>2. admitted' = admitted \/ admitted' = Append(admitted, k)
  BY DEF Publish, PublishDropped, PublishAppended, PublishCoalesced, Admit
<1>3. \A n \in 1 .. Len(admitted) : admitted'[n] = admitted[n]
  <2>1. admitted \in Seq(Keys)
    BY DEF DispatchInv, BusInv, TypeOK, QueueTypes
  <2> QED BY <1>2, <2>1, Appended
<1>4. \A i \in 1 .. Len(log) : admitted'[log[i]] = admitted[log[i]]
  BY <1>3, DispatchTypes
<1>5. EventInv'
  <2>1. CASE event # <<>>
    <3>1. log # <<>> /\ event[1].seq = log[Len(log)] /\ admitted[event[1].seq] = event[1].key
      BY <2>1 DEF DispatchInv, DeliveryInv, EventInv
    <3>2. Len(log) \in 1 .. Len(log)
      BY <3>1, DispatchTypes, NoElements
    <3> QED BY <1>1, <1>4, <3>1, <3>2 DEF EventInv
  <2> QED BY <1>1, <2>1 DEF EventInv
<1>6. TargetsInv'
  BY <1>1 DEF DispatchInv, DeliveryInv, TargetsInv
<1>7. \A s \in Ids : s \in subscribers => Gapless(s)'
  <2>1. \A s : Owed(s)' <=> Owed(s)
    BY <1>1 DEF Owed
  <2> QED BY <1>1, <1>4, <2>1, GaplessKept DEF DispatchInv, DeliveryInv, GivenInv
<1>8. GivenInv'
  BY <1>1, <1>7 DEF DispatchInv, DeliveryInv, GivenInv
<1> QED BY <1>5, <1>6, <1>8 DEF DeliveryInv

LEMMA TakeDelivers == ASSUME DispatchInv, DispatchTake PROVE DeliveryInv'
<1> DEFINE n == Head(queue).seq
<1>0. /\ queue \in Seq(Event) /\ queue # <<>> /\ dpc = "wait" /\ dpc' = "collect"
      /\ event' = <<Head(queue)>> /\ log' = Append(log, n)
      /\ UNCHANGED <<targets, filter, active, subscribers, next_subscriber, delivered, admitted>>
  BY DEF DispatchTake, DispatchInv, BusInv, TypeOK, QueueTypes
<1>1. Head(queue) \in Event /\ Head(queue) = queue[1] /\ 1 \in 1 .. Len(queue)
  BY <1>0, HeadAndTail, NoElements, LengthOf
<1>2. /\ n \in SeqNums /\ n \in Int /\ admitted[n] = Head(queue).key
      /\ \A k \in 1 .. Len(log) : log[k] < n
  <2>1. n \in SeqNums
    BY <1>1 DEF Event
  <2>2. n \in Int
    BY <2>1, BusAssumption DEF SeqNums
  <2>3. admitted[n] = Head(queue).key
    BY <1>1 DEF DispatchInv, AdmissionsInv
  <2>4. \A k \in 1 .. Len(log) : log[k] < n
    BY <1>1 DEF DispatchInv, OrderInv, Numbered
  <2> QED BY <2>1, <2>2, <2>3, <2>4
<1>3. /\ Len(log') = Len(log) + 1 /\ log'[Len(log) + 1] = n
      /\ \A k \in 1 .. Len(log) : log'[k] = log[k]
  BY <1>0, <1>2, DispatchTypes, Appended
<1>4. event'[1] = Head(queue)
  BY <1>0
<1>5. Len(log) + 1 \in 1 .. Len(log') /\ \A k \in 1 .. Len(log') : k \in 1 .. Len(log) \/ k = Len(log) + 1
  BY <1>3, DispatchTypes
<1> HIDE DEF n
<1>6. EventInv'
  <2>1. log' # <<>>
    BY <1>3, DispatchTypes
  <2> QED BY <1>0, <1>2, <1>3, <1>4, <2>1 DEF EventInv, n
<1>7. TargetsInv'
  BY <1>0 DEF DispatchInv, DeliveryInv, TargetsInv
<1>8. ASSUME NEW s \in Ids, s \in subscribers PROVE Gapless(s)'
  <2>1. Gapless(s) /\ ~Owed(s) /\ (Owed(s)' <=> Head(queue).key \in filter[s])
    BY <1>0, <1>4, <1>8 DEF DispatchInv, DeliveryInv, GivenInv, Owed
  <2>2. ASSUME NEW i \in 1 .. Len(delivered[s])
        PROVE  /\ \E k \in 1 .. Len(log') : log'[k] = delivered[s][i]
               /\ admitted[delivered[s][i]] \in filter[s]
               /\ delivered[s][i] < n
               /\ \A j \in 1 .. Len(delivered[s]) : i < j => delivered[s][i] < delivered[s][j]
    <3>1. PICK k \in 1 .. Len(log) : log[k] = delivered[s][i]
      BY <2>1 DEF Gapless
    <3>2. k \in 1 .. Len(log') /\ log'[k] = log[k]
      BY <1>3, DispatchTypes
    <3> QED BY <1>2, <2>1, <3>1, <3>2 DEF Gapless
  <2>3. ASSUME NEW i \in 1 .. Len(delivered[s]), NEW k \in 1 .. Len(log'),
               log'[k] > delivered[s][i], admitted[log'[k]] \in filter[s]
        PROVE  \/ \E j \in 1 .. Len(delivered[s]) : delivered[s][j] = log'[k]
               \/ Owed(s)' /\ log'[k] = n
    <3>1. CASE k \in 1 .. Len(log)
      BY <1>3, <2>1, <2>3, <3>1 DEF Gapless
    <3>2. CASE k = Len(log) + 1
      BY <1>2, <1>3, <2>1, <2>3, <3>2
    <3> QED BY <1>5, <3>1, <3>2
  <2>4. event'[1].seq = n
    BY <1>4 DEF n
  <2>5. delivered' = delivered /\ filter' = filter /\ admitted' = admitted
    BY <1>0
  <2> QED BY <2>2, <2>3, <2>4, <2>5 DEF Gapless
<1>9. GivenInv'
  BY <1>0, <1>8 DEF DispatchInv, DeliveryInv, GivenInv
<1> QED BY <1>6, <1>7, <1>9 DEF DeliveryInv

LEMMA CollectDelivers == ASSUME DispatchInv, DispatchCollect PROVE DeliveryInv'
<1>0. /\ dpc = "collect" /\ dpc' = "deliver"
      /\ targets' = {s \in subscribers : event[1].key \in filter[s]}
      /\ UNCHANGED <<event, filter, active, subscribers, next_subscriber, delivered, log, admitted>>
  BY DEF DispatchCollect
<1>1. EventInv'
  BY <1>0 DEF DispatchInv, DeliveryInv, EventInv
<1>2. TargetsInv'
  BY <1>0, DispatchTypes DEF TargetsInv
<1>3. \A s \in subscribers : Owed(s)' <=> Owed(s)
  BY <1>0 DEF Owed
<1>4. \A s \in Ids : s \in subscribers => Gapless(s)'
  BY <1>0, <1>3, GaplessKept DEF DispatchInv, DeliveryInv, GivenInv
<1>5. GivenInv'
  BY <1>0, <1>4 DEF DispatchInv, DeliveryInv, GivenInv
<1> QED BY <1>1, <1>2, <1>5 DEF DeliveryInv

LEMMA DeliverDelivers == ASSUME DispatchInv, DispatchDeliver PROVE DeliveryInv'
<1>0. /\ dpc = "deliver" /\ dpc' \in {"deliver", "callback"}
      /\ UNCHANGED <<event, filter, active, subscribers, next_subscriber, log, admitted>>
  BY DEF DispatchDeliver
<1>1. PICK t \in targets :
         /\ targets' = targets \ {t}
         /\ \/ /\ active[t]
               /\ delivered' = [delivered EXCEPT ![t] = Append(delivered[t], event[1].seq)]
            \/ ~active[t] /\ delivered' = delivered
  BY DEF DispatchDeliver, RemainingAfter, Callable
<1>2. /\ t \in Ids /\ t < next_subscriber /\ event[1].key \in filter[t]
      /\ delivered \in [Ids -> Seq(SeqNums)]
  BY <1>0, <1>1, DispatchTypes
     DEF DispatchInv, DeliveryInv, TargetsInv, BusInv, TypeOK, SubscriberTypes
<1>3. /\ event # <<>> /\ log # <<>> /\ event[1].seq = log[Len(log)]
      /\ admitted[event[1].seq] = event[1].key
  BY <1>0 DEF DispatchInv, BusInv, DispatcherInv, DeliveryInv, EventInv
<1>4. EventInv' /\ TargetsInv'
  BY <1>0, <1>1 DEF DispatchInv, DeliveryInv, EventInv, TargetsInv
<1>5. \A s \in Ids : s # t => delivered'[s] = delivered[s] /\ (Owed(s)' <=> Owed(s))
  BY <1>0, <1>1, <1>2 DEF Owed
<1>6. ASSUME NEW s \in Ids, s \in subscribers, s # t PROVE Gapless(s)'
  BY <1>0, <1>5, <1>6, GaplessKept DEF DispatchInv, DeliveryInv, GivenInv
<1>7. ASSUME t \in subscribers PROVE Gapless(t)'
  <2> DEFINE d == delivered[t]
             n == event[1].seq
             m == Len(log)
  <2>1. Gapless(t) /\ Owed(t) /\ ~Owed(t)' /\ active[t]
    BY <1>0, <1>1, <1>2, <1>7 DEF DispatchInv, DeliveryInv, GivenInv, Owed
  <2>2. delivered'[t] = Append(d, n)
    BY <1>1, <1>2, <2>1
  <2>3. /\ m \in 1 .. m /\ n = log[m] /\ n \in SeqNums /\ n \in Int /\ admitted[n] \in filter[t]
        /\ \A k \in 1 .. m : log[k] <= n
    <3>1. m \in Nat /\ m # 0 /\ log \in Seq(SeqNums)
      BY <1>3, DispatchTypes, NoElements
    <3>2. n = log[m] /\ n \in SeqNums /\ admitted[n] \in filter[t]
      BY <1>2, <1>3, <3>1, LengthOf
    <3>3. \A k \in 1 .. m : k < m => log[k] < log[m]
      BY <3>1 DEF DispatchInv, OrderInv, Numbered
    <3>4. \A k \in 1 .. m : log[k] \in Int
      BY DispatchTypes
    <3> QED BY <3>1, <3>2, <3>3, <3>4
  <2>4. /\ d \in Seq(SeqNums) /\ Len(d) \in Nat /\ \A i \in 1 .. Len(d) : d[i] \in Int
    BY <1>2, DispatchTypes
  <2> HIDE DEF d, n, m
  <2>5. /\ Len(delivered'[t]) = Len(d) + 1 /\ delivered'[t][Len(d) + 1] = n
        /\ \A i \in 1 .. Len(d) : delivered'[t][i] = d[i]
    BY <2>2, <2>3, <2>4, Appended
  <2>6. \A i \in 1 .. Len(d) :
           /\ \E k \in 1 .. m : log[k] = d[i]
           /\ admitted[d[i]] \in filter[t]
           /\ d[i] < n
           /\ \A j \in 1 .. Len(d) : i < j => d[i] < d[j]
           /\ \A k \in 1 .. m : log[k] > d[i] /\ admitted[log[k]] \in filter[t]
                 => (\E j \in 1 .. Len(d) : d[j] = log[k]) \/ log[k] = n
    BY <2>1 DEF Gapless, d, n, m
  <2>7. \A i \in 1 .. Len(d) + 1 : i \in 1 .. Len(d) \/ i = Len(d) + 1
    BY <2>4
  <2>8. Len(d) + 1 \in 1 .. Len(d) + 1 /\ \A i \in 1 .. Len(d) : i \in 1 .. Len(d) + 1
    BY <2>4
  <2> DEFINE g == delivered'[t]
  <2> HIDE DEF g
  <2>9. ASSUME NEW i \in 1 .. Len(g)
        PROVE  /\ \E k \in 1 .. m : log[k] = g[i]
               /\ admitted[g[i]] \in filter[t]
               /\ \A j \in 1 .. Len(g) : i < j => g[i] < g[j]
               /\ \A k \in 1 .. m : log[k] > g[i] /\ admitted[log[k]] \in filter[t]
                     => \E j \in 1 .. Len(g) : g[j] = log[k]
    <3>1. CASE i \in 1 .. Len(d)
      <4>1. g[i] = d[i] /\ Len(g) = Len(d) + 1 /\ g[Len(d) + 1] = n
            /\ \A j \in 1 .. Len(d) : g[j] = d[j]
        BY <2>5, <3>1 DEF g
      <4>2. ASSUME NEW j \in 1 .. Len(g), i < j PROVE g[i] < g[j]
        BY <2>6, <2>7, <3>1, <4>1, <4>2
      <4>3. ASSUME NEW k \in 1 .. m, log[k] > g[i], admitted[log[k]] \in filter[t]
            PROVE  \E j \in 1 .. Len(g) : g[j] = log[k]
        <5>1. (\E j \in 1 .. Len(d) : d[j] = log[k]) \/ log[k] = n
          BY <2>6, <3>1, <4>1, <4>3
        <5> QED BY <2>8, <4>1, <5>1
      <4> QED BY <2>6, <3>1, <4>1, <4>2, <4>3
    <3>2. CASE i = Len(d) + 1
      <4>1. g[i] = n /\ Len(g) = Len(d) + 1
        BY <2>5, <3>2 DEF g
      <4>2. \A j \in 1 .. Len(g) : ~(i < j)
        BY <2>4, <3>2, <4>1
      <4>3. \A k \in 1 .. m : ~(log[k] > n)
        BY <2>3, DispatchTypes DEF m
      <4> QED BY <2>3, <4>1, <4>2, <4>3
    <3> QED BY <2>5, <2>7, <3>1, <3>2 DEF g
  <2> QED BY <1>0, <2>1, <2>9 DEF Gapless, g, m
<1>8. \A s \in Ids : s >= next_subscriber => delivered'[s] = <<>>
  <2>1. \A s \in Ids : s >= next_subscriber => s # t
    BY <1>2, DispatchTypes
  <2> QED BY <1>5, <2>1 DEF DispatchInv, DeliveryInv, GivenInv
<1>9. GivenInv'
  BY <1>0, <1>6, <1>7, <1>8 DEF DispatchInv, DeliveryInv, GivenInv
<1> QED BY <1>4, <1>9 DEF DeliveryInv

(* The dispatcher's other steps, and those of start() and stop().            *)
LEMMA OthersDeliver ==
    ASSUME DispatchInv,
           UNCHANGED <<targets, filter, active, subscribers, next_subscriber, delivered, log, admitted>>,
           \/ dpc' = dpc /\ event' = event
           \/ dpc = "callback" /\ dpc' = "deliver" /\ event' = event
           \/ dpc = "deliver" /\ targets = {} /\ dpc' = "wait" /\ event' = <<>>
           \/ /\ dpc \notin {"collect", "deliver", "callback"}
              /\ dpc' \notin {"collect", "deliver", "callback"} /\ event' = event
    PROVE  DeliveryInv'
<1>1. EventInv' /\ TargetsInv'
  BY DEF DispatchInv, DeliveryInv, EventInv, TargetsInv
<1>2. \A s : (Owed(s)' <=> Owed(s)) /\ (Owed(s) => event' = event)
  BY DEF Owed
<1>3. \A s \in Ids : s \in subscribers => Gapless(s)'
  BY <1>2, GaplessKept DEF DispatchInv, DeliveryInv, GivenInv
<1>4. GivenInv'
  BY <1>3 DEF DispatchInv, DeliveryInv, GivenInv
<1> QED BY <1>1, <1>4 DEF DeliveryInv

LEMMA SubscribeDelivers == ASSUME DispatchInv, NEW f \in Filters, Subscribe(f) PROVE DeliveryInv'
<1>9. PICK t : t = next_subscriber
  OBVIOUS
<1>0. /\ t \in Ids /\ t = next_subscriber /\ next_subscriber' = t + 1 /\ subscribers' = subscribers \cup {t}
      /\ filter' = [filter EXCEPT ![t] = f] /\ active' = [active EXCEPT ![t] = TRUE]
      /\ UNCHANGED <<dpc, event, targets, delivered, log, admitted>>
  BY <1>9, BusAssumption DEF Subscribe, DispatchInv, BusInv, TypeOK, SubscriberTypes, Ids
<1>1. filter \in [Ids -> SUBSET Keys] /\ active \in [Ids -> BOOLEAN]
  BY DEF DispatchInv, BusInv, TypeOK, SubscriberTypes
<1>2. /\ active'[t] = TRUE /\ t \notin targets /\ delivered[t] = <<>>
      /\ \A s \in Ids : s # t => filter'[s] = filter[s] /\ active'[s] = active[s]
      /\ \A s \in targets : s # t /\ s < next_subscriber' /\ filter'[s] = filter[s]
  <2>1. \A s \in targets : s \in Ids /\ s < t /\ s # t /\ s < t + 1
    BY <1>0, DispatchTypes DEF DispatchInv, DeliveryInv, TargetsInv
  <2>2. delivered[t] = <<>>
    BY <1>0, DispatchTypes DEF DispatchInv, DeliveryInv, GivenInv
  <2> QED BY <1>0, <1>1, <2>1, <2>2
<1>3. EventInv'
  BY <1>0 DEF DispatchInv, DeliveryInv, EventInv
<1>4. TargetsInv'
  BY <1>0, <1>2 DEF DispatchInv, DeliveryInv, TargetsInv
<1>5. ASSUME NEW s \in Ids, s \in subscribers, s # t PROVE Gapless(s)'
  <2>1. Owed(s)' <=> Owed(s)
    BY <1>0, <1>2, <1>5 DEF Owed
  <2>2. Gapless(s)
    BY <1>5 DEF DispatchInv, DeliveryInv, GivenInv
  <2> QED BY <1>0, <1>2, <1>5, <2>1, <2>2, GaplessKept
<1>6. Gapless(t)'
  <2>1. 1 .. Len(delivered'[t]) = {}
    BY <1>0, <1>2
  <2> QED BY <2>1 DEF Gapless
<1>7. \A s \in Ids : s >= next_subscriber' => delivered'[s] = <<>>
  <2>1. \A s \in Ids : s >= next_subscriber' => s >= next_subscriber
    BY <1>0, DispatchTypes
  <2> QED BY <1>0, <2>1 DEF DispatchInv, DeliveryInv, GivenInv
<1>8. GivenInv'
  <2>1. \A s \in Ids : s \in subscribers' => s = t \/ (s \in subscribers /\ s # t)
    BY <1>0
  <2>2. \A s \in Ids : s \in subscribers => active[s]
    BY DEF DispatchInv, DeliveryInv, GivenInv
  <2> QED BY <1>2, <1>5, <1>6, <1>7, <2>1, <2>2 DEF GivenInv
<1> QED BY <1>3, <1>4, <1>8 DEF DeliveryInv

LEMMA UnsubscribeDelivers ==
    ASSUME DispatchInv, NEW t \in Ids,
           \/ UnsubscribeErase(t) \/ UnsubscribeDeactivate(t)
           \/ UnsubscribeReturn(t) \/ CallbackUnsubscribe(t)
    PROVE  DeliveryInv'
<1>1. /\ subscribers' \subseteq subscribers
      /\ UNCHANGED <<dpc, event, targets, filter, next_subscriber, delivered, log, admitted>>
  BY DEF UnsubscribeErase, UnsubscribeDeactivate, UnsubscribeReturn, CallbackUnsubscribe
<1>2. \A s \in subscribers' : active'[s] = active[s]
  <2>1. CASE UnsubscribeErase(t) \/ UnsubscribeReturn(t)
    BY <2>1 DEF UnsubscribeErase, UnsubscribeReturn
  <2>2. CASE UnsubscribeDeactivate(t)
    <3>1. t \notin subscribers
      BY <2>2 DEF UnsubscribeDeactivate, DispatchInv, SubscriptionInv
    <3>2. subscribers \subseteq Ids /\ active \in [Ids -> BOOLEAN]
      BY DEF DispatchInv, BusInv, TypeOK, SubscriberTypes
    <3> QED BY <1>1, <2>2, <3>1, <3>2 DEF UnsubscribeDeactivate
  <2>3. CASE CallbackUnsubscribe(t)
    <3>1. subscribers \subseteq Ids /\ active \in [Ids -> BOOLEAN]
      BY DEF DispatchInv, BusInv, TypeOK, SubscriberTypes
    <3> QED BY <2>3, <3>1 DEF CallbackUnsubscribe
  <2> QED BY <2>1, <2>2, <2>3
<1>3. EventInv' /\ TargetsInv'
  BY <1>1 DEF DispatchInv, DeliveryInv, EventInv, TargetsInv
<1>4. \A s : Owed(s)' <=> Owed(s)
  BY <1>1 DEF Owed
<1>5. \A s \in Ids : s \in subscribers' => Gapless(s)'
  BY <1>1, <1>4, GaplessKept DEF DispatchInv, DeliveryInv, GivenInv
<1>6. GivenInv'
  BY <1>1, <1>2, <1>5 DEF DispatchInv, DeliveryInv, GivenInv
<1> QED BY <1>3, <1>6 DEF DeliveryInv

LEMMA DeliveryStep == DispatchInv /\ [Next]_vars => DeliveryInv'
<1> SUFFICES ASSUME DispatchInv, [Next]_vars PROVE DeliveryInv'
  OBVIOUS
<1>1. CASE DispatchWait \/ DispatchFinish \/ DispatchDone \/ DispatchExit \/ DispatchStopped
           \/ DispatchNotify
  BY <1>1, OthersDeliver DEF DispatchWait, DispatchFinish, DispatchDone, DispatchExit,
                             DispatchStopped, DispatchNotify
<1>2. CASE Dispatcher
  BY <1>1, <1>2, TakeDelivers, CollectDelivers, DeliverDelivers DEF Dispatcher
<1>3. ASSUME NEW t \in Stoppers, StopCall(t) \/ StopJoin(t) \/ StopAwait(t) PROVE DeliveryInv'
  BY <1>3, OthersDeliver DEF StopCall, StopJoin, StopAwait
<1>4. CASE Start
  <2>1. dpc = "unstarted"
    BY <1>4 DEF Start, DispatchInv, BusInv, DispatcherInv
  <2> QED BY <1>4, <2>1, OthersDeliver DEF Start
<1>5. CASE CallbackStop \/ UNCHANGED vars
  BY <1>5, OthersDeliver DEF CallbackStop, vars
<1> QED BY <1>2, <1>3, <1>4, <1>5, PublishDelivers, SubscribeDelivers, UnsubscribeDelivers DEF Next

LEMMA DispatchHolds == Spec => []DispatchInv
<1>1. Init => DispatchInv
  <2> SUFFICES ASSUME Init PROVE DispatchInv
    OBVIOUS
  <2>1. OrderInv /\ AdmissionsInv
    BY DEF Init, OrderInv, Numbered, AdmissionsInv
  <2>2. DeliveryInv
    BY DEF Init, DeliveryInv, EventInv, TargetsInv, GivenInv
  <2> QED BY <2>1, <2>2, BusInit, SubscriptionInit DEF DispatchInv
<1>2. DispatchInv /\ [Next]_vars => DispatchInv'
  BY BusStep, SubscriptionStep, OrderStep, AdmissionsStep, DeliveryStep DEF DispatchInv
<1> QED BY <1>1, <1>2, PTL DEF Spec

(* No accepted event is missed: it is queued, was taken, or was replaced by  *)
(* a newer one of its key in publish(); and dispatchLoop() gives a           *)
(* subscriber, from the first event on, every one its filter matches, while  *)
(* others subscribe, unsubscribe and publish in between.                     *)
THEOREM EventsAreNotMissed == Spec => []NoEventIsMissed
<1>1. ASSUME DispatchInv PROVE NoEventIsMissed
  <2>1. /\ DOMAIN queue = 1 .. Len(queue) /\ DOMAIN log = 1 .. Len(log)
        /\ DOMAIN admitted = 1 .. Len(admitted)
    BY <1>1, LengthOf DEF DispatchInv, BusInv, TypeOK, QueueTypes
  <2>2. LostOnlyIfSuperseded
    BY <1>1, <2>1 DEF DispatchInv, AdmissionsInv, Superseded, LostOnlyIfSuperseded
  <2>3. ASSUME dpc = "wait", NEW s \in subscribers
        PROVE  /\ DOMAIN delivered[s] = 1 .. Len(delivered[s])
               /\ Gapless(s) /\ ~Owed(s)
    <3>1. s \in Ids /\ delivered[s] \in Seq(SeqNums)
      BY <1>1, DispatchTypes
    <3> QED BY <1>1, <2>3, <3>1, LengthOf DEF DispatchInv, DeliveryInv, GivenInv, Owed
  <2>4. GaplessDelivery
    <3>1. SUFFICES ASSUME dpc = "wait", NEW s \in subscribers, NEW i \in DOMAIN delivered[s]
                   PROVE  /\ \E k \in DOMAIN log : log[k] = delivered[s][i]
                          /\ admitted[delivered[s][i]] \in filter[s]
                          /\ \A j \in DOMAIN delivered[s] : i < j => delivered[s][i] < delivered[s][j]
                          /\ \A k \in DOMAIN log :
                                log[k] > delivered[s][i] /\ admitted[log[k]] \in filter[s]
                                  => \E j \in DOMAIN delivered[s] : delivered[s][j] = log[k]
      BY DEF GaplessDelivery
    <3>2. /\ DOMAIN delivered[s] = 1 .. Len(delivered[s]) /\ DOMAIN log = 1 .. Len(log)
          /\ Gapless(s) /\ ~Owed(s) /\ i \in 1 .. Len(delivered[s])
      BY <2>1, <2>3, <3>1
    <3> QED BY <3>2 DEF Gapless
  <2> QED BY <2>2, <2>4 DEF NoEventIsMissed
<1> QED BY <1>1, DispatchHolds, PTL

-----------------------------------------------------------------------------
(* The bus implements the channel *)

LEMMA OfferStep ==
    ASSUME BusInv, OrderInv, NEW k \in Keys, Publish(k)
    PROVE  [Channel!ChannelNext]_(Channel!channelVars)
<1>0. /\ queue \in Seq(Event) /\ Len(queue) \in Nat /\ DOMAIN queue = 1 .. Len(queue)
      /\ log \in Seq(SeqNums) /\ DOMAIN log = 1 .. Len(log)
  BY LengthOf DEF BusInv, TypeOK, QueueTypes
<1>1. Accepting => /\ next_sequence \in 1 .. (SequenceModulus - 1)
                   /\ Channel!Fresh(next_sequence)
  BY <1>0, BusAssumption, SMTT(30)
     DEF Accepting, BusInv, TypeOK, QueueTypes, OrderInv, Numbered, Channel!Fresh
<1>2. CASE PublishDropped(k)
  BY <1>2 DEF PublishDropped, Channel!channelVars
<1>3. CASE PublishAppended(k)
  <2>1. Len(queue) < Capacity
    BY <1>3, BusAssumption DEF PublishAppended, Full, BusInv, TypeOK, QueueTypes
  <2>2. Channel!Offer(k, next_sequence)
    BY <1>1, <1>3, <2>1
       DEF PublishAppended, Admit, PushBack, Accepting, Channel!Offer
  <2> QED BY <1>1, <1>3, <2>2 DEF PublishAppended, Channel!ChannelNext
<1>4. CASE PublishCoalesced(k)
  <2>1. PICK i \in Coalescible(k) : Admit(k, Erase(queue, i))
    BY <1>4 DEF PublishCoalesced
  <2>2. i \in DOMAIN queue /\ k \in Replaceable /\ queue[i].key = k
    BY <1>0, <2>1 DEF Coalescible
  <2>3. Channel!Supersede(k, next_sequence, i)
    BY <1>1, <1>4, <2>1, <2>2
       DEF PublishCoalesced, Admit, PushBack, Accepting, Full, Erase, Channel!Supersede,
           Channel!Erase
  <2> QED BY <1>1, <1>4, <2>2, <2>3 DEF PublishCoalesced, Channel!ChannelNext
<1> QED BY <1>2, <1>3, <1>4 DEF Publish

(* The bus, with all its threads and locks, is a lossy first-in-first-out    *)
(* channel: bounded, closed by stop(), finished only when drained.           *)
THEOREM BusImplementsChannel == Spec => ChannelSpec
<1>1. Init => Channel!ChannelInit
  BY DEF Init, Channel!ChannelInit
<1>2. BusInv /\ OrderInv /\ [Next]_vars => [Channel!ChannelNext]_(Channel!channelVars)
  <2> SUFFICES ASSUME BusInv, OrderInv, [Next]_vars
               PROVE  [Channel!ChannelNext]_(Channel!channelVars)
    OBVIOUS
  <2>1. ASSUME NEW k \in Keys, Publish(k)
        PROVE  [Channel!ChannelNext]_(Channel!channelVars)
    BY <2>1, OfferStep
  <2>2. CASE DispatchTake
    <3>1. Channel!Take
      BY <2>2 DEF DispatchTake, Channel!Take
    <3> QED BY <3>1 DEF Channel!ChannelNext
  <2>3. CASE DispatchStopped
    <3>1. stopping /\ queue = <<>> /\ ~stopped
      BY <2>3 DEF DispatchStopped, BusInv, DispatcherInv
    <3> QED BY <2>3, <3>1 DEF DispatchStopped, Channel!Finish, Channel!ChannelNext
  <2>4. CASE CallbackStop \/ \E t \in Stoppers : StopCall(t)
    <3>1. RequestStop /\ UNCHANGED log
      BY <2>4 DEF CallbackStop, StopCall
    <3>2. CASE stopping
      BY <3>1, <3>2 DEF RequestStop, Channel!channelVars
    <3>3. CASE ~stopping
      BY <3>1, <3>3 DEF RequestStop, Channel!Close, Channel!ChannelNext
    <3> QED BY <3>2, <3>3
  <2>5. CASE Dispatcher /\ ~DispatchTake /\ ~DispatchStopped
    BY <2>5 DEF Dispatcher, DispatchWait, DispatchCollect, DispatchDeliver, DispatchFinish,
                DispatchDone, DispatchExit, DispatchNotify, Channel!channelVars
  <2>6. CASE \E t \in Stoppers : StopJoin(t) \/ StopAwait(t)
    BY <2>6 DEF StopJoin, StopAwait, Channel!channelVars
  <2>7. CASE \/ Start \/ UNCHANGED vars
             \/ \E f \in Filters : Subscribe(f)
             \/ \E s \in Ids : UnsubscribeErase(s) \/ UnsubscribeDeactivate(s)
                               \/ UnsubscribeReturn(s) \/ CallbackUnsubscribe(s)
    BY <2>7 DEF Start, vars, Subscribe, UnsubscribeErase, UnsubscribeDeactivate,
                UnsubscribeReturn, CallbackUnsubscribe, Channel!channelVars
  <2> QED BY <2>1, <2>2, <2>3, <2>4, <2>5, <2>6, <2>7 DEF Next
<1>3. Spec => Channel!ChannelInit /\ [][Channel!ChannelNext]_(Channel!channelVars)
  BY <1>1, <1>2, OrderHolds, PTL DEF Spec
<1> QED BY <1>3 DEF ChannelSpec, Channel!Spec
=============================================================================
