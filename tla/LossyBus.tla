------------------------------- MODULE LossyBus -------------------------------
(***************************************************************************)
(* The event bus as its publishers see it (EventBus models the inside):    *)
(* a FIFO of Capacity events.  Incident, route, uplink, probe and Wi-Fi    *)
(* events are never replaced in the queue, so that a full bus loses them.  *)
(***************************************************************************)
EXTENDS Integers, Sequences

CONSTANTS Capacity, MaxDrops   \* bounds: of the queue, and of the events it may lose

VARIABLES
    queue,      \* events accepted and not yet dispatched
    dropped     \* what the refused events were about

busVars == <<queue, dropped>>

BusInit == queue = <<>> /\ dropped = <<>>

(* Events of other kinds may fill the queue at any time. *)
publish(event) ==
    \/ Len(queue) < Capacity /\ queue' = Append(queue, event) /\ UNCHANGED dropped
    \/ Len(dropped) < MaxDrops /\ dropped' = Append(dropped, event.about) /\ UNCHANGED queue

(* The only step that takes an event out of the bus is the dispatch of it. *)
Consume == queue # <<>> /\ queue' = Tail(queue)
=============================================================================
