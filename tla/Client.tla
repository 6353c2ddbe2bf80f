------------------------------ MODULE Client ------------------------------
(***************************************************************************)
(* The C client library: one shared WeakNetClient, its D-Bus connection,   *)
(* and the bounded queues into which any caller sorts the signals that     *)
(* arrive for all of them.  ioMutex_ is held across a blocking method      *)
(* call (io names the caller); every other use of it is one step.  A       *)
(* caller takes all waiting messages under it and sorts them afterwards.   *)
(***************************************************************************)
EXTENDS Naturals, Sequences

CONSTANTS
    Apps,          \* application threads
    Kinds,         \* the signal families, one queue each
    Quality,       \* the kind whose functions add their own match rule
    QueueLimit,    \* kMaxQueuedEvents
    MaxSignals,    \* bound on the signals the daemon emits
    MaxClients     \* bound on the calls of weaknet_init

VARIABLES
    global,        \* [client, locked]: g_client and g_client_mutex
    opened,        \* connected_ of each client object, in creation order
    matches,       \* kinds the connection has a match rule for
    received,      \* signals the connection has received
    emitted,       \* [kind, garbled] of each signal received so far
    queues,        \* client object -> kind -> queued signals
    io,            \* caller holding ioMutex_ across a blocking call, or Nobody
    app,           \* caller -> [at, client, kind, listening, held]
    delivered      \* signals handed to the application

clientVars == <<global, opened, matches, received, emitted, queues, io, app, delivered>>

ASSUME ClientAssumption ==
    Quality \in Kinds /\ QueueLimit \in Nat \ {0} /\ MaxSignals \in Nat /\ MaxClients \in Nat

Nobody == "Nobody"
Outside == [at |-> "Outside", client |-> 0, kind |-> Quality, listening |-> FALSE, held |-> <<>>]
Occurs(s, seq) == \E i \in DOMAIN seq : seq[i] = s

ClientInit ==
    /\ global = [client |-> 0, locked |-> FALSE] /\ opened = <<>> /\ matches = {}
    /\ received = <<>> /\ emitted = <<>> /\ queues = <<>> /\ io = Nobody
    /\ app = [a \in Apps |-> Outside] /\ delivered = {}

\* The bus routes a signal of the daemon here when a rule matches.
Emit(k, garbled) ==
    /\ Len(emitted) < MaxSignals /\ k \in matches
    /\ emitted' = Append(emitted, [kind |-> k, garbled |-> garbled])
    /\ received' = Append(received, Len(emitted) + 1)
    /\ UNCHANGED <<global, opened, matches, queues, io, app, delivered>>

\* weaknet_init creates the client when there is none and it can connect.
weaknet_init ==
    /\ ~global.locked /\ global.client = 0 /\ Len(opened) < MaxClients
    /\ global' = [global EXCEPT !.client = Len(opened) + 1]
    /\ opened' = Append(opened, TRUE)
    /\ queues' = Append(queues, [k \in Kinds |-> <<>>])
    /\ UNCHANGED <<matches, received, emitted, io, app, delivered>>

\* weaknet_cleanup takes the client out under the global lock...
weaknet_cleanup ==
    /\ ~global.locked /\ global.client # 0
    /\ global' = [client |-> 0, locked |-> TRUE]
    /\ UNCHANGED <<opened, matches, received, emitted, queues, io, app, delivered>>

\* ...and holds that lock until disconnect() has had ioMutex_.
disconnect ==
    /\ global.locked /\ io = Nobody
    /\ opened' = [opened EXCEPT ![Len(opened)] = FALSE]
    /\ global' = [global EXCEPT !.locked = FALSE]
    /\ UNCHANGED <<matches, received, emitted, queues, io, app, delivered>>

\* An API function copies the shared pointer and checks the connection.
clientSnapshot(a, at, k, listening) ==
    /\ app[a].at = "Outside" /\ ~global.locked /\ io = Nobody /\ global.client # 0
    /\ app' = [app EXCEPT ![a] = [at |-> at, client |-> global.client, kind |-> k,
                                  listening |-> listening, held |-> <<>>]]
    /\ UNCHANGED <<global, opened, matches, received, emitted, queues, io, delivered>>

\* The functions of the API: a blocking method call, subscribing an event,
\* checking for one event, and checking the quality or listening to it until
\* told to stop.
CallMethod(a) == clientSnapshot(a, "Calling", Quality, FALSE)
weaknet_subscribe_event(a) ==
    \E k \in Kinds \ {Quality} : clientSnapshot(a, "Subscribing", k, FALSE)
weaknet_check_events(a) == \E k \in Kinds \ {Quality} : clientSnapshot(a, "Taking", k, FALSE)
QualityFunction(a) == \E listening \in BOOLEAN : clientSnapshot(a, "Matching", Quality, listening)

Function(a) == \/ CallMethod(a) \/ weaknet_subscribe_event(a) \/ weaknet_check_events(a)
               \/ QualityFunction(a)

Connected(a) == opened[app[a].client]

\* subscribeToEvent and ensureNetworkQualityMatch; the bus may refuse the rule.
AddMatch(a) ==
    /\ app[a].at \in {"Subscribing", "Matching"} /\ io = Nobody
    /\ \E added \in BOOLEAN :
        /\ matches' = IF Connected(a) /\ added THEN matches \cup {app[a].kind} ELSE matches
        /\ app' = [app EXCEPT ![a] = IF Connected(a) /\ added /\ app[a].at = "Matching"
                                     THEN [@ EXCEPT !.at = "Taking"] ELSE Outside]
    /\ UNCHANGED <<global, opened, received, emitted, queues, io, delivered>>

\* getInterfaces, healthCheck and pingHost hold ioMutex_ until the reply, or
\* until the call times out.
BeginCall(a) ==
    /\ app[a].at = "Calling" /\ io = Nobody
    /\ io' = IF Connected(a) THEN a ELSE Nobody
    /\ app' = [app EXCEPT ![a] = IF Connected(a) THEN [@ EXCEPT !.at = "Blocked"] ELSE Outside]
    /\ UNCHANGED <<global, opened, matches, received, emitted, queues, delivered>>

EndCall(a) ==
    /\ app[a].at = "Blocked" /\ io' = Nobody
    /\ app' = [app EXCEPT ![a] = Outside]
    /\ UNCHANGED <<global, opened, matches, received, emitted, queues, delivered>>

\* dispatchPendingMessages: everything received is taken under ioMutex_; a
\* client that was disconnected meanwhile takes nothing.
TakePending(a) ==
    /\ app[a].at = "Taking" /\ io = Nobody
    /\ received' = IF Connected(a) THEN <<>> ELSE received
    /\ app' = [app EXCEPT ![a].at = "Sorting",
                          ![a].held = IF Connected(a) THEN received ELSE <<>>]
    /\ UNCHANGED <<global, opened, matches, emitted, queues, io, delivered>>

\* Mutant: a full queue drops its oldest signal and the new one with it.
DropOldestOnly(queue, signal) ==
    IF Len(queue) >= QueueLimit THEN Tail(queue) ELSE Append(queue, signal)

pushBounded(queue, signal) ==
    Append(IF Len(queue) >= QueueLimit THEN Tail(queue) ELSE queue, signal)

Parses(signal) == ~emitted[signal].garbled

\* dispatchMessage: a signal goes to the queue of its kind, whichever kind the
\* caller asked for; one that does not parse is dropped.
dispatchMessage(a) ==
    /\ app[a].at = "Sorting" /\ app[a].held # <<>>
    /\ LET signal == Head(app[a].held)
           kind == emitted[signal].kind
       IN queues' = IF Parses(signal)
                    THEN [queues EXCEPT ![app[a].client][kind] = pushBounded(@, signal)]
                    ELSE queues
    /\ app' = [app EXCEPT ![a].held = Tail(@)]
    /\ UNCHANGED <<global, opened, matches, received, emitted, io, delivered>>

Queue(a) == queues[app[a].client][app[a].kind]

\* With everything sorted, the caller takes the oldest event of its kind: a
\* check returns it; a listener hands it to its callback and goes on with the
\* next unless the callback answers true.
PopEvent(a, answer) ==
    /\ app[a].at = "Sorting" /\ app[a].held = <<>> /\ Queue(a) # <<>>
    /\ delivered' = delivered \cup {Head(Queue(a))}
    /\ queues' = [queues EXCEPT ![app[a].client][app[a].kind] = Tail(@)]
    /\ app' = IF app[a].listening /\ ~answer THEN app ELSE [app EXCEPT ![a] = Outside]
    /\ UNCHANGED <<global, opened, matches, received, emitted, io>>

\* With nothing queued a check returns false, and a listener pumps again: also
\* after the client was disconnected.
NothingQueued(a) ==
    /\ app[a].at = "Sorting" /\ app[a].held = <<>> /\ Queue(a) = <<>>
    /\ app' = [app EXCEPT ![a] = IF app[a].listening THEN [@ EXCEPT !.at = "Taking"] ELSE Outside]
    /\ UNCHANGED <<global, opened, matches, received, emitted, queues, io, delivered>>

AppStep(a) == \/ AddMatch(a) \/ BeginCall(a) \/ EndCall(a) \/ TakePending(a)
              \/ dispatchMessage(a) \/ (\E answer \in BOOLEAN : PopEvent(a, answer))
              \/ NothingQueued(a)

ClientNext ==
    \/ weaknet_init \/ weaknet_cleanup \/ disconnect
    \/ \E k \in Kinds, garbled \in BOOLEAN : Emit(k, garbled)
    \/ \E a \in Apps : Function(a) \/ AppStep(a)

ClientSpec == ClientInit /\ [][ClientNext]_clientVars

(***************************************************************************)
(* Properties.                                                             *)
(***************************************************************************)

Inside(s) ==
    \/ Occurs(s, received) \/ s \in delivered
    \/ \E a \in Apps : Occurs(s, app[a].held)
    \/ \E o \in DOMAIN queues, k \in Kinds : Occurs(s, queues[o][k])

\* A well-formed signal the connection received leaves the library unseen only
\* as the oldest of a full queue, whichever callers, each asking for its own
\* kind, took the messages off the connection.  (What a client still queues
\* when it is cleaned up goes with it, and is not counted here.)
LostOnlyOnOverflow ==
    [][\A s \in DOMAIN emitted :
          Parses(s) /\ Inside(s) /\ ~Inside(s)' =>
              \E o \in DOMAIN queues, k \in Kinds :
                  Len(queues[o][k]) = QueueLimit /\ Head(queues[o][k]) = s]_clientVars
=============================================================================
