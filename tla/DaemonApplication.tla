------------------------ MODULE DaemonApplication ------------------------
(***************************************************************************)
(* DaemonApplication: the order in which the main thread builds, starts,   *)
(* stops and releases the components of the daemon, against the threads    *)
(* those components run.  `alive' holds what has been taken and not yet    *)
(* given back: objects behind a unique_ptr, the logger, the signal mask,   *)
(* and the D-Bus connection, name, queued claim to the name, service and   *)
(* object paths.  A thread that has passed the null check of a pointer is  *)
(* `using' the object until its call returns: the check and the return are *)
(* two steps.  A component has been asked to stop while the main thread    *)
(* waits at its step of StopSteps.                                         *)
(***************************************************************************)
EXTENDS Naturals, Sequences, FiniteSets

CONSTANTS
    Workers,       \* the monitor threads launched by startWorkers
    MaxCommits     \* bound on the topologies the collector commits

\* The threads that the components run, beside the workers.
ServiceThreads == {"signal", "bus", "topology", "probe", "wifi", "sockets", "analysis", "ping"}

ASSUME DaemonAssumption == Workers \cap ServiceThreads = {} /\ MaxCommits \in Nat

VARIABLES
    main,          \* [phase, at]: the step the main thread takes next
    alive,         \* what is taken and not given back
    threads,       \* threads running
    using,         \* thread -> the object it calls through a pointer
    stopping,      \* stop_source_.stop_requested()
    signal,        \* SIGTERM: "None", "Pending", "Taken"
    health,        \* RuntimeHealth: the state reported for each worker
    topology       \* [committed, telling, read, known]

daemonVars == <<main, alive, threads, using, stopping, signal, health, topology>>

Consumers == {"tracker", "probe", "wifi"}
Collectors == {"topology", "probe", "wifi", "sockets"}
Callers == {"signal", "bus", "topology"} \cup Workers

\* The objects whose member function is the body of a thread.
Body(t) == CASE t \in {"topology", "probe", "wifi"} -> {t}
             [] t = "sockets" -> {"tracker"}
             [] t = "analysis" -> {"manager"}
             [] t = "ping" -> {"service", "connection"}
             [] OTHER -> {}

StartSteps == <<"logger", "signals", "bus", "plane", "topology",
                "tracker", "trackerRead", "trackerUpdate",
                "probe", "probeRead", "probeUpdate",
                "wifi", "wifiRead", "wifiUpdate", "sockets",
                "manager", "dbus", "events", "traffic", "workers">>
ReadStep == [tracker |-> "trackerRead", probe |-> "probeRead", wifi |-> "wifiRead"]
UpdateStep == [tracker |-> "trackerUpdate", probe |-> "probeUpdate", wifi |-> "wifiUpdate"]

\* Mutant: the shared state is released before the topology collector stops.
ReleaseFirst == <<"request", "workers", "engines", "probe", "wifi", "sockets", "release",
                  "topology", "events", "bus", "dbus", "manager", "signals", "logger">>
StopSteps == <<"request", "workers", "engines", "probe", "wifi", "sockets",
               "topology", "events", "bus", "dbus", "manager", "release",
               "signals", "logger">>

DaemonInit ==
    /\ main = [phase |-> "Starting", at |-> 1]
    /\ alive = {} /\ threads = {} /\ stopping = FALSE /\ signal = "None"
    /\ using = [t \in Callers |-> "None"]
    /\ health = [w \in Workers |-> "Absent"]
    /\ topology = [committed |-> 0, telling |-> <<>>, read |-> 0,
                   known |-> [c \in Consumers |-> 0]]

Starting(step) == main.phase = "Starting" /\ StartSteps[main.at] = step
Stopping(step) == main.phase = "Stopping" /\ StopSteps[main.at] = step

Advance == main' = IF main.phase = "Stopping" /\ main.at = Len(StopSteps)
                   THEN [phase |-> "Done", at |-> 1]
                   ELSE [main EXCEPT !.at = @ + 1]

\* A failed required step calls stop(); so does the destructor, for a start
\* that gave up before it had anything to stop.
Rollback == main' = [phase |-> "Stopping", at |-> 1]

\* A required step builds its objects and starts its threads, or fails.
Required(step, objects, started) ==
    /\ Starting(step)
    /\ \/ alive' = alive \cup objects /\ threads' = threads \cup started /\ Advance
       \/ Rollback /\ UNCHANGED <<alive, threads>>
    /\ UNCHANGED <<using, stopping, signal, health, topology>>

StartLogger == Required("logger", {"logger"}, {})
\* Mutant: the signals are blocked, and nobody waits for them.
BlockOnly == Required("signals", {"mask"}, {})
startSignalWaiter == Required("signals", {"mask"}, {"signal"})
StartBus == Required("bus", {}, {"bus"})
StartPlane == Required("plane", {"adapter", "engines"}, {})
StartManager == Required("manager", {"manager"}, {})

\* A collector that does not start leaves the daemon running without it.
Optional(c) == \E started \in SUBSET {c} : threads' = threads \cup started

StartTopology ==
    /\ Starting("topology") /\ Optional("topology") /\ Advance
    /\ alive' = alive \cup {"topology"}
    /\ UNCHANGED <<using, stopping, signal, health, topology>>

\* Each consumer of the topology is built, then told the snapshot the
\* collector holds; once built, the collector's own thread tells it too.
Build(c) ==
    /\ Starting(c) /\ Advance
    /\ alive' = alive \cup {c}
    /\ UNCHANGED <<threads, using, stopping, signal, health, topology>>

ReadTopology(c) ==
    /\ Starting(ReadStep[c]) /\ Advance
    /\ topology' = [topology EXCEPT !.read = topology.committed]
    /\ UNCHANGED <<alive, threads, using, stopping, signal, health>>

UpdateTopology(c) ==
    /\ Starting(UpdateStep[c]) /\ Advance
    /\ topology' = [topology EXCEPT !.known[c] = topology.read]
    /\ IF c = "tracker" THEN UNCHANGED threads ELSE Optional(c)
    /\ UNCHANGED <<alive, using, stopping, signal, health>>

StartSockets ==
    /\ Starting("sockets") /\ Optional("sockets") /\ Advance
    /\ UNCHANGED <<alive, using, stopping, signal, health, topology>>

\* startDbus may give up after the connection, the name or the service, and
\* leaves what it has taken to stopDbus.  The service owns the ping thread.
\* The bus queues a request for a name whose owner keeps it: the reply is
\* then not that of an owner, but the claim stands.
startDbus ==
    LET taken == <<"connection", "name", "service", "path">>
    IN /\ Starting("dbus")
       /\ \/ \E n \in 0 .. Len(taken) :
                /\ alive' = alive \cup {taken[i] : i \in 1 .. n}
                /\ threads' = threads \cup {t \in {"ping"} : n >= 3}
                /\ IF n = Len(taken) THEN Advance ELSE Rollback
          \/ alive' = alive \cup {"connection", "claim"} /\ Rollback /\ UNCHANGED threads
       /\ UNCHANGED <<using, stopping, signal, health, topology>>

StartEvents ==
    /\ Starting("events")
    /\ alive' = alive \cup {"monitoring"}
    /\ Advance \/ Rollback
    /\ UNCHANGED <<threads, using, stopping, signal, health, topology>>

StartTraffic ==
    /\ Starting("traffic") /\ Advance
    /\ Optional("analysis")
    /\ UNCHANGED <<alive, using, stopping, signal, health, topology>>

\* The launcher announces a worker, then creates its thread, which may throw.
launch(w) ==
    /\ Starting("workers") /\ health[w] = "Absent"
    /\ health' = [health EXCEPT ![w] = "Starting"]
    /\ \/ threads' = threads \cup {w} /\ UNCHANGED main
       \/ Rollback /\ UNCHANGED threads
    /\ UNCHANGED <<alive, using, stopping, signal, topology>>

\* start() is done; nothing in it looks at the stop request.
startWorkers ==
    /\ Starting("workers") /\ \A w \in Workers : health[w] # "Absent"
    /\ main' = [phase |-> "Running", at |-> 1]
    /\ UNCHANGED <<alive, threads, using, stopping, signal, health, topology>>

\* The looper returns when a stop was requested, or the connection is lost.
run ==
    /\ main.phase = "Running" /\ stopping /\ Rollback
    /\ UNCHANGED <<alive, threads, using, stopping, signal, health, topology>>

Disconnect ==
    /\ main.phase = "Running" /\ Rollback
    /\ UNCHANGED <<alive, threads, using, stopping, signal, health, topology>>

StartStep == \/ StartLogger \/ startSignalWaiter \/ StartBus \/ StartPlane \/ StartTopology
             \/ \E c \in Consumers : Build(c) \/ ReadTopology(c) \/ UpdateTopology(c)
             \/ StartSockets \/ StartManager \/ startDbus \/ StartEvents \/ StartTraffic
             \/ (\E w \in Workers : launch(w)) \/ startWorkers

\* requestStop() of the main thread, at the head of stop().
RequestStop ==
    /\ Stopping("request") /\ stopping' = TRUE /\ Advance
    /\ UNCHANGED <<alive, threads, using, signal, health, topology>>

\* The workers are joined, newest first, then the analysis thread.
stopWorkers ==
    /\ Stopping("workers") /\ threads \cap Workers = {} /\ Advance
    /\ threads' = threads \ {"analysis"}
    /\ UNCHANGED <<alive, using, stopping, signal, health, topology>>

\* Unsubscribing waits for a callback that is running on the bus.
StopEngines ==
    /\ Stopping("engines") /\ using["bus"] = "None" /\ Advance
    /\ UNCHANGED <<alive, threads, using, stopping, signal, health, topology>>

\* A stopped collector is joined; the topology collector finishes telling.
StopCollector(c) ==
    /\ Stopping(c) /\ Advance
    /\ c = "topology" => topology.telling = <<>>
    /\ threads' = threads \ {c}
    /\ UNCHANGED <<alive, using, stopping, signal, health, topology>>

StopBus ==
    /\ Stopping("bus") /\ threads' = threads \ {"bus"} /\ Advance
    /\ UNCHANGED <<alive, using, stopping, signal, health, topology>>

\* Mutant: without a registered path there is nothing to give back.
ReleasedWithPath == IF "path" \in alive THEN {"connection", "name", "service", "path"} ELSE {"service"}
\* What stopDbus gives back: each thing under its own flag.
ReleasedByDbus == {"connection", "name", "service", "path"}

\* Destroying the service joins the ping thread.
stopDbus ==
    /\ Stopping("dbus") /\ Advance
    /\ alive' = alive \ ReleasedByDbus
    /\ threads' = threads \ {"ping"}
    /\ UNCHANGED <<using, stopping, signal, health, topology>>

Release(step, objects) ==
    /\ Stopping(step) /\ Advance
    /\ alive' = alive \ objects
    /\ UNCHANGED <<threads, using, stopping, signal, health, topology>>

\* The signal thread is joined last, after the state it may use is released.
restoreSignalMask ==
    /\ Stopping("signals") /\ "signal" \notin threads /\ Advance
    /\ alive' = alive \ {"mask"}
    /\ UNCHANGED <<threads, using, stopping, signal, health, topology>>

StopStep == \/ RequestStop \/ stopWorkers \/ StopEngines
            \/ (\E c \in Collectors : StopCollector(c)) \/ StopBus \/ stopDbus
            \/ Release("events", {"monitoring"}) \/ Release("manager", {"manager"})
            \/ Release("release", {"adapter", "topology", "engines"} \cup Consumers)
            \/ restoreSignalMask \/ Release("logger", {"logger"})

MainStep == StartStep \/ run \/ StopStep

\* A call through a pointer: the null check, then the return.
Enter(t, object) == using' = [using EXCEPT ![t] = object]
Return(t) == using[t] # "None" /\ Enter(t, "None")

\* SIGTERM arrives while it is blocked.
Kill ==
    /\ "mask" \in alive /\ signal = "None" /\ signal' = "Pending"
    /\ UNCHANGED <<main, alive, threads, using, stopping, health, topology>>

\* The signal thread takes the signal and calls requestStop(), also when someone
\* else has asked to stop since it last looked...
TakeSignal ==
    /\ "signal" \in threads /\ signal = "Pending"
    /\ signal' = "Taken" /\ stopping' = TRUE
    /\ UNCHANGED <<main, alive, threads, using, health, topology>>

\* ...which asks the manager, when there is one, to stop its analysis.
SignalChecksManager ==
    /\ "signal" \in threads /\ signal = "Taken" /\ using["signal"] = "None"
    /\ IF "manager" \in alive THEN Enter("signal", "manager") /\ UNCHANGED threads
                              ELSE threads' = threads \ {"signal"} /\ UNCHANGED using
    /\ UNCHANGED <<main, alive, stopping, signal, health, topology>>

SignalReturns ==
    /\ Return("signal") /\ threads' = threads \ {"signal"}
    /\ UNCHANGED <<main, alive, stopping, signal, health, topology>>

\* It polls ten times a second, and leaves when someone else asked to stop.
SignalLeaves ==
    /\ "signal" \in threads /\ signal # "Taken" /\ stopping
    /\ threads' = threads \ {"signal"}
    /\ UNCHANGED <<main, alive, using, stopping, signal, health, topology>>

\* The collector commits a topology and tells the consumers in this order.
CommitTopology ==
    /\ "topology" \in threads /\ topology.telling = <<>> /\ ~Stopping("topology")
    /\ topology.committed < MaxCommits
    /\ topology' = [topology EXCEPT
           !.committed = @ + 1,
           !.telling = IF "tracker" \in alive THEN <<"tracker", "probe", "wifi">> ELSE <<>>]
    /\ UNCHANGED <<main, alive, threads, using, stopping, signal, health>>

TellConsumer ==
    /\ topology.telling # <<>> /\ using["topology"] = "None"
    /\ LET c == Head(topology.telling)
       IN IF c \in alive
          THEN Enter("topology", c) /\ UNCHANGED topology
          ELSE /\ topology' = [topology EXCEPT !.telling = Tail(@)]
               /\ UNCHANGED using
    /\ UNCHANGED <<main, alive, threads, stopping, signal, health>>

ConsumerTold ==
    /\ Return("topology")
    /\ topology' = [topology EXCEPT !.telling = Tail(@),
                                    !.known[using["topology"]] = topology.committed]
    /\ UNCHANGED <<main, alive, threads, stopping, signal, health>>

\* The dispatcher calls a subscribed engine.
BusCalls ==
    /\ "bus" \in threads /\ "engines" \in alive /\ using["bus"] = "None"
    /\ main.phase = "Stopping" => StopSteps[main.at] \in {"request", "workers"}
    /\ Enter("bus", "engines")
    /\ UNCHANGED <<main, alive, threads, stopping, signal, health, topology>>

BusReturns ==
    /\ Return("bus")
    /\ UNCHANGED <<main, alive, threads, stopping, signal, health, topology>>

\* A worker: reported running, in and out of the manager and the service,
\* until a stop is requested or its body throws.
WorkerRuns(w) ==
    /\ w \in threads /\ health[w] = "Starting"
    /\ health' = [health EXCEPT ![w] = "Running"]
    /\ UNCHANGED <<main, alive, threads, using, stopping, signal, topology>>

WorkerCalls(w) ==
    /\ w \in threads /\ health[w] = "Running" /\ using[w] = "None" /\ ~stopping
    /\ \E object \in {"manager", "service"} \cap alive : Enter(w, object)
    /\ UNCHANGED <<main, alive, threads, stopping, signal, health, topology>>

WorkerReturns(w) ==
    /\ Return(w)
    /\ UNCHANGED <<main, alive, threads, stopping, signal, health, topology>>

WorkerEnds(w) ==
    /\ w \in threads /\ health[w] = "Running" /\ using[w] = "None" /\ stopping
    /\ health' = [health EXCEPT ![w] = "Stopped"]
    /\ threads' = threads \ {w}
    /\ UNCHANGED <<main, alive, using, stopping, signal, topology>>

WorkerThrows(w) ==
    /\ w \in threads /\ health[w] = "Running" /\ using[w] = "None"
    /\ health' = [health EXCEPT ![w] = "Degraded"]
    /\ threads' = threads \ {w}
    /\ UNCHANGED <<main, alive, using, stopping, signal, topology>>

SignalStep == TakeSignal \/ SignalChecksManager \/ SignalReturns \/ SignalLeaves
TellStep == TellConsumer \/ ConsumerTold
WorkerStep(w) == WorkerRuns(w) \/ WorkerReturns(w) \/ WorkerEnds(w)

DaemonNext ==
    \/ MainStep \/ Disconnect \/ SignalStep \/ TellStep \/ BusReturns
    \/ Kill \/ CommitTopology \/ BusCalls
    \/ \E w \in Workers : WorkerStep(w) \/ WorkerCalls(w) \/ WorkerThrows(w)

\* The scheduler runs every thread.  Nobody has to send a signal, lose the
\* connection, commit a topology, publish an event or throw.
DaemonFairness ==
    /\ WF_daemonVars(MainStep) /\ WF_daemonVars(SignalStep) /\ WF_daemonVars(TellStep)
    /\ WF_daemonVars(BusReturns) /\ \A w \in Workers : WF_daemonVars(WorkerStep(w))

DaemonSpec == DaemonInit /\ [][DaemonNext]_daemonVars /\ DaemonFairness

(***************************************************************************)
(* Properties.                                                             *)
(***************************************************************************)

\* Whatever step of start() fails and whenever stop() runs, a thread's own
\* object outlives the thread, and the monitors, the dispatcher and the
\* topology callback are inside no object that stop() has released.
UsesLiveObjects ==
    /\ \A t \in threads : Body(t) \subseteq alive
    /\ \A t \in Callers \ {"signal"} : using[t] # "None" => using[t] \in alive

\* After stop(), however far start() came, no thread runs and everything taken
\* is given back: the name and the connection of a half-started D-Bus and the
\* signal mask included.  Only a claim that the bus has queued stays, since
\* stopDbus releases a name it owns; and a daemon that came as far as its
\* workers has none.
OnlyQueuedClaimLeft ==
    main.phase = "Done" =>
        /\ threads = {} /\ alive \subseteq {"claim"}
        /\ (\E w \in Workers : health[w] # "Absent") => alive = {}

\* A SIGTERM that arrives at any step of start(), while running or during
\* stop(), leads to a daemon that has stopped completely.
SignalHonoured == signal = "Pending" ~> main.phase = "Done"

\* requestStop() on the signal thread calls the manager only while it exists.
SignalUsesLiveManager == using["signal"] # "None" => using["signal"] \in alive
=============================================================================
