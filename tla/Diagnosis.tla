------------------------------- MODULE Diagnosis -------------------------------
(***************************************************************************)
(* RootCauseEngine with the producers it listens to: IncidentEngine, the   *)
(* route and uplink observations of each committed topology and            *)
(* ActiveProbe, over a bus that may lose what they publish.  WifiDiagnosis *)
(* has the fourth producer, WifiCollector.                                 *)
(***************************************************************************)
EXTENDS RootCauseEngine, ActiveProbe

CONSTANTS
    Subjects,            \* the (type, scope) pairs on which incidents occur
    Topologies,          \* what a commit may bring: [authoritative, interface, gateway]
    MaxIncidents         \* bound: of the incidents that are opened

VARIABLES
    opened,     \* how many incidents IncidentEngine has opened
    truth,      \* its active incidents, from (type, scope) to identifiers
    commit      \* the topology that the netlink thread is handing out, or None

sourceVars == <<opened, truth, commit>>
vars == <<cache, active, targets, round, queue, dropped, opened, truth, commit>>

Init ==
    /\ EngineInit /\ ProbeInit /\ BusInit
    /\ opened = 0
    /\ truth = <<>>
    /\ commit = None

-----------------------------------------------------------------------------
(* IncidentEngine opens and resolves incidents and publishes what it did.    *)
IncidentEvent(key, id, state) ==
    [kind |-> "Incident", about |-> <<id, state>>, state |-> state,
     incident |-> [id |-> id, type |-> key[1], scope |-> key[2], value |-> None]]

OpenIncident ==
    /\ opened < MaxIncidents
    /\ \E key \in Subjects \ DOMAIN truth :
        /\ truth' = Put(truth, key, opened + 1)
        /\ publish(IncidentEvent(key, opened + 1, "Active"))
    /\ opened' = opened + 1
    /\ UNCHANGED <<engineVars, probeVars, commit>>

ResolveIncident ==
    /\ \E key \in DOMAIN truth :
        /\ truth' = Without(truth, {key})
        /\ publish(IncidentEvent(key, truth[key], "Resolved"))
    /\ UNCHANGED <<engineVars, probeVars, opened, commit>>

(* A commit on the netlink thread: the collector publishes the uplink;       *)
(* SocketTracker then publishes the route of each socket (here: of one), and *)
(* ActiveProbe gets the topology.                                            *)
UplinkEvent(topology) ==
    [kind |-> "Uplink", about |-> None,
     uplink |-> [selected |-> topology.interface # None, flags |-> topology.interface # None,
                 interface |-> topology.interface,
                 validity |-> IF topology.authoritative /\ topology.interface # None
                              THEN "Valid" ELSE "Unavailable"]]

RouteEvent(s, topology) ==
    [kind |-> "Route", about |-> None, socket |-> s,
     route |-> IF topology.authoritative /\ topology.interface # None
               THEN [status |-> "Available", authoritative |-> TRUE, validity |-> "Valid",
                     gateway |-> topology.gateway, interface |-> topology.interface,
                     generation |-> 0]
               ELSE [status |-> "Unavailable", authoritative |-> topology.authoritative,
                     validity |-> "Unavailable", gateway |-> None, interface |-> None,
                     generation |-> 0]]

CommitTopology ==
    /\ commit = None
    /\ \E topology \in Topologies :
        /\ commit' = topology
        /\ publish(UplinkEvent(topology))
    /\ UNCHANGED <<engineVars, probeVars, opened, truth>>

CommittedCallback ==
    /\ commit # None
    /\ \E s \in Range(Sockets) : publish(RouteEvent(s, commit))
    /\ updateTopology(commit)
    /\ commit' = None
    /\ UNCHANGED <<engineVars, round, opened, truth>>

Probe == ProbeStep /\ UNCHANGED <<engineVars, sourceVars>>

-----------------------------------------------------------------------------
(* The dispatcher runs process() on the oldest event. *)
process(event) ==
    \/ event.kind = "Incident" /\ ProcessIncident(event.incident, event.state)
    \/ event.kind = "Route" /\ ProcessRoute(event.socket, event.route)
    \/ event.kind = "Uplink" /\ ProcessUplink(event.uplink)
    \/ event.kind \in {"Gateway", "Remote"} /\ ProcessProbe(event.kind, event.probe)

Dispatch ==
    /\ queue # <<>>
    /\ process(Head(queue))
    /\ queue' = Tail(queue)
    /\ UNCHANGED <<probeVars, dropped, sourceVars>>

(* Time passes; an event is dispatched within a tick. *)
Tick ==
    /\ queue = <<>>
    /\ CacheGrowsOld
    /\ UNCHANGED <<active, probeVars, busVars, sourceVars>>

Next ==
    \/ OpenIncident \/ ResolveIncident
    \/ CommitTopology \/ CommittedCallback
    \/ Probe \/ Dispatch \/ Tick

Spec == Init /\ [][Next]_vars

(* The worker probes again after every interval, the dispatcher runs while   *)
(* the bus holds events, and a commit is handed out to the end.              *)
FairSpec ==
    /\ Spec
    /\ WF_vars(Probe) /\ WF_queue(Consume) /\ WF_vars(CommittedCallback)

-----------------------------------------------------------------------------
Pending(id) ==
    \E i \in DOMAIN queue : queue[i].kind = "Incident" /\ queue[i].incident.id = id

Lost(id, state) == Contains(dropped, <<id, state>>)

Cites(key, kinds) ==
    \E i \in DOMAIN active[key].supporting : active[key].supporting[i].kind \in kinds

(* A hypothesis is active only while an incident that supports it is active, *)
(* unless the resolution is still in the bus or was lost by it.              *)
NoOrphan ==
    \A key \in DOMAIN active :
        \E i \in DOMAIN active[key].supporting :
            LET id == active[key].supporting[i].source
            IN  /\ id # None
                /\ (\E subject \in DOMAIN truth : truth[subject] = id)
                      \/ Pending(id) \/ Lost(id, "Resolved")

GatewayKinds == {"GatewayProbeReachable", "GatewayProbeHighRtt", "GatewayProbeTimeout"}

(* Gateway evidence in a hypothesis about a socket was measured on the       *)
(* gateway and the interface of the route that the engine knows for it,      *)
(* however late a probe of an earlier gateway is dispatched.                 *)
NoLeakedGateway ==
    \A key \in DOMAIN active :
        Cites(key, GatewayKinds) =>
            /\ cache.gateway # None /\ cache.routes[key[2]] # None
            /\ cache.gateway.gateway = cache.routes[key[2]].gateway
            /\ cache.gateway.interface = cache.routes[key[2]].interface

(* Evidence that outlived the freshness window, though nothing recomputes    *)
(* the hypotheses when time passes, is renewed or retired by a later probe.  *)
StaleEvidenceRetired ==
    LET stale == /\ cache.gateway # None /\ ~FreshProbe(cache.gateway)
                 /\ \E key \in DOMAIN active : Cites(key, GatewayKinds)
    IN  stale ~> ~stale

(* What DIAGNOSIS.md promises: a resolved incident leaves the hypotheses. *)
ResolutionReaches ==
    \A id \in 1..MaxIncidents :
        LET over == id <= opened /\ \A subject \in DOMAIN truth : truth[subject] # id
            cited == \E key \in DOMAIN active : \E i \in DOMAIN active[key].supporting :
                        active[key].supporting[i].source = id
        IN  over ~> ~cited
=============================================================================
