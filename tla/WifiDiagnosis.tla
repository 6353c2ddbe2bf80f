----------------------------- MODULE WifiDiagnosis -----------------------------
(***************************************************************************)
(* WifiCollector and RootCauseEngine around one TCP incident: commits move *)
(* the uplink between interfaces while the worker is in the middle of a    *)
(* query, and the engine gets the route of the socket and the Wi-Fi        *)
(* observations through the bus.                                           *)
(***************************************************************************)
EXTENDS RootCauseEngine, WifiCollector, LossyBus

CONSTANTS MaxGeneration  \* bound: of the commits

vars == <<cache, active, target, latest, worker, family, inbox, late, queue, dropped>>

(* The incident is known before the first commit. *)
Init ==
    /\ cache = [incidents |-> <<[id |-> 1, type |-> "HighTcpRtt", scope |-> Sockets[1],
                                 value |-> None]>>,
                routes |-> [s \in Range(Sockets) |-> None],
                uplink |-> None, gateway |-> None, remote |-> None,
                wifi |-> [i \in Range(Interfaces) |-> None]]
    /\ active = Candidates(cache)
    /\ WifiInit /\ BusInit

(* A commit of generation g: the route of the socket is published, then the  *)
(* collector gets the uplink.                                                *)
Commit ==
    /\ target.generation < MaxGeneration
    /\ \E interface \in Range(Interfaces) \cup {None} :
        LET g == target.generation + 1
        IN  /\ publish([kind |-> "Route", about |-> None, socket |-> Sockets[1],
                        route |-> [status |-> IF interface = None THEN "Unavailable"
                                              ELSE "Available",
                                   authoritative |-> TRUE,
                                   validity |-> IF interface = None THEN "Unavailable"
                                                ELSE "Valid",
                                   gateway |-> None, interface |-> interface,
                                   generation |-> g]])
            /\ updateWifiTopology([interface |-> interface, generation |-> g])
    /\ UNCHANGED <<engineVars, worker, family, inbox, late>>

Query == QueryStep /\ UNCHANGED <<engineVars, busVars>>

WifiEntryOf(o) ==
    [capability |-> o.capability, link |-> o.link, station |-> o.station,
     validity |-> o.validity, generation |-> o.generation, lowRate |-> o.lowRate,
     signal |-> o.signal, answered |-> o.answered, category |-> "None", age |-> 0]

PublishObservation ==
    /\ Record
    /\ publish([kind |-> "Wifi", about |-> None, interface |-> worker.observation.interface,
                entry |-> WifiEntryOf(worker.observation)])
    /\ UNCHANGED engineVars

Dispatch ==
    /\ queue # <<>>
    /\ LET event == Head(queue)
       IN  \/ event.kind = "Route" /\ ProcessRoute(event.socket, event.route)
           \/ event.kind = "Wifi" /\ ProcessWifi(event.interface, event.entry)
    /\ queue' = Tail(queue)
    /\ UNCHANGED <<wifiVars, dropped>>

Tick ==
    /\ queue = <<>>
    /\ CacheGrowsOld
    /\ UNCHANGED <<active, wifiVars, busVars>>

Next == Commit \/ Query \/ PublishObservation \/ Dispatch \/ Tick

Spec == Init /\ [][Next]_vars

-----------------------------------------------------------------------------
WifiKinds == {"WifiAssociated", "WifiNotAssociated", "WifiSignalNormal", "WifiSignalWeak",
              "WifiSignalVeryWeak", "WifiTxBitrateLow"}

(* Wi-Fi evidence in a hypothesis about a socket comes from the generation   *)
(* of the interface that its route uses, and from the kernel's answer to the *)
(* station question about it: neither a query that was under way at a commit *)
(* nor a late reply, which the station parser could not tell from the right  *)
(* one, speaks for another interface or answers another question.            *)
WifiEvidenceIsCurrent ==
    \A key \in DOMAIN active : \A i \in DOMAIN active[key].supporting :
        active[key].supporting[i].kind \in WifiKinds =>
            LET route == cache.routes[key[2]]
                entry == IF route = None THEN None ELSE WifiEntry(cache.wifi, route, None)
            IN  /\ entry # None
                /\ entry.generation = route.generation
                /\ entry.answered = [question |-> "Station", interface |-> route.interface,
                                     generation |-> route.generation]
=============================================================================
