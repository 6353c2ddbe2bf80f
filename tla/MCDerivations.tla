---------------------------- MODULE MCDerivations ----------------------------
(***************************************************************************)
(* A behaviour is one of the instance of Diagnosis, or one input of the    *)
(* pure functions, which never changes.                                    *)
(***************************************************************************)
EXTENDS MCDiagnosis, Derivations

VARIABLE part

-----------------------------------------------------------------------------
ProbeOf(gateway, status, high, age) ==
    [status |-> status, high |-> high, gateway |-> gateway, interface |-> i1, age |-> age,
     validity |-> CASE status = "Success" -> "Valid" [] status = "Timeout" -> "Partial"
                    [] OTHER -> "Unavailable"]

ProbesOf(gateway) ==
    {None, ProbeOf(gateway, "Success", FALSE, 0), ProbeOf(gateway, "Success", TRUE, 0),
     ProbeOf(gateway, "Success", TRUE, ProbeFreshness + 1), ProbeOf(gateway, "Timeout", FALSE, 0),
     ProbeOf(gateway, "TransportUnavailable", FALSE, 0)}

WifiOf(capability, link, category, lowRate, generation, age) ==
    [capability |-> capability, link |-> link, station |-> TRUE, validity |-> "Partial",
     generation |-> generation, lowRate |-> lowRate, category |-> category, age |-> age]

MCWifi ==
    {None, WifiOf("NotAssociated", "NotAssociated", "None", FALSE, 1, 0),
     WifiOf("Available", "Associated", "Normal", TRUE, 1, 0),
     WifiOf("Available", "Associated", "Weak", FALSE, 1, 0),
     WifiOf("Available", "Associated", "VeryWeak", FALSE, 1, 0),
     WifiOf("Available", "Associated", "VeryWeak", FALSE, 2, 0),
     WifiOf("Available", "Associated", "VeryWeak", FALSE, 1, WifiFreshness + 1)}

MCRoutes ==
    {None, [status |-> "Available", authoritative |-> TRUE, validity |-> "Valid",
            gateway |-> g1, interface |-> i1, generation |-> 1],
     [status |-> "Unavailable", authoritative |-> TRUE, validity |-> "Unavailable",
      gateway |-> None, interface |-> None, generation |-> 1]}

MCUplinks ==
    {None, [selected |-> TRUE, flags |-> TRUE, interface |-> i1, validity |-> "Valid"]}

IncidentOf(id, type, scope) == [id |-> id, type |-> type, scope |-> scope, value |-> None]

MCIncidents ==
    {<<IncidentOf(1, "HighTcpRtt", Socket)>>,
     <<IncidentOf(1, "HighTcpRtt", Socket),
       IncidentOf(2, "ElevatedTcpRetransmission", Socket)>>,
     <<IncidentOf(1, "UplinkUnavailable", Netns), IncidentOf(2, "SocketRouteConflict", Socket),
       IncidentOf(3, "RouteUnavailable", Socket)>>}

MCContexts ==
    {[incidents |-> incidents, routes |-> [s \in {Socket} |-> route], uplink |-> uplink,
      gateway |-> gateway, remote |-> remote, wifi |-> [i \in {i1} |-> wifi]] :
        incidents \in MCIncidents, route \in MCRoutes, uplink \in MCUplinks,
        gateway \in ProbesOf(g1) \cup {ProbeOf(g2, "Success", TRUE, 0)},
        remote \in ProbesOf(None), wifi \in MCWifi}

-----------------------------------------------------------------------------
(* Two routes to 2-bit-byte addresses; the socket is at <<1, 2>>. *)
RouteOf(id, prefix, net, table, priority, type, out, hops) ==
    [id |-> id, present |-> TRUE, family |-> "Inet", prefix |-> prefix, net |-> net,
     table |-> table, priority |-> priority, type |-> type, out |-> out, hops |-> hops,
     gateway |-> NoValue, source |-> NoValue]

RoutesOf(id) ==
    {RouteOf(id, prefix, net, table, priority, type, path[1], path[2]) :
        prefix \in {0, 1, 3}, net \in {<<1, 2>>, <<1, 0>>}, table \in {"Main", "Policy"},
        priority \in {0, 1}, type \in {"Unicast", "Blackhole"},
        path \in {<<1, {}>>, <<2, {}>>, <<0, {[ifindex |-> 1, gateway |-> g1]}>>}}

MCAttributions ==
    {[socket |-> [netns |-> Netns, local |-> <<3, 3>>, diag |-> diag,
                  remote |-> [family |-> "Inet", address |-> <<1, 2>>]],
      topology |-> [authoritative |-> TRUE, netns |-> Netns, partial |-> FALSE,
                    degraded |-> FALSE, routes |-> {a, b},
                    addresses |-> {[address |-> <<3, 3>>, interface |-> 1]}],
      uplink |-> 1] : a \in RoutesOf(1), b \in RoutesOf(2), diag \in {0, 2}}

(* One counter runs over its modulus, the others move by one. *)
MCIntervals ==
    LET id == [netns |-> Netns, cookie |-> 1, generation |-> 1]
        sample(at, c, count, valid) ==
            [id |-> id, at |-> at, valid |-> valid,
             raw |-> [k \in Counters \cup {"gauges"} |->
                        IF k = c THEN count % CounterModulus ELSE at]]
    IN  {[previous |-> sample(0, c, count, valid), current |-> sample(1, c, count + moved, TRUE),
          counted |-> [k \in Counters |-> IF k = c THEN moved ELSE 1]] :
            c \in Counters, count \in 0..(CounterModulus - 1),
            moved \in 0..(CounterModulus + 1), valid \in BOOLEAN}

-----------------------------------------------------------------------------
allVars == <<part, case, vars>>

MCInit ==
    /\ Init
    /\ \/ part = "Diagnosis" /\ case = [of |-> "None"]
       \/ part = "Function" /\ DerivationInit

MCNext ==
    \/ part = "Diagnosis" /\ Next /\ UNCHANGED <<part, case>>
    \/ part = "Function" /\ UNCHANGED allVars

MCSpec ==
    /\ MCInit /\ [][MCNext]_allVars
    /\ WF_vars(part = "Diagnosis" /\ Probe) /\ WF_queue(part = "Diagnosis" /\ Consume)
    /\ WF_vars(part = "Diagnosis" /\ CommittedCallback)
=============================================================================
