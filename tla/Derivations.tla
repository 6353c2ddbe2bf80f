------------------------------ MODULE Derivations ------------------------------
(***************************************************************************)
(* What the pure functions of the daemon promise, over bounded inputs: the *)
(* root-cause rules, the attribution of a socket to an interface and the   *)
(* interval metrics.  A behaviour is one input, which never changes.       *)
(***************************************************************************)
EXTENDS RootCauseRules, SocketRouteAttributor, TcpInterval

CONSTANTS
    Contexts,        \* inputs of buildCandidatesLocked(), for the socket Socket
    Socket,
    Attributions,    \* inputs of attribute(): [socket, topology, uplink]
    Intervals,       \* pairs of samples, with what the kernel really counted
    CounterModulus   \* the counters of the kernel wrap here, not at 2^32

VARIABLE case

Inputs ==
    {[of |-> "Rules", in |-> c] : c \in Contexts}
    \cup {[of |-> "Attribution", in |-> a] : a \in Attributions}
    \cup {[of |-> "Interval", in |-> i] : i \in Intervals}

DerivationInit == case \in Inputs

-----------------------------------------------------------------------------
(* Reference: a probe says something about the path if it was sent, recently, *)
(* and, for the gateway's, to the gateway and interface of the socket's route. *)
Informs(probe) ==
    /\ probe # None /\ probe.age <= ProbeFreshness
    /\ probe.status \in {"Success", "Timeout"}

InformsOfGateway(probe, route) ==
    /\ Informs(probe) /\ route # None /\ route.gateway # None
    /\ <<probe.gateway, probe.interface>> = <<route.gateway, route.interface>>

(* The context without the probes that say nothing. *)
Silent(c) ==
    [c EXCEPT !.gateway = IF InformsOfGateway(@, c.routes[Socket]) THEN @ ELSE None,
              !.remote = IF Informs(@) THEN @ ELSE None]

(* A probe that is stale, was sent to another gateway or could not be sent   *)
(* counts for nothing: the hypotheses, their confidence and their support    *)
(* are those without it.                                                     *)
MissingIsNeutral ==
    case.of = "Rules" =>
        LET with == Candidates(case.in)
            without == Candidates(Silent(case.in))
        IN  /\ DOMAIN with = DOMAIN without
            /\ \A key \in DOMAIN with :
                /\ with[key].confidence = without[key].confidence
                /\ with[key].supporting = without[key].supporting

(* High confidence in a degraded path takes two kinds of TCP incident, a     *)
(* gateway that answers in time and a remote target that answers late, all   *)
(* in the evidence that is shown; no other hypothesis about a path is High.  *)
HighIsCorroborated ==
    case.of = "Rules" =>
        LET hypotheses == Candidates(case.in)
        IN  \A key \in DOMAIN hypotheses :
                key[1] \in {"NetworkPathDegradation", "LocalLinkSuspected", "InsufficientEvidence",
                            "RemoteOrUpstreamDegradation"}
                /\ hypotheses[key].confidence = High =>
                    /\ key[1] = "NetworkPathDegradation"
                    /\ BothIncidents(hypotheses[key].supporting)
                    /\ Has(hypotheses[key].supporting, "GatewayProbeReachable")
                    /\ Has(hypotheses[key].supporting, "RemoteProbeHighRtt")

(* The local link and the far side of the gateway are not blamed together,   *)
(* and the far side never without a fresh answer of the gateway itself.      *)
OneSideBlamed ==
    case.of = "Rules" =>
        LET hypotheses == Candidates(case.in)
            blamed(type) == <<type, Socket>> \in DOMAIN hypotheses
        IN  blamed("RemoteOrUpstreamDegradation") =>
                /\ ~blamed("LocalLinkSuspected")
                /\ InformsOfGateway(case.in.gateway, case.in.routes[Socket])
                /\ case.in.gateway.status = "Success" /\ ~case.in.gateway.high

(* The rules conclude no more than their evidence carries.                   *)
RulesAreCautious == MissingIsNeutral /\ HighIsCorroborated /\ OneSideBlamed

-----------------------------------------------------------------------------
(* Reference: the value of an address, and the one of its leading bits. *)
AddressValue(address) ==
    FoldLeft(LAMBDA value, byte : value * 2^ByteBits + byte, 0, address)

Leading(address, bits) == AddressValue(address) \div 2^(AddressBits(address) - bits)

(* The routes that no other matching route beats, stated from scratch. *)
Best(socket, topology) ==
    LET matching == {r \in topology.routes :
            r.present /\ r.type \in ModeledTypes /\ r.family = socket.remote.family
            /\ Leading(r.net, r.prefix) = Leading(socket.remote.address, r.prefix)}
        beats(a, b) ==
            \/ a.prefix > b.prefix
            \/ a.prefix = b.prefix /\ tableRank(a.table) < tableRank(b.table)
            \/ a.prefix = b.prefix /\ tableRank(a.table) = tableRank(b.table)
                  /\ a.priority < b.priority
    IN  {r \in matching : \A q \in matching : ~beats(q, r)}

(* An Available context names the one interface on which every best route    *)
(* sends, and no observation of the kernel's own choice contradicts it.      *)
AvailableIsForced ==
    case.of = "Attribution" =>
        LET result == attribute(case.in.socket, case.in.topology, case.in.uplink)
            best == Best(case.in.socket, case.in.topology)
        IN  result.status = "Available" =>
                /\ best # {} /\ result.selected # 0
                /\ \A r \in best : r.type = "Unicast" /\ Outputs(r) = {result.selected}
                /\ case.in.socket.diag \in {0, result.selected}

(* A route that a better one beats changes nothing in the context. *)
BeatenIsIgnored ==
    case.of = "Attribution" =>
        LET in == case.in
            best == Best(in.socket, in.topology)
        IN  best # {} =>
                attribute(in.socket, [in.topology EXCEPT !.routes = best], in.uplink)
                    = attribute(in.socket, in.topology, in.uplink)

(* The best routes, and they alone, decide the context.                      *)
BestRouteDecides == AvailableIsForced /\ BeatenIsIgnored

-----------------------------------------------------------------------------
(* No interval reports more than the kernel counted, also when a 32-bit      *)
(* counter wrapped in between; and one that reports no reset has the exact   *)
(* count of every counter that wrapped less than once around.                *)
NothingInvented ==
    case.of = "Interval" =>
        CountsOnly(case.in.previous, case.in.current, case.in.counted, CounterModulus)
=============================================================================
