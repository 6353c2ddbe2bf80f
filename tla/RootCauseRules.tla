---------------------------- MODULE RootCauseRules ----------------------------
(***************************************************************************)
(* The rules of server/src/root_cause_engine.cpp: buildCandidatesLocked()  *)
(* and its helpers, as operators on the evidence that the engine caches.   *)
(* The daemon observes one network namespace, so that the uplink and the   *)
(* two probes are single values.  Timestamps are ages; wording is left     *)
(* out: a hypothesis is told apart by its type and scope, its confidence,  *)
(* its reason and the kinds and values of its evidence, which is what      *)
(* sameContent() compares.                                                 *)
(***************************************************************************)
EXTENDS Integers, SequencesExt

CONSTANTS
    Netns,               \* the scope of the uplink hypothesis
    None,                \* an empty std::optional, a missing cache entry
    MaxEvidence,         \* max_evidence_per_hypothesis
    ProbeFreshness, WifiFreshness,   \* the freshness windows, in ticks
    WeakDbm, VeryWeakDbm, WeakRecoverDbm, VeryWeakRecoverDbm

ASSUME RulesAssumption ==
    /\ MaxEvidence \in Nat \ {0} /\ ProbeFreshness \in Nat /\ WifiFreshness \in Nat
    /\ VeryWeakDbm < WeakDbm /\ WeakDbm < WeakRecoverDbm
    /\ VeryWeakDbm < VeryWeakRecoverDbm /\ VeryWeakRecoverDbm < WeakRecoverDbm

Low == 0
Medium == 1
High == 2

(* e if the condition holds, as a sequence. *)
If(condition, e) == IF condition THEN <<e>> ELSE <<>>

usableValidity(validity) == validity \in {"Valid", "Partial"}

(* The source of a piece of evidence is the incident it cites, or None. *)
Evidence(kind, source, value) == [kind |-> kind, source |-> source, value |-> value]
Fact(kind) == Evidence(kind, None, None)

Has(evidence, kind) == \E i \in 1..Len(evidence) : evidence[i].kind = kind

addEvidence(evidence, e) ==
    IF Contains(evidence, e) THEN evidence
    ELSE IF Len(evidence) < MaxEvidence THEN Append(evidence, e)
    ELSE IF MaxEvidence = 1 THEN <<e>>
    ELSE Append(RemoveAt(evidence, 2), e)

Collect(pieces) == FoldLeft(addEvidence, <<>>, pieces)

-----------------------------------------------------------------------------
(* Probes: [status, validity, high, gateway, interface, age].  gateway and   *)
(* interface are the target of a gateway probe; high compares the RTT with   *)
(* the threshold of its kind.                                                *)

\* Mutant: a gateway probe counts whatever gateway it was sent to.
AnyGatewayTarget(probe, route) == route # None

sameGatewayTarget(probe, route) ==
    /\ route # None /\ route.gateway # None /\ route.interface # None
    /\ probe.gateway = route.gateway
    /\ probe.interface = route.interface

FreshProbe(probe) == probe.age <= ProbeFreshness

\* Mutant: a probe that could not be sent counts as a timeout.
TransportIsTimeout(probe) ==
    CASE probe.status = "Success" -> IF probe.high THEN "HighRtt" ELSE "Reachable"
      [] OTHER -> "Timeout"

(* What a matching, fresh result says. *)
ProbeVerdict(probe) ==
    CASE probe.status = "Success" /\ usableValidity(probe.validity) ->
            IF probe.high THEN "HighRtt" ELSE "Reachable"
      [] probe.status = "Timeout" /\ usableValidity(probe.validity) -> "Timeout"
      [] OTHER -> "Missing"

classifyGateway(probe, route) ==
    IF probe = None \/ ~sameGatewayTarget(probe, route) THEN "Missing"
    ELSE IF ~FreshProbe(probe) THEN "Stale"
    ELSE ProbeVerdict(probe)

classifyRemote(probe) ==
    IF probe = None THEN "Missing"
    ELSE IF ~FreshProbe(probe) THEN "Stale"
    ELSE ProbeVerdict(probe)

UsableProbeContext(meaning) == meaning \in {"Reachable", "HighRtt", "Timeout"}

-----------------------------------------------------------------------------
(* Wi-Fi: [capability, link, station, validity, generation, lowRate,         *)
(* category, age] for each interface, or None.                               *)

(* The category a signal gets after the previous one, with hysteresis. *)
SignalCategory(signal, previous) ==
    CASE previous = "VeryWeak" ->
            IF signal < VeryWeakRecoverDbm THEN "VeryWeak"
            ELSE IF signal <= WeakDbm THEN "Weak" ELSE "Normal"
      [] previous = "Weak" ->
            IF signal <= VeryWeakDbm THEN "VeryWeak"
            ELSE IF signal >= WeakRecoverDbm THEN "Normal" ELSE "Weak"
      [] OTHER ->
            IF signal <= VeryWeakDbm THEN "VeryWeak"
            ELSE IF signal <= WeakDbm THEN "Weak" ELSE "Normal"

currentInterface(route, uplink) ==
    IF route # None
    THEN IF route.status = "Available" /\ route.authoritative THEN route.interface ELSE None
    ELSE IF uplink # None /\ usableValidity(uplink.validity) /\ uplink.selected
         THEN uplink.interface ELSE None

(* The cached observation of the interface that the socket uses. *)
WifiEntry(wifi, route, uplink) ==
    LET selected == currentInterface(route, uplink)
    IN  IF selected = None THEN None ELSE wifi[selected]

OlderGeneration(entry, route) ==
    route # None /\ route.generation # 0 /\ entry.generation # 0
       /\ route.generation # entry.generation

classifyWifi(entry, route) ==
    IF entry = None THEN "Missing"
    ELSE IF entry.age > WifiFreshness THEN "Stale"
    ELSE IF OlderGeneration(entry, route) THEN "Mismatch"
    ELSE IF ~usableValidity(entry.validity) THEN "Missing"
    ELSE IF ~entry.station \/ entry.capability = "NotWifi" THEN "NotApplicable"
    ELSE IF entry.capability = "Available" /\ entry.link = "Associated" THEN "Associated"
    ELSE IF entry.capability = "NotAssociated" /\ entry.link \in {"NotAssociated", "Unknown"}
         THEN "NotAssociated"
    ELSE "Missing"

wifiUnavailable(meaning) ==
    Fact(CASE meaning = "Stale" -> "WifiEvidenceStale"
           [] meaning = "Mismatch" -> "WifiInterfaceMismatch"
           [] OTHER -> "WifiEvidenceUnavailable")

-----------------------------------------------------------------------------
(* The context of one recomputation: the cached incidents in the order of    *)
(* their identifiers, and the latest route, uplink, probe and Wi-Fi          *)
(* observations.                                                             *)

TcpTypes == {"HighTcpRtt", "ElevatedTcpRetransmission"}

evidenceKind(type) ==
    CASE type = "UplinkUnavailable" -> "AuthoritativeNoUsableUplink"
      [] type = "RouteUnavailable" -> "AuthoritativeRouteUnavailable"
      [] OTHER -> type

incidentEvidence(incident) ==
    Evidence(evidenceKind(incident.type), incident.id, incident.value)

(* The evidence of the incidents of some types on a scope. *)
Cited(c, scope, types) ==
    LET about(incident) == incident.scope = scope /\ incident.type \in types
        chosen == SelectSeq(c.incidents, about)
    IN  [i \in DOMAIN chosen |-> incidentEvidence(chosen[i])]

Scopes(c, types) ==
    {c.incidents[i].scope : i \in {j \in DOMAIN c.incidents : c.incidents[j].type \in types}}

Hypothesis(confidence, reason, supporting, contradicting, missing) ==
    [confidence |-> confidence, reason |-> reason, supporting |-> supporting,
     contradicting |-> contradicting, missing |-> missing]

Lowered(confidence) == IF confidence = Low THEN Low ELSE confidence - 1

UsableRoute(route) ==
    route # None /\ route.status = "Available" /\ route.authoritative
       /\ usableValidity(route.validity)

UsableUplink(uplink) == uplink # None /\ uplink.selected /\ usableValidity(uplink.validity)

(* UplinkAvailabilityProblem, weakened by an uplink that is back. *)
UplinkProblem(c) ==
    LET back == UsableUplink(c.uplink)
    IN  Hypothesis(IF back THEN Medium ELSE High, "active_uplink_unavailable",
                   Collect(Cited(c, Netns, {"UplinkUnavailable"})),
                   If(back, Fact("UsableUplinkAvailable")), <<>>)

(* LocalRoutingProblem of socket s; reason is the one of the first incident. *)
RoutingProblem(c, s) ==
    LET incidents == Cited(c, s, {"RouteUnavailable", "SocketRouteConflict"})
        route == c.routes[s]
        gateway == IF route = None THEN "Missing" ELSE classifyGateway(c.gateway, route)
        confidence == IF Has(incidents, "AuthoritativeRouteUnavailable") THEN High ELSE Medium
    IN  Hypothesis(
            IF UsableRoute(route) THEN Lowered(confidence) ELSE confidence,
            IF incidents[1].kind = "SocketRouteConflict"
            THEN "socket_route_evidence_conflict" ELSE "authoritative_no_modeled_route",
            Collect(incidents
                    \o If(gateway = "HighRtt", Fact("GatewayProbeHighRtt"))
                    \o If(gateway = "Timeout", Fact("GatewayProbeTimeout"))),
            Collect(If(UsableRoute(route), Fact("ModeledRouteAvailable"))
                    \o If(gateway = "Reachable", Fact("GatewayProbeReachable"))),
            <<Fact("PolicyRoutingStateUnavailable")>>)

-----------------------------------------------------------------------------
(* The hypotheses about a degraded path of socket s. *)

ProbeSupport(gateway, remote) ==
    If(gateway = "Reachable", Fact("GatewayProbeReachable"))
    \o If(gateway = "HighRtt", Fact("GatewayProbeHighRtt"))
    \o If(gateway = "Timeout", Fact("GatewayProbeTimeout"))
    \o If(remote = "HighRtt", Fact("RemoteProbeHighRtt"))
    \o If(remote = "Timeout", Fact("RemoteProbeTimeout"))

ProbeMissing(gateway, remote) ==
    If(gateway = "Stale", Fact("ProbeEvidenceStale"))
    \o If(gateway = "Missing", Fact("GatewayProbeUnavailable"))
    \o If(remote = "Stale", Evidence("ProbeEvidenceStale", None, "Remote"))
    \o If(remote = "Missing", Fact("RemoteProbeUnavailable"))

SignalFact(entry) ==
    If(entry.category # "None",
       Fact(CASE entry.category = "Weak" -> "WifiSignalWeak"
              [] entry.category = "VeryWeak" -> "WifiSignalVeryWeak"
              [] OTHER -> "WifiSignalNormal"))

WifiSupport(entry, meaning) ==
    CASE meaning = "Associated" ->
            <<Fact("WifiAssociated")>> \o SignalFact(entry)
               \o If(entry.lowRate, Fact("WifiTxBitrateLow"))
      [] meaning = "NotAssociated" -> <<Fact("WifiNotAssociated")>>
      [] OTHER -> <<>>

(* What all hypotheses about the path of s are computed from. *)
PathFacts(c, s) ==
    LET route == c.routes[s]
        entry == WifiEntry(c.wifi, route, c.uplink)
        wifi == classifyWifi(entry, route)
        gateway == classifyGateway(c.gateway, route)
        weak == wifi = "Associated" /\ entry.category \in {"Weak", "VeryWeak"}
    IN  [scope |-> s, incidents |-> Cited(c, s, TcpTypes), entry |-> entry, wifi |-> wifi,
         gateway |-> gateway, remote |-> classifyRemote(c.remote),
         route |-> UsableRoute(route),
         uplink |-> UsableUplink(c.uplink) /\ c.uplink.flags,
         veryWeak |-> weak /\ entry.category = "VeryWeak",
         degraded |-> gateway \in {"HighRtt", "Timeout"},
         weak |-> weak]

(* Wi-Fi that points at the local link: localWifiContext. *)
LocalLink(f) == f.wifi = "NotAssociated" \/ (f.weak /\ f.degraded)

PathSupport(f) ==
    f.incidents
    \o If(f.route, Fact("ModeledRouteAvailable"))
    \o If(f.uplink, Fact("UsableUplinkAvailable"))
    \o ProbeSupport(f.gateway, f.remote)
    \o WifiSupport(f.entry, f.wifi)

PathMissing(f) ==
    If(~f.route, Fact("TopologyUnavailable"))
    \o If(~f.uplink, Evidence("TopologyUnavailable", None, "Uplink"))
    \o ProbeMissing(f.gateway, f.remote)
    \o If(f.wifi \notin {"Associated", "NotAssociated"}, wifiUnavailable(f.wifi))

BothIncidents(evidence) ==
    Has(evidence, "HighTcpRtt") /\ Has(evidence, "ElevatedTcpRetransmission")

(* The confidence after the two-incident rule and the probe rules. *)
PathConfidence(f, supporting) ==
    LET start == IF BothIncidents(Collect(f.incidents)) THEN Medium ELSE Low
        raised == IF f.gateway = "HighRtt" \/ f.remote = "HighRtt" THEN Medium ELSE start
        beyond == f.gateway = "Reachable" /\ f.remote \in {"HighRtt", "Timeout"}
    IN  CASE beyond /\ raised = Low -> Medium
          [] beyond /\ raised = Medium /\ f.remote = "HighRtt" /\ BothIncidents(supporting) -> High
          [] OTHER -> raised

PathDegradation(f) ==
    LET supporting == Collect(PathSupport(f))
    IN  Hypothesis(PathConfidence(f, supporting), "observed_tcp_path_degradation",
                   supporting,
                   If(f.remote = "Reachable", Fact("RemoteProbeReachable")),
                   Collect(PathMissing(f)))

IncidentKinds(evidence) ==
    LET incident(e) == e.kind \in TcpTypes IN SelectSeq(evidence, incident)

LocalLinkSuspected(f) ==
    LET path == PathDegradation(f)
        none == f.wifi = "NotAssociated"
        signal == IF f.veryWeak THEN "WifiSignalVeryWeak" ELSE "WifiSignalWeak"
    IN  Hypothesis(
            IF none \/ f.veryWeak \/ path.confidence >= Medium THEN Medium ELSE Low,
            IF none THEN "current_wifi_not_associated_during_path_degradation"
            ELSE "weak_current_wifi_and_gateway_degradation",
            Collect(IncidentKinds(path.supporting)
                    \o (IF none THEN <<Fact("WifiNotAssociated")>>
                        ELSE <<Fact(signal), Fact("WifiAssociated")>>)
                    \o If(f.gateway = "HighRtt", Fact("GatewayProbeHighRtt"))
                    \o If(f.gateway = "Timeout", Fact("GatewayProbeTimeout"))),
            <<>>, <<Fact("GatewayDeviceHealthUnavailable")>>)

(* The context of the path is unknown: no route, or no usable probe. *)
InsufficientContext(f) ==
    \/ ~f.route
    \/ /\ f.uplink /\ ~LocalLink(f)
       /\ ~UsableProbeContext(f.gateway) \/ ~UsableProbeContext(f.remote)

InsufficientEvidence(f) ==
    IF ~f.route
    THEN Hypothesis(Low, "tcp_path_context_unavailable", Collect(f.incidents), <<>>,
                    <<Fact("TopologyUnavailable")>>)
    ELSE LET path == PathDegradation(f)
             probes(e) == e.kind \in {"GatewayProbeUnavailable", "RemoteProbeUnavailable",
                                      "ProbeEvidenceStale"}
         IN  Hypothesis(Low, "tcp_probe_context_unavailable", IncidentKinds(path.supporting),
                        <<>>, SelectSeq(path.missing, probes))

(* The path is degraded beyond a healthy gateway. *)
BeyondGateway(c, f) ==
    /\ f.route /\ UsableUplink(c.uplink)
    /\ f.gateway = "Reachable" /\ f.remote \in {"HighRtt", "Timeout"}
    /\ f.wifi # "NotAssociated" /\ ~f.veryWeak

RemoteDegradation(f) ==
    Hypothesis(Medium, "degradation_appears_beyond_local_gateway",
        Collect(PathDegradation(f).supporting
                \o (IF f.wifi = "Associated"
                    THEN <<Evidence("WifiAssociated", None, "beyond")>>
                         \o If(f.entry.category = "Normal",
                               Evidence("WifiSignalNormal", None, "beyond"))
                    ELSE <<>>)),
        <<>>,
        Collect(<<Fact("SocketEndpointSpecificProbeUnavailable"),
                  Fact("HopLevelEvidenceUnavailable")>>))

-----------------------------------------------------------------------------
(* buildCandidatesLocked(): a function from (type, scope) to hypotheses. *)

PathCandidates(c, f) ==
    LET types == {"NetworkPathDegradation"}
                 \cup (IF LocalLink(f) THEN {"LocalLinkSuspected"} ELSE {})
                 \cup (IF InsufficientContext(f) THEN {"InsufficientEvidence"} ELSE {})
                 \cup (IF BeyondGateway(c, f) THEN {"RemoteOrUpstreamDegradation"} ELSE {})
    IN  [key \in types \X {f.scope} |->
            CASE key[1] = "NetworkPathDegradation" -> PathDegradation(f)
              [] key[1] = "LocalLinkSuspected" -> LocalLinkSuspected(f)
              [] key[1] = "InsufficientEvidence" -> InsufficientEvidence(f)
              [] OTHER -> RemoteDegradation(f)]

(* The union of functions with disjoint domains. *)
Merge(functions) ==
    [key \in UNION {DOMAIN f : f \in functions} |->
        (CHOOSE f \in functions : key \in DOMAIN f)[key]]

Candidates(c) ==
    Merge({[key \in {<<"UplinkAvailabilityProblem", n>>} |-> UplinkProblem(c)] :
                n \in Scopes(c, {"UplinkUnavailable"})}
          \cup {[key \in {<<"LocalRoutingProblem", s>>} |-> RoutingProblem(c, s)] :
                s \in Scopes(c, {"RouteUnavailable", "SocketRouteConflict"})}
          \cup {PathCandidates(c, f) : f \in {PathFacts(c, s) : s \in Scopes(c, TcpTypes)}})
=============================================================================
