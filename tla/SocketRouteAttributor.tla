------------------------- MODULE SocketRouteAttributor -------------------------
(***************************************************************************)
(* SocketRouteAttributor::attribute() (server/src/socket_route_attributor  *)
(* .cpp): the interface that the routes of a topology give a socket, as a  *)
(* function.  An address is a sequence of bytes of ByteBits bits; a route  *)
(* is [present, family, net, prefix, table, priority, type, out, hops,     *)
(* gateway, source, id] and an output 0 is none.  Reasons are a set.       *)
(***************************************************************************)
EXTENDS Integers, FiniteSets, Sequences

CONSTANTS NoValue, ByteBits

ASSUME AddressAssumption == ByteBits \in Nat \ {0}

supportedFamily(family) == family \in {"Inet", "Inet6"}

AddressBits(address) == ByteBits * Len(address)

(* The bits that the mask of a partial byte keeps. *)
HighBits(byte, bits) == byte \div 2^(ByteBits - bits)

(* prefixMatches(): the full bytes, then the masked remainder. *)
prefixMatches(destination, route) ==
    LET full == route.prefix \div ByteBits
        remainder == route.prefix % ByteBits
    IN  /\ supportedFamily(destination.family) /\ destination.family = route.family
        /\ route.prefix <= AddressBits(destination.address)
        /\ \A i \in 1..full : destination.address[i] = route.net[i]
        /\ remainder # 0 => HighBits(destination.address[full + 1], remainder)
                              = HighBits(route.net[full + 1], remainder)

tableRank(table) == CASE table = "Main" -> 0 [] table = "Default" -> 1 [] OTHER -> 2

Outputs(route) == (({route.out} \cup {hop.ifindex : hop \in route.hops}) \ {0})

sameOutput(left, right) == Outputs(left) = Outputs(right) /\ left.type = right.type

ModeledTypes == {"Unicast", "Local", "Blackhole", "Unreachable", "Prohibit"}

Matching(socket, topology) ==
    {r \in topology.routes : r.present /\ prefixMatches(socket.remote, r)
                                /\ r.type \in ModeledTypes}

\* Mutant: the metric is compared before the table.
PriorityFirst(a, b) ==
    \/ a.priority < b.priority
    \/ a.priority = b.priority /\ tableRank(a.table) <= tableRank(b.table)

Ranked(a, b) ==
    \/ tableRank(a.table) < tableRank(b.table)
    \/ tableRank(a.table) = tableRank(b.table) /\ a.priority <= b.priority

(* The longest prefix, then the best rank. *)
Longest(routes) == {r \in routes : \A q \in routes : q.prefix <= r.prefix}
Tied(routes) == {r \in Longest(routes) : \A q \in Longest(routes) : Ranked(r, q)}

onLink(route) == route.gateway = NoValue /\ route.hops = {}

(* The part of the reasons that the chosen route gives. *)
RouteReasons(route, outputs) ==
    {reason \in {"MissingOutputInterface", "GatewayEvidence", "OnLinkEvidence", "LocalRoute",
                 "PolicyRoutingNotModeled"} :
        CASE reason = "MissingOutputInterface" -> route.type = "Unicast" /\ outputs = {}
          [] reason = "GatewayEvidence" ->
                route.gateway # NoValue \/ \E hop \in route.hops : hop.gateway # NoValue
          [] reason = "OnLinkEvidence" -> onLink(route) /\ route.type = "Unicast"
          [] reason = "LocalRoute" -> route.type = "Local"
          [] OTHER -> route.type \notin {"Unicast", "Local"} \/ tableRank(route.table) = 2}

DiagReasons(diag, outputs) ==
    IF diag = 0 THEN {"DiagIfindexUnavailable"}
    ELSE IF diag \in outputs THEN {"DiagIfindexAgrees"} ELSE {"DiagIfindexConflicts"}

(* The local address is one of an output, or the preferred source. *)
AddressReasons(socket, topology, route, outputs) ==
    LET agrees == \E a \in topology.addresses :
                    a.address = socket.local /\ a.interface \in outputs
    IN  (IF agrees \/ route.source = socket.local THEN {"LocalAddressAgrees"}
         ELSE IF outputs # {} THEN {"LocalAddressConflicts"} ELSE {})
        \cup (IF route.source \notin {NoValue, socket.local}
              THEN {"LocalAddressConflicts"} ELSE {})

Relationship(route, possible, uplink) ==
    IF route.type = "Local" THEN "NonUplinkLocal"
    ELSE IF uplink = 0 \/ possible = {} THEN "Unknown"
    ELSE IF possible = {uplink} THEN "MatchesSelectedUplink"
    ELSE IF uplink \in possible THEN "PossibleSelectedUplink"
    ELSE "DifferentFromSelectedUplink"

TopologyReasons(topology) ==
    (IF topology.partial THEN {"TopologyPartial"} ELSE {})
    \cup (IF topology.degraded THEN {"TopologyDegraded"} ELSE {})

Unattributed(reasons) ==
    [status |-> "Unavailable", reasons |-> reasons, possible |-> {}, selected |-> 0,
     route |-> NoValue, relation |-> "Unknown"]

NoDiag(socket) == IF socket.diag = 0 THEN {"DiagIfindexUnavailable"} ELSE {}

Blocking == {"DiagIfindexConflicts", "LocalAddressConflicts", "MissingOutputInterface",
             "PolicyRoutingNotModeled"}

(* attribute(), for candidates that are tied. *)
Attribution(socket, topology, uplink, tied) ==
    LET ambiguous == \E r, q \in tied : ~sameOutput(r, q)
        route == CHOOSE r \in tied : \A q \in tied : r.id <= q.id
        forward == {r \in (IF ambiguous THEN tied ELSE {route}) : r.type = "Unicast"}
        possible == UNION {Outputs(r) : r \in forward}
        reasons == RouteReasons(route, possible) \cup DiagReasons(socket.diag, possible)
                   \cup AddressReasons(socket, topology, route, possible)
        status == IF /\ ~ambiguous /\ route.type = "Unicast" /\ route.hops = {}
                     /\ reasons \cap Blocking = {} /\ ~topology.partial /\ ~topology.degraded
                  THEN "Available" ELSE IF ambiguous THEN "Ambiguous" ELSE "Partial"
    IN  [status |-> status,
         reasons |-> reasons
            \cup TopologyReasons(topology)
            \cup (IF ambiguous THEN {"AmbiguousCandidate"} ELSE {})
            \cup (IF status = "Available" THEN {"ExactModeledMatch"} ELSE {})
            \cup (IF status = "Partial" /\ route.hops # {}
                  THEN {"MultipathWithoutFlowHash"} ELSE {}),
         possible |-> possible,
         selected |-> IF route.type # "Local" /\ Cardinality(possible) = 1
                      THEN CHOOSE i \in possible : TRUE ELSE 0,
         route |-> route.id,
         relation |-> Relationship(route, possible, uplink)]

attribute(socket, topology, uplink) ==
    IF ~topology.authoritative \/ socket.netns # topology.netns
    THEN Unattributed({"TopologyNonAuthoritative"} \cup NoDiag(socket))
    ELSE LET candidates == Matching(socket, topology)
         IN  IF candidates = {}
             THEN Unattributed({"NoModeledRoute"} \cup TopologyReasons(topology) \cup NoDiag(socket))
             ELSE Attribution(socket, topology, uplink, Tied(candidates))
=============================================================================
