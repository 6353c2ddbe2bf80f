---------------------------- MODULE RootCauseEngine ----------------------------
(***************************************************************************)
(* RootCauseEngine (server/src/root_cause_engine.cpp): the caches that the *)
(* callback fills from the event bus, and the reconciliation of the active *)
(* hypotheses with the ones the rules call for.  The callback runs on the  *)
(* dispatcher thread and holds mutex_, so that one event is one step.      *)
(***************************************************************************)
EXTENDS RootCauseRules

CONSTANTS
    Sockets,             \* in the order of SocketId, a sequence
    Interfaces,          \* in the order of InterfaceId, a sequence
    MaxActive            \* max_active_hypotheses

ASSUME EngineAssumption == MaxActive \in Nat \ {0}

VARIABLES
    cache,      \* active_incidents_, route_events_, uplink_events_, probe_events_, wifi_events_
    active      \* active_: from (type, scope) to hypotheses

engineVars == <<cache, active>>

EngineInit ==
    /\ cache = [incidents |-> <<>>, routes |-> [s \in Range(Sockets) |-> None],
                uplink |-> None, gateway |-> None, remote |-> None,
                wifi |-> [i \in Range(Interfaces) |-> None]]
    /\ active = <<>>

(* The keys of a map of candidates in their order: type, then scope. *)
KeyOrder ==
    <<<<"UplinkAvailabilityProblem", Netns>>>> \o
    FlattenSeq([t \in 1..5 |->
        [s \in 1..Len(Sockets) |->
            <<<<"LocalRoutingProblem", "NetworkPathDegradation", "RemoteOrUpstreamDegradation",
                "LocalLinkSuspected", "InsufficientEvidence">>[t], Sockets[s]>>]])

InOrder(keys) == LET chosen(key) == key \in keys IN SelectSeq(KeyOrder, chosen)

Put(f, key, value) == [k \in DOMAIN f \cup {key} |-> IF k = key THEN value ELSE f[k]]

Without(f, keys) == [k \in DOMAIN f \ keys |-> f[k]]

Newest(s, n) == IF Len(s) <= n THEN s ELSE SubSeq(s, Len(s) - n + 1, Len(s))

(* The desired hypotheses that find room; an active one only takes the new   *)
(* content, and keeps its place.                                             *)
Admit(desired, hypotheses) ==
    LET admit(table, key) ==
            IF key \in DOMAIN table THEN Put(table, key, desired[key])
            ELSE IF Cardinality(DOMAIN table) >= MaxActive THEN table
            ELSE Put(table, key, desired[key])
    IN  FoldLeft(admit, hypotheses, InOrder(DOMAIN desired))

(* reconcileLocked(), with the cache as the event left it: first the desired *)
(* hypotheses, then, from what is active, the ones no longer desired.        *)
reconcileLocked ==
    \E desired \in {Candidates(cache')} :
        LET admitted == Admit(desired, active)
        IN  active' = Without(admitted, DOMAIN admitted \ DOMAIN desired)

(* The event changes the cache and everything is reconciled with it. *)
Learn(c) == cache' = c /\ reconcileLocked

-----------------------------------------------------------------------------
(* process(), one operator per kind of event. *)

ById(incidents) == LET before(a, b) == a.id < b.id IN SortSeq(incidents, before)

OtherIncidents(id) ==
    LET other(incident) == incident.id # id IN SelectSeq(cache.incidents, other)

\* Mutant: a resolution is taken for one more update.
ForgetNothing(incident, state) ==
    ById(Append(OtherIncidents(incident.id), incident))

(* The cache of active incidents after an event; the oldest identifiers go. *)
IncidentsAfter(incident, state) ==
    IF state = "Active"
    THEN Newest(ById(Append(OtherIncidents(incident.id), incident)), 2 * MaxActive)
    ELSE OtherIncidents(incident.id)

ProcessIncident(incident, state) ==
    Learn([cache EXCEPT !.incidents = IncidentsAfter(incident, state)])

(* A map of at most 2 * MaxActive entries: the first key makes room. *)
Bounded(f, order) ==
    LET used(k) == f[k] # None
        keys == SelectSeq(order, used)
    IN  IF Len(keys) <= 2 * MaxActive THEN f ELSE [f EXCEPT ![keys[1]] = None]

ProcessRoute(s, route) ==
    Learn([cache EXCEPT !.routes = Bounded([@ EXCEPT ![s] = route], Sockets)])

ProcessUplink(uplink) == Learn([cache EXCEPT !.uplink = uplink])

\* Mutant: only the first result of a kind is cached.
FirstProbe(probe, current) == current = None

(* A result replaces the cached one of its kind unless it is older. *)
newerProbe(probe, current) == current = None \/ probe.age <= current.age

ProcessProbe(kind, probe) ==
    IF newerProbe(probe, IF kind = "Gateway" THEN cache.gateway ELSE cache.remote)
    THEN Learn(IF kind = "Gateway" THEN [cache EXCEPT !.gateway = probe]
               ELSE [cache EXCEPT !.remote = probe])
    ELSE UNCHANGED engineVars

(* An observation of no interface empties the cache; an older one is ignored. *)
ProcessWifi(interface, entry) ==
    CASE interface = None ->
            Learn([cache EXCEPT !.wifi = [i \in Range(Interfaces) |-> None]])
      [] interface # None /\ cache.wifi[interface] # None
            /\ entry.age > cache.wifi[interface].age -> UNCHANGED engineVars
      [] OTHER ->
            LET previous == IF cache.wifi[interface] = None THEN "None"
                            ELSE cache.wifi[interface].category
                category == IF entry.signal # None /\ entry.capability = "Available"
                                  /\ entry.link = "Associated"
                            THEN SignalCategory(entry.signal, previous) ELSE "None"
            IN  Learn([cache EXCEPT !.wifi = Bounded(
                    [@ EXCEPT ![interface] = [entry EXCEPT !.category = category]], Interfaces)])

(* Observations grow old; what is older than any freshness is one age. *)
Older(observation) ==
    IF observation = None THEN None
    ELSE [observation EXCEPT !.age =
            IF @ > ProbeFreshness /\ @ > WifiFreshness THEN @ ELSE @ + 1]

CacheGrowsOld ==
    cache' = [cache EXCEPT !.gateway = Older(@), !.remote = Older(@),
                           !.wifi = [i \in Range(Interfaces) |-> Older(@[i])]]
=============================================================================
