---------------------------- MODULE IncidentEngine ----------------------------
(***************************************************************************)
(* The incident state machine of server/src/incident_engine.cpp.  Each     *)
(* observation that the dispatcher hands to process() is judged Bad, Good, *)
(* Neutral or Unavailable for an incident key (a type and a scope); a run  *)
(* of Bad verdicts opens an incident, a run of Good ones resolves it, and  *)
(* the end of a socket (closed, or its cookie reused by a newer            *)
(* generation) resolves whatever is open on it.                            *)
(*                                                                         *)
(* The inputs are the observations that SocketTracker and NetlinkCollector *)
(* publish, in the order in which SocketTracker publishes them for one     *)
(* socket; the bounded bus may lose any of them, and the route contexts    *)
(* that the netlink thread recomputes may arrive after the socket closed.  *)
(***************************************************************************)
EXTENDS Integers, Sequences, FiniteSets

CONSTANTS
    Sockets,              \* socket identities (SocketId), generation included
    Cookie, NoCookie,     \* Cookie[s]: the kernel cookie of s, NoCookie if unknown
    Generation,           \* Generation[s]: reuse counter of the identity
    Netns,                \* the scope of the uplink incident
    Activation, Recovery, \* activation_consecutive, recovery_consecutive
    MaxEvidence, MaxTracked, MaxRecent,
    RttActivation, RttRecovery, RatioActivation, RatioRecovery, MinimumSegments,
    Unknown,              \* a sample without the field the rule reads
    RttSamples,           \* RTTs, or Unknown
    IntervalSamples,      \* [ratio, segments, reset], ratio or segments Unknown
    RouteContexts,        \* [status, reasons, ifindex]
    UplinkSamples,        \* [selected, validity]
    MaxIncidents          \* bound: incidents opened in one behaviour

ASSUME PolicyAssumption ==
    /\ Activation \in Nat \ {0} /\ Recovery \in Nat \ {0}
    /\ MaxEvidence \in Nat \ {0} /\ MaxTracked \in Nat \ {0} /\ MaxRecent \in Nat \ {0}
    /\ RttActivation \in Nat /\ RttRecovery \in Nat /\ RttRecovery < RttActivation
    /\ RatioActivation \in Nat /\ RatioRecovery \in Nat /\ RatioRecovery < RatioActivation
    /\ MinimumSegments \in Nat /\ MaxIncidents \in Nat

ASSUME SocketAssumption ==
    /\ IsFiniteSet(Sockets) /\ Netns \notin Sockets /\ Unknown \notin Nat
    /\ Sockets \subseteq DOMAIN Cookie /\ Sockets \subseteq DOMAIN Generation
    /\ \A s \in Sockets : Generation[s] \in Nat
    /\ \A s, t \in Sockets :
          s # t /\ Cookie[s] # NoCookie /\ Cookie[s] = Cookie[t]
             => Generation[s] # Generation[t]

SocketTypes ==
    {"HighTcpRtt", "ElevatedTcpRetransmission", "RouteUnavailable", "SocketRouteConflict"}
UplinkKey == <<"UplinkUnavailable", Netns>>
Keys == (SocketTypes \X Sockets) \cup {UplinkKey}
SocketKeys(s) == SocketTypes \X {s}

VARIABLES
    running,              \* the engine is subscribed to the bus
    records,              \* records_, one record per key
    authoritative,        \* authoritative_sockets_
    resolved,             \* resolved_, the identifiers of recent resolutions
    next_incident_id,
    emissions,            \* the incident observations published by the last step
    tracker,              \* where SocketTracker is in the life of each socket
    heard, ended,         \* history: Active, Closed observations that were processed
    window,               \* history: the last decisive verdicts of each key
    view                  \* history: active incidents as told by the emissions

engine == <<running, records, authoritative, resolved, next_incident_id>>
history == <<tracker, heard, ended, window, view>>
vars == <<running, records, authoritative, resolved, next_incident_id, emissions,
          tracker, heard, ended, window, view>>

-----------------------------------------------------------------------------
(* Records, evidence and the verdict of one rule on one sample. *)

NoRecord == [status |-> "none", bad |-> 0, good |-> 0, id |-> 0, evidence |-> <<>>]

(* A verdict with the value and the validity it was based on. *)
Evidence(verdict, value) == [verdict |-> verdict, value |-> value]

Equivalent(evidence, e) == evidence # <<>> /\ evidence[Len(evidence)] = e

\* Mutant: the oldest sample goes, the opening one included.
EvictOldest(evidence, e) == Append(Tail(evidence), e)

EvictIntermediate(evidence, e) ==
    IF MaxEvidence = 1 THEN <<e>>
    ELSE <<evidence[1]>> \o SubSeq(evidence, 3, Len(evidence)) \o <<e>>

HasSpace(evidence) == Len(evidence) < MaxEvidence

AppendEvidence(evidence, e) ==
    IF Equivalent(evidence, e) THEN evidence
    ELSE IF HasSpace(evidence) THEN Append(evidence, e)
    ELSE EvictIntermediate(evidence, e)

\* Mutant: a sample inside the hysteresis band leaves the streaks alone.
IgnoreNeutral(r) == r

AfterNeutral(r) ==
    IF r.status = "active" THEN [r EXCEPT !.good = 0] ELSE NoRecord

\* Mutant: one Good sample too many is asked for.
RecoveryOffByOne(r) == r.status = "active" /\ r.good + 1 > Recovery

RecoveryComplete(r) == r.status = "active" /\ r.good + 1 >= Recovery

AfterGood(r) ==
    IF r.status = "active" /\ ~RecoveryComplete(r)
    THEN [r EXCEPT !.bad = 0, !.good = @ + 1]
    ELSE NoRecord

GoodStreakAfterBad(r) == 0

(* id is the identifier an incident opened by this sample would get. *)
AfterBad(r, e, room, id) ==
    IF r.status = "active" THEN
        [r EXCEPT !.good = GoodStreakAfterBad(r),
                  !.bad = IF @ < Activation THEN @ + 1 ELSE Activation,
                  !.evidence = AppendEvidence(@, e)]
    ELSE IF r.status = "none" /\ ~room THEN NoRecord
    ELSE IF r.bad + 1 < Activation THEN
        [status |-> "pending", bad |-> r.bad + 1, good |-> 0, id |-> 0, evidence |-> <<>>]
    ELSE
        [status |-> "active", bad |-> r.bad + 1, good |-> 0, id |-> id, evidence |-> <<e>>]

Evaluate(r, e, room, id) ==
    CASE e.verdict = "Unavailable" -> r
      [] e.verdict = "Neutral" -> AfterNeutral(r)
      [] e.verdict = "Good" -> AfterGood(r)
      [] e.verdict = "Bad" -> AfterBad(r, e, room, id)

Observation(k, r, state) ==
    [id |-> r.id, key |-> k, state |-> state, evidence |-> r.evidence]

Resolution(k, r) == IF r.status = "active" THEN <<Observation(k, r, "Resolved")>> ELSE <<>>

(* What evaluateLocked() emits when evidence e turns record r of key k into new: *)
(* a resolution after the last Good sample of a recovery, or an opened or      *)
(* updated incident.                                                           *)
Recovered(k, r, e) ==
    IF e.verdict = "Good" /\ RecoveryComplete(r)
    THEN Resolution(k, [r EXCEPT !.evidence = AppendEvidence(@, e)])
    ELSE <<>>

\* Mutant: an update of an open incident is stored and not published.
RaisedOnlyWhenOpened(k, r, e, new) ==
    IF e.verdict = "Bad" /\ new.status = "active" /\ r.status # "active"
    THEN <<Observation(k, new, "Active")>>
    ELSE <<>>

Raised(k, r, e, new) ==
    IF e.verdict = "Bad" /\ new.status = "active" /\ ~Equivalent(r.evidence, e)
    THEN <<Observation(k, new, "Active")>>
    ELSE <<>>

(* What resolveSocketLocked() emits for socket s: the map is ordered by type. *)
SocketResolutions(s) ==
    Resolution(<<"HighTcpRtt", s>>, records[<<"HighTcpRtt", s>>]) \o
    Resolution(<<"ElevatedTcpRetransmission", s>>, records[<<"ElevatedTcpRetransmission", s>>]) \o
    Resolution(<<"RouteUnavailable", s>>, records[<<"RouteUnavailable", s>>]) \o
    Resolution(<<"SocketRouteConflict", s>>, records[<<"SocketRouteConflict", s>>])

-----------------------------------------------------------------------------
(* The rules: how a sample is judged. *)

RttVerdict(rtt) ==
    CASE rtt = Unknown -> "Unavailable"
      [] rtt # Unknown /\ rtt >= RttActivation -> "Bad"
      [] rtt # Unknown /\ rtt <= RttRecovery -> "Good"
      [] OTHER -> "Neutral"

IntervalAvailable(m) ==
    /\ m.ratio # Unknown /\ ~m.reset
    /\ MinimumSegments = 0 \/ (m.segments # Unknown /\ m.segments >= MinimumSegments)

IntervalVerdict(m) ==
    CASE ~IntervalAvailable(m) -> "Unavailable"
      [] IntervalAvailable(m) /\ m.ratio >= RatioActivation -> "Bad"
      [] IntervalAvailable(m) /\ m.ratio <= RatioRecovery -> "Good"
      [] OTHER -> "Neutral"

TopologyDoubts == {"TopologyNonAuthoritative", "TopologyPartial", "TopologyDegraded"}

\* Mutant: a route context is believed whatever is known of its socket.
AnySocket(s) == TRUE

SocketAuthoritative(s) == s \in authoritative

RouteVerdict(s, c) ==
    CASE ~SocketAuthoritative(s) -> "Unavailable"
      [] SocketAuthoritative(s) /\ c.status = "Unavailable" /\ "NoModeledRoute" \in c.reasons
            /\ c.reasons \cap TopologyDoubts = {} -> "Bad"
      [] SocketAuthoritative(s) /\ c.status = "Available" -> "Good"
      [] OTHER -> "Unavailable"

ConflictVerdict(s, c) ==
    CASE ~SocketAuthoritative(s) -> "Unavailable"
      [] SocketAuthoritative(s) /\ c.status \in {"Partial", "Ambiguous"}
            /\ "DiagIfindexConflicts" \in c.reasons -> "Bad"
      [] SocketAuthoritative(s) /\ c.status = "Available" -> "Good"
      [] OTHER -> "Unavailable"

UplinkVerdict(u) ==
    CASE u.selected /\ u.validity \in {"Valid", "Partial"} -> "Good"
      [] ~u.selected /\ u.validity \in {"Unavailable", "Valid"} -> "Bad"
      [] OTHER -> "Unavailable"

-----------------------------------------------------------------------------
(* The history that the properties speak of. *)

WindowLength == IF Activation > Recovery THEN Activation ELSE Recovery

LastOf(q, n) == IF Len(q) <= n THEN q ELSE SubSeq(q, Len(q) - n + 1, Len(q))

Judged(q, e) ==
    IF e.verdict = "Unavailable" THEN q ELSE LastOf(Append(q, e.verdict), WindowLength)

Told(out) == {out[i] : i \in {j \in 1 .. Len(out) : out[j].state = "Active"}}
Mentioned(out) == {out[i].id : i \in 1 .. Len(out)}

-----------------------------------------------------------------------------
Init ==
    /\ running = FALSE
    /\ records = [k \in Keys |-> NoRecord]
    /\ authoritative = {} /\ resolved = <<>> /\ next_incident_id = 1 /\ emissions = <<>>
    /\ tracker = [s \in Sockets |-> "new"] /\ heard = {} /\ ended = {}
    /\ window = [k \in Keys |-> <<>>] /\ view = {}

Start ==
    /\ ~running /\ running' = TRUE /\ emissions' = <<>>
    /\ UNCHANGED <<records, authoritative, resolved, next_incident_id>> /\ UNCHANGED history

(* unsubscribe() leaves every record where it is: a later start() resumes from it. *)
Stop ==
    /\ running /\ running' = FALSE /\ emissions' = <<>>
    /\ UNCHANGED <<records, authoritative, resolved, next_incident_id>> /\ UNCHANGED history

(* The older generations of the cookie of s that the engine holds for current. *)
Superseded(s) ==
    {t \in authoritative : t # s /\ Cookie[s] # NoCookie /\ Cookie[t] = Cookie[s]}

SupersededBySample(s) == Superseded(s)

(* OneGeneration below: there is at most one such generation. *)
ResolutionsOf(old) ==
    IF old = {} THEN <<>> ELSE SocketResolutions(CHOOSE t \in old : TRUE)

Without(table, S) == [k \in Keys |-> IF k[2] \in S THEN NoRecord ELSE table[k]]

Room(table) == Cardinality({k \in Keys : table[k].status # "none"}) < MaxTracked

(* Store the table, remember and publish the resolutions, then the rest. *)
Commit(table, gone, raised) ==
    /\ records' = table
    /\ resolved' = LastOf(resolved \o [i \in 1 .. Len(gone) |-> gone[i].id], MaxRecent)
    /\ emissions' = gone \o raised
    /\ view' = {o \in view : o.id \notin Mentioned(emissions')} \cup Told(emissions')

Opened(r, new) == r.status # "active" /\ new.status = "active"

(* One evaluateLocked() call, after the older generations of old were resolved. *)
Judge(k, e, old) ==
    LET table == Without(records, old)
        new == Evaluate(table[k], e, Room(table), next_incident_id)
    IN  /\ Commit([table EXCEPT ![k] = new],
                  ResolutionsOf(old) \o Recovered(k, table[k], e),
                  Raised(k, table[k], e, new))
        /\ next_incident_id' = next_incident_id + (IF Opened(table[k], new) THEN 1 ELSE 0)
        /\ next_incident_id' <= MaxIncidents + 1
        /\ authoritative' = authoritative \ old
        /\ window' = [[j \in Keys |-> IF j[2] \in old THEN <<>> ELSE window[j]]
                         EXCEPT ![k] = Judged(@, e)]

(* SocketTracker: a new or changed socket, or a socket that is gone. *)
TrackerActive(s) ==
    /\ tracker[s] \in {"new", "open"}
    /\ tracker' = [t \in Sockets |->
          IF t = s THEN "open"
          ELSE IF tracker[t] = "open" /\ Cookie[t] = Cookie[s] /\ Cookie[s] # NoCookie
               THEN "replaced" ELSE tracker[t]]
    /\ \A t \in Sockets :
          Cookie[t] = Cookie[s] /\ Cookie[s] # NoCookie /\ Generation[t] > Generation[s]
             => tracker[t] = "new"

TrackerClosed(s) ==
    /\ tracker[s] \in {"open", "replaced"}
    /\ tracker' = [tracker EXCEPT ![s] = "closed"]

SocketActive(s) ==
    /\ running /\ TrackerActive(s)
    /\ LET old == Superseded(s)
       IN  /\ Commit(Without(records, old), ResolutionsOf(old), <<>>)
           /\ authoritative' = (authoritative \ old) \cup {s}
           /\ window' = [k \in Keys |-> IF k[2] \in old THEN <<>> ELSE window[k]]
    /\ heard' = heard \cup {s}
    /\ UNCHANGED <<running, next_incident_id, ended>>

SocketClosed(s) ==
    /\ running /\ TrackerClosed(s)
    /\ Commit(Without(records, {s}), SocketResolutions(s), <<>>)
    /\ authoritative' = authoritative \ {s}
    /\ window' = [k \in Keys |-> IF k[2] = s THEN <<>> ELSE window[k]]
    /\ ended' = ended \cup {s}
    /\ UNCHANGED <<running, next_incident_id, heard>>

(* A full bus rejects the observation, or the engine is not running; an Active *)
(* observation that is not Valid has the same effect.                          *)
SocketEventLost(s) ==
    /\ TrackerActive(s) \/ TrackerClosed(s)
    /\ emissions' = <<>>
    /\ UNCHANGED engine /\ UNCHANGED <<heard, ended, window, view>>

TcpInfo(s, rtt) ==
    /\ running /\ tracker[s] = "open"
    /\ Judge(<<"HighTcpRtt", s>>, Evidence(RttVerdict(rtt), rtt), SupersededBySample(s))
    /\ UNCHANGED <<running, tracker, heard, ended>>

TcpInterval(s, m) ==
    /\ running /\ tracker[s] = "open"
    /\ Judge(<<"ElevatedTcpRetransmission", s>>, Evidence(IntervalVerdict(m), m.ratio),
             SupersededBySample(s))
    /\ UNCHANGED <<running, tracker, heard, ended>>

(* A context judges two keys of the socket.  It is Bad for at most one of     *)
(* them, and Good for both or for neither, so resolutions come first.         *)
SocketRoute(s, c) ==
    LET route == <<"RouteUnavailable", s>>
        conflict == <<"SocketRouteConflict", s>>
        re == Evidence(RouteVerdict(s, c), "none")
        ce == Evidence(ConflictVerdict(s, c), c.ifindex)
        newRoute == Evaluate(records[route], re, Room(records), next_incident_id)
        newConflict == Evaluate(records[conflict], ce, Room(records), next_incident_id)
    IN  /\ running
        /\ Commit([records EXCEPT ![route] = newRoute, ![conflict] = newConflict],
                  Recovered(route, records[route], re)
                     \o Recovered(conflict, records[conflict], ce),
                  Raised(route, records[route], re, newRoute)
                     \o Raised(conflict, records[conflict], ce, newConflict))
        /\ next_incident_id' = next_incident_id
              + (IF Opened(records[route], newRoute) \/ Opened(records[conflict], newConflict)
                 THEN 1 ELSE 0)
        /\ next_incident_id' <= MaxIncidents + 1
        /\ window' = [window EXCEPT ![route] = Judged(@, re), ![conflict] = Judged(@, ce)]
        /\ UNCHANGED <<running, authoritative, tracker, heard, ended>>

Uplink(u) ==
    /\ running
    /\ Judge(UplinkKey, Evidence(UplinkVerdict(u), u.validity), {})
    /\ UNCHANGED <<running, tracker, heard, ended>>

Next ==
    \/ Start \/ Stop
    \/ \E s \in Sockets :
          \/ SocketActive(s) \/ SocketClosed(s) \/ SocketEventLost(s)
          \/ \E rtt \in RttSamples : TcpInfo(s, rtt)
          \/ \E m \in IntervalSamples : TcpInterval(s, m)
          \/ \E c \in RouteContexts : SocketRoute(s, c)
    \/ \E u \in UplinkSamples : Uplink(u)

Spec == Init /\ [][Next]_vars

-----------------------------------------------------------------------------
(* Properties. *)

Active(k) == records[k].status = "active"
Stored(k) == records[k].status # "none"

(* A consumer that replays the emitted observations knows exactly the active *)
(* incidents, with their current evidence: no transition and no update of an *)
(* incident goes unpublished, whichever path resolves it.                    *)
EmissionsSuffice ==
    view = {Observation(k, records[k], "Active") : k \in {j \in DOMAIN records : Active(j)}}

(* Once the Closed observation of a socket was processed nothing is tracked  *)
(* for it any more, although route contexts computed earlier still arrive.   *)
NothingOnClosedSocket == \A k \in DOMAIN records : k[2] \in ended => ~Stored(k)

(* A route incident, even a pending one, rests on a socket whose Active      *)
(* observation was processed and that was neither closed nor superseded.     *)
RouteNeedsAuthority ==
    \A s \in DOMAIN tracker, t \in {"RouteUnavailable", "SocketRouteConflict"} :
        Stored(<<t, s>>) => s \in authoritative

(* A cookie has at most one authoritative generation, and nothing is tracked *)
(* for a generation the engine knew once a newer one has a record, even if   *)
(* the bus lost the Active observation of the newer one.                     *)
OneGeneration ==
    \A s, t \in DOMAIN tracker :
        Cookie[s] = Cookie[t] /\ Cookie[s] # NoCookie /\ Generation[s] < Generation[t] =>
            /\ ~(s \in authoritative /\ t \in authoritative)
            /\ s \in heard => \A x, y \in SocketTypes : ~(Stored(<<x, s>>) /\ Stored(<<y, t>>))

(* Whatever is tracked belongs to a socket that, for all the engine was told, *)
(* is alive: not closed, not an older generation, and known if it is a route. *)
RecordsHaveLiveSockets == NothingOnClosedSocket /\ RouteNeedsAuthority /\ OneGeneration

AllLast(q, n, verdict) == Len(q) >= n /\ \A i \in (Len(q) - n + 1) .. Len(q) : q[i] = verdict

(* The verdict is prompt: while the table has room for every key, an incident *)
(* is active as soon as the last Activation decisive samples were Bad, and it *)
(* is over as soon as the last Recovery ones were Good.                       *)
PromptVerdict ==
    \A k \in DOMAIN records :
        /\ AllLast(window[k], Activation, "Bad") /\ Cardinality(DOMAIN records) <= MaxTracked
              => Active(k)
        /\ AllLast(window[k], Recovery, "Good") => ~Active(k)

(* An incident opens only on an unbroken run of Bad samples; Unavailable ones *)
(* neither extend nor break the run, those in the hysteresis band break it.   *)
OpensOnlyOnRun(k) == ~Active(k) /\ Active(k)' => AllLast(window'[k], Activation, "Bad")

(* An incident is resolved only by an unbroken run of Good samples or by the  *)
(* end of its socket: closed, or replaced by a newer generation.              *)
ResolvesOnlyOnRun(k) ==
    Active(k) /\ ~Active(k)' =>
        \/ AllLast(window'[k], Recovery, "Good")
        \/ /\ k[2] \in DOMAIN tracker
           /\ k[2] \in ended' \/ tracker'[k[2]] \in {"replaced", "closed"}

(* A condition that comes back gets a new identifier: an incident that        *)
(* becomes active never has an identifier that was given out before.          *)
NoIdReuse(k) ==
    Active(k)' /\ (Active(k) => records'[k].id # records[k].id) =>
        /\ records'[k].id >= next_incident_id
        /\ \A j \in DOMAIN records \ {k} : Active(j)' => records'[j].id # records'[k].id

(* Incidents begin and end by unbroken runs of samples alone, each with an    *)
(* identifier of its own.                                                     *)
DecidedByRuns ==
    [][\A k \in DOMAIN records : OpensOnlyOnRun(k) /\ ResolvesOnlyOnRun(k) /\ NoIdReuse(k)]_vars

(* The sample that opened an incident stays its first evidence for as long as *)
(* the incident is active, however many samples pass through the bounded list.*)
OpeningEvidenceKept ==
    [][\A k \in DOMAIN records : Active(k) /\ Active(k)' /\ MaxEvidence > 1
          => records'[k].evidence[1] = records[k].evidence[1]]_vars
=============================================================================
