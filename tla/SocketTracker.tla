----------------------------- MODULE SocketTracker -----------------------------
(***************************************************************************)
(* SocketTracker of server/src/socket_tracker.cpp: a worker that dumps the *)
(* IPv4 and IPv6 TCP sockets, commits both to the lifecycle table in one   *)
(* critical section, and publishes what changed: socket observations, route*)
(* contexts, TCP_INFO samples and interval metrics.  The netlink worker    *)
(* calls recomputeRouteContexts() at the same time.                        *)
(*                                                                         *)
(* The kernel is external.  A socket opens and closes once; its record is  *)
(* its cookie and tuple, and its TCP_INFO one growing counter, which may be*)
(* missing.  A route context is the version of the topology it was         *)
(* computed from.                                                          *)
(***************************************************************************)
EXTENDS Integers, Sequences, FiniteSets

CONSTANTS
    NumSockets, Tuple, Cookie, Inet6,   \* the kernel's sockets 1 .. NumSockets
    Tuples, Cookies, NoCookie, MaxActive, MaxClosed, MaxGeneration,
    NoInfo,                             \* the record has no TCP_INFO
    MaxCount, MaxTopology, MaxFailures,   \* bounds
    Busy                                \* bound: sockets whose TCP_INFO varies

Sockets == 1 .. NumSockets
Generations == 1 .. MaxGeneration
Samples == 0 .. MaxCount

ASSUME TrackerAssumption ==
    /\ NumSockets \in Nat /\ Inet6 \subseteq Sockets /\ Busy \subseteq Sockets
    /\ Tuple \in [Sockets -> Tuples] /\ Cookie \in [Sockets -> Cookies \cup {NoCookie}]
    /\ NoInfo \notin Nat
    /\ MaxCount \in Nat /\ MaxTopology \in Nat /\ MaxFailures \in Nat
    \* A cookie is one socket's, and a tuple holds its family.
    /\ \A s, t \in Sockets : s # t /\ Cookie[s] # NoCookie => Cookie[s] # Cookie[t]
    /\ \A s \in Inet6, t \in Sockets \ Inet6 : Tuple[s] # Tuple[t]

VARIABLES
    kernel, count,        \* status and retransmission counter of each socket
    topology,             \* version of the topology NetlinkCollector committed
    running, degraded, failures,   \* failures: dumps that failed or were stopped
    pc, records,          \* the tracker's worker, and what its dumps returned
    active, next_generation, pending, superseded,   \* the lifecycle table
    at,                   \* records of the dumps that are in the candidate
    sample,               \* TCP_INFO of each active generation at the last commit
    fresh, gone,          \* entries to be published as Active and as Closed
    route_topology, seenTopology,      \* route_topology_, and the worker's copy of it
    contexts,             \* route_contexts_: topology version by generation, or 0
    routes,               \* generations whose context the worker still publishes
    baselines,            \* tcp_baselines_
    npc, listed,          \* the netlink worker in recomputeRouteContexts()
    told, lastRoute,      \* history: last socket and route observation published
    owner,                \* history: the kernel socket of each generation
    history, intervals    \* history: last two samples of a socket, intervals of this round

kernelVars == <<kernel, count>>
table == <<active, next_generation, pending, superseded, at, sample, owner, history>>
routing == <<route_topology, contexts, lastRoute>>
netlink == <<topology, npc, listed>>
control == <<running, degraded, failures>>
vars == <<kernel, count, topology, running, degraded, failures, pc, records, active,
          next_generation, pending, superseded, at, sample, fresh, gone, route_topology, seenTopology, contexts,
          routes, baselines, npc, listed, told, lastRoute, owner, history, intervals>>

Table == INSTANCE SocketLifecycle WITH closed <- <<>>, snapshot <- "none",
                                       observed <- {}, refused <- FALSE, retired <- {}

ASSUME TableConstants == Table!TableAssumption

Init ==
    /\ kernel = [s \in Sockets |-> "new"] /\ count = [s \in Sockets |-> 0]
    /\ topology = 0 /\ running = FALSE /\ degraded = FALSE /\ failures = 0
    /\ pc = "idle" /\ records = <<>> /\ active = {} /\ next_generation = 1
    /\ pending = {} /\ superseded = {} /\ at = 0
    /\ sample = [g \in Generations |-> NoInfo] /\ fresh = {} /\ gone = {}
    /\ route_topology = 0 /\ seenTopology = 0 /\ contexts = [g \in Generations |-> 0]
    /\ routes = {} /\ baselines = [g \in Generations |-> NoInfo]
    /\ npc = "idle" /\ listed = {}
    /\ told = [g \in Generations |-> "nothing"] /\ lastRoute = [g \in Generations |-> 0]
    /\ owner = [g \in Generations |-> 0]
    /\ history = [s \in Sockets |-> <<NoInfo, NoInfo>>] /\ intervals = {}

-----------------------------------------------------------------------------
(* The kernel. *)

KernelOpens(s) ==
    /\ kernel[s] = "new"
    /\ \A t \in Sockets : kernel[t] = "alive" => Tuple[t] # Tuple[s]
    /\ kernel' = [kernel EXCEPT ![s] = "alive"]
    /\ UNCHANGED <<count, netlink, control, pc, records, table, fresh, gone, routing,
                   seenTopology, routes, baselines, told, intervals>>

KernelCloses(s) ==
    /\ kernel[s] = "alive" /\ kernel' = [kernel EXCEPT ![s] = "gone"]
    /\ UNCHANGED <<count, netlink, control, pc, records, table, fresh, gone, routing,
                   seenTopology, routes, baselines, told, intervals>>

KernelCounts(s) ==
    /\ kernel[s] = "alive" /\ s \in Busy /\ count[s] < MaxCount
    /\ count' = [count EXCEPT ![s] = @ + 1]
    /\ UNCHANGED <<kernel, netlink, control, pc, records, table, fresh, gone, routing,
                   seenTopology, routes, baselines, told, intervals>>

Ascending(S) ==
    [i \in 1 .. Cardinality(S) |-> CHOOSE x \in S : Cardinality({y \in S : y < x}) = i - 1]

\* Mutant: every request asks for AF_INET.
RequestedInet(family) == Sockets \ Inet6

Requested(family) == IF family = 6 THEN Inet6 ELSE Sockets \ Inet6

(* The answer to one dump request; some of the records have no TCP_INFO. *)
Answer(family, bare) ==
    LET all == Ascending({s \in Requested(family) : kernel[s] = "alive"})
    IN  [i \in DOMAIN all |->
            [socket |-> all[i], info |-> IF all[i] \in bare THEN NoInfo ELSE count[all[i]]]]

-----------------------------------------------------------------------------
(* start(), loop() and stop(). *)

Start ==
    /\ ~running /\ running' = TRUE
    /\ UNCHANGED <<kernelVars, netlink, degraded, failures, pc, records, table, fresh,
                   gone, routing, seenTopology, routes, baselines, told, intervals>>

(* stop() joins the worker: a dump gives up, later steps run to their end. *)
Stop ==
    /\ running /\ running' = FALSE /\ failures < MaxFailures /\ failures' = failures + 1
    /\ pc \in {"idle", "dump6"} /\ pc' = "idle" /\ records' = <<>>
    /\ degraded' = (degraded \/ pc = "dump6")
    /\ UNCHANGED <<kernelVars, netlink, table, fresh, gone, routing, seenTopology,
                   routes, baselines, told, intervals>>

Dump4(bare) ==
    /\ running /\ pc = "idle" /\ pc' = "dump6" /\ records' = Answer(4, bare) /\ intervals' = {}
    /\ UNCHANGED <<kernelVars, netlink, control, table, fresh, gone, routing, seenTopology,
                   routes, baselines, told>>

Dump6(bare) ==
    /\ pc = "dump6" /\ pc' = "commit" /\ records' = records \o Answer(6, bare)
    /\ UNCHANGED <<kernelVars, netlink, control, table, fresh, gone, routing, seenTopology,
                   routes, baselines, told, intervals>>

\* Mutant: what a failed dump has read so far is committed.
CommitPartial == "commit"

AfterFailedDump == "idle"

(* A timeout, an overflow, a truncated, malformed, interrupted or late answer. *)
DumpFails ==
    /\ running /\ pc \in {"idle", "dump6"} /\ failures < MaxFailures /\ failures' = failures + 1
    /\ pc' = AfterFailedDump /\ records' = (IF pc = "dump6" THEN records ELSE <<>>)
    /\ degraded' = TRUE
    /\ UNCHANGED <<kernelVars, netlink, running, table, fresh, gone, routing,
                   seenTopology, routes, baselines, told, intervals>>

-----------------------------------------------------------------------------
(* The critical section of reconcile(): the records go into the table one by  *)
(* one, and the candidate is committed, or aborted at the first rejection.    *)

RecordOf(s) == [cookie |-> Cookie[s], tuple |-> Tuple[s]]

(* observe() for the next record; a rejection aborts the snapshot. *)
Observe ==
    LET x == RecordOf(records[at + 1].socket)
        accepted == Table!Accepted(active, pending, superseded, x)
    IN  /\ pc = "commit" /\ at < Len(records)
        /\ next_generation' = Table!GenerationAfter(active, pending, superseded, x, next_generation)
        /\ next_generation' <= MaxGeneration + 1
        /\ IF accepted
           THEN /\ pending' = Table!PendingAfter(active, pending, superseded, x, next_generation)
                /\ superseded' = Table!SupersededAfter(active, pending, superseded, x)
                /\ at' = at + 1 /\ UNCHANGED <<pc, records, degraded>>
           ELSE /\ pending' = {} /\ superseded' = {} /\ at' = 0
                /\ pc' = "idle" /\ records' = <<>> /\ degraded' = TRUE
        /\ UNCHANGED <<kernelVars, netlink, running, failures, active, sample, owner, history,
                       fresh, gone, routing, seenTopology, routes, baselines, told, intervals>>

(* The record that an entry was resolved from: the last one it matches. *)
RecordFor(e) ==
    CHOOSE i \in DOMAIN records :
        /\ RecordOf(records[i].socket) = [cookie |-> e.cookie, tuple |-> e.tuple]
        /\ \A j \in DOMAIN records : j > i =>
              RecordOf(records[j].socket) # [cookie |-> e.cookie, tuple |-> e.tuple]

(* A socket whose TCP state or interface changed is published as Active once  *)
(* more, which tells the consumers nothing new.                               *)
Changed(before, after) == after \ before

Commit ==
    LET after == Table!Committed(active, pending, superseded)
        info(s) == LET i == {j \in DOMAIN records : records[j].socket = s}
                   IN  IF i = {} THEN NoInfo ELSE records[CHOOSE j \in i : TRUE].info
    IN  /\ pc = "commit" /\ at = Len(records)
        /\ active' = after /\ pending' = {} /\ superseded' = {} /\ at' = 0
        /\ fresh' = Changed(active, after) /\ gone' = active \ after
        /\ sample' = [g \in Generations |->
              IF g \in Table!Gens(after)
              THEN records[RecordFor(CHOOSE e \in after : e.gen = g)].info ELSE NoInfo]
        /\ owner' = [g \in Generations |->
              IF g \in Table!Gens(after)
              THEN records[RecordFor(CHOOSE e \in after : e.gen = g)].socket ELSE owner[g]]
        /\ history' = [s \in Sockets |-> <<history[s][2], info(s)>>]
        /\ pc' = "sockets" /\ records' = <<>>
        /\ UNCHANGED <<kernelVars, netlink, control, next_generation, routing, seenTopology,
                       routes, baselines, told, intervals>>

-----------------------------------------------------------------------------
(* publishCommitted() *)

(* The Active, then the Closed observations; then it copies route_topology_.  *)
PublishSockets ==
    /\ pc = "sockets" /\ pc' = "contexts" /\ seenTopology' = route_topology
    /\ told' = [g \in Generations |-> IF g \in Table!Gens(gone) THEN "Closed"
                                      ELSE IF g \in Table!Gens(fresh) THEN "Active" ELSE told[g]]
    /\ fresh' = {}
    /\ UNCHANGED <<kernelVars, netlink, control, records, table, gone, routing, routes,
                   baselines, intervals>>

\* Mutant: only sockets without a context are attributed.
MissingContexts == {e \in active : contexts[e.gen] = 0}

Attributed == active

StoreContexts ==
    /\ pc = "contexts" /\ pc' = "routes" /\ routes' = Table!Gens(Attributed)
    /\ contexts' = [g \in Generations |-> IF g \in Table!Gens(Attributed) THEN seenTopology
                                          ELSE IF g \in Table!Gens(gone) THEN 0 ELSE contexts[g]]
    /\ UNCHANGED <<kernelVars, netlink, control, records, table, fresh, gone, route_topology,
                   lastRoute, seenTopology, baselines, told, intervals>>

PublishContext ==
    /\ pc = "routes" /\ routes # {}
    /\ LET g == CHOOSE x \in routes : \A y \in routes : x <= y
       IN  lastRoute' = [lastRoute EXCEPT ![g] = seenTopology] /\ routes' = routes \ {g}
    /\ UNCHANGED <<kernelVars, netlink, control, pc, records, table, fresh, gone,
                   route_topology, contexts, seenTopology, baselines, told, intervals>>

\* Mutant: a sample that is missing leaves the old baseline in place.
OldBaseline(g) == IF sample[g] = NoInfo THEN baselines[g] ELSE sample[g]

BaselineAfter(g) == IF g \in Table!Gens(active) THEN sample[g] ELSE NoInfo

(* An interval for each socket with a baseline and a sample; the sample is    *)
(* the next baseline.                                                         *)
PublishSamples ==
    /\ pc = "routes" /\ routes = {} /\ pc' = "idle"
    /\ intervals' = {[gen |-> g, from |-> baselines[g], to |-> sample[g]] :
                        g \in {h \in Generations : baselines[h] # NoInfo /\ sample[h] # NoInfo}}
    /\ baselines' = [g \in Generations |-> BaselineAfter(g)]
    /\ degraded' = FALSE /\ gone' = {}
    /\ UNCHANGED <<kernelVars, netlink, running, failures, records, table, fresh,
                   routing, seenTopology, routes, told>>

-----------------------------------------------------------------------------
(* recomputeRouteContexts(), on the netlink worker, after a committed change. *)

TopologyChanges ==
    /\ pc # "commit"                   \* active() takes lifecycle_mutex_
    /\ npc = "idle" /\ topology < MaxTopology /\ topology' = topology + 1
    /\ npc' = "install" /\ listed' = Table!Gens(active)
    /\ UNCHANGED <<kernelVars, control, pc, records, table, fresh, gone, routing, seenTopology,
                   routes, baselines, told, intervals>>

InstallTopology ==
    /\ npc = "install" /\ npc' = "store"
    /\ route_topology' = topology /\ contexts' = [g \in Generations |-> 0]
    /\ UNCHANGED <<kernelVars, topology, listed, control, pc, records, table, fresh, gone,
                   lastRoute, seenTopology, routes, baselines, told, intervals>>

StoreContext ==
    /\ npc = "store"
    /\ IF listed = {} THEN npc' = "idle" /\ UNCHANGED contexts
       ELSE LET g == CHOOSE x \in listed : \A y \in listed : x <= y
            IN  npc' = "publish" /\ contexts' = [contexts EXCEPT ![g] = topology]
    /\ UNCHANGED <<kernelVars, topology, listed, control, pc, records, table, fresh, gone,
                   route_topology, lastRoute, seenTopology, routes, baselines, told, intervals>>

PublishRecomputed ==
    /\ npc = "publish" /\ npc' = "store"
    /\ LET g == CHOOSE x \in listed : \A y \in listed : x <= y
       IN  lastRoute' = [lastRoute EXCEPT ![g] = topology] /\ listed' = listed \ {g}
    /\ UNCHANGED <<kernelVars, topology, control, pc, records, table, fresh, gone,
                   route_topology, contexts, seenTopology, routes, baselines, told, intervals>>

-----------------------------------------------------------------------------
Recompute == InstallTopology \/ StoreContext \/ PublishRecomputed
Reconcile ==
    \/ \E bare \in SUBSET (Busy \ Inet6) : Dump4(bare)
    \/ \E bare \in SUBSET (Busy \cap Inet6) : Dump6(bare)
    \/ Observe \/ Commit
    \/ PublishSockets \/ StoreContexts \/ PublishContext \/ PublishSamples

Next ==
    \/ \E s \in Sockets : KernelOpens(s) \/ KernelCloses(s) \/ KernelCounts(s)
    \/ Start \/ Stop \/ DumpFails \/ Reconcile
    \/ TopologyChanges \/ Recompute

Spec == Init /\ [][Next]_vars

(* Both workers are scheduled; the kernel and the netlink change need not act. *)
FairSpec == Spec /\ WF_vars(Start) /\ WF_vars(Reconcile) /\ WF_vars(Recompute)

-----------------------------------------------------------------------------
(* A socket is reported closed only if the kernel closed it: neither a failed *)
(* dump of one family nor a full table ever closes a living socket.           *)
ClosedMeansGone ==
    \A g \in Generations : told[g] = "Closed" => kernel[owner[g]] = "gone"

(* TCP samples and intervals of a socket are published only after its Active  *)
(* observation and never after its Closed one: the consumers rely on it.      *)
AnnouncedBeforeSampled ==
    pc = "routes" /\ routes = {} => \A e \in active : told[e.gen] = "Active"

(* What the socket observations say of a socket's life is true, and is said   *)
(* before anything else about it.                                             *)
ObservationsAreTrue == ClosedMeansGone /\ AnnouncedBeforeSampled

(* An interval spans exactly the last two commits, both with TCP_INFO, of one *)
(* kernel socket with a cookie: never a gap, never two sockets with one tuple.*)
IntervalsSpanOneSocket ==
    pc = "idle" => \A m \in intervals :
        LET s == owner[m.gen]
        IN  Cookie[s] # NoCookie => history[s] = <<m.from, m.to>>

(* The table holds exactly the living sockets; the last context published for *)
(* each active socket is of the current topology.                             *)
ActiveAreAlive == {owner[e.gen] : e \in active} = {s \in Sockets : kernel[s] = "alive"}
RoutesAreCurrent == \A e \in active : lastRoute[e.gen] = topology
=============================================================================
