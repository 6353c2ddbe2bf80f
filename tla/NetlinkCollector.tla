--------------------------- MODULE NetlinkCollector ---------------------------
(***************************************************************************)
(* The RTNETLINK collector of server/src/netlink_collector.cpp: it keeps a *)
(* model of links, addresses and routes from kernel notifications, and     *)
(* replaces the model by the result of four dumps (links, addresses, IPv4  *)
(* and IPv6 routes) at start, periodically, and after anything went wrong. *)
(* Dump replies and notifications share one socket, whose receive buffer   *)
(* may overflow.                                                           *)
(*                                                                         *)
(* The kernel is external.  It is what the code takes it for: it answers a *)
(* dump request with the facts of one kind at some later moment, queues a  *)
(* notification at each change, drops what does not fit and then reports   *)
(* ENOBUFS, and removes the addresses and routes of a removed link.        *)
(***************************************************************************)
EXTENDS Integers, Sequences, FiniteSets

CONSTANTS
    Links, Addresses, Routes,
    Uses,                 \* Uses[x]: the links of address or route x
    Inet6,                \* the IPv6 routes
    DefaultRoutes,        \* unicast default routes of table main or default
    Preference,           \* Preference[r, l]: rank of link l of default route r
    DeleteMatches,        \* DeleteMatches[r]: the routes a delete of r may mean
    QueueLength,          \* datagrams that fit in the receive buffer
    SocketErrors,         \* recvmsg() may fail with an unexpected errno
    MaxChanges, MaxFailures, MaxStarts   \* bounds

LinkFact(l, s) == <<"link", l, s>>
LinkFacts == {LinkFact(l, s) : l \in Links, s \in {"up", "down"}}
Facts == LinkFacts \cup Addresses \cup Routes
KindOf(f) ==
    CASE f \in LinkFacts -> 1 [] f \in Addresses -> 2
      [] f \in Routes \ Inet6 -> 3 [] f \in Inet6 -> 4

ASSUME TopologyAssumption ==
    /\ IsFiniteSet(Links) /\ IsFiniteSet(Addresses) /\ IsFiniteSet(Routes)
    /\ Uses \in [Addresses \cup Routes -> SUBSET Links]
    /\ Addresses \cap Routes = {} /\ LinkFacts \cap (Addresses \cup Routes) = {}
    /\ Inet6 \subseteq Routes /\ DefaultRoutes \subseteq Routes
    /\ DeleteMatches \in [Routes -> SUBSET Routes] /\ \A r \in Routes : r \in DeleteMatches[r]
    /\ Preference \in [Routes \X Links -> Nat]
    /\ \A p, q \in Routes \X Links : Preference[p] = Preference[q] => p = q
    /\ QueueLength \in Nat \ {0} /\ SocketErrors \in BOOLEAN
    /\ MaxChanges \in Nat /\ MaxFailures \in Nat /\ MaxStarts \in Nat

VARIABLES
    kernel, queue, overrun,   \* kernel state, receive buffer, pending ENOBUFS
    asked,                    \* the kind of the unanswered dump request, or 0
    pc,                       \* where the collector's thread is
    dumping, candidate, raced,\* the running reconciliation
    facts, authoritative, degraded,   \* state_, the topology snapshot
    selected,                 \* selected_
    alarm,                    \* telemetry_.degraded
    told, uplink,             \* history: the facts and the uplink the events tell
    missed,                   \* history: a change was missed since the last commit
    changes, failures, starts \* counters of the bounds

kernelVars == <<kernel, queue, overrun, asked>>
snapshot == <<facts, authoritative, degraded>>
published == <<selected, told, uplink>>
vars == <<kernel, queue, overrun, asked, pc, dumping, candidate, raced, facts, authoritative,
          degraded, selected, alarm, told, uplink, missed, changes, failures, starts>>

-----------------------------------------------------------------------------
(* TopologyState::applyChecked() on one message. *)

LinkOf(f) == f[2]
OnLink(S, l) == {f \in S : f \notin LinkFacts /\ l \in Uses[f]}
StatesOf(l) == {LinkFact(l, "up"), LinkFact(l, "down")}

RemovedWith(S, l) == StatesOf(l) \cup OnLink(S, l)

Matches(S, r) == S \cap DeleteMatches[r]

Ambiguous(S, m) == m.op = "delete" /\ m.fact \in Routes /\ Cardinality(Matches(S, m.fact)) > 1

Apply(S, m) ==
    CASE m.op = "add" /\ m.fact \in LinkFacts -> (S \ StatesOf(LinkOf(m.fact))) \cup {m.fact}
      [] m.op = "add" /\ m.fact \notin LinkFacts -> S \cup {m.fact}
      [] m.op = "delete" /\ m.fact \in LinkFacts -> S \ RemovedWith(S, LinkOf(m.fact))
      [] m.op = "delete" /\ m.fact \in Addresses -> S \ {m.fact}
      [] m.op = "delete" /\ m.fact \in Routes -> S \ Matches(S, m.fact)

(* UplinkPolicy::select(): the usable next hop of a default route that ranks  *)
(* first by table, metric, family, single path and interface.                 *)
Candidates(S) ==
    {p \in DefaultRoutes \X Links : p[1] \in S /\ p[2] \in Uses[p[1]] /\ LinkFact(p[2], "up") \in S}

NoUplink(validity) == [interface |-> "none", validity |-> validity]

Select(S, auth, deg) ==
    IF Candidates(S) = {} THEN NoUplink(IF auth /\ ~deg THEN "Unavailable" ELSE "Stale")
    ELSE LET best == CHOOSE p \in Candidates(S) :
                         \A q \in Candidates(S) : Preference[p] <= Preference[q]
         IN  [interface |-> best[2],
              validity |-> IF Cardinality(Uses[best[1]]) > 1 THEN "Partial" ELSE "Valid"]

-----------------------------------------------------------------------------
Notification(op, f) == [type |-> "notification", op |-> op, fact |-> f]
Reply(S, intr) == [type |-> "reply", facts |-> S, interrupted |-> intr]
Stale == [type |-> "stale"]        \* an answer to an abandoned request
Garbled(m) == [m EXCEPT !.type = "garbled"]    \* truncated, unparsable or unsupported

Consistent(S) ==
    /\ \A l \in Links : ~(StatesOf(l) \subseteq S)
    /\ \A f \in S \ LinkFacts : \A l \in Uses[f] : StatesOf(l) \cap S # {}

Init ==
    /\ kernel \in {S \in SUBSET Facts : Consistent(S)} /\ queue = <<>> /\ overrun = FALSE /\ asked = 0
    /\ pc = "off" /\ dumping = 0 /\ candidate = {} /\ raced = FALSE
    /\ facts = {} /\ authoritative = FALSE /\ degraded = FALSE
    /\ selected = NoUplink("Unavailable") /\ alarm = FALSE
    /\ told = {} /\ uplink = NoUplink("untold") /\ missed = TRUE
    /\ changes = 0 /\ failures = 0 /\ starts = 0

(* A change that the kernel can make: only present links carry addresses and routes. *)
Possible(m) ==
    /\ m.op = "add" => m.fact \notin kernel
    /\ m.op = "delete" => m.fact \in kernel
    /\ m.op = "add" /\ m.fact \notin LinkFacts =>
          \A l \in Uses[m.fact] : StatesOf(l) \cap kernel # {}

KernelApply(S, m) ==
    IF m.op = "delete" /\ m.fact \in Routes THEN S \ {m.fact}
    ELSE IF m.op = "delete" /\ m.fact \in LinkFacts
         THEN S \ (StatesOf(LinkOf(m.fact)) \cup OnLink(S, LinkOf(m.fact)))
    ELSE Apply(S, m)

KernelChange(op, f) ==
    LET m == Notification(op, f)
    IN  /\ changes < MaxChanges /\ Possible(m)
        /\ kernel' = KernelApply(kernel, m) /\ changes' = changes + 1
        /\ IF pc = "off" THEN missed' = TRUE /\ UNCHANGED <<queue, overrun>>
           ELSE IF Len(queue) < QueueLength
           THEN queue' = Append(queue, m) /\ UNCHANGED <<overrun, missed>>
           ELSE overrun' = TRUE /\ missed' = TRUE /\ UNCHANGED queue
        /\ UNCHANGED <<asked, pc, dumping, candidate, raced, snapshot, selected, alarm,
                       told, uplink, failures, starts>>

(* The datagram of a queued notification cannot be used. *)
KernelGarbles ==
    /\ failures < MaxFailures /\ queue # <<>> /\ queue[Len(queue)].type = "notification"
    /\ queue' = [queue EXCEPT ![Len(queue)] = Garbled(@)]
    /\ failures' = failures + 1
    /\ UNCHANGED <<kernel, overrun, asked, pc, dumping, candidate, raced, snapshot, selected,
                   alarm, told, uplink, missed, changes, starts>>

KernelAnswers(intr) ==
    /\ asked # 0 /\ Len(queue) < QueueLength
    /\ intr => failures < MaxFailures
    /\ queue' = Append(queue, Reply({f \in kernel : KindOf(f) = asked}, intr))
    /\ asked' = 0 /\ failures' = failures + (IF intr THEN 1 ELSE 0)
    /\ UNCHANGED <<kernel, overrun, pc, dumping, candidate, raced, snapshot, selected, alarm,
                   told, uplink, missed, changes, starts>>

-----------------------------------------------------------------------------
(* publishChanges(): an event for each fact that is new, and for each that is *)
(* gone; the uplink whenever it differs or the model is authoritative.        *)

\* Mutant: facts that are gone are not announced.
NothingWithdrawn(before, after) == {}

Withdrawn(before, after) == before \ after

UplinkAnnounced(old, new, auth) == auth \/ old # new

PublishChanges(after, auth, old, new) ==
    /\ told' = (told \ Withdrawn(facts, after)) \cup (after \ facts)
    /\ uplink' = IF UplinkAnnounced(old, new, auth) THEN new ELSE uplink

(* state_.replace() of a committed or updated model, and who is told of it. *)
Install(after, auth) ==
    LET new == Select(after, auth, FALSE)
    IN  /\ facts' = after /\ authoritative' = auth /\ degraded' = FALSE /\ selected' = new
        /\ PublishChanges(after, auth, Select(facts, authoritative, degraded), new)

DegradedAfterFailure == degraded \/ authoritative

(* markReconciliationFailed(), markNotificationRace(), markOverflow(). *)
MarkDegraded ==
    /\ alarm' = TRUE /\ degraded' = DegradedAfterFailure
    /\ UNCHANGED <<facts, authoritative, selected, told, uplink>>

Abandon(q) == [i \in DOMAIN q |-> IF q[i].type = "reply" THEN Stale ELSE q[i]]

(* fullReconcile() returns FALSE: whatever was read is thrown away, and an    *)
(* answer that is still on its way will come too late.                        *)
ReconcileFails(q) ==
    /\ queue' = IF asked # 0 /\ Len(q) < QueueLength THEN Append(Abandon(q), Stale) ELSE Abandon(q)
    /\ asked' = 0 /\ dumping' = 0 /\ candidate' = {} /\ UNCHANGED raced
    /\ MarkDegraded

(* start(): a fresh socket, and the first reconciliation.  stop() left the    *)
(* model of an earlier run in place.                                          *)
Start ==
    /\ pc = "off" /\ starts < MaxStarts
    /\ pc' = "begin" /\ starts' = starts + 1 /\ queue' = <<>> /\ overrun' = FALSE
    /\ UNCHANGED <<kernel, asked, dumping, candidate, raced, snapshot, selected, alarm,
                   told, uplink, missed, changes, failures>>

\* Mutant: the race of an earlier reconciliation is held against this one.
RaceRemembered == raced

NoRaceYet == FALSE

(* The timer of loop() (or start()) begins fullReconcile() with the link dump. *)
BeginReconcile ==
    /\ pc \in {"begin", "idle"}
    /\ pc' = "dump" /\ dumping' = 1 /\ asked' = 1 /\ candidate' = {} /\ raced' = NoRaceYet
    /\ UNCHANGED <<kernel, queue, overrun, snapshot, selected, alarm, told, uplink, missed,
                   changes, failures, starts>>

(* sendmsg() fails, the five seconds of dump() pass, or poll() fails. *)
DumpTimeout ==
    /\ pc = "dump" /\ failures < MaxFailures /\ failures' = failures + 1
    /\ pc' = "idle" /\ ReconcileFails(queue)
    /\ UNCHANGED <<kernel, overrun, missed, changes, starts>>

(* recvmsg() reports the overflow before it delivers anything. *)
DumpOverflow ==
    /\ pc = "dump" /\ overrun /\ overrun' = FALSE
    /\ pc' = "idle" /\ ReconcileFails(queue)
    /\ UNCHANGED <<kernel, missed, changes, failures, starts>>

\* Mutant: a notification read during a dump is dropped without a trace.
NoRace == FALSE

RaceSeen == TRUE

DumpNotification ==
    /\ pc = "dump" /\ ~overrun /\ queue # <<>> /\ Head(queue).type = "notification"
    /\ queue' = Tail(queue) /\ raced' = (raced \/ RaceSeen) /\ missed' = TRUE
    /\ UNCHANGED <<kernel, overrun, asked, pc, dumping, candidate, snapshot, selected, alarm,
                   told, uplink, changes, failures, starts>>

DumpRejected ==
    /\ pc = "dump" /\ ~overrun /\ queue # <<>>
    /\ \/ Head(queue).type \in {"stale", "garbled"}
       \/ Head(queue).type = "reply" /\ Head(queue).interrupted
    /\ pc' = "idle" /\ ReconcileFails(Tail(queue))
    /\ missed' = (missed \/ Head(queue).type = "garbled")
    /\ UNCHANGED <<kernel, overrun, changes, failures, starts>>

(* A complete dump: ask for the next kind, or judge the whole candidate. *)
DumpComplete ==
    /\ pc = "dump" /\ ~overrun /\ queue # <<>>
    /\ Head(queue).type = "reply" /\ ~Head(queue).interrupted
    /\ LET all == candidate \cup Head(queue).facts
       IN  \/ /\ dumping < 4
              /\ queue' = Tail(queue) /\ candidate' = all
              /\ dumping' = dumping + 1 /\ asked' = dumping + 1
              /\ UNCHANGED <<pc, raced, snapshot, selected, alarm, told, uplink, missed>>
           \/ /\ dumping = 4 /\ raced
              /\ pc' = "idle" /\ ReconcileFails(Tail(queue)) /\ UNCHANGED missed
           \/ /\ dumping = 4 /\ ~raced
              /\ queue' = Tail(queue) /\ pc' = "idle" /\ dumping' = 0 /\ candidate' = {}
              /\ missed' = FALSE /\ alarm' = FALSE
              /\ Install(all, TRUE)
              /\ UNCHANGED <<asked, raced>>
    /\ UNCHANGED <<kernel, overrun, changes, failures, starts>>

-----------------------------------------------------------------------------
(* loop() between reconciliations. *)

LoopOverflow ==
    /\ pc = "idle" /\ overrun /\ overrun' = FALSE /\ MarkDegraded
    /\ UNCHANGED <<kernel, queue, asked, pc, dumping, candidate, raced, missed, changes,
                   failures, starts>>

RejectionDegrades == TRUE

(* A datagram that does not parse, or a delete that may mean several routes:  *)
(* the telemetry is degraded and a reconciliation is brought forward.         *)
LoopRejected ==
    /\ pc = "idle" /\ ~overrun /\ queue # <<>>
    /\ \/ Head(queue).type \in {"reply", "stale", "garbled"}
       \/ Head(queue).type = "notification" /\ Ambiguous(facts, Head(queue))
    /\ queue' = Tail(queue) /\ alarm' = RejectionDegrades
    /\ missed' = (missed \/ Head(queue).type \in {"garbled", "notification"})
    /\ UNCHANGED <<kernel, overrun, asked, pc, dumping, candidate, raced, snapshot, selected,
                   told, uplink, changes, failures, starts>>

(* processNotificationBatch() on one message. *)
LoopNotification ==
    /\ pc = "idle" /\ ~overrun /\ queue # <<>> /\ Head(queue).type = "notification"
    /\ ~Ambiguous(facts, Head(queue))
    /\ queue' = Tail(queue) /\ UNCHANGED missed
    /\ LET after == Apply(facts, Head(queue))
       IN  IF after # facts THEN Install(after, authoritative)
           ELSE UNCHANGED <<snapshot, selected, told, uplink>>
    /\ UNCHANGED <<kernel, overrun, asked, pc, dumping, candidate, raced, alarm, changes,
                   failures, starts>>

(* poll() or recvmsg() fails with an errno that loop() does not expect: the   *)
(* worker returns and running_ stays TRUE.                                    *)
LoopBreaks ==
    /\ SocketErrors /\ pc = "idle" /\ pc' = "dead"
    /\ UNCHANGED <<kernel, queue, overrun, asked, dumping, candidate, raced, snapshot, selected,
                   alarm, told, uplink, missed, changes, failures, starts>>

(* stop(): a running dump gives up at its next wake-up; the socket is closed. *)
Stop ==
    /\ pc \in {"idle", "dump", "dead"} /\ starts < MaxStarts
    /\ pc' = "off" /\ queue' = <<>> /\ overrun' = FALSE /\ missed' = TRUE
    /\ asked' = 0 /\ dumping' = 0 /\ candidate' = {} /\ raced' = FALSE
    /\ IF pc = "dump" THEN MarkDegraded
       ELSE UNCHANGED <<snapshot, selected, told, uplink, alarm>>
    /\ UNCHANGED <<kernel, changes, failures, starts>>

Reconciling == BeginReconcile \/ DumpOverflow \/ DumpNotification \/ DumpRejected \/ DumpComplete
Looping == LoopOverflow \/ LoopRejected \/ LoopNotification

Next ==
    \/ \E op \in {"add", "delete"}, f \in Facts : KernelChange(op, f)
    \/ \E intr \in BOOLEAN : KernelAnswers(intr)
    \/ KernelGarbles \/ Start \/ DumpTimeout \/ LoopBreaks \/ Stop
    \/ Reconciling \/ Looping

Spec == Init /\ [][Next]_vars

(* The worker keeps running, its timer keeps firing, and the kernel answers.  *)
(* loop() polls the socket for at least recovery_retry_initial between two     *)
(* reconciliations, so a datagram that waits there again and again is read:    *)
(* strong fairness.                                                            *)
Fairness ==
    /\ WF_vars(BeginReconcile) /\ WF_vars(DumpOverflow) /\ WF_vars(DumpNotification)
    /\ WF_vars(DumpRejected) /\ WF_vars(DumpComplete) /\ WF_vars(KernelAnswers(FALSE))
    /\ SF_vars(LoopOverflow) /\ SF_vars(LoopRejected) /\ SF_vars(LoopNotification)

FairSpec == Spec /\ Fairness

-----------------------------------------------------------------------------
(* The model after all the notifications that wait in the receive buffer. *)
Pending(S, q) ==
    LET after[i \in 0 .. Len(q)] ==
            IF i = 0 THEN S
            ELSE IF q[i].type \in {"notification", "garbled"} THEN KernelApply(after[i - 1], q[i])
            ELSE after[i - 1]
    IN  after[Len(q)]

(* An old dump never overwrites a newer fact: unless a change was missed since *)
(* the last commit, the model together with the unread notifications is what   *)
(* the kernel has, although the four dumps were taken at different moments.    *)
CaughtUp == ~missed => Pending(facts, queue) = kernel

(* A change that was missed is never forgotten: until the next commit the      *)
(* telemetry is degraded, an overflow is still to be reported, or a dump that  *)
(* will be rejected or will contain the change is running.                     *)
MissedIsFlagged == missed /\ pc = "idle" => alarm \/ overrun

(* The model is what the kernel has, or says that it may not be.               *)
NothingMissedSilently == CaughtUp /\ MissedIsFlagged

(* A consumer of the link, address and route events that starts from nothing   *)
(* knows the facts of the model, and the last uplink event names its uplink.   *)
EventsTellModel ==
    /\ told = facts
    /\ uplink.validity # "untold" =>
          uplink.interface = Select(facts, authoritative, degraded).interface
    /\ authoritative => uplink.validity # "untold" /\ selected = uplink

(* Once the kernel is quiet and the collector runs, the model is the kernel's  *)
(* state, and nothing is flagged any more, whatever was lost before.           *)
Converges ==
    <>[](pc \notin {"off", "begin", "dead"}) => <>[](facts = kernel /\ authoritative /\ ~degraded)

(* "The authoritative topology explicitly has no usable uplink": an uplink     *)
(* event says Unavailable, and not Stale, only if the kernel has no usable     *)
(* default route, or has sent news of one that is still unread.                *)
UnavailableIsAuthoritative ==
    [][uplink' # uplink /\ uplink'.validity = "Unavailable"
          => Candidates(kernel') = {} \/ queue' # <<>>]_vars
=============================================================================
