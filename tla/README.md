# TLA+ models of WeakNet AI Diagnostics

WeakNet is a Linux daemon that turns kernel observations into diagnoses:

```
kernel -> collectors -> EventBus -> IncidentEngine -> RootCauseEngine -> query service -> D-Bus
```

The modules here model the concurrent and stateful part of that pipeline,
translated from the C++ sources. TLC checks them on small instances, and TLAPS
proves the most important properties for every value of the constants.

## Inventory

| Part | State | Threads and interactions | What makes it hard | Module |
|---|---|---|---|---|
| EventBus | bounded queue, subscriber registry, counters | every producer, one dispatcher, external stoppers and owners; three mutexes, one shared condition variable | unsubscribe against a running callback, concurrent stop, drain, coalescing at capacity, sequence wrap | `EventBus`, `EventChannel` |
| IncidentEngine | records per (type, scope), authoritative sockets, recent resolutions | called by the dispatcher, publishes to the bus | lost observations, late route contexts, reused cookies, full table, hysteresis | `IncidentEngine` |
| NetlinkCollector, UplinkPolicy | topology snapshot, selected uplink, telemetry | own worker, kernel socket, callback into three consumers | change during a dump, overflow, late answers, ambiguous deletes, restart | `NetlinkCollector` |
| SocketTracker, SocketLifecycleTable | sockets with generation, interval baselines, route contexts | own worker and the netlink worker | capacity, cookie reuse, one family failing, two threads publishing route contexts | `SocketLifecycle`, `SocketTracker` |
| TcpIntervalCalculator, SocketRouteAttributor | none | called by SocketTracker | counters that wrap, ties between routes | `TcpInterval`, `SocketRouteAttributor` |
| RootCauseEngine | caches of incidents, routes, uplink, probes and Wi-Fi; active hypotheses | dispatcher | a lost resolution, stale evidence, evidence about another gateway | `RootCauseRules`, `RootCauseEngine`, `Diagnosis`, `WifiDiagnosis` |
| ActiveProbe | targets, latest results | own worker and the netlink callback | a result for an old gateway | `ActiveProbe` |
| WifiCollector, nl80211 parser | target, latest observation, netlink sequence | own worker and the netlink callback | a target change during a query, a reply after its deadline | `WifiCollector` |
| MetricStore | bounded series of samples | any producer, readers, one mutex | four ways to lose a sample, out-of-order samples | `MetricStore` |
| DaemonApplication | components, D-Bus, signal mask, health | main, signal thread, netlink thread, dispatcher, workers | failure of any start step, stop order, a signal at any time | `DaemonApplication` |
| PingExecutor, ping helper | bounded request queue, child process | D-Bus thread, worker, helper process | a helper that hangs, stop with waiting calls | `PingExecutor` |
| V1 manager and monitors, quality assessor | interface list, last quality | one thread per monitor | seconds between copy and merge, slow drift | `NetworkManager` |
| Client library | one connection, three queues, match rules | threads of the application, two locks | a signal taken off by another caller, cleanup under a caller | `Client` |

## Modules

**`EventBus`** models `EventBus::State`. Each critical section of the code (under
`queue_mutex`, `registry_mutex` or a subscriber's mutex) is one action:
`Publish*` for the four outcomes of `publish()`, `UnsubscribeErase`,
`UnsubscribeDeactivate` and `UnsubscribeReturn` for the three stages of an
external `unsubscribe()`, `Dispatch*` for the stages of `dispatchLoop()`,
`StopCall`, `StopJoin` and `StopAwait` for `stop()`. A callback may publish,
unsubscribe or stop the bus; a token whose subscription a callback removed is empty
(`EmptyToken`), and unsubscribing it does nothing. The condition variable is a set of waiting threads,
so that a lost wake-up would show. An event is its coalescing key and its
sequence number. `admitted`, `log`, `delivered` and `selfRemoved` are histories.

**`EventChannel`** is what the bus promises: a bounded first-in-first-out
channel in which a replaceable event may give way to a newer one with its key.

**`IncidentEngine`** models `process()`. `Judge` is `evaluateLocked()` and the
`*Verdict` operators are the rules. The inputs are the observations of
SocketTracker and NetlinkCollector: `tracker` keeps them in the order in which
SocketTracker can publish them for one socket, `SocketEventLost` loses one. Route
contexts may come at any time, even before the socket's Active observation, since
the netlink thread recomputes them. `window` remembers the last decisive verdicts of each
key, `view` is what a consumer of the emissions knows.

**`NetlinkCollector`** models `start()`, `stop()`, `loop()`, `fullReconcile()`
and the three `mark*()` functions, with `TopologyState::applyChecked()` and
`UplinkPolicy::select()` as operators. The kernel is external: it changes its
facts at any time, queues a notification for each change, answers one dump
request at some later moment, and drops what does not fit. Notifications are
taken to carry sequence number 0 and dump answers the number of their request,
as the parser requires.

**`SocketLifecycle`** models `SocketLifecycleTable`: `beginSnapshot`, `observe`,
`commitSnapshot`, `abortSnapshot`, `close`. `observe()` is written as operators on
the table, the candidate and a record (`Match`, `Victims`, `Room`, ...), so that
`SocketTracker` can use them. The four index maps are read off the entries;
`IdentitiesAreUnique` shows that they are functions. `retired` is a history: every
generation that left the table, also those that `closed` no longer keeps.

**`SocketTracker`** models the tracker's worker (`Dump4`, `Dump6`, `Observe`,
`Commit`, `PublishSockets`, `StoreContexts`, `PublishContext`, `PublishSamples`) and
`recomputeRouteContexts()` on the netlink worker (`TopologyChanges` to
`PublishRecomputed`). The kernel is external: sockets open, count retransmissions
and close at any time, also between the two dumps. `Observe` and `Commit` are one
critical section; the netlink worker's `active()` waits for it. A route context is
the version of the topology it comes from. `told`, `lastRoute`, `owner`, `history`
and `intervals` are histories. As for the route parser, answers are taken to be what
`SocketDiagParser` accepts: the sequence number of the request and port 0.

**`TcpInterval`** and **`SocketRouteAttributor`** are the two pure algorithms of the
tracker. Counters are naturals that wrap at `CounterModulus` in the instance; an
address is a sequence of bytes of `ByteBits` bits, so that prefixes end inside a byte.

**`RootCauseRules`** is `buildCandidatesLocked()`: a function from a context (the
caches) to the hypotheses, with their confidence, reason and evidence.
Evidence is its kind, the incident it comes from and a value where the code tells
two apart. **`RootCauseEngine`** is `process()` and `reconcileLocked()`: the caches, their
bounds and the table of active hypotheses. Hypothesis identifiers, the history of
resolved hypotheses and the emissions are left out. Ages are counted in
ticks up to one past the freshness limit; nothing in the code reacts to a tick.

**`ActiveProbe`** and **`WifiCollector`** are two collectors with a worker that copies a
target, waits and publishes, while the netlink thread changes the target. A probe is
the outcome of `nativeProbe()` on an exchange (socket, send, what poll and receive
bring); its "probe stopped" cannot happen, since the worker passes an empty stop token
(`active_probe.cpp:274-275`). A Wi-Fi
query is up to three requests; a reply is one or more datagrams, each a sequence of messages
("Data", "Done", a message that the parser refuses, an errno). `Read` takes datagrams off the
socket until one has a terminal message or the number of another request, so that
the reply to a request that timed out is found by the next one.
Family and interface requests carry neither `NLM_F_ACK` nor `NLM_F_DUMP`
(`wifi_collector.cpp:411`, `453`), while `requestAndReceive()` waits for a terminal
message, and the parser wants `nlmsg_pid` 0. The instance assumes a kernel
whose replies have both; a reply without the terminal message ends as `Timeout`
does. With a kernel that never sends one the collector would get no further than the
family, and the property about Wi-Fi evidence would say little: which of
the two a kernel does is outside the sources.

**`LossyBus`** is the bus as a publisher sees it, with a bounded number of dropped
events. **`Diagnosis`** composes it with `RootCauseEngine`, `ActiveProbe`, the incidents of
`IncidentEngine` and the commits of `NetlinkCollector`; **`WifiDiagnosis`** with `RootCauseEngine`
and `WifiCollector`.

**`MetricStore`** models `insert()` with `pruneExpired()` and both evictions, and the
queries as operators. `accepted` is a history.

**`DaemonApplication`** has one action per step of `start()` and `stop()`, each of which may
fail where the code checks. `alive` is the set of objects and acquired resources,
`threads` the running threads, `using` the object inside which a thread is. The signal thread, the
committed callback, the dispatcher and the workers take steps in between.

**`PingExecutor`** models the queue, the worker (`Spawn`, `Poll`, `Reap`, `KillHelper`,
`Complete`), `stop()` in its two stages and the helper, which may print, exit or hang.
Without the path of a helper the worker pings by itself (`PingInProcess`).

**`NetworkManager`** models the interface list and the monitors that write it:
a monitor copies the list, measures without the lock, and merges. A traffic
measurement may leave the copy as it was, as it does without the eBPF collector. Scores are integers in
twentieths of a point, which is exact for the weights and thresholds in the code.

**`Client`** models the C API: the global pointer, `ioMutex_`, the match rules of the
process's connection and the bounded queues. The message bus is external.

**`Derivations`** states what the pure algorithms promise, against
reference definitions written apart from the operators they judge.

The TLAPS proofs are in **`EventBusProofs`**, **`SocketLifecycleProofs`**
(`SocketRouteAttributor` and `SocketLifecycle`), **`SocketTrackerLemmas`** and
**`SocketTrackerProofs`**, **`IncidentEngineLemmas`** and **`IncidentEngineProofs`**,
**`NetworkProofs`** (`NetlinkCollector` and `NetworkManager`) and **`ComponentsProofs`**
(`TcpInterval`, `Client`, `PingExecutor` and `DaemonApplication`). The `MC*` modules give structured
constants their values. Several put more than one instance into one state
space: a variable `part` (`world` in `MCNetlinkCollector`) is chosen in the
initial state and says which instance a behaviour belongs to; the others rest.

## Runs

| Run | What it shows |
|---|---|
| `EventBus` | The counters add up; every subscriber that stays gets every event it asked for unless a newer one replaced it, in order of admission; no callback after `unsubscribe()`. |
| `EventBusLive` | Every `stop()` and `unsubscribe()` returns, every accepted event is handled, and the bus implements `EventChannel`. |
| `EventBusUnsubscribe` | Violation: an external `unsubscribe()` returns at once while a callback runs that removed itself, because its token is empty. |
| `Components` | The lifecycle table (within its maximum, unique identities that never come back, a commit mirrors the dump), the metric store (every sample accounted for, the queries agree), the V1 monitors (no lost update, clients know the quality within 15 points), and the client library (a signal is lost only by overflow). |
| `SocketTracker` | Failed dumps, stops, reused tuples and a table that is too small never make the tracker say something untrue of a socket; intervals span two consecutive samples of one socket; with room, the table and the routes become current. |
| `IncidentEngine` | Emissions suffice to know the active incidents; no record outlives its socket; incidents open and close exactly on runs of decisive samples, at once; the opening evidence stays. |
| `NetlinkCollector` | The model is current, or a pending notification, a raised alarm or a running reconciliation says why not; consumers of the events know the model; the model converges. |
| `NetlinkCollectorUplink` | Violation: an authoritative loss of the uplink is announced from a model that has missed a change. |
| `Diagnosis` | No hypothesis outlives its incidents unless a resolution is queued or was lost; gateway evidence was measured on the gateway of the route that the engine knows; stale evidence is renewed or retired. The pure algorithms, on every bounded input: the rules conclude no more than their evidence carries, the best routes alone decide an attribution, and no interval reports more than was counted. |
| `DiagnosisLost` | Violation: one dropped resolution leaves a hypothesis active for ever. |
| `Runtime` | The monitors, the dispatcher and the topology callback use live objects only (the signal thread is the subject of `DaemonSignal`); every failed start and every stop leaves nothing behind but a queued claim to the bus name, a signal leads to a complete stop; no ping helper is left, and no call stays in the queue (it is answered, or dropped by `stop()`); Wi-Fi evidence comes from the answer to the station question about the interface and generation of the route that the engine knows. |
| `DaemonSignal` | Violation: `requestStop()` on the signal thread can meet a manager that `stop()` has released. |

### Bounds

- EventBus: a capacity of two distinguishes an event in front of the coalesced one
  from one behind it; two subscribers let one unsubscribe while the other is called;
  `SequenceModulus` is small, so that the wrap is reached; the counter also bounds
  the number of publications, as it does in the code.
- IncidentEngine: activation and recovery runs of two are the shortest that a
  sample can interrupt; two incidents allow a condition to recur; the RTT part has two
  generations of one cookie, room for all records and an evidence limit of
  three, the least at which an intermediate sample is evicted; the other part has a
  table of two for four kinds of incident, whose intervals are good, bad or
  unavailable in each of the four ways (a neutral sample is left to the RTTs).
- NetlinkCollector: two kernel changes and one failure let a change fall into any
  gap between the dumps and meet a failure; a receive buffer of two overflows; two
  starts cover a restart with an old model. The violation run needs three changes.
- SocketLifecycle: three tuples and two cookies give a record two different entries
  to contradict; three places are filled by entries that the snapshot closes and
  entries that it adds; tuples are interchangeable (symmetry).
- SocketTracker: two IPv4 sockets share one tuple, one after the other, and one IPv6
  socket has no cookie; one failure or stop falls into any step of a reconciliation;
  two places make the table reject records. `Busy` names the sockets whose TCP_INFO
  varies. The second part has one socket of each family, room for all, and two
  changes of the topology, so that a copy of it can be outdated.
- MetricStore: three keys for two series, two samples per series, three in all and an
  age of one: six inserts over four instants reach every eviction in every order.
- The pure algorithms: every combination of three sets of incidents, three routes,
  two uplinks, seven gateway and six remote probes and seven Wi-Fi
  observations; two routes with prefixes that end inside a byte, two tables, two
  metrics, two types and three outputs; counters of modulus four.
- Client: two threads, two clients one after the other, queues of one, two signals.
- NetworkManager: one interface, four round-trip times, three TCP samples, two
  traffic records.
- Diagnosis: one socket, two gateways and a lost topology, a bus of one place that
  loses one event, two incidents; the remote target answers slowly, or poll fails after
  a foreign datagram. WifiDiagnosis: two interfaces, two commits, one
  late reply. The 2^32 sequence numbers are not reused while a datagram waits, so that
  a datagram has the number of the request exactly if it came after those left
  unread. Without the comparison of sequence numbers one
  late reply is enough to have an interface reply taken for a station.
- DaemonApplication: one worker and one commit; the code's workers are alike.
  PingExecutor: three calls and a queue of one.

`CHECK_DEADLOCK FALSE` appears where the system may stop for good: a
stopped bus, a collector whose bounded starts are used up, and a tracker that is not
started again or has used up the identities of the bound.

### Fairness

The dispatcher, the joining threads and the owners that wait in `unsubscribe()`
are scheduled (weak fairness); nobody has to publish, subscribe or stop. In the
collector the timer and the steps of a reconciliation are weakly fair and the
kernel answers a dump. Reading from the socket in `loop()` is strongly fair: the
loop polls for at least `recovery_retry_initial` between two reconciliations, so
a datagram that is waiting there again and again is read. Without it, answers to
abandoned dumps could spoil every later dump. In the tracker both workers are
weakly fair, and a stopped tracker is started again; dumps fail a bounded number of
times, and the kernel has no obligation.

In `Diagnosis` the probe worker, the dispatcher and a begun commit are weakly fair.
In `DaemonApplication` the main thread, the signal thread, the netlink thread inside a
callback, the dispatcher inside a callback and the workers are; nobody has to send a
signal, commit, publish or throw. In `PingExecutor` the worker, the clock and a begun
`stop()` are; the helper is not, so that it may hang.

## Findings

Four places where a document says more than the code does; each has a violation
run and is quoted under `findings` in `PROJECT.json`: the external `unsubscribe()`; the
uplink that is declared unavailable by a model whose telemetry is known to
be degraded; the resolution that the bus drops; and the manager that is released
before the signal thread is joined.

Met while modelling, without a run:

- `netlink_collector.cpp:430` calls `committed_callback` with a model that was never
  reconciled, while `netlink_collector.hpp:53-54` says that it is called only for an
  authoritative one. `NetlinkCollector` has the step.
- `start()` hands a snapshot to each consumer (`application.cpp:254`, `258`, `270`) that the
  netlink thread may have replaced by a newer commit in between; the older one
  then stays until the next commit. `DaemonApplication` has the two steps
  (`ReadTopology`, `UpdateTopology`).
- `socket_tracker.cpp:734` counts a known socket that is seen again twice, so that
  records may be rejected when little more than half of `max_active_entries` is used,
  and a rejected snapshot does not close the departed sockets either. `TableIsBounded`
  is the upper limit; no document says how many sockets must fit.
- `application.cpp:91` requests the bus name without `DBUS_NAME_FLAG_DO_NOT_QUEUE`. If
  another process keeps it, start() fails at line 98 without `dbus_name_owned_`, and
  `stopDbus()` (line 412) does not withdraw the queued request of the shared
  connection. `OnlyQueuedClaimLeft` says that nothing else stays.
- `client/weaknet_client.h:136` says that a callback that returns true goes on listening;
  `client.cpp:657` stops then. `weaknet_check_changes` adds no match rule.
- `network_quality_assessor.cpp:143` gives the middle score to an RSSI that
  cannot be measured, tested as 0; an unmeasured RSSI is -1000 (`net_info.hpp:99`) and
  gets the lowest.
- A reply that arrives after its deadline leaves the Wi-Fi collector behind by as many
  datagrams as it has: each later request reads one datagram of an earlier reply, gives up
  with `WrongSequence` (`wifi_collector.cpp:389`) and leaves its own reply in the socket,
  until `stop()` closes it or the kernel leaves enough requests unanswered. The evidence stays true; it is missing.
- `PingExecutor::stop()` drops queued calls without a reply, and a helper that prints
  and exits between the last poll and `waitpid` loses its output.
- The engines are stopped before the collectors that publish to them, so that
  what is published during `stop()` is drained without a reader.

## Proofs

TLAPS proves the following for every value of the constants that satisfies the
`ASSUME`s of the modules, so for any number of sockets, events, calls and
failures; the bounds named above are constants too, and arbitrary naturals here. The
second column is the property of a run, unless marked.

| Theorem | Property | Module of the proof |
|---|---|---|
| `TypeCorrect` | `TypeOK` (no run) | `EventBusProofs` |
| `ConservationHolds` | `Conservation` | |
| `StopDrains` | `DrainedWhenStopped` (no run) | |
| `UnsubscribeWaits` | `UnsubscribeSynchronises` | |
| `NoLateCallback` | `NoCallbackAfterUnsubscribe` | |
| `OrderIsKept` | `AdmissionOrder` | |
| `EventsAreNotMissed` | `NoEventIsMissed` | |
| `BusImplementsChannel` | `ChannelSpec` | |
| `IdentitiesStayUnique` | `IdentitiesAreUnique` | `SocketLifecycleProofs` |
| `CommitsMirrorDumps` | `CommitMirrorsDump` | |
| `TableStaysBounded` | `TableIsBounded` | |
| `AvailableNamesTheInterface` | `AvailableIsForced` in `BestRouteDecides`, for given matches | |
| `BeatenRoutesAreIgnored` | `BeatenIsIgnored` in `BestRouteDecides`, for given matches | |
| `ObservationsHold` | `ObservationsAreTrue` | `SocketTrackerProofs` |
| `IntervalsHold` | `IntervalsSpanOneSocket` | |
| `NothingIsMissed` | `NothingMissedSilently` | `NetworkProofs` |
| `EventsSuffice` | `EventsTellModel` | |
| `MonitorsDoNotInterfere` | `MonitorsKeepApart` | |
| `QualityIsKnown` | `ClientsKnowQuality` | |
| `EmissionsTellAll` | `EmissionsSuffice` | `IncidentEngineProofs` |
| `RecordsAreOfLiveSockets` | `RecordsHaveLiveSockets` | |
| `VerdictsArePrompt` | `PromptVerdict` (the run has its RTT case, `RttVerdictIsPrompt`) | |
| `RunsDecide` | `DecidedByRuns` | |
| `OpeningSampleStays` | `OpeningEvidenceKept` | |
| `SignalsAreKept` | `LostOnlyOnOverflow` | `ComponentsProofs` |
| `HelpersAreReaped` | `NoHelperLeft` | |
| `CallsAreHeld` | `NoCallForgotten` (no run) | |
| `RepliesAreFinal` | `AnsweredOnce` (no run) | |
| `LiveObjects` | `UsesLiveObjects` | |
| `StopLeavesNothing` | `OnlyQueuedClaimLeft` | |
| `IntervalsInventNothing` | `CountsOnly`, for any modulus (the run: `NothingInvented`) | |

### Assumptions

`BusAssumption`, `PolicyAssumption`, `TableAssumption`, `ClientAssumption`,
`ManagerAssumption`, `PingAssumption` and `AddressAssumption` say that limits are natural
numbers, positive where the code insists on it, and that the marks for "none" are not
values. `PolicyAssumption` also orders the thresholds, as the engine's constructor does. Four say
something about the world outside: `SocketAssumption`, that sockets with one cookie have
different generations (`SocketLifecycleProofs` proves of the table that a generation is never given
out twice); `TrackerAssumption`, that the kernel gives a cookie to one socket only and that a tuple
tells its family; `TopologyAssumption`, that addresses and routes are different facts, and that
a deletion matches at least the route it was sent for; `DaemonAssumption`, that the
monitors are other threads than the service threads. `TableConstants` gives the
tracker's table the table's assumption.

### Arguments

**EventBus.** None of the properties is inductive alone. `DispatcherInv` ties the dispatcher's
program counter to what it holds (an event exactly between take and done, a current
subscriber exactly inside a callback); `BusInv` adds that the dispatcher has left its
loop only when stopping with an empty queue, which gives the drain. `SubscriptionInv` adds
that only the subscriber being called is in flight and that one that has begun to
unsubscribe is inactive: this is why a target that was collected before the
erase cannot be called after the return. `OrderInv` adds that every number given out is
below `next_sequence`, or the counter has wrapped to 0 and nothing is admitted any more.
`AdmissionsInv` makes a number the place of its event among the admitted ones, so that an
event that coalescing removes is known to have a successor, and `DeliveryInv` says of each
subscriber that it has every matching event since its first one, except the one
being dispatched if it is still owed. The refinement uses all of them.

**SocketLifecycleTable.** `TableInv`: cookies and cookieless tuples tell entries apart in
the table and in the candidate (`Distinct`), an entry in both is the same (`Agree`), generations
are given out once and never used after their entry left the table (`GenerationsInv`), what is superseded is
contradicted by a record of the dump (`SupersededInv`), and the candidate is the dump as long
as nothing was rejected (`MirrorInv`). `CommitMirrorsDump` needs `MirrorInv` because the
commit only looks at the candidate. `Unambiguous`, its premise, says that the dump
lists no tuple and no cookie twice; where it does, the later record replaces the
earlier one and the table is not the dump.

**SocketTracker.** `SocketTrackerLemmas` and `SocketTrackerProofs` show that `TableInv` is
kept by every step of the tracker too, with the lemmas of `SocketLifecycleProofs` about
`observe()` and `commitSnapshot()` (`TableSummary` is what the tracker needs of it). `SocketsInv` adds that the two dumps of a
round list every socket of the table that is still alive (`DumpsInv`), that every entry has
the record of its owner (`OwnersInv`), that what is reported closed left
the table for good and its owner is gone (`AnnouncedInv`), and that the baselines are the
last but one samples of the owner (`SamplesInv`).

**NetlinkCollector.** The invariant says what is in the receive buffer. `Leads` states that the
unread messages lead from the model to the kernel's state: there is a sequence of states, one
between any two messages, in which each message explains the next state. `DumpInv` says
that a reconciliation that met no notification has dumps of one moment, and that what
happened since is unread; `RequestInv` that at most one answer is under way. Together they
show why a reconciliation that commits may forget `missed`.

**IncidentEngine.** `CountsInv` ties the counters of a record to the decisive verdicts at the end
of its key's window: with room for all records a pending record counts exactly the run of Bad
ones and an active record the run of Good ones; without room it counts at most these.
`IdsInv` says that active incidents have identifiers of their own, `TrackerInv` that
one generation of a cookie is open at a time, and `SocketInv` relates what the engine was
told of a socket (`heard`, `authoritative`, `ended`) to where the tracker is, which is
needed because any observation may be lost. Each kind of input preserves `EngineInv`
through one lemma about `evaluateLocked()` for one key (`EvaluateCounts`) and one about
removing the records of a socket.

**DaemonApplication.** `BuiltInv` says which object `start()` has built before it starts the
thread that runs in it, `LeftInv` what each finished step of `stop()` has joined, waited for or
given back (`Left(n)`, for good), `ClaimInv` that a claim is queued only where `startDbus()` failed,
before any worker, `ThreadsInv` what a thread may be inside of. An object is
released only after the threads that call into it are joined: that is the order the
property depends on. **PingExecutor.** `HeldInv`: the queue
and the worker hold different calls, each once, and exactly the unanswered ones;
`StopInv`: an executor that does not accept has an empty queue, and the worker leaves only
then.

**Client.** `LibraryInv`: a caller inside the library uses an object that exists and holds
signals only while it sorts them, and queues are within their limit; a step that
dispatches what was taken off the connection then loses a signal only where it drops the
head of a full queue. **NetworkManager.** `ManagerInv`: the copies that monitors merge list the
interfaces of the list, and `previous` is what was announced last.

**TcpInterval.** `Wraps`: if the remainder of a count did not go back, it grew by at most what was
counted, by the quotients of the two samples. **SocketRouteAttributor.** The two passes over
the matching routes leave the unbeaten ones (`TiedAreUnbeaten`), of which there is one since
prefixes are bounded (`SomeAreTied`); one reason of an Available context after the
other then rules out that these disagree.

Where a proof needs induction over the place in a sequence it takes the least place at which the
claim fails and refutes it (`NatLessThanWellFounded`, `WFMin`), since the induction theorems
themselves cannot be used with this prover.

### Only model-checked

- Liveness of every module, since fairness and `ENABLED` are outside the prover: `StopReturns`,
  `UnsubscribeReturns`, `AcceptedIsHandled`, `TableFollows`, `RoutesCatchUp`, `Converges`,
  `StaleEvidenceRetired`, `SignalHonoured`, `PingSettles`.
- `StoreIsConsistent`: the store's counters are sums over folds of its series.
- `NoOrphan`, `NoLeakedGateway` and `WifiEvidenceIsCurrent`: they speak of what the rules
  conclude from the caches, with the bus's contents filtered and replayed.
- `RulesAreCautious`, a pure algorithm, on every bounded input; and of `BestRouteDecides`
  the part that `prefixMatches()`, byte by byte, agrees with the leading bits of the
  address as a number, which is a recursion over the bytes.

## Not modelled

- Byte layouts of RTNETLINK, sock_diag and nl80211 messages: only the verdicts of the
  parsers are. Formatting, logging and telemetry that nothing reads back.
- RootCauseEngine's identifiers, resolved history and emissions; the health events that
  `V1ObservationAdapter` mirrors; the RSSI monitor (an optional wpa_supplicant client); the
  interface monitors that no code starts.
- Failed allocations and exceptions other than those of workers.
- `DiagnosticsQueryService` assembles snapshots and changes nothing; D-Bus marshalling,
  runtime configuration and `weaknetctl` are conversions without state.
- Traffic analysis is an optional eBPF collector over kernel maps.
- The AI runtime and the retrieval behind it are requests to external services around text
  and floating-point scores; the lab runner is a test tool outside the daemon.
