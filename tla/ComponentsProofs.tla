--------------------------- MODULE ComponentsProofs ---------------------------
(***************************************************************************)
(* Proofs about three parts that run alone: the C client library, for any  *)
(* threads, signal families, signals and clients, and any limit of the     *)
(* queues; the ping executor, for every set of calls and every queue       *)
(* capacity; and the daemon's lifecycle, for every set of workers.  And    *)
(* about one pure algorithm, the interval metrics of any two samples.      *)
(***************************************************************************)
EXTENDS DaemonApplication, PingExecutor, Client, TcpInterval, TLAPS

-----------------------------------------------------------------------------
(* Sequences. *)

\* push_back(): one more element, at the end.
LEMMA Appended ==
    ASSUME NEW S, NEW s \in Seq(S), NEW x \in S
    PROVE  /\ Append(s, x) \in Seq(S) /\ Append(s, x) # <<>>
           /\ Len(Append(s, x)) = Len(s) + 1 /\ Append(s, x)[Len(s) + 1] = x
           /\ \A i \in 1 .. Len(s) : Append(s, x)[i] = s[i]
  OBVIOUS

\* pop_front(): what is left moves up one place.
LEMMA HeadAndTail ==
    ASSUME NEW S, NEW s \in Seq(S), s # <<>>
    PROVE  /\ Head(s) \in S /\ Tail(s) \in Seq(S) /\ Len(Tail(s)) = Len(s) - 1
           /\ \A i \in 1 .. Len(Tail(s)) : Tail(s)[i] = s[i + 1]
  OBVIOUS

-----------------------------------------------------------------------------
(* The interval metrics. *)

\* What is left of two quotients when the remainder did not go back.
LEMMA Wraps ==
    ASSUME NEW m \in Nat \ {0}, NEW n \in Nat, NEW k \in Nat, (n % m) <= ((n + k) % m)
    PROVE  /\ ((n + k) % m) - (n % m) <= k
           /\ k < m => ((n + k) % m) - (n % m) = k
  <1> DEFINE p == n \div m
             q == (n + k) \div m
             a == n % m
             b == (n + k) % m
  <1>1. /\ p \in Int /\ a \in 0 .. m - 1 /\ n = m * p + a
        /\ q \in Int /\ b \in 0 .. m - 1 /\ n + k = m * q + b
    OBVIOUS
  <1> HIDE DEF p, q, a, b
  <1>2. k = m * q - m * p + (b - a)
    BY <1>1
  <1>3. m * q - m * p = m * (q - p)
    BY <1>1
  <1>4. q - p >= 0
    <2>1. SUFFICES ASSUME q - p <= -1 PROVE FALSE
      BY <1>1
    <2>2. m * (q - p) <= m * (-1)
      BY <1>1, <2>1
    <2> QED BY <1>1, <1>2, <1>3, <2>2
  <1>5. m * (q - p) >= 0
    BY <1>1, <1>4
  <1>6. k < m => q - p = 0
    <2>1. SUFFICES ASSUME k < m, q - p >= 1 PROVE FALSE
      BY <1>1, <1>4
    <2>2. m * (q - p) >= m
      BY <1>1, <2>1
    <2> QED BY <1>1, <1>2, <1>3, <2>1, <2>2 DEF a, b
  <1>7. b - a <= k
    BY <1>1, <1>2, <1>3, <1>5
  <1>8. k < m => b - a = k
    BY <1>1, <1>2, <1>3, <1>6
  <1> QED BY <1>7, <1>8 DEF a, b

\* Metrics() gives the deltas of all counters, or none.
LEMMA MetricsDeltas ==
    ASSUME NEW previous, NEW current
    PROVE  \/ \E reason : Metrics(previous, current) = NoMetrics(reason)
           \/ Metrics(previous, current).deltas =
                 [c \in Counters |-> CounterDelta(previous, current, c)]
  <1> DEFINE deltas == [c \in Counters |-> CounterDelta(previous, current, c)]
             some == current.raw["gauges"] # NoCount \/ \E c \in Counters : deltas[c] # NoCount
  <1>1. CASE ~some
    BY <1>1, Zenon DEF Metrics
  <1>2. CASE some
    <2>1. \E ratio, valid, reason :
             Metrics(previous, current) =
                [deltas |-> deltas, ratio |-> ratio, valid |-> valid, reason |-> reason]
      BY <1>2, Zenon DEF Metrics
    <2> HIDE DEF deltas
    <2>2. Metrics(previous, current).deltas = deltas
      BY <2>1
    <2> QED BY <2>2 DEF deltas
  <1> QED BY <1>1, <1>2

\* calculate() on counters that the kernel keeps modulo any number: an interval
\* reports no more than was counted, and the exact count of a counter that went
\* less than once around, whichever of the two samples lack which counters.
THEOREM IntervalsInventNothing ==
    ASSUME NEW modulus \in Nat \ {0}, NEW start \in [Counters -> Nat],
           NEW counted \in [Counters -> Nat], NEW previous, NEW current,
           \A c \in Counters :
              /\ previous.raw[c] \in {NoCount, start[c] % modulus}
              /\ current.raw[c] \in {NoCount, (start[c] + counted[c]) % modulus}
    PROVE  CountsOnly(previous, current, counted, modulus)
  <1> DEFINE result == calculate(previous, current)
             deltas == [c \in Counters |-> CounterDelta(previous, current, c)]
  <1> SUFFICES ASSUME result.deltas # NoCount, NEW c \in Counters, result.deltas[c] # NoCount
               PROVE  /\ result.deltas[c] <= counted[c]
                      /\ counted[c] < modulus => result.deltas[c] = counted[c]
    BY DEF CountsOnly
  <1>1. \A reason : NoMetrics(reason).deltas = NoCount
    BY DEF NoMetrics
  <1>2. result = Metrics(previous, current)
    <2>1. \/ \E reason : result = NoMetrics(reason)
          \/ result = Metrics(previous, current)
      BY Zenon DEF calculate
    <2> HIDE DEF result
    <2> QED BY <1>1, <2>1
  <1>3. \/ \E reason : result = NoMetrics(reason)
        \/ result.deltas = deltas
    <2> HIDE DEF result
    <2> QED BY <1>2, MetricsDeltas
  <1>4. result.deltas[c] = CounterDelta(previous, current, c)
    <2> HIDE DEF result
    <2>1. result.deltas = deltas
      BY <1>1, <1>3
    <2> QED BY <2>1
  <1> HIDE DEF result
  <1> DEFINE before == previous.raw[c]
             after == current.raw[c]
  <1>5. before # NoCount /\ after # NoCount /\ result.deltas[c] = Delta(before, after)
    BY <1>4 DEF CounterDelta, Known
  <1>6. ~(after < before) /\ result.deltas[c] = after - before
    BY <1>5 DEF Delta
  <1>7. before = start[c] % modulus /\ after = (start[c] + counted[c]) % modulus
    BY <1>5
  <1>8. start[c] \in Nat /\ counted[c] \in Nat
    OBVIOUS
  <1> HIDE DEF before, after
  <1>9. (start[c] % modulus) <= ((start[c] + counted[c]) % modulus)
    BY <1>6, <1>7, <1>8
  <1> QED BY <1>6, <1>7, <1>8, <1>9, Wraps

-----------------------------------------------------------------------------
(* The client library: the invariant. *)

States == {"Outside", "Calling", "Blocked", "Subscribing", "Matching", "Taking", "Sorting"}
Caller == [at : States, client : Nat, kind : Kinds, listening : BOOLEAN, held : Seq(Nat)]

Signal == [kind : Kinds, garbled : BOOLEAN]

\* A caller inside the library uses a client that was created, and holds signals
\* only while it sorts them.
CallersInv ==
    /\ app \in [Apps -> Caller]
    /\ global.client \in 0 .. Len(opened)
    /\ \A a \in Apps : /\ app[a].at # "Outside" => app[a].client \in DOMAIN queues
                       /\ app[a].at # "Sorting" => app[a].held = <<>>

\* Each client object has its queues, none longer than the limit.
QueuesInv ==
    /\ queues \in Seq([Kinds -> Seq(Nat)]) /\ opened \in Seq(BOOLEAN) /\ Len(queues) = Len(opened)
    /\ \A o \in DOMAIN queues : \A k \in Kinds : Len(queues[o][k]) <= QueueLimit

\* What is on its way was emitted.
SignalsInv ==
    /\ matches \subseteq Kinds /\ received \in Seq(Nat) /\ emitted \in Seq(Signal)
    /\ \A i \in DOMAIN received : received[i] \in DOMAIN emitted
    /\ \A a \in Apps : \A i \in DOMAIN app[a].held : app[a].held[i] \in DOMAIN emitted

LibraryInv == CallersInv /\ QueuesInv /\ SignalsInv

LEMMA OutsideType == Outside \in Caller
    BY ClientAssumption DEF Outside, Caller, States

LEMMA LibraryInit == ASSUME ClientInit PROVE LibraryInv
  <1>1. CallersInv
    BY OutsideType DEF ClientInit, CallersInv, Outside
  <1>2. QueuesInv
    BY DEF ClientInit, QueuesInv
  <1>3. SignalsInv
    BY DEF ClientInit, SignalsInv, Outside
  <1> QED BY <1>1, <1>2, <1>3 DEF LibraryInv

\* A caller that moves and holds nothing.
LEMMA CallerMoves ==
    ASSUME LibraryInv, NEW a \in Apps, NEW r \in Caller, app' = [app EXCEPT ![a] = r], r.held = <<>>,
           r.at # "Outside" => r.client \in DOMAIN queues,
           matches' \subseteq Kinds, UNCHANGED <<global, opened, received, emitted, queues>>
    PROVE  LibraryInv'
  <1>1. CallersInv'
    BY DEF LibraryInv, CallersInv
  <1>2. QueuesInv'
    BY DEF LibraryInv, QueuesInv
  <1>3. SignalsInv'
    BY DEF LibraryInv, SignalsInv, CallersInv
  <1> QED BY <1>1, <1>2, <1>3 DEF LibraryInv

LEMMA CallerTypes ==
    ASSUME LibraryInv, NEW a \in Apps
    PROVE  /\ app[a] \in Caller /\ app[a].at \in States /\ app[a].client \in Nat
           /\ app[a].kind \in Kinds /\ app[a].listening \in BOOLEAN /\ app[a].held \in Seq(Nat)
    BY DEF LibraryInv, CallersInv, Caller

-----------------------------------------------------------------------------
(* Queues. *)

LEMMA TailKeeps ==
    ASSUME NEW q \in Seq(Nat), q # <<>>
    PROVE  /\ Tail(q) \in Seq(Nat) /\ Len(Tail(q)) = Len(q) - 1 /\ Len(q) \in Nat \ {0}
           /\ Head(q) \in Nat /\ Occurs(Head(q), q)
           /\ \A x : Occurs(x, Tail(q)) => Occurs(x, q)
           /\ \A x : Occurs(x, q) => x = Head(q) \/ Occurs(x, Tail(q))
  <1>1. /\ Tail(q) \in Seq(Nat) /\ Len(Tail(q)) = Len(q) - 1 /\ Len(q) \in Nat \ {0}
        /\ Head(q) \in Nat /\ Head(q) = q[1] /\ 1 \in DOMAIN q
        /\ DOMAIN q = 1 .. Len(q) /\ DOMAIN Tail(q) = 1 .. Len(q) - 1
        /\ \A i \in 1 .. Len(q) - 1 : Tail(q)[i] = q[i + 1]
    OBVIOUS
  <1>2. \A x : Occurs(x, Tail(q)) => Occurs(x, q)
    <2>1. SUFFICES ASSUME NEW i \in 1 .. Len(q) - 1 PROVE \E j \in DOMAIN q : q[j] = Tail(q)[i]
      BY <1>1 DEF Occurs
    <2>2. i + 1 \in DOMAIN q /\ q[i + 1] = Tail(q)[i]
      BY <1>1
    <2> QED BY <2>2
  <1>3. \A x : Occurs(x, q) => x = Head(q) \/ Occurs(x, Tail(q))
    <2>1. SUFFICES ASSUME NEW i \in DOMAIN q, i # 1 PROVE \E j \in DOMAIN Tail(q) : Tail(q)[j] = q[i]
      BY <1>1 DEF Occurs
    <2>2. i - 1 \in DOMAIN Tail(q) /\ Tail(q)[i - 1] = q[i]
      BY <1>1, <2>1
    <2> QED BY <2>2
  <1> QED BY <1>1, <1>2, <1>3 DEF Occurs

LEMMA AppendKeeps ==
    ASSUME NEW q \in Seq(Nat), NEW s \in Nat
    PROVE  /\ Append(q, s) \in Seq(Nat) /\ Len(Append(q, s)) = Len(q) + 1 /\ Occurs(s, Append(q, s))
           /\ \A x : Occurs(x, q) => Occurs(x, Append(q, s))
           /\ \A i \in DOMAIN Append(q, s) : (i \in DOMAIN q /\ Append(q, s)[i] = q[i]) \/ Append(q, s)[i] = s
  <1>1. /\ Append(q, s) \in Seq(Nat) /\ Len(q) \in Nat /\ Len(Append(q, s)) = Len(q) + 1
        /\ DOMAIN q = 1 .. Len(q) /\ DOMAIN Append(q, s) = 1 .. Len(q) + 1
        /\ \A i \in 1 .. Len(q) : Append(q, s)[i] = q[i]
        /\ Append(q, s)[Len(q) + 1] = s
    OBVIOUS
  <1>2. Occurs(s, Append(q, s))
    <2>1. Len(q) + 1 \in DOMAIN Append(q, s)
      BY <1>1
    <2> QED BY <1>1, <2>1 DEF Occurs
  <1>3. \A x : Occurs(x, q) => Occurs(x, Append(q, s))
    BY <1>1 DEF Occurs
  <1>4. \A i \in DOMAIN Append(q, s) : (i \in DOMAIN q /\ Append(q, s)[i] = q[i]) \/ Append(q, s)[i] = s
    BY <1>1
  <1> QED BY <1>1, <1>2, <1>3, <1>4

\* pushBounded() loses at most the oldest signal, and that only of a full queue.
LEMMA PushKeeps ==
    ASSUME NEW q \in Seq(Nat), NEW s \in Nat, Len(q) <= QueueLimit
    PROVE  /\ pushBounded(q, s) \in Seq(Nat) /\ Len(pushBounded(q, s)) <= QueueLimit
           /\ Occurs(s, pushBounded(q, s))
           /\ \A x : Occurs(x, q) => \/ Occurs(x, pushBounded(q, s))
                                     \/ Len(q) = QueueLimit /\ Head(q) = x
  <1>0. QueueLimit \in Nat \ {0} /\ Len(q) \in Nat
    BY ClientAssumption
  <1>1. CASE Len(q) >= QueueLimit
    <2>1. q # <<>> /\ Len(q) = QueueLimit
      BY <1>0, <1>1
    <2>2. /\ Tail(q) \in Seq(Nat) /\ Len(Tail(q)) = Len(q) - 1
          /\ \A x : Occurs(x, q) => x = Head(q) \/ Occurs(x, Tail(q))
      BY <2>1, TailKeeps
    <2>3. /\ Append(Tail(q), s) \in Seq(Nat) /\ Len(Append(Tail(q), s)) = Len(Tail(q)) + 1
          /\ Occurs(s, Append(Tail(q), s)) /\ \A x : Occurs(x, Tail(q)) => Occurs(x, Append(Tail(q), s))
      BY <2>2, AppendKeeps
    <2>4. pushBounded(q, s) = Append(Tail(q), s)
      BY <1>1 DEF pushBounded
    <2>5. Len(pushBounded(q, s)) <= QueueLimit
      BY <1>0, <2>1, <2>2, <2>3, <2>4
    <2> QED BY <2>1, <2>2, <2>3, <2>4, <2>5, Zenon
  <1>2. CASE ~(Len(q) >= QueueLimit)
    <2>1. /\ Append(q, s) \in Seq(Nat) /\ Len(Append(q, s)) = Len(q) + 1
          /\ Occurs(s, Append(q, s)) /\ \A x : Occurs(x, q) => Occurs(x, Append(q, s))
      BY AppendKeeps
    <2>2. pushBounded(q, s) = Append(q, s)
      BY <1>2 DEF pushBounded
    <2>3. Len(pushBounded(q, s)) <= QueueLimit
      BY <1>0, <1>2, <2>1, <2>2
    <2> QED BY <2>1, <2>2, <2>3, Zenon
  <1> QED BY <1>1, <1>2

Replaces(o, k, q) == queues' = [queues EXCEPT ![o][k] = q] /\ opened' = opened

OnlyQueue(o, k, q) ==
    /\ QueuesInv' /\ DOMAIN queues' = DOMAIN queues /\ queues'[o][k] = q
    /\ \A p \in DOMAIN queues, l \in Kinds : p # o \/ l # k => queues'[p][l] = queues[p][l]

LEMMA QueueReplaced ==
    ASSUME QueuesInv, NEW o \in DOMAIN queues, NEW k \in Kinds, NEW q \in Seq(Nat), Len(q) <= QueueLimit,
           Replaces(o, k, q)
    PROVE  OnlyQueue(o, k, q)
  <1>0. queues' = [queues EXCEPT ![o][k] = q] /\ opened' = opened
    BY DEF Replaces
  <1>1. /\ queues \in Seq([Kinds -> Seq(Nat)]) /\ \A p \in DOMAIN queues : queues[p] \in [Kinds -> Seq(Nat)]
    BY DEF QueuesInv
  <1>2. [queues[o] EXCEPT ![k] = q] \in [Kinds -> Seq(Nat)]
    BY <1>1
  <1>3. queues' = [queues EXCEPT ![o] = [queues[o] EXCEPT ![k] = q]]
    BY <1>0, <1>1
  <1>4. /\ queues' \in Seq([Kinds -> Seq(Nat)]) /\ Len(queues') = Len(queues) /\ DOMAIN queues' = DOMAIN queues
    BY <1>1, <1>2, <1>3
  <1>5. /\ queues'[o] = [queues[o] EXCEPT ![k] = q]
        /\ \A p \in DOMAIN queues : p # o => queues'[p] = queues[p]
    BY <1>1, <1>3
  <1>6. /\ queues'[o][k] = q
        /\ \A p \in DOMAIN queues, l \in Kinds : p # o \/ l # k => queues'[p][l] = queues[p][l]
    BY <1>1, <1>5
  <1>7. \A p \in DOMAIN queues : \A l \in Kinds : Len(queues'[p][l]) <= QueueLimit
    <2>1. SUFFICES ASSUME NEW p \in DOMAIN queues, NEW l \in Kinds PROVE Len(queues'[p][l]) <= QueueLimit
      OBVIOUS
    <2>2. CASE p = o /\ l = k
      BY <1>6, <2>2
    <2>3. CASE p # o \/ l # k
      BY <1>6, <2>3 DEF QueuesInv
    <2> QED BY <2>2, <2>3
  <1> QED BY <1>0, <1>4, <1>6, <1>7 DEF QueuesInv, OnlyQueue

-----------------------------------------------------------------------------
(* The client library: every step keeps the invariant. *)

LEMMA EmitKeeps ==
    ASSUME LibraryInv, NEW k \in Kinds, NEW garbled \in BOOLEAN, Emit(k, garbled)
    PROVE  LibraryInv'
  <1>1. CallersInv' /\ QueuesInv'
    BY DEF LibraryInv, CallersInv, QueuesInv, Emit
  <1>2. SignalsInv'
    <2> DEFINE e == [kind |-> k, garbled |-> garbled]
    <2>1. /\ emitted \in Seq(Signal) /\ received \in Seq(Nat)
          /\ e \in Signal
          /\ emitted' = Append(emitted, e) /\ received' = Append(received, Len(emitted) + 1)
      BY DEF Emit, LibraryInv, SignalsInv, Signal
    <2> HIDE DEF e
    <2>2. /\ emitted' \in Seq(Signal)
          /\ DOMAIN emitted' = DOMAIN emitted \cup {Len(emitted) + 1} /\ Len(emitted) + 1 \in Nat
      BY <2>1
    <2>3. received' \in Seq(Nat) /\ \A i \in DOMAIN received' :
             (i \in DOMAIN received /\ received'[i] = received[i]) \/ received'[i] = Len(emitted) + 1
      BY <2>1, <2>2, AppendKeeps
    <2> QED BY <2>2, <2>3 DEF Emit, LibraryInv, SignalsInv
  <1> QED BY <1>1, <1>2 DEF LibraryInv

LEMMA InitKeeps == ASSUME LibraryInv, weaknet_init PROVE LibraryInv'
  <1> DEFINE empty == [k \in Kinds |-> <<>>]
  <1>1. /\ queues \in Seq([Kinds -> Seq(Nat)]) /\ opened \in Seq(BOOLEAN) /\ Len(queues) = Len(opened)
        /\ empty \in [Kinds -> Seq(Nat)]
        /\ queues' = Append(queues, empty) /\ opened' = Append(opened, TRUE)
        /\ global' = [global EXCEPT !.client = Len(opened) + 1]
        /\ UNCHANGED <<matches, received, emitted, app>>
    BY DEF weaknet_init, LibraryInv, QueuesInv
  <1>2. \A k \in Kinds : Len(empty[k]) <= QueueLimit
    BY ClientAssumption
  <1> HIDE DEF empty
  <1>3. /\ queues' \in Seq([Kinds -> Seq(Nat)]) /\ Len(queues') = Len(queues) + 1
        /\ DOMAIN queues \subseteq DOMAIN queues'
        /\ \A o \in DOMAIN queues' : (o \in DOMAIN queues /\ queues'[o] = queues[o]) \/ queues'[o] = empty
    BY <1>1
  <1>4. opened' \in Seq(BOOLEAN) /\ Len(opened') = Len(opened) + 1
    BY <1>1
  <1>5. QueuesInv'
    BY <1>1, <1>2, <1>3, <1>4 DEF LibraryInv, QueuesInv
  <1>6. CallersInv'
    <2>1. global'.client = Len(opened) + 1 \/ global'.client = global.client
      BY <1>1
    <2>2. global'.client \in 0 .. Len(opened')
      <3>1. global.client \in 0 .. Len(opened) /\ Len(opened) \in Nat
        BY <1>1 DEF LibraryInv, CallersInv
      <3> QED BY <1>4, <2>1, <3>1
    <2> QED BY <1>1, <1>3, <2>2 DEF LibraryInv, CallersInv
  <1>7. SignalsInv'
    BY <1>1 DEF LibraryInv, SignalsInv
  <1> QED BY <1>5, <1>6, <1>7 DEF LibraryInv

LEMMA ReplaceKeeps ==
    ASSUME NEW S, NEW q \in Seq(S), NEW i, NEW v \in S
    PROVE  [q EXCEPT ![i] = v] \in Seq(S) /\ Len([q EXCEPT ![i] = v]) = Len(q)
  <1>1. q \in [1 .. Len(q) -> S] /\ Len(q) \in Nat
    OBVIOUS
  <1>2. [q EXCEPT ![i] = v] \in [1 .. Len(q) -> S]
    BY <1>1
  <1> QED BY <1>1, <1>2

LEMMA CleanupKeeps == ASSUME LibraryInv, weaknet_cleanup \/ disconnect PROVE LibraryInv'
  <1>1. UNCHANGED <<matches, received, emitted, app, queues>>
    BY DEF weaknet_cleanup, disconnect
  <1>2. opened' \in Seq(BOOLEAN) /\ Len(opened') = Len(opened)
    <2>1. opened \in Seq(BOOLEAN)
      BY DEF LibraryInv, QueuesInv
    <2>2. CASE weaknet_cleanup
      BY <2>1, <2>2 DEF weaknet_cleanup
    <2>3. CASE disconnect
      <3>1. PICK v \in BOOLEAN : opened' = [opened EXCEPT ![Len(opened)] = v]
        BY <2>3, Zenon DEF disconnect
      <3> QED BY <2>1, <3>1, ReplaceKeeps
    <2> QED BY <2>2, <2>3
  <1>3. global'.client \in 0 .. Len(opened')
    <2>1. global.client \in 0 .. Len(opened) /\ Len(opened) \in Nat
      BY DEF LibraryInv, CallersInv, QueuesInv
    <2>2. CASE weaknet_cleanup
      BY <1>2, <2>1, <2>2 DEF weaknet_cleanup
    <2>3. CASE disconnect
      BY <1>2, <2>1, <2>3 DEF disconnect
    <2> QED BY <2>2, <2>3
  <1>4. CallersInv' /\ QueuesInv' /\ SignalsInv'
    BY <1>1, <1>2, <1>3 DEF LibraryInv, CallersInv, QueuesInv, SignalsInv
  <1> QED BY <1>4 DEF LibraryInv

LEMMA FunctionKeeps == ASSUME LibraryInv, NEW a \in Apps, Function(a) PROVE LibraryInv'
  <1>1. PICK at \in {"Calling", "Subscribing", "Taking", "Matching"}, k \in Kinds,
             listening \in BOOLEAN : clientSnapshot(a, at, k, listening)
    <2>1. CASE CallMethod(a)
      BY <2>1, ClientAssumption DEF CallMethod
    <2>2. CASE weaknet_subscribe_event(a)
      BY <2>2 DEF weaknet_subscribe_event
    <2>3. CASE weaknet_check_events(a)
      BY <2>3 DEF weaknet_check_events
    <2>4. CASE QualityFunction(a)
      BY <2>4, ClientAssumption DEF QualityFunction
    <2> QED BY <2>1, <2>2, <2>3, <2>4 DEF Function
  <1> DEFINE r == [at |-> at, client |-> global.client, kind |-> k,
                   listening |-> listening, held |-> <<>>]
  <1>2. /\ app' = [app EXCEPT ![a] = r] /\ global.client # 0
        /\ UNCHANGED <<global, opened, matches, received, emitted, queues>>
    BY <1>1 DEF clientSnapshot
  <1>3. global.client \in Nat /\ global.client \in DOMAIN queues
    <2>1. global.client \in 0 .. Len(opened) /\ Len(opened) \in Nat /\ Len(queues) = Len(opened)
          /\ DOMAIN queues = 1 .. Len(queues)
      BY DEF LibraryInv, CallersInv, QueuesInv
    <2> QED BY <1>2, <2>1
  <1>4. r \in Caller
    BY <1>3 DEF Caller, States
  <1>5. matches' \subseteq Kinds
    BY <1>2 DEF LibraryInv, SignalsInv
  <1> QED BY <1>2, <1>3, <1>4, <1>5, CallerMoves

LEMMA QuietCallerKeeps ==
    ASSUME LibraryInv, NEW a \in Apps, AddMatch(a) \/ BeginCall(a) \/ EndCall(a) \/ NothingQueued(a)
    PROVE  /\ LibraryInv' /\ UNCHANGED <<global, opened, received, emitted, queues, delivered>>
           /\ app[a].held = <<>> /\ \E r : app' = [app EXCEPT ![a] = r]
  <1>0. app[a].at # "Sorting" => app[a].held = <<>>
    BY DEF LibraryInv, CallersInv
  <1>1. /\ UNCHANGED <<global, opened, received, emitted, queues, delivered>>
        /\ app[a].at # "Outside" /\ app[a].held = <<>>
    BY <1>0 DEF AddMatch, BeginCall, EndCall, NothingQueued
  <1>2. matches' \subseteq Kinds
    <2>1. matches \subseteq Kinds /\ app[a].kind \in Kinds
      BY CallerTypes DEF LibraryInv, SignalsInv
    <2> QED BY <2>1 DEF AddMatch, BeginCall, EndCall, NothingQueued
  <1>3. app[a] \in Caller /\ app[a].client \in DOMAIN queues
    BY <1>1, CallerTypes DEF LibraryInv, CallersInv
  <1>4. PICK r : /\ app' = [app EXCEPT ![a] = r]
                 /\ r = Outside \/ \E at \in {"Taking", "Blocked"} : r = [app[a] EXCEPT !.at = at]
    BY DEF AddMatch, BeginCall, EndCall, NothingQueued
  <1>5. r \in Caller /\ r.held = <<>> /\ (r.at # "Outside" => r.client \in DOMAIN queues)
    <2>1. CASE r = Outside
      BY <2>1, OutsideType DEF Outside
    <2>2. ASSUME NEW at \in {"Taking", "Blocked"}, r = [app[a] EXCEPT !.at = at]
          PROVE  r \in Caller /\ r.held = <<>> /\ (r.at # "Outside" => r.client \in DOMAIN queues)
      BY <1>1, <1>3, <2>2 DEF Caller, States
    <2> QED BY <1>4, <2>1, <2>2
  <1>6. LibraryInv'
    BY <1>1, <1>2, <1>4, <1>5, CallerMoves
  <1> QED BY <1>1, <1>4, <1>6

\* A caller that holds other signals than before.
LEMMA HoldingKeeps ==
    ASSUME LibraryInv, NEW a \in Apps, NEW h \in Seq(Nat), app[a].at # "Outside",
           app' = [app EXCEPT ![a].at = "Sorting", ![a].held = h],
           \A i \in DOMAIN h : h[i] \in DOMAIN emitted,
           received' \in {received, <<>>}, QueuesInv', DOMAIN queues' = DOMAIN queues,
           UNCHANGED <<global, opened, matches, emitted>>
    PROVE  LibraryInv'
  <1>1. app \in [Apps -> Caller] /\ app[a] \in Caller
    BY DEF LibraryInv, CallersInv
  <1>2. app'[a] = [[app[a] EXCEPT !.at = "Sorting"] EXCEPT !.held = h]
    BY <1>1
  <1>3. app'[a] \in Caller /\ app'[a].at = "Sorting" /\ app'[a].client = app[a].client /\ app'[a].held = h
    <2>1. [app[a] EXCEPT !.at = "Sorting"] \in Caller
      BY <1>1 DEF Caller, States
    <2> QED BY <1>1, <1>2, <2>1 DEF Caller
  <1>4. \A b \in Apps : b # a => app'[b] = app[b]
    BY <1>1
  <1>5. app' \in [Apps -> Caller]
    BY <1>1, <1>3, <1>4
  <1>6. CallersInv'
    BY <1>3, <1>4, <1>5 DEF LibraryInv, CallersInv
  <1>7. received' \in Seq(Nat) /\ \A i \in DOMAIN received' : received'[i] \in DOMAIN emitted
    <2>1. received \in Seq(Nat) /\ <<>> \in Seq(Nat) /\ \A i \in DOMAIN received : received[i] \in DOMAIN emitted
      BY DEF LibraryInv, SignalsInv
    <2>2. CASE received' = received
      BY <2>1, <2>2
    <2>3. CASE received' = <<>>
      BY <2>1, <2>3
    <2> QED BY <2>2, <2>3
  <1>8. SignalsInv'
    BY <1>3, <1>4, <1>7 DEF LibraryInv, SignalsInv
  <1> QED BY <1>6, <1>8 DEF LibraryInv

LEMMA TakeKeeps == ASSUME LibraryInv, NEW a \in Apps, TakePending(a) PROVE LibraryInv'
  <1> DEFINE h == IF Connected(a) THEN received ELSE <<>>
  <1>1. /\ app[a].at = "Taking" /\ app' = [app EXCEPT ![a].at = "Sorting", ![a].held = h]
        /\ received' \in {received, <<>>} /\ UNCHANGED <<global, opened, matches, emitted, queues>>
    BY DEF TakePending
  <1>2. h \in Seq(Nat) /\ \A i \in DOMAIN h : h[i] \in DOMAIN emitted
    <2>1. received \in Seq(Nat) /\ \A i \in DOMAIN received : received[i] \in DOMAIN emitted
      BY DEF LibraryInv, SignalsInv
    <2>2. CASE Connected(a)
      BY <2>1, <2>2
    <2>3. CASE ~Connected(a)
      BY <2>3
    <2> QED BY <2>2, <2>3
  <1>3. QueuesInv'
    BY <1>1 DEF LibraryInv, QueuesInv
  <1> HIDE DEF h
  <1> QED BY <1>1, <1>2, <1>3, HoldingKeeps

\* What a sorting caller does to the queues and to what it holds.
LEMMA DispatchFacts ==
    ASSUME LibraryInv, NEW a \in Apps, dispatchMessage(a)
    PROVE  LET s == Head(app[a].held)
               o == app[a].client
               k == emitted[s].kind
           IN  /\ s \in DOMAIN emitted /\ k \in Kinds /\ o \in DOMAIN queues /\ app[a].held # <<>>
               /\ app[a].at = "Sorting" /\ app' = [app EXCEPT ![a].held = Tail(app[a].held)]
               /\ QueuesInv' /\ DOMAIN queues' = DOMAIN queues
               /\ ~Parses(s) => queues' = queues
               /\ Parses(s) => queues'[o][k] = pushBounded(queues[o][k], s)
               /\ \A p \in DOMAIN queues, l \in Kinds : p # o \/ l # k => queues'[p][l] = queues[p][l]
  <1> DEFINE s == Head(app[a].held)
             o == app[a].client
             k == emitted[s].kind
             q == pushBounded(queues[o][k], s)
  <1>1. /\ app[a].held # <<>> /\ app[a].at = "Sorting" /\ opened' = opened
        /\ app' = [app EXCEPT ![a].held = Tail(app[a].held)]
        /\ queues' = IF Parses(s) THEN [queues EXCEPT ![o][k] = q] ELSE queues
    BY DEF dispatchMessage
  <1>2. s \in Nat /\ s \in DOMAIN emitted
    <2>1. app[a].held \in Seq(Nat)
      BY CallerTypes
    <2>2. s \in Nat /\ Occurs(s, app[a].held)
      BY <1>1, <2>1, TailKeeps
    <2> QED BY <2>2 DEF Occurs, LibraryInv, SignalsInv
  <1>3. k \in Kinds
    <2>1. emitted \in Seq(Signal)
      BY DEF LibraryInv, SignalsInv
    <2>2. emitted[s] \in Signal
      BY <1>2, <2>1
    <2> QED BY <2>2 DEF Signal
  <1>4. o \in DOMAIN queues
    BY <1>1 DEF LibraryInv, CallersInv
  <1>5. queues[o][k] \in Seq(Nat) /\ Len(queues[o][k]) <= QueueLimit /\ QueuesInv
    <2>1. queues[o] \in [Kinds -> Seq(Nat)]
      BY <1>4 DEF LibraryInv, QueuesInv
    <2> QED BY <1>3, <1>4, <2>1 DEF LibraryInv, QueuesInv
  <1>6. q \in Seq(Nat) /\ Len(q) <= QueueLimit
    BY <1>2, <1>5, PushKeeps
  <1> HIDE DEF s, o, k, q
  <1>7. CASE Parses(s)
    <2>1. Replaces(o, k, q)
      BY <1>1, <1>7 DEF Replaces
    <2>2. OnlyQueue(o, k, q)
      BY <1>3, <1>4, <1>5, <1>6, <2>1, QueueReplaced
    <2> QED BY <1>1, <1>2, <1>3, <1>4, <1>7, <2>2 DEF s, o, k, q, OnlyQueue
  <1>8. CASE ~Parses(s)
    <2>1. queues' = queues
      BY <1>1, <1>8
    <2>2. QueuesInv'
      BY <1>1, <1>5, <2>1 DEF QueuesInv
    <2> QED BY <1>1, <1>2, <1>3, <1>4, <1>8, <2>1, <2>2 DEF s, o, k
  <1> QED BY <1>7, <1>8

LEMMA DispatchKeeps == ASSUME LibraryInv, NEW a \in Apps, dispatchMessage(a) PROVE LibraryInv'
  <1> DEFINE h == Tail(app[a].held)
  <1>1. /\ app[a].held # <<>> /\ app[a].at = "Sorting" /\ app' = [app EXCEPT ![a].held = h]
        /\ QueuesInv' /\ DOMAIN queues' = DOMAIN queues
    BY DispatchFacts
  <1>2. app[a].held \in Seq(Nat) /\ \A i \in DOMAIN app[a].held : app[a].held[i] \in DOMAIN emitted
    BY CallerTypes DEF LibraryInv, SignalsInv
  <1>3. h \in Seq(Nat) /\ \A i \in DOMAIN h : h[i] \in DOMAIN emitted
    <2>1. h \in Seq(Nat) /\ \A x : Occurs(x, h) => Occurs(x, app[a].held)
      BY <1>1, <1>2, TailKeeps
    <2> QED BY <1>2, <2>1 DEF Occurs
  <1>4. UNCHANGED <<global, opened, matches, received, emitted>>
    BY DEF dispatchMessage
  <1> HIDE DEF h
  <1>5. app' = [app EXCEPT ![a].at = "Sorting", ![a].held = h]
    <2>1. app \in [Apps -> Caller] /\ app[a] \in Caller
      BY DEF LibraryInv, CallersInv
    <2>2. [app[a] EXCEPT !.held = h] = [[app[a] EXCEPT !.at = "Sorting"] EXCEPT !.held = h]
      BY <1>1, <2>1 DEF Caller
    <2> QED BY <1>1, <2>1, <2>2
  <1> QED BY <1>1, <1>3, <1>4, <1>5, HoldingKeeps

LEMMA PopFacts ==
    ASSUME LibraryInv, NEW a \in Apps, NEW answer \in BOOLEAN, PopEvent(a, answer)
    PROVE  LET o == app[a].client
               k == app[a].kind
           IN  /\ o \in DOMAIN queues /\ k \in Kinds /\ queues[o][k] # <<>> /\ queues[o][k] \in Seq(Nat)
               /\ app[a].held = <<>> /\ (app' = app \/ app' = [app EXCEPT ![a] = Outside])
               /\ delivered' = delivered \cup {Head(queues[o][k])}
               /\ QueuesInv' /\ DOMAIN queues' = DOMAIN queues
               /\ queues'[o][k] = Tail(queues[o][k])
               /\ \A p \in DOMAIN queues, l \in Kinds : p # o \/ l # k => queues'[p][l] = queues[p][l]
  <1> DEFINE o == app[a].client
             k == app[a].kind
             q == Tail(queues[o][k])
  <1>1. /\ queues[o][k] # <<>> /\ app[a].held = <<>> /\ app[a].at = "Sorting" /\ opened' = opened
        /\ app' = app \/ app' = [app EXCEPT ![a] = Outside]
        /\ delivered' = delivered \cup {Head(queues[o][k])}
        /\ queues' = [queues EXCEPT ![o][k] = q]
    BY DEF PopEvent, Queue
  <1>2. o \in DOMAIN queues /\ k \in Kinds
    BY <1>1, CallerTypes DEF LibraryInv, CallersInv
  <1>3. queues[o][k] \in Seq(Nat) /\ Len(queues[o][k]) <= QueueLimit /\ QueuesInv
    <2>1. queues[o] \in [Kinds -> Seq(Nat)]
      BY <1>2 DEF LibraryInv, QueuesInv
    <2> QED BY <1>2, <2>1 DEF LibraryInv, QueuesInv
  <1>4. q \in Seq(Nat) /\ Len(q) <= QueueLimit
    <2>1. q \in Seq(Nat) /\ Len(q) = Len(queues[o][k]) - 1 /\ Len(queues[o][k]) \in Nat
      BY <1>1, <1>3, TailKeeps
    <2> QED BY <1>3, <2>1, ClientAssumption
  <1> HIDE DEF o, k, q
  <1>5. /\ QueuesInv' /\ DOMAIN queues' = DOMAIN queues /\ queues'[o][k] = q
        /\ \A p \in DOMAIN queues, l \in Kinds : p # o \/ l # k => queues'[p][l] = queues[p][l]
    <2>1. Replaces(o, k, q)
      BY <1>1 DEF Replaces
    <2>2. OnlyQueue(o, k, q)
      BY <1>2, <1>3, <1>4, <2>1, QueueReplaced
    <2> QED BY <2>2 DEF OnlyQueue
  <1> QED BY <1>1, <1>2, <1>3, <1>5 DEF o, k, q

LEMMA PopKeeps ==
    ASSUME LibraryInv, NEW a \in Apps, NEW answer \in BOOLEAN, PopEvent(a, answer)
    PROVE  LibraryInv'
  <1>1. /\ QueuesInv' /\ DOMAIN queues' = DOMAIN queues
        /\ app' = app \/ app' = [app EXCEPT ![a] = Outside]
    BY PopFacts
  <1>2. UNCHANGED <<global, opened, matches, received, emitted>>
    BY DEF PopEvent
  <1>3. \A b \in Apps : app'[b] = app[b] \/ app'[b] = Outside
    BY <1>1 DEF LibraryInv, CallersInv
  <1>4. app' \in [Apps -> Caller]
    BY <1>1, OutsideType DEF LibraryInv, CallersInv
  <1>5. CallersInv'
    BY <1>1, <1>2, <1>3, <1>4 DEF LibraryInv, CallersInv, Outside
  <1>6. SignalsInv'
    BY <1>2, <1>3 DEF LibraryInv, SignalsInv, Outside
  <1> QED BY <1>1, <1>5, <1>6 DEF LibraryInv

LEMMA LibraryInvariant == ClientSpec => []LibraryInv
  <1>1. ASSUME LibraryInv, [ClientNext]_clientVars PROVE LibraryInv'
    <2>1. CASE weaknet_init
      BY <1>1, <2>1, InitKeeps
    <2>2. CASE weaknet_cleanup \/ disconnect
      BY <1>1, <2>2, CleanupKeeps
    <2>3. CASE \E k \in Kinds, garbled \in BOOLEAN : Emit(k, garbled)
      BY <1>1, <2>3, EmitKeeps
    <2>4. ASSUME NEW a \in Apps, Function(a) \/ AppStep(a) PROVE LibraryInv'
      BY <1>1, <2>4, FunctionKeeps, QuietCallerKeeps, TakeKeeps, DispatchKeeps, PopKeeps DEF AppStep
    <2>5. CASE UNCHANGED clientVars
      BY <1>1, <2>5 DEF clientVars, LibraryInv, CallersInv, QueuesInv, SignalsInv
    <2> QED BY <1>1, <2>1, <2>2, <2>3, <2>4, <2>5 DEF ClientNext
  <1> QED BY LibraryInit, <1>1, PTL DEF ClientSpec

-----------------------------------------------------------------------------
(* The client library: no signal is lost but by an overflow. *)

LEMMA EmitLosesNothing ==
    ASSUME LibraryInv, NEW s, Inside(s), NEW k \in Kinds, NEW garbled \in BOOLEAN, Emit(k, garbled)
    PROVE  Inside(s)'
  <1>1. /\ received' = Append(received, Len(emitted) + 1) /\ received \in Seq(Nat)
        /\ Len(emitted) + 1 \in Nat /\ UNCHANGED <<queues, app, delivered>>
    BY DEF Emit, LibraryInv, SignalsInv
  <1>2. Occurs(s, received) => Occurs(s, received')
    BY <1>1, AppendKeeps
  <1> QED BY <1>1, <1>2 DEF Inside, Occurs

LEMMA ClientsLoseNothing ==
    ASSUME LibraryInv, NEW s, Inside(s), weaknet_init \/ weaknet_cleanup \/ disconnect
    PROVE  Inside(s)'
  <1>1. UNCHANGED <<received, app, delivered>>
    BY DEF weaknet_init, weaknet_cleanup, disconnect
  <1>2. \A o \in DOMAIN queues : o \in DOMAIN queues' /\ queues'[o] = queues[o]
    <2>1. queues \in Seq([Kinds -> Seq(Nat)])
      BY DEF LibraryInv, QueuesInv
    <2>2. CASE queues' = queues
      BY <2>2
    <2>3. ASSUME NEW q, queues' = Append(queues, q)
          PROVE  \A o \in DOMAIN queues : o \in DOMAIN queues' /\ queues'[o] = queues[o]
      BY <2>1, <2>3
    <2> QED BY <2>2, <2>3 DEF weaknet_init, weaknet_cleanup, disconnect
  <1> QED BY <1>1, <1>2 DEF Inside, Occurs

LEMMA CallersLoseNothing ==
    ASSUME LibraryInv, NEW s, Inside(s), NEW a \in Apps, app[a].held = <<>>,
           \E r : app' = [app EXCEPT ![a] = r], UNCHANGED <<received, queues, delivered>>
    PROVE  Inside(s)'
  <1>1. \A b \in Apps : Occurs(s, app[b].held) => app'[b] = app[b]
    BY DEF Occurs, LibraryInv, CallersInv
  <1> QED BY <1>1 DEF Inside, Occurs

LEMMA TakeLosesNothing ==
    ASSUME LibraryInv, NEW s, Inside(s), NEW a \in Apps, TakePending(a)
    PROVE  Inside(s)'
  <1>1. app[a].held = <<>> /\ app \in [Apps -> Caller] /\ app[a] \in Caller
    BY DEF TakePending, LibraryInv, CallersInv
  <1>2. /\ app' = [app EXCEPT ![a].at = "Sorting",
                              ![a].held = IF Connected(a) THEN received ELSE <<>>]
        /\ received' = (IF Connected(a) THEN <<>> ELSE received) /\ UNCHANGED <<queues, delivered>>
    BY DEF TakePending
  <1>3. app'[a].held = IF Connected(a) THEN received ELSE <<>>
    BY <1>1, <1>2 DEF Caller
  <1>4. \A b \in Apps : b # a => app'[b] = app[b]
    BY <1>1, <1>2
  <1>5. Occurs(s, received) => Occurs(s, received') \/ Occurs(s, app'[a].held)
    BY <1>2, <1>3
  <1>6. \A b \in Apps : Occurs(s, app[b].held) => Occurs(s, app'[b].held)
    BY <1>1, <1>4 DEF Occurs
  <1>7. CASE Occurs(s, received)
    BY <1>5, <1>7 DEF Inside, Occurs
  <1>8. CASE s \in delivered \/ \E o \in DOMAIN queues, k \in Kinds : Occurs(s, queues[o][k])
    BY <1>2, <1>8 DEF Inside, Occurs
  <1>9. CASE \E b \in Apps : Occurs(s, app[b].held)
    BY <1>6, <1>9 DEF Inside, Occurs
  <1> QED BY <1>7, <1>8, <1>9 DEF Inside

LEMMA DispatchLosesTheOldest ==
    ASSUME LibraryInv, NEW s \in DOMAIN emitted, Parses(s), Inside(s), NEW a \in Apps, dispatchMessage(a)
    PROVE  \/ Inside(s)'
           \/ \E o \in DOMAIN queues, k \in Kinds : Len(queues[o][k]) = QueueLimit /\ Head(queues[o][k]) = s
  <1> DEFINE h == Head(app[a].held)
             o == app[a].client
             k == emitted[h].kind
  <1>1. /\ h \in DOMAIN emitted /\ k \in Kinds /\ o \in DOMAIN queues /\ app[a].held # <<>>
        /\ app' = [app EXCEPT ![a].held = Tail(app[a].held)] /\ DOMAIN queues' = DOMAIN queues
        /\ ~Parses(h) => queues' = queues
        /\ Parses(h) => queues'[o][k] = pushBounded(queues[o][k], h)
        /\ \A p \in DOMAIN queues, l \in Kinds : p # o \/ l # k => queues'[p][l] = queues[p][l]
    BY DispatchFacts
  <1>2. UNCHANGED <<received, delivered>> /\ h \in Nat
    <2>1. UNCHANGED <<received, delivered>>
      BY DEF dispatchMessage
    <2>2. emitted \in Seq(Signal)
      BY DEF LibraryInv, SignalsInv
    <2>3. DOMAIN emitted \subseteq Nat
      BY <2>2
    <2> QED BY <1>1, <2>1, <2>3
  <1>3. app \in [Apps -> Caller] /\ app[a] \in Caller /\ app[a].held \in Seq(Nat)
    BY CallerTypes DEF LibraryInv, CallersInv
  <1>4. app'[a].held = Tail(app[a].held) /\ \A b \in Apps : b # a => app'[b] = app[b]
    BY <1>1, <1>3 DEF Caller
  <1>5. queues[o][k] \in Seq(Nat) /\ Len(queues[o][k]) <= QueueLimit
    <2>1. queues[o] \in [Kinds -> Seq(Nat)]
      BY <1>1 DEF LibraryInv, QueuesInv
    <2> QED BY <1>1, <2>1 DEF LibraryInv, QueuesInv
  <1>6. /\ Occurs(h, pushBounded(queues[o][k], h))
        /\ \A x : Occurs(x, queues[o][k]) => \/ Occurs(x, pushBounded(queues[o][k], h))
                                             \/ Len(queues[o][k]) = QueueLimit /\ Head(queues[o][k]) = x
    BY <1>2, <1>5, PushKeeps
  <1> HIDE DEF h, o, k
  <1>7. CASE Occurs(s, received) \/ s \in delivered
    BY <1>2, <1>7 DEF Inside, Occurs
  <1>8. CASE s = h
    <2>1. Occurs(s, queues'[o][k]) /\ o \in DOMAIN queues'
      BY <1>1, <1>6, <1>8
    <2> QED BY <1>1, <2>1 DEF Inside, Occurs
  <1>9. ASSUME NEW b \in Apps, Occurs(s, app[b].held), s # h PROVE Inside(s)'
    <2>1. Occurs(s, app'[b].held)
      <3>1. CASE b = a
        <4>1. s = Head(app[a].held) \/ Occurs(s, Tail(app[a].held))
          BY <1>1, <1>3, <1>9, <3>1, TailKeeps
        <4> QED BY <1>4, <1>9, <3>1, <4>1 DEF h
      <3>2. CASE b # a
        BY <1>4, <1>9, <3>2
      <3> QED BY <3>1, <3>2
    <2> QED BY <2>1 DEF Inside, Occurs
  <1>10. ASSUME NEW p \in DOMAIN queues, NEW l \in Kinds, Occurs(s, queues[p][l])
         PROVE  Inside(s)' \/ (Len(queues[p][l]) = QueueLimit /\ Head(queues[p][l]) = s)
    <2>1. \/ Occurs(s, queues'[p][l])
          \/ Len(queues[p][l]) = QueueLimit /\ Head(queues[p][l]) = s
      <3>1. CASE p = o /\ l = k /\ Parses(h)
        BY <1>1, <1>6, <1>10, <3>1
      <3>2. CASE ~(p = o /\ l = k) \/ ~Parses(h)
        BY <1>1, <1>10, <3>2
      <3> QED BY <3>1, <3>2
    <2> QED BY <1>1, <2>1 DEF Inside, Occurs
  <1> QED BY <1>7, <1>8, <1>9, <1>10 DEF Inside

LEMMA PopLosesNothing ==
    ASSUME LibraryInv, NEW s, Inside(s), NEW a \in Apps, NEW answer \in BOOLEAN, PopEvent(a, answer)
    PROVE  Inside(s)'
  <1> DEFINE o == app[a].client
             k == app[a].kind
  <1>1. /\ o \in DOMAIN queues /\ k \in Kinds /\ queues[o][k] # <<>> /\ queues[o][k] \in Seq(Nat)
        /\ app[a].held = <<>> /\ (app' = app \/ app' = [app EXCEPT ![a] = Outside])
        /\ delivered' = delivered \cup {Head(queues[o][k])}
        /\ DOMAIN queues' = DOMAIN queues /\ queues'[o][k] = Tail(queues[o][k])
        /\ \A p \in DOMAIN queues, l \in Kinds : p # o \/ l # k => queues'[p][l] = queues[p][l]
    BY PopFacts
  <1>2. received' = received
    BY DEF PopEvent
  <1> HIDE DEF o, k
  <1>3. \A b \in Apps : Occurs(s, app[b].held) => app'[b] = app[b]
    <2>1. app \in [Apps -> Caller] /\ ~Occurs(s, app[a].held)
      BY <1>1 DEF Occurs, LibraryInv, CallersInv
    <2> QED BY <1>1, <2>1
  <1>4. \A p \in DOMAIN queues, l \in Kinds :
           Occurs(s, queues[p][l]) => Occurs(s, queues'[p][l]) \/ s \in delivered'
    <2>1. SUFFICES ASSUME NEW p \in DOMAIN queues, NEW l \in Kinds, Occurs(s, queues[p][l])
                   PROVE  Occurs(s, queues'[p][l]) \/ s \in delivered'
      OBVIOUS
    <2>2. CASE p = o /\ l = k
      <3>1. s = Head(queues[o][k]) \/ Occurs(s, Tail(queues[o][k]))
        BY <1>1, <2>1, <2>2, TailKeeps
      <3> QED BY <1>1, <2>2, <3>1
    <2>3. CASE p # o \/ l # k
      BY <1>1, <2>1, <2>3
    <2> QED BY <2>2, <2>3
  <1>5. CASE Occurs(s, received) \/ s \in delivered
    BY <1>1, <1>2, <1>5 DEF Inside, Occurs
  <1>6. CASE \E b \in Apps : Occurs(s, app[b].held)
    BY <1>3, <1>6 DEF Inside, Occurs
  <1>7. CASE \E p \in DOMAIN queues, l \in Kinds : Occurs(s, queues[p][l])
    BY <1>1, <1>4, <1>7 DEF Inside, Occurs
  <1> QED BY <1>5, <1>6, <1>7 DEF Inside

\* dispatchPendingMessages(), dispatchMessage() and popEvent() of any number of
\* callers lose a well-formed signal only as the oldest of a queue that holds
\* kMaxQueuedEvents, whoever took it off the connection.
THEOREM SignalsAreKept == ClientSpec => LostOnlyOnOverflow
  <1> DEFINE Loses == \A s \in DOMAIN emitted :
                 Parses(s) /\ Inside(s) /\ ~Inside(s)' =>
                     \E o \in DOMAIN queues, k \in Kinds :
                         Len(queues[o][k]) = QueueLimit /\ Head(queues[o][k]) = s
  <1>1. ASSUME LibraryInv, ClientNext PROVE Loses
    <2>1. SUFFICES ASSUME NEW s \in DOMAIN emitted, Parses(s), Inside(s)
                   PROVE  \/ Inside(s)'
                          \/ \E o \in DOMAIN queues, k \in Kinds :
                                Len(queues[o][k]) = QueueLimit /\ Head(queues[o][k]) = s
      OBVIOUS
    <2>2. CASE weaknet_init \/ weaknet_cleanup \/ disconnect
      BY <1>1, <2>1, <2>2, ClientsLoseNothing
    <2>3. CASE \E k \in Kinds, garbled \in BOOLEAN : Emit(k, garbled)
      BY <1>1, <2>1, <2>3, EmitLosesNothing
    <2>4. ASSUME NEW a \in Apps, Function(a) PROVE Inside(s)'
      <3>1. /\ app[a].at = "Outside" /\ (\E r : app' = [app EXCEPT ![a] = r])
            /\ UNCHANGED <<received, queues, delivered>>
        BY <2>4 DEF Function, CallMethod, weaknet_subscribe_event, weaknet_check_events,
                    QualityFunction, clientSnapshot
      <3>2. app[a].held = <<>>
        BY <1>1, <3>1 DEF LibraryInv, CallersInv
      <3> QED BY <1>1, <2>1, <3>1, <3>2, CallersLoseNothing
    <2>5. ASSUME NEW a \in Apps, AddMatch(a) \/ BeginCall(a) \/ EndCall(a) \/ NothingQueued(a)
          PROVE  Inside(s)'
      <3>1. /\ UNCHANGED <<received, queues, delivered>> /\ app[a].held = <<>>
            /\ \E r : app' = [app EXCEPT ![a] = r]
        BY <1>1, <2>5, QuietCallerKeeps
      <3> QED BY <1>1, <2>1, <3>1, CallersLoseNothing
    <2>6. CASE \E a \in Apps : TakePending(a) \/ \E answer \in BOOLEAN : PopEvent(a, answer)
      BY <1>1, <2>1, <2>6, TakeLosesNothing, PopLosesNothing
    <2>7. CASE \E a \in Apps : dispatchMessage(a)
      BY <1>1, <2>1, <2>7, DispatchLosesTheOldest
    <2> QED BY <1>1, <2>2, <2>3, <2>4, <2>5, <2>6, <2>7 DEF ClientNext, AppStep
  <1>2. ASSUME LibraryInv, [ClientNext]_clientVars PROVE [Loses]_clientVars
    BY <1>1, <1>2
  <1> QED BY <1>2, LibraryInvariant, PTL DEF ClientSpec, LostOnlyOnOverflow

-----------------------------------------------------------------------------
(* The ping executor. *)

AtWork == {"Spawning", "Polling", "Reaping", "Completing"}
Unanswered == {"New", "Queued"}

PingTypes ==
    /\ call \in [Calls -> {"New", "Queued", "Refused", "Abandoned",
                           "Failed", "Stopped", "Late", "Value"}]
    /\ waiting \in Seq(Calls)
    /\ executor \in [accepting : BOOLEAN, asked : BOOLEAN]
    /\ pinger \in [at : {"Waiting", "Gone"} \cup AtWork, call : Calls \cup {Unpinged},
                   late : BOOLEAN, output : {"Empty", "Written"},
                   result : {"None", "Failed", "Stopped", "Late", "Value"}]
    /\ helper \in [process : {"None", "Pinging", "Exited", "Crashed"},
                   pipe : {"Empty", "Written"}]

\* The queue and the worker hold different calls, each once, and all of them
\* are unanswered; no other accepted call is.
HeldInv ==
    /\ \A i \in 1 .. Len(waiting) : call[waiting[i]] = "Queued" /\ waiting[i] # pinger.call
    /\ \A i, j \in 1 .. Len(waiting) : waiting[i] = waiting[j] => i = j
    /\ IF pinger.at \in AtWork THEN pinger.call \in Calls /\ call[pinger.call] = "Queued"
                               ELSE pinger.call = Unpinged
    /\ \A c \in Calls : call[c] = "Queued" =>
          c = pinger.call \/ \E i \in 1 .. Len(waiting) : c = waiting[i]

StopInv ==
    /\ executor.asked => ~executor.accepting
    /\ ~executor.accepting => waiting = <<>>
    /\ pinger.at = "Gone" => ~executor.accepting
    /\ Len(waiting) <= PingCapacity
    /\ pinger.at = "Completing" => pinger.result # "None"

PingInv == PingTypes /\ HeldInv /\ StopInv /\ NoHelperLeft

\* A Ping call is answered once: the reply of a call, its refusal and its
\* being dropped by stop() exclude each other and are final.
AnsweredOnce == [][\A c \in Calls : call[c] \notin Unanswered => call'[c] = call[c]]_pingVars

\* The queue keeps to its capacity, a call it took is waiting or with the
\* worker until it is answered, and the worker leaves no call behind.
NoCallForgotten ==
    /\ Len(waiting) <= PingCapacity
    /\ \A c \in Calls : call[c] = "Queued" =>
          c = pinger.call \/ \E i \in 1 .. Len(waiting) : c = waiting[i]
    /\ pinger.at = "Gone" => \A c \in Calls : call[c] # "Queued"


LEMMA PingInitially == ASSUME PingInit PROVE PingInv
<1> USE PingAssumption DEF PingInit, AtRest, NoHelper
<1>1. PingTypes
  BY DEF PingTypes
<1>2. HeldInv
  BY DEF HeldInv, AtWork
<1>3. StopInv /\ NoHelperLeft
  BY DEF StopInv, NoHelperLeft
<1> QED BY <1>1, <1>2, <1>3 DEF PingInv

(* What a queue holds after a call was appended to it, or taken from it.      *)
LEMMA QueueAppend ==
    ASSUME NEW S, NEW q \in Seq(S), NEW x \in S
    PROVE  /\ Append(q, x) \in Seq(S) /\ Len(Append(q, x)) = Len(q) + 1
           /\ \A i \in 1 .. Len(q) : Append(q, x)[i] = q[i]
           /\ Append(q, x)[Len(q) + 1] = x
  BY Appended

LEMMA QueueTail ==
    ASSUME NEW S, NEW q \in Seq(S), q # <<>>
    PROVE  /\ Head(q) \in S /\ Head(q) = q[1] /\ Tail(q) \in Seq(S)
           /\ Len(q) \in Nat \ {0} /\ Len(Tail(q)) = Len(q) - 1
           /\ \A i \in 1 .. (Len(q) - 1) : Tail(q)[i] = q[i + 1]
  BY HeadAndTail

(* Whoever holds which calls stays so when no call enters or leaves.          *)
LEMMA HeldKept ==
    ASSUME PingTypes, HeldInv, waiting' = waiting, pinger'.call = pinger.call,
           pinger'.at \in AtWork <=> pinger.at \in AtWork,
           \A c \in Calls : call'[c] = "Queued" <=> call[c] = "Queued"
    PROVE  HeldInv'
<1>1. \A i \in 1 .. Len(waiting) : waiting[i] \in Calls
  BY DEF PingTypes
<1> QED BY <1>1 DEF HeldInv

LEMMA SubmitPreserves ==
    ASSUME PingInv, NEW c \in Calls, handlePing(c) PROVE PingInv'
<1> USE PingAssumption DEF PingInv
<1>1. c # pinger.call /\ \A i \in 1 .. Len(waiting) : waiting[i] # c
  BY DEF handlePing, HeldInv
<1>2. CASE call' = [call EXCEPT ![c] = "Refused"] /\ UNCHANGED waiting
  <2>1. PingTypes'
    BY <1>2 DEF handlePing, PingTypes
  <2>2. HeldInv'
    <3>1. \A d \in Calls : call'[d] = "Queued" <=> call[d] = "Queued"
      BY <1>2 DEF handlePing, PingTypes
    <3> QED BY <1>2, <3>1, HeldKept DEF handlePing
  <2>3. StopInv' /\ NoHelperLeft'
    BY <1>2 DEF handlePing, StopInv, NoHelperLeft
  <2> QED BY <2>1, <2>2, <2>3
<1>3. CASE /\ executor.accepting /\ Len(waiting) < PingCapacity
           /\ waiting' = Append(waiting, c) /\ call' = [call EXCEPT ![c] = "Queued"]
  <2>0. waiting \in Seq(Calls) /\ Len(waiting) \in Nat
    BY DEF PingTypes
  <2>1. /\ waiting' \in Seq(Calls) /\ Len(waiting') = Len(waiting) + 1
        /\ \A i \in 1 .. Len(waiting) : waiting'[i] = waiting[i]
        /\ waiting'[Len(waiting) + 1] = c
    BY <1>3, <2>0, QueueAppend
  <2>2. PingTypes'
    BY <1>3, <2>1 DEF handlePing, PingTypes
  <2>3. HeldInv'
    BY <1>1, <1>3, <2>0, <2>1 DEF handlePing, PingTypes, HeldInv, AtWork
  <2>4. StopInv' /\ NoHelperLeft'
    BY <1>3, <2>0, <2>1 DEF handlePing, StopInv, NoHelperLeft
  <2> QED BY <2>2, <2>3, <2>4
<1> QED BY <1>2, <1>3 DEF handlePing, submit


(* The worker takes the oldest call: it leaves the queue and is held.         *)
LEMMA TakePreserves == ASSUME PingInv, TakeTask PROVE PingInv'
<1> USE PingAssumption DEF PingInv
<1>1. waiting \in Seq(Calls) /\ waiting # <<>> /\ pinger.at = "Waiting" /\ pinger.call = Unpinged
  BY DEF TakeTask, PingTypes, HeldInv, AtWork
<1>2. /\ Head(waiting) \in Calls /\ Head(waiting) = waiting[1] /\ Tail(waiting) \in Seq(Calls)
      /\ Len(waiting) \in Nat \ {0} /\ Len(Tail(waiting)) = Len(waiting) - 1
      /\ \A i \in 1 .. (Len(waiting) - 1) : Tail(waiting)[i] = waiting[i + 1]
  BY <1>1, QueueTail
<1>3. /\ waiting' = Tail(waiting) /\ call' = call /\ executor' = executor /\ helper' = helper
      /\ pinger' = [pinger EXCEPT !.at = "Spawning", !.call = waiting[1]]
  BY <1>2 DEF TakeTask
<1>4. PingTypes'
  BY <1>2, <1>3 DEF PingTypes, AtWork
<1>5. pinger'.at = "Spawning" /\ pinger'.call = waiting[1]
  BY <1>3 DEF PingTypes
<1>6. HeldInv'
  <2>1. \A i \in 1 .. Len(waiting') : call[waiting'[i]] = "Queued" /\ waiting'[i] # waiting[1]
    BY <1>2, <1>3 DEF HeldInv
  <2>2. \A i, j \in 1 .. Len(waiting') : waiting'[i] = waiting'[j] => i = j
    BY <1>2, <1>3 DEF HeldInv
  <2>3. waiting[1] \in Calls /\ call[waiting[1]] = "Queued"
    BY <1>2 DEF HeldInv
  <2>4. ASSUME NEW c \in Calls, call[c] = "Queued"
        PROVE  c = waiting[1] \/ \E i \in 1 .. Len(waiting') : c = waiting'[i]
    <3>1. PICK j \in 1 .. Len(waiting) : c = waiting[j]
      BY <1>1, <2>4 DEF HeldInv
    <3>2. CASE j # 1
      <4>1. j - 1 \in 1 .. Len(waiting') /\ waiting'[j - 1] = waiting[j]
        BY <1>2, <1>3, <3>2
      <4> QED BY <3>1, <4>1
    <3> QED BY <3>1, <3>2
  <2> QED BY <1>3, <1>5, <2>1, <2>2, <2>3, <2>4 DEF HeldInv, AtWork
<1>7. StopInv'
  BY <1>1, <1>2, <1>3, <1>5 DEF StopInv
<1>8. NoHelperLeft'
  BY <1>1, <1>3, <1>5 DEF NoHelperLeft
<1> QED BY <1>4, <1>6, <1>7, <1>8

(* The steps of the worker with one call, and the steps around it that touch  *)
(* neither the calls nor the queue.                                           *)
LEMMA WorkPreserves ==
    ASSUME PingInv, \/ Leave \/ Spawn \/ PingInProcess \/ Poll \/ Reap \/ KillHelper
                    \/ DeadlinePasses \/ HelperPrints \/ HelperExits \/ AskWorker
    PROVE  PingInv'
<1> USE DEF PingInv
<1>1. CASE Leave
  <2>1. PingTypes'
    BY <1>1 DEF Leave, PingTypes, AtWork
  <2>2. HeldInv'
    BY <1>1, HeldKept DEF Leave, PingTypes, AtWork
  <2>3. StopInv' /\ NoHelperLeft'
    BY <1>1 DEF Leave, PingTypes, StopInv, NoHelperLeft, AtWork
  <2> QED BY <2>1, <2>2, <2>3
<1>2. CASE Spawn
  <2>1. \/ /\ helper' = [process |-> "Pinging", pipe |-> "Empty"]
           /\ pinger' = [pinger EXCEPT !.at = "Polling"]
        \/ pinger' = [pinger EXCEPT !.at = "Completing", !.result = "Failed"] /\ helper' = helper
    BY <1>2 DEF Spawn, Result
  <2>2. pinger.at \in AtWork /\ call' = call /\ waiting' = waiting /\ executor' = executor
    BY <1>2 DEF Spawn, AtWork
  <2>3. /\ pinger' \in [at : {"Waiting", "Gone"} \cup AtWork, call : Calls \cup {Unpinged},
                       late : BOOLEAN, output : {"Empty", "Written"},
                       result : {"None", "Failed", "Stopped", "Late", "Value"}]
        /\ pinger'.call = pinger.call /\ pinger'.at \in AtWork
    BY <2>1 DEF PingTypes, AtWork
  <2>4. helper' \in [process : {"None", "Pinging", "Exited", "Crashed"}, pipe : {"Empty", "Written"}]
    BY <2>1 DEF PingTypes, NoHelper
  <2>5. PingTypes'
    BY <2>2, <2>3, <2>4 DEF PingTypes
  <2>6. HeldInv'
    BY <2>2, <2>3, HeldKept
  <2>7. StopInv' /\ NoHelperLeft'
    BY <1>2 DEF Spawn, Result, NoHelper, PingTypes, StopInv, NoHelperLeft, AtWork
  <2> QED BY <2>5, <2>6, <2>7
<1>3. CASE Poll
  <2>1. PingTypes'
    BY <1>3 DEF Poll, PingTypes, AtWork
  <2>2. HeldInv'
    BY <1>3, HeldKept DEF Poll, PingTypes, AtWork
  <2>3. StopInv' /\ NoHelperLeft'
    BY <1>3 DEF Poll, PingTypes, StopInv, NoHelperLeft, AtWork
  <2> QED BY <2>1, <2>2, <2>3
<1>4. CASE Reap
  <2>1. \/ \E r \in {"Value", "Failed"} :
              /\ helper' = NoHelper
              /\ pinger' = [pinger EXCEPT !.at = "Completing", !.result = r]
        \/ pinger' = [pinger EXCEPT !.at = "Polling"] /\ helper' = helper
    BY <1>4 DEF Reap, Result
  <2>2. pinger.at \in AtWork /\ call' = call /\ waiting' = waiting /\ executor' = executor
    BY <1>4 DEF Reap, AtWork
  <2>3. /\ pinger' \in [at : {"Waiting", "Gone"} \cup AtWork, call : Calls \cup {Unpinged},
                       late : BOOLEAN, output : {"Empty", "Written"},
                       result : {"None", "Failed", "Stopped", "Late", "Value"}]
        /\ pinger'.call = pinger.call /\ pinger'.at \in AtWork
    BY <2>1 DEF PingTypes, AtWork
  <2>4. helper' \in [process : {"None", "Pinging", "Exited", "Crashed"}, pipe : {"Empty", "Written"}]
    BY <2>1 DEF PingTypes, NoHelper
  <2>5. PingTypes'
    BY <2>2, <2>3, <2>4 DEF PingTypes
  <2>6. HeldInv'
    BY <2>2, <2>3, HeldKept
  <2>7. StopInv' /\ NoHelperLeft'
    BY <1>4 DEF Reap, Result, NoHelper, PingTypes, StopInv, NoHelperLeft, AtWork
  <2> QED BY <2>5, <2>6, <2>7
<1>5. CASE KillHelper
  <2>1. PingTypes'
    BY <1>5 DEF KillHelper, Result, NoHelper, PingTypes, AtWork
  <2>2. HeldInv'
    BY <1>5, HeldKept DEF KillHelper, Result, PingTypes, AtWork
  <2>3. StopInv' /\ NoHelperLeft'
    BY <1>5 DEF KillHelper, Result, NoHelper, PingTypes, StopInv, NoHelperLeft, AtWork
  <2> QED BY <2>1, <2>2, <2>3
<1>6. CASE DeadlinePasses
  <2>1. PingTypes'
    BY <1>6 DEF DeadlinePasses, PingTypes, AtWork
  <2>2. HeldInv'
    BY <1>6, HeldKept DEF DeadlinePasses, PingTypes, AtWork
  <2>3. StopInv' /\ NoHelperLeft'
    BY <1>6 DEF DeadlinePasses, PingTypes, StopInv, NoHelperLeft, AtWork
  <2> QED BY <2>1, <2>2, <2>3
<1>7. CASE HelperPrints
  <2>1. PingTypes'
    BY <1>7 DEF HelperPrints, NoHelper, PingTypes, AtWork
  <2>2. HeldInv'
    BY <1>7, HeldKept DEF HelperPrints, PingTypes, AtWork
  <2>3. StopInv' /\ NoHelperLeft'
    BY <1>7 DEF HelperPrints, NoHelper, PingTypes, StopInv, NoHelperLeft, AtWork
  <2> QED BY <2>1, <2>2, <2>3
<1>8. CASE HelperExits
  <2>1. PingTypes'
    BY <1>8 DEF HelperExits, NoHelper, PingTypes, AtWork
  <2>2. HeldInv'
    BY <1>8, HeldKept DEF HelperExits, PingTypes, AtWork
  <2>3. StopInv' /\ NoHelperLeft'
    BY <1>8 DEF HelperExits, NoHelper, PingTypes, StopInv, NoHelperLeft, AtWork
  <2> QED BY <2>1, <2>2, <2>3
<1>9. CASE AskWorker
  <2>1. PingTypes'
    BY <1>9 DEF AskWorker, PingTypes, AtWork
  <2>2. HeldInv'
    BY <1>9, HeldKept DEF AskWorker, PingTypes, AtWork
  <2>3. StopInv' /\ NoHelperLeft'
    BY <1>9 DEF AskWorker, PingTypes, StopInv, NoHelperLeft, AtWork
  <2> QED BY <2>1, <2>2, <2>3
<1>10. CASE PingInProcess
  <2>1. PingTypes'
    BY <1>10 DEF PingInProcess, ping, Result, PingTypes, AtWork
  <2>2. HeldInv'
    BY <1>10, HeldKept DEF PingInProcess, ping, Result, PingTypes, AtWork
  <2>3. StopInv' /\ NoHelperLeft'
    BY <1>10 DEF PingInProcess, ping, Result, PingTypes, StopInv, NoHelperLeft, AtWork
  <2> QED BY <2>1, <2>2, <2>3
<1> QED BY <1>1, <1>2, <1>3, <1>4, <1>5, <1>6, <1>7, <1>8, <1>9, <1>10

LEMMA CompletePreserves == ASSUME PingInv, Complete PROVE PingInv'
<1> USE PingAssumption DEF PingInv, Complete
<1>1. PingTypes'
  BY DEF PingTypes, HeldInv, StopInv, AtWork, AtRest
<1>2. HeldInv'
  <2>1. /\ pinger.call \in Calls /\ pinger'.at = "Waiting" /\ pinger'.call = Unpinged
        /\ \A i \in 1 .. Len(waiting) : waiting[i] \in Calls /\ waiting[i] # pinger.call
    BY DEF PingTypes, HeldInv, AtWork, AtRest
  <2>2. \A c \in Calls : call'[c] = "Queued" <=> call[c] = "Queued" /\ c # pinger.call
    BY <2>1 DEF PingTypes
  <2> QED BY <2>1, <2>2 DEF HeldInv, AtWork
<1>3. StopInv' /\ NoHelperLeft'
  BY DEF StopInv, NoHelperLeft, AtRest
<1> QED BY <1>1, <1>2, <1>3

(* stop() drops what the queue holds; the call of the worker stays with it.   *)
LEMMA StopAcceptingPreserves == ASSUME PingInv, StopAccepting PROVE PingInv'
<1> USE PingAssumption DEF PingInv, StopAccepting
<1>1. PingTypes'
  <2>1. /\ call' \in [Calls -> {"New", "Queued", "Refused", "Abandoned",
                                "Failed", "Stopped", "Late", "Value"}]
        /\ waiting' \in Seq(Calls)
    BY DEF PingTypes
  <2>2. executor' \in [accepting : BOOLEAN, asked : BOOLEAN]
    BY DEF PingTypes
  <2> QED BY <2>1, <2>2 DEF PingTypes
<1>2. HeldInv'
  BY DEF PingTypes, HeldInv, AtWork
<1>3. StopInv' /\ NoHelperLeft'
  BY DEF StopInv, NoHelperLeft, PingTypes
<1> QED BY <1>1, <1>2, <1>3


LEMMA PingInvariant == PingSpec => []PingInv
<1>1. PingInit => PingInv
  BY PingInitially
<1>2. PingInv /\ [PingNext]_pingVars => PingInv'
  <2> SUFFICES ASSUME PingInv, [PingNext]_pingVars PROVE PingInv'
    OBVIOUS
  <2>1. ASSUME NEW c \in Calls, handlePing(c) PROVE PingInv'
    BY <2>1, SubmitPreserves
  <2>2. CASE TakeTask
    BY <2>2, TakePreserves
  <2>3. CASE \/ Leave \/ Spawn \/ PingInProcess \/ Poll \/ Reap \/ KillHelper
             \/ DeadlinePasses \/ HelperPrints \/ HelperExits \/ AskWorker
    BY <2>3, WorkPreserves
  <2>4. CASE Complete
    BY <2>4, CompletePreserves
  <2>5. CASE StopAccepting
    BY <2>5, StopAcceptingPreserves
  <2>6. CASE UNCHANGED pingVars
    BY <2>6 DEF pingVars, PingInv, PingTypes, HeldInv, StopInv, NoHelperLeft
  <2> QED BY <2>1, <2>2, <2>3, <2>4, <2>5, <2>6 DEF PingNext, ExecutorStep
<1> QED BY <1>1, <1>2, PTL DEF PingSpec

(* PingExecutor::run between two calls, and after stop(), has no helper       *)
(* process: each one was reaped, killed ones included.                        *)
THEOREM HelpersAreReaped == PingSpec => []NoHelperLeft
<1>1. PingInv => NoHelperLeft
  BY DEF PingInv
<1> QED BY <1>1, PingInvariant, PTL

(* PingExecutor::submit never overfills the queue, and until PingExecutor     *)
(* answers a call it took, that call is in the queue or with the worker; when *)
(* the worker has left, every call it took was answered or dropped by stop(). *)
THEOREM CallsAreHeld == PingSpec => []NoCallForgotten
<1>1. PingInv => NoCallForgotten
  <2> SUFFICES ASSUME PingInv PROVE NoCallForgotten
    OBVIOUS
  <2>1. /\ Len(waiting) <= PingCapacity
        /\ \A c \in Calls : call[c] = "Queued" =>
              c = pinger.call \/ \E i \in 1 .. Len(waiting) : c = waiting[i]
    BY DEF PingInv, HeldInv, StopInv
  <2>2. ASSUME pinger.at = "Gone", NEW c \in Calls PROVE call[c] # "Queued"
    <3>1. waiting = <<>> /\ pinger.call = Unpinged
      BY <2>2 DEF PingInv, HeldInv, StopInv, AtWork
    <3> QED BY <2>1, <3>1, PingAssumption
  <2> QED BY <2>1, <2>2 DEF NoCallForgotten
<1> QED BY <1>1, PingInvariant, PTL

(* No Ping call is replied to twice, and none is replied to after it was      *)
(* refused or dropped: stop() and the completion of the call in progress may  *)
(* come in any order.                                                         *)
THEOREM RepliesAreFinal == PingSpec => AnsweredOnce
<1>1. PingInv /\ [PingNext]_pingVars
         => [\A c \in Calls : call[c] \notin Unanswered => call'[c] = call[c]]_pingVars
  <2> SUFFICES ASSUME PingInv, PingNext, NEW c \in Calls, call[c] \notin Unanswered
               PROVE  call'[c] = call[c]
    OBVIOUS
  <2>1. CASE UNCHANGED call
    BY <2>1
  <2>2. ASSUME NEW d \in Calls, handlePing(d) PROVE call'[c] = call[c]
    BY <2>2 DEF PingInv, PingTypes, handlePing, submit, Unanswered
  <2>3. CASE Complete
    BY <2>3 DEF PingInv, PingTypes, HeldInv, AtWork, Complete, Unanswered
  <2>4. CASE StopAccepting
    BY <2>4 DEF StopAccepting, Unanswered
  <2> QED BY <2>1, <2>2, <2>3, <2>4
          DEF PingNext, ExecutorStep, TakeTask, Leave, Spawn, PingInProcess, Poll, Reap,
              KillHelper, DeadlinePasses, HelperPrints, HelperExits, AskWorker
<1> QED BY <1>1, PingInvariant, PTL DEF PingSpec, AnsweredOnce

-----------------------------------------------------------------------------
(* The daemon's lifecycle. *)

Objects == {"logger", "mask", "adapter", "engines", "topology", "tracker", "probe", "wifi",
            "manager", "connection", "name", "claim", "service", "path", "monitoring"}

\* The consumers that one commit of the topology has still to tell.
Telling == Seq(Consumers)

DaemonTypes ==
    /\ main \in [phase : {"Starting", "Running", "Stopping", "Done"}, at : Nat \ {0}]
    /\ main.phase = "Starting" => main.at <= 20
    /\ main.phase = "Stopping" => main.at <= 14
    /\ alive \subseteq Objects /\ threads \subseteq ServiceThreads \cup Workers
    /\ using \in [Callers -> Objects \cup {"None"}]
    /\ topology \in [committed : Nat, telling : Telling, read : Nat, known : [Consumers -> Nat]]

\* start() is past its n-th step; stop() is past its n-th step.
Built(n) == main.phase = "Starting" /\ main.at > n
Past(n) == main.phase = "Done" \/ (main.phase = "Stopping" /\ main.at > n)

\* start() builds an object before it starts the thread that runs in it.
BuiltInv ==
    /\ Built(6) => "tracker" \in alive
    /\ Built(9) => "probe" \in alive
    /\ Built(12) => "wifi" \in alive
    /\ Built(16) => "manager" \in alive

\* What step n of stop() has joined, waited for or given back.
Left(n) ==
    /\ n = 2 => threads \cap (Workers \cup {"analysis"}) = {}
    /\ n = 3 => using["bus"] = "None"
    /\ n = 4 => "probe" \notin threads
    /\ n = 5 => "wifi" \notin threads
    /\ n = 6 => "sockets" \notin threads
    /\ n = 7 => "topology" \notin threads
    /\ n = 8 => "monitoring" \notin alive
    /\ n = 9 => "bus" \notin threads
    /\ n = 10 => "ping" \notin threads /\ alive \cap {"connection", "name", "service", "path"} = {}
    /\ n = 11 => "manager" \notin alive
    /\ n = 12 => alive \cap {"adapter", "topology", "engines", "tracker", "probe", "wifi"} = {}
    /\ n = 13 => "signal" \notin threads /\ "mask" \notin alive
    /\ n = 14 => "logger" \notin alive

\* It stays so: nothing starts a thread or a callback, or takes an object, again.
LeftInv == \A n \in 1 .. 14 : Past(n) => Left(n)

\* A thread calls only what its kind calls, and is inside a call only while it
\* runs: the topology thread while it still has that consumer to tell.
ThreadsInv ==
    /\ using["bus"] \in {"None", "engines"}
    /\ topology.telling # <<>> => "topology" \in threads
    /\ using["topology"] # "None" =>
          topology.telling # <<>> /\ using["topology"] = Head(topology.telling)
    /\ \A w \in Workers : /\ using[w] \in {"None", "manager", "service"}
                          /\ using[w] # "None" => w \in threads

LifecycleInv ==
    /\ DaemonTypes /\ BuiltInv /\ LeftInv /\ ThreadsInv /\ UsesLiveObjects

(* The places of the steps that matter in the order of start() and of stop(). *)
LEMMA StartPlaces ==
    ASSUME NEW n \in 1 .. 20
    PROVE  /\ StartSteps[n] = "tracker" <=> n = 6
           /\ StartSteps[n] = "probe" <=> n = 9
           /\ StartSteps[n] = "probeUpdate" <=> n = 11
           /\ StartSteps[n] = "wifi" <=> n = 12
           /\ StartSteps[n] = "wifiUpdate" <=> n = 14
           /\ StartSteps[n] = "sockets" <=> n = 15
           /\ StartSteps[n] = "manager" <=> n = 16
           /\ StartSteps[n] = "dbus" <=> n = 17
           /\ StartSteps[n] = "traffic" <=> n = 19
           /\ StartSteps[n] = "workers" <=> n = 20
  BY DEF StartSteps

LEMMA StopPlaces ==
    ASSUME NEW n \in 1 .. 14
    PROVE  /\ StopSteps[n] = "request" <=> n = 1
           /\ StopSteps[n] = "workers" <=> n = 2
           /\ StopSteps[n] = "engines" <=> n = 3
           /\ StopSteps[n] = "probe" <=> n = 4
           /\ StopSteps[n] = "wifi" <=> n = 5
           /\ StopSteps[n] = "sockets" <=> n = 6
           /\ StopSteps[n] = "topology" <=> n = 7
           /\ StopSteps[n] = "events" <=> n = 8
           /\ StopSteps[n] = "bus" <=> n = 9
           /\ StopSteps[n] = "dbus" <=> n = 10
           /\ StopSteps[n] = "manager" <=> n = 11
           /\ StopSteps[n] = "release" <=> n = 12
           /\ StopSteps[n] = "signals" <=> n = 13
           /\ StopSteps[n] = "logger" <=> n = 14
  BY DEF StopSteps


LEMMA LifecycleInit == ASSUME DaemonInit PROVE LifecycleInv
<1> USE DaemonAssumption DEF DaemonInit
<1>1. DaemonTypes
  BY DEF DaemonTypes, Callers, Consumers, Objects, Telling
<1>2. BuiltInv /\ LeftInv
  BY DEF BuiltInv, LeftInv, Built, Past
<1>3. ThreadsInv /\ UsesLiveObjects
  BY DEF ThreadsInv, UsesLiveObjects, Callers
<1> QED BY <1>1, <1>2, <1>3 DEF LifecycleInv

(* Every step of start() only builds and starts: nobody is disturbed, and a  *)
(* thread it starts finds its object built.                                  *)
Grows ==
    /\ main.phase = "Starting"
    /\ \/ main' = [phase |-> "Starting", at |-> main.at + 1] /\ main.at < 20
       \/ main' \in [phase : {"Stopping", "Running"}, at : {1}]
       \/ main' = main
    /\ alive \subseteq alive' /\ alive' \subseteq Objects
    /\ threads \subseteq threads' /\ threads' \subseteq ServiceThreads \cup Workers
    /\ \A t \in threads' \ threads : Body(t) \subseteq alive'
    /\ BuiltInv'
    /\ using' = using
    /\ topology' \in [committed : Nat, telling : {topology.telling}, read : Nat,
                      known : [Consumers -> Nat]]

LEMMA StartGrows == ASSUME LifecycleInv, StartStep PROVE Grows
<1> USE DaemonAssumption, StartPlaces
    DEF LifecycleInv, DaemonTypes, BuiltInv, Built, Starting, Advance, Rollback,
        Objects, ServiceThreads, Body, Grows
<1>1. CASE StartLogger
  BY <1>1 DEF StartLogger, Required
<1>2. CASE startSignalWaiter
  BY <1>2 DEF startSignalWaiter, Required
<1>3. CASE StartBus
  BY <1>3 DEF StartBus, Required
<1>4. CASE StartPlane
  BY <1>4 DEF StartPlane, Required
<1>5. CASE StartTopology
  BY <1>5 DEF StartTopology, Optional
<1>6. ASSUME NEW c \in Consumers, Build(c) PROVE Grows
  BY <1>6 DEF Build, Consumers
<1>7. ASSUME NEW c \in Consumers, ReadTopology(c) PROVE Grows
  BY <1>7 DEF ReadTopology, Consumers, ReadStep
<1>8. ASSUME NEW c \in Consumers, UpdateTopology(c) PROVE Grows
  BY <1>8 DEF UpdateTopology, Consumers, UpdateStep, Optional
<1>9. CASE StartSockets
  BY <1>9 DEF StartSockets, Optional
<1>10. CASE StartManager
  BY <1>10 DEF StartManager, Required
<1>11. CASE startDbus
  BY <1>11 DEF startDbus
<1>12. CASE StartEvents
  BY <1>12 DEF StartEvents
<1>13. CASE StartTraffic
  BY <1>13 DEF StartTraffic, Optional
<1>14. ASSUME NEW w \in Workers, launch(w) PROVE Grows
  BY <1>14 DEF launch
<1>15. CASE startWorkers
  BY <1>15 DEF startWorkers
<1> QED BY <1>1, <1>2, <1>3, <1>4, <1>5, <1>6, <1>7, <1>8, <1>9, <1>10, <1>11, <1>12,
           <1>13, <1>14, <1>15 DEF StartStep


LEMMA StartPreserves == ASSUME LifecycleInv, StartStep PROVE LifecycleInv'
<1>1. Grows
  BY StartGrows
<1>2. DaemonTypes' /\ BuiltInv'
  BY <1>1 DEF Grows, LifecycleInv, DaemonTypes
<1>3. LeftInv'
  BY <1>1 DEF Grows, LeftInv, Past
<1>4. ThreadsInv' /\ UsesLiveObjects'
  BY <1>1 DEF Grows, LifecycleInv, ThreadsInv, UsesLiveObjects
<1> QED BY <1>2, <1>3, <1>4 DEF LifecycleInv

(* run(), and a lost connection: stop() begins and has done nothing yet.     *)
LEMMA RunPreserves == ASSUME LifecycleInv, run \/ Disconnect PROVE LifecycleInv'
<1> USE DEF run, Disconnect, Rollback, LifecycleInv
<1>1. DaemonTypes' /\ BuiltInv'
  BY DEF DaemonTypes, BuiltInv, Built
<1>2. LeftInv'
  BY DEF LeftInv, Past
<1>3. ThreadsInv' /\ UsesLiveObjects'
  BY DEF ThreadsInv, UsesLiveObjects
<1> QED BY <1>1, <1>2, <1>3

(* Step n of stop(), and what the main thread's place says before and after. *)
StopsAt(n) ==
    /\ main' \in [phase : {"Stopping", "Done"}, at : Nat \ {0}]
    /\ main'.phase = "Stopping" => main'.at <= 14
    /\ \A k \in 1 .. 20 : ~Built(k)'
    /\ \A k \in 1 .. 14 : (Past(k) <=> k < n) /\ (Past(k)' <=> k <= n)

LEMMA StopAdvances ==
    ASSUME DaemonTypes, NEW n \in 1 .. 14, main.phase = "Stopping", main.at = n, Advance
    PROVE  StopsAt(n)
<1>1. Len(StopSteps) = 14
  BY DEF StopSteps
<1> QED BY <1>1 DEF StopsAt, DaemonTypes, Advance, Built, Past

(* Step n of stop() only joins and releases: it joins the topology collector *)
(* when that has told its commit, releases nothing while a worker, a         *)
(* collector or a callback may run, and the ping thread's objects with it.   *)
Shrinks(n) ==
    /\ alive' \subseteq alive /\ threads' \subseteq threads /\ UNCHANGED <<using, topology>>
    /\ \A t \in threads \ threads' :
          t \in ServiceThreads /\ (t = "topology" => topology.telling = <<>>)
    /\ n < 8 \/ n = 9 => alive' = alive
    /\ "ping" \in threads' => alive \cap {"service", "connection"} \subseteq alive'
    /\ Left(n)'

(* The steps of stop(), in the order of StopSteps.                           *)
LEMMA StopShrinks ==
    ASSUME DaemonTypes, StopStep
    PROVE  \E n \in 1 .. 14 : StopsAt(n) /\ Shrinks(n)
<1>1. CASE RequestStop
  <2>1. StopsAt(1)
    BY <1>1, StopPlaces, StopAdvances DEF RequestStop, Stopping, DaemonTypes
  <2>2. Shrinks(1)
    BY <1>1 DEF RequestStop, Shrinks, Left, ServiceThreads
  <2> QED BY <2>1, <2>2
<1>2. CASE stopWorkers
  <2>1. StopsAt(2)
    BY <1>2, StopPlaces, StopAdvances DEF stopWorkers, Stopping, DaemonTypes
  <2>2. Shrinks(2)
    BY <1>2 DEF stopWorkers, Shrinks, Left, ServiceThreads
  <2> QED BY <2>1, <2>2
<1>3. CASE StopEngines
  <2>1. StopsAt(3)
    BY <1>3, StopPlaces, StopAdvances DEF StopEngines, Stopping, DaemonTypes
  <2>2. Shrinks(3)
    BY <1>3 DEF StopEngines, Shrinks, Left, ServiceThreads
  <2> QED BY <2>1, <2>2
<1>4. CASE StopCollector("probe")
  <2>1. StopsAt(4)
    BY <1>4, StopPlaces, StopAdvances DEF StopCollector, Stopping, DaemonTypes
  <2>2. Shrinks(4)
    BY <1>4 DEF StopCollector, Shrinks, Left, ServiceThreads
  <2> QED BY <2>1, <2>2
<1>5. CASE StopCollector("wifi")
  <2>1. StopsAt(5)
    BY <1>5, StopPlaces, StopAdvances DEF StopCollector, Stopping, DaemonTypes
  <2>2. Shrinks(5)
    BY <1>5 DEF StopCollector, Shrinks, Left, ServiceThreads
  <2> QED BY <2>1, <2>2
<1>6. CASE StopCollector("sockets")
  <2>1. StopsAt(6)
    BY <1>6, StopPlaces, StopAdvances DEF StopCollector, Stopping, DaemonTypes
  <2>2. Shrinks(6)
    BY <1>6 DEF StopCollector, Shrinks, Left, ServiceThreads
  <2> QED BY <2>1, <2>2
<1>7. CASE StopCollector("topology")
  <2>1. StopsAt(7)
    <3>1. main.at \in 1 .. 14 /\ main.phase = "Stopping" /\ StopSteps[main.at] = "topology"
      BY <1>7 DEF DaemonTypes, StopCollector, Stopping
    <3> QED BY <1>7, <3>1, StopPlaces, StopAdvances DEF StopCollector
  <2>2. Shrinks(7)
    BY <1>7 DEF StopCollector, Shrinks, Left, ServiceThreads
  <2> QED BY <2>1, <2>2
<1>8. CASE Release("events", {"monitoring"})
  <2>1. StopsAt(8)
    BY <1>8, StopPlaces, StopAdvances DEF Release, Stopping, DaemonTypes
  <2>2. Shrinks(8)
    BY <1>8 DEF Release, Shrinks, Left, ServiceThreads
  <2> QED BY <2>1, <2>2
<1>9. CASE StopBus
  <2>1. StopsAt(9)
    BY <1>9, StopPlaces, StopAdvances DEF StopBus, Stopping, DaemonTypes
  <2>2. Shrinks(9)
    BY <1>9 DEF StopBus, Shrinks, Left, ServiceThreads
  <2> QED BY <2>1, <2>2
<1>10. CASE stopDbus
  <2>1. StopsAt(10)
    BY <1>10, StopPlaces, StopAdvances DEF stopDbus, Stopping, DaemonTypes
  <2>2. Shrinks(10)
    BY <1>10 DEF stopDbus, ReleasedByDbus, Shrinks, Left, ServiceThreads
  <2> QED BY <2>1, <2>2
<1>11. CASE Release("manager", {"manager"})
  <2>1. StopsAt(11)
    BY <1>11, StopPlaces, StopAdvances DEF Release, Stopping, DaemonTypes
  <2>2. Shrinks(11)
    BY <1>11 DEF Release, Shrinks, Left, ServiceThreads
  <2> QED BY <2>1, <2>2
<1>12. CASE Release("release", {"adapter", "topology", "engines"} \cup Consumers)
  <2>1. StopsAt(12)
    BY <1>12, StopPlaces, StopAdvances DEF Release, Stopping, DaemonTypes
  <2>2. Shrinks(12)
    BY <1>12 DEF Release, Consumers, Shrinks, Left, ServiceThreads
  <2> QED BY <2>1, <2>2
<1>13. CASE restoreSignalMask
  <2>1. StopsAt(13)
    BY <1>13, StopPlaces, StopAdvances DEF restoreSignalMask, Stopping, DaemonTypes
  <2>2. Shrinks(13)
    BY <1>13 DEF restoreSignalMask, Shrinks, Left, ServiceThreads
  <2> QED BY <2>1, <2>2
<1>14. CASE Release("logger", {"logger"})
  <2>1. StopsAt(14)
    BY <1>14, StopPlaces, StopAdvances DEF Release, Stopping, DaemonTypes
  <2>2. Shrinks(14)
    BY <1>14 DEF Release, Shrinks, Left, ServiceThreads
  <2> QED BY <2>1, <2>2
<1> QED BY <1>1, <1>2, <1>3, <1>4, <1>5, <1>6, <1>7, <1>8, <1>9, <1>10, <1>11, <1>12,
           <1>13, <1>14 DEF StopStep, Collectors

(* Each step of stop() leaves behind what the steps before it left behind,   *)
(* and adds its own.                                                         *)
LEMMA StopPreserves == ASSUME LifecycleInv, StopStep PROVE LifecycleInv'
<1>1. PICK n \in 1 .. 14 : StopsAt(n) /\ Shrinks(n)
  BY StopShrinks DEF LifecycleInv
<1>2. /\ alive' \subseteq alive /\ threads' \subseteq threads /\ using' = using
      /\ topology' = topology
      /\ \A t \in threads \ threads' :
            t \in ServiceThreads /\ (t = "topology" => topology.telling = <<>>)
      /\ n < 8 \/ n = 9 => alive' = alive
      /\ "ping" \in threads' => alive \cap {"service", "connection"} \subseteq alive'
  BY <1>1 DEF Shrinks
<1>3. DaemonTypes' /\ BuiltInv'
  <2>1. BuiltInv'
    BY <1>1 DEF BuiltInv, StopsAt
  <2>2. DaemonTypes
    BY DEF LifecycleInv
  <2>3. DaemonTypes'
    BY <1>1, <1>2, <2>2 DEF DaemonTypes, StopsAt
  <2> QED BY <2>1, <2>3
<1>4. LeftInv'
  <2>1. ASSUME NEW k \in 1 .. 14, Left(k) PROVE Left(k)'
    BY <1>2, <2>1 DEF Left
  <2>2. Left(n)' /\ \A k \in 1 .. 14 : (Past(k) <=> k < n) /\ (Past(k)' <=> k <= n)
    BY <1>1 DEF Shrinks, StopsAt
  <2> QED BY <2>1, <2>2 DEF LifecycleInv, LeftInv
<1>5. ThreadsInv'
  BY <1>2, DaemonAssumption DEF LifecycleInv, ThreadsInv
<1>6. UsesLiveObjects'
  <2>1. CASE alive' = alive
    BY <1>2, <2>1 DEF LifecycleInv, UsesLiveObjects
  <2>2. CASE n > 7
    <3>1. \A k \in 2 .. 7 : Left(k)
      BY <1>1, <2>2 DEF LifecycleInv, LeftInv, StopsAt
    <3>2. /\ threads \cap (Workers \cup {"analysis"}) = {} /\ using["bus"] = "None"
          /\ threads \cap {"probe", "wifi", "sockets", "topology"} = {}
      BY <3>1 DEF Left
    <3>3. threads' \subseteq {"signal", "bus", "ping"}
      BY <1>2, <3>2 DEF LifecycleInv, DaemonTypes, ServiceThreads
    <3>4. \A t \in Callers \ {"signal"} : using'[t] = "None"
      BY <1>2, <3>2 DEF LifecycleInv, ThreadsInv, Callers
    <3>5. \A t \in threads' : Body(t) \subseteq alive'
      BY <1>2, <3>3 DEF LifecycleInv, UsesLiveObjects, Body
    <3> QED BY <3>4, <3>5 DEF UsesLiveObjects
  <2> QED BY <1>2, <2>1, <2>2
<1> QED BY <1>3, <1>4, <1>5, <1>6 DEF LifecycleInv

(* The steps of the other threads: the main thread stays where it is, nothing *)
(* is built or released, and no thread is started.                            *)
ThreadStep ==
    \/ Kill \/ SignalStep \/ TellStep \/ CommitTopology \/ BusCalls \/ BusReturns
    \/ \E w \in Workers : WorkerStep(w) \/ WorkerCalls(w) \/ WorkerThrows(w)

Elsewhere == main' = main /\ alive' = alive /\ threads' \subseteq threads

LEMMA ThreadsStayElsewhere == ASSUME ThreadStep PROVE Elsewhere
<1>1. CASE Kill \/ SignalStep
  BY <1>1 DEF Kill, SignalStep, TakeSignal, SignalChecksManager, SignalReturns, SignalLeaves,
              Elsewhere
<1>2. CASE TellStep \/ CommitTopology \/ BusCalls \/ BusReturns
  BY <1>2 DEF TellStep, TellConsumer, ConsumerTold, CommitTopology, BusCalls, BusReturns,
              Elsewhere
<1>3. ASSUME NEW w \in Workers, WorkerStep(w) \/ WorkerCalls(w) \/ WorkerThrows(w)
      PROVE  Elsewhere
  BY <1>3 DEF WorkerStep, WorkerRuns, WorkerReturns, WorkerEnds, WorkerCalls, WorkerThrows,
              Elsewhere
<1> QED BY <1>1, <1>2, <1>3 DEF ThreadStep

(* Which calls are under way, after a step elsewhere: this is all that such a *)
(* step has to keep true.                                                     *)
CallsInv ==
    /\ using \in [Callers -> Objects \cup {"None"}]
    /\ topology \in [committed : Nat, telling : Telling, read : Nat, known : [Consumers -> Nat]]
    /\ Past(3) => using["bus"] = "None"
    /\ ThreadsInv
    /\ \A t \in Callers \ {"signal"} : using[t] # "None" => using[t] \in alive

LEMMA CallsTrue == ASSUME LifecycleInv PROVE CallsInv
<1>1. Past(3) => Left(3)
  BY DEF LifecycleInv, LeftInv
<1> QED BY <1>1 DEF CallsInv, LifecycleInv, DaemonTypes, Left, UsesLiveObjects

LEMMA ElsewherePreserves == ASSUME LifecycleInv, Elsewhere, CallsInv' PROVE LifecycleInv'
<1> USE DEF LifecycleInv, Elsewhere
<1>1. DaemonTypes'
  BY DEF DaemonTypes, CallsInv
<1>2. BuiltInv'
  BY DEF BuiltInv, Built
<1>3. LeftInv'
  <2>1. ASSUME NEW n \in 1 .. 14, Past(n)' PROVE Left(n)'
    <3>1. Past(n) /\ Left(n)
      BY <2>1 DEF LeftInv, Past
    <3> QED BY <2>1, <3>1 DEF Left, CallsInv
  <2> QED BY <2>1 DEF LeftInv
<1>4. ThreadsInv' /\ UsesLiveObjects'
  BY DEF CallsInv, UsesLiveObjects
<1> QED BY <1>1, <1>2, <1>3, <1>4

LEMMA TellingRest ==
    ASSUME NEW q \in Telling, q # <<>>
    PROVE  Head(q) \in Consumers /\ Tail(q) \in Telling
  BY HeadAndTail DEF Telling

LEMMA ThreadPreserves == ASSUME LifecycleInv, ThreadStep PROVE LifecycleInv'
<1>1. Elsewhere
  BY ThreadsStayElsewhere
<1>2. CallsInv
  BY CallsTrue
<1>3. Callers = {"signal", "bus", "topology"} \cup Workers
      /\ \A w \in Workers : w \notin ServiceThreads
  BY DaemonAssumption DEF Callers
<1> SUFFICES CallsInv'
  BY <1>1, ElsewherePreserves
<1> USE DEF Past
<1>4. CASE Kill \/ TakeSignal \/ SignalLeaves
  BY <1>1, <1>2, <1>3, <1>4
  DEF Kill, TakeSignal, SignalLeaves, CallsInv, ThreadsInv, Elsewhere, ServiceThreads
<1>5. CASE SignalChecksManager \/ SignalReturns
  BY <1>1, <1>2, <1>3, <1>5
  DEF SignalChecksManager, SignalReturns, Enter, Return, CallsInv, ThreadsInv, Elsewhere,
      ServiceThreads, Objects
<1>6. CASE CommitTopology
  <2>1. topology.telling = <<>> /\ using["topology"] = "None" /\ "topology" \in threads
    BY <1>2, <1>6 DEF CommitTopology, CallsInv, ThreadsInv
  <2>2. topology' \in [committed : Nat, telling : Telling, read : Nat, known : [Consumers -> Nat]]
    <3>1. <<>> \in Telling /\ <<"tracker", "probe", "wifi">> \in Telling
      BY DEF Telling, Consumers
    <3>2. PICK q \in Telling :
             topology' = [topology EXCEPT !.committed = @ + 1, !.telling = q]
      BY <1>6, <3>1 DEF CommitTopology
    <3>3. topology \in [committed : Nat, telling : Telling, read : Nat, known : [Consumers -> Nat]]
      BY <1>2 DEF CallsInv
    <3>4. topology' = [committed |-> topology.committed + 1, telling |-> q,
                       read |-> topology.read, known |-> topology.known]
      BY <3>2, <3>3
    <3> QED BY <3>3, <3>4
  <2> QED BY <1>1, <1>2, <1>6, <2>1, <2>2 DEF CommitTopology, CallsInv, ThreadsInv
<1>7. CASE TellConsumer
  <2>1. /\ topology.telling \in Telling /\ topology.telling # <<>>
        /\ Head(topology.telling) \in Consumers /\ Tail(topology.telling) \in Telling
    BY <1>2, <1>7, TellingRest DEF TellConsumer, CallsInv
  <2>2. CASE Head(topology.telling) \in alive
    <3>1. using' = [using EXCEPT !["topology"] = Head(topology.telling)] /\ topology' = topology
      BY <1>7, <2>2 DEF TellConsumer, Enter
    <3> QED BY <1>1, <1>2, <1>3, <1>7, <2>1, <2>2, <3>1
            DEF TellConsumer, CallsInv, ThreadsInv, Objects, Consumers, ServiceThreads
  <2>3. CASE Head(topology.telling) \notin alive
    <3>1. topology' = [topology EXCEPT !.telling = Tail(topology.telling)] /\ using' = using
          /\ using["topology"] = "None"
      BY <1>7, <2>3 DEF TellConsumer
    <3> QED BY <1>1, <1>2, <1>7, <2>1, <3>1 DEF TellConsumer, CallsInv, ThreadsInv
  <2> QED BY <2>2, <2>3
<1>8. CASE ConsumerTold
  <2>1. /\ topology.telling # <<>> /\ using["topology"] = Head(topology.telling)
        /\ topology.telling \in Telling
    BY <1>2, <1>8 DEF ConsumerTold, Return, CallsInv, ThreadsInv
  <2>2. Head(topology.telling) \in Consumers /\ Tail(topology.telling) \in Telling
    BY <2>1, TellingRest
  <2>3. /\ topology' \in [committed : Nat, telling : Telling, read : Nat,
                          known : [Consumers -> Nat]]
        /\ using' = [using EXCEPT !["topology"] = "None"]
    BY <1>2, <1>8, <2>1, <2>2 DEF ConsumerTold, Enter, Return, CallsInv
  <2> QED BY <1>1, <1>2, <1>3, <1>8, <2>1, <2>3
          DEF ConsumerTold, CallsInv, ThreadsInv, ServiceThreads
<1>9. CASE BusCalls \/ BusReturns
  <2>1. using' = [using EXCEPT !["bus"] = "engines"] \/ using' = [using EXCEPT !["bus"] = "None"]
    BY <1>9 DEF BusCalls, BusReturns, Enter, Return
  <2>2. CASE BusCalls
    <3>0. Past(12) => Left(12)
      BY DEF LifecycleInv, LeftInv
    <3>1. "engines" \in alive /\ main.phase # "Done"
      BY <2>2, <3>0 DEF BusCalls, Left
    <3>2. ~Past(3)
      BY <2>2, <3>1, StopPlaces DEF BusCalls, LifecycleInv, DaemonTypes
    <3> QED BY <1>1, <1>2, <1>3, <2>1, <2>2, <3>1, <3>2
            DEF BusCalls, Enter, CallsInv, ThreadsInv, Elsewhere, Objects, ServiceThreads
  <2>3. CASE BusReturns
    BY <1>1, <1>2, <1>3, <2>3
    DEF BusReturns, Enter, Return, CallsInv, ThreadsInv, Elsewhere, ServiceThreads
  <2> QED BY <1>9, <2>2, <2>3
<1>10. ASSUME NEW w \in Workers,
              WorkerStep(w) \/ WorkerCalls(w) \/ WorkerThrows(w)
       PROVE  CallsInv'
  BY <1>1, <1>2, <1>3, <1>10
  DEF WorkerStep, WorkerRuns, WorkerReturns, WorkerEnds, WorkerCalls, WorkerThrows, Enter,
      Return, CallsInv, ThreadsInv, Elsewhere, Objects, ServiceThreads
<1> QED BY <1>4, <1>5, <1>6, <1>7, <1>8, <1>9, <1>10 DEF ThreadStep, SignalStep, TellStep


LEMMA LifecycleInvariant == DaemonSpec => []LifecycleInv
<1>1. DaemonInit => LifecycleInv
  BY LifecycleInit
<1>2. LifecycleInv /\ [DaemonNext]_daemonVars => LifecycleInv'
  <2> SUFFICES ASSUME LifecycleInv, [DaemonNext]_daemonVars PROVE LifecycleInv'
    OBVIOUS
  <2>1. CASE StartStep
    BY <2>1, StartPreserves
  <2>2. CASE run \/ Disconnect
    BY <2>2, RunPreserves
  <2>3. CASE StopStep
    BY <2>3, StopPreserves
  <2>4. CASE ThreadStep
    BY <2>4, ThreadPreserves
  <2>5. CASE UNCHANGED daemonVars
    <3>1. CallsInv' /\ Elsewhere
      BY <2>5, CallsTrue DEF daemonVars, Elsewhere, CallsInv, ThreadsInv, Past
    <3> QED BY <3>1, ElsewherePreserves
  <2> QED BY <2>1, <2>2, <2>3, <2>4, <2>5 DEF DaemonNext, MainStep, ThreadStep
<1> QED BY <1>1, <1>2, PTL DEF DaemonSpec

(* DaemonApplication::stop() may run after any failed step of start(), after  *)
(* a lost connection or after a signal: no thread of a component, no monitor, *)
(* no bus callback and no topology callback is ever inside an object that was *)
(* released.                                                                  *)
THEOREM LiveObjects == DaemonSpec => []UsesLiveObjects
<1>1. LifecycleInv => UsesLiveObjects
  BY DEF LifecycleInv
<1> QED BY <1>1, LifecycleInvariant, PTL

NoneLaunched == \A w \in Workers : health[w] = "Absent"

\* startDbus runs before the workers, and gives up when the bus queues its
\* claim.
ClaimInv ==
    /\ main.phase \in {"Starting", "Running"} => "claim" \notin alive
    /\ main.phase = "Starting" /\ main.at < 20 => NoneLaunched
    /\ "claim" \in alive => NoneLaunched

LEMMA StartKeepsClaims == ASSUME LifecycleInv, ClaimInv, StartStep PROVE ClaimInv'
<1>1. main.at \in 1 .. 20 /\ main.phase = "Starting" /\ Grows
  BY StartGrows DEF LifecycleInv, DaemonTypes, Grows
<1> USE StartPlaces DEF Starting, Advance, Rollback, NoneLaunched, ClaimInv
<1>2. CASE startDbus
  BY <1>1, <1>2 DEF startDbus
<1>3. ASSUME NEW w \in Workers, launch(w) PROVE ClaimInv'
  BY <1>1, <1>3 DEF launch
<1>4. ASSUME health' = health, alive' \cap {"claim"} \subseteq alive PROVE ClaimInv'
  BY <1>1, <1>4 DEF Grows
<1>5. CASE StartLogger \/ startSignalWaiter \/ StartBus \/ StartPlane \/ StartManager
  BY <1>4, <1>5 DEF StartLogger, startSignalWaiter, StartBus, StartPlane, StartManager, Required
<1>6. CASE StartTopology \/ StartSockets \/ StartEvents \/ StartTraffic \/ startWorkers
  BY <1>4, <1>6 DEF StartTopology, StartSockets, StartEvents, StartTraffic, startWorkers
<1>7. ASSUME NEW c \in Consumers, Build(c) \/ ReadTopology(c) \/ UpdateTopology(c)
      PROVE  ClaimInv'
  BY <1>4, <1>7 DEF Build, ReadTopology, UpdateTopology, Consumers
<1> QED BY <1>2, <1>3, <1>5, <1>6, <1>7 DEF StartStep

LEMMA ClaimsKept ==
    ASSUME LifecycleInv, ClaimInv, [DaemonNext]_daemonVars PROVE ClaimInv'
<1>1. CASE StartStep
  BY <1>1, StartKeepsClaims
<1>2. CASE run \/ Disconnect
  BY <1>2 DEF run, Disconnect, Rollback, ClaimInv, NoneLaunched
<1>3. CASE StopStep
  <2>1. main'.phase \in {"Stopping", "Done"} /\ alive' \subseteq alive
    BY <1>3, StopShrinks DEF LifecycleInv, StopsAt, Shrinks
  <2>2. health' = health
    BY <1>3 DEF StopStep, RequestStop, stopWorkers, StopEngines, StopCollector, StopBus, stopDbus,
                Release, restoreSignalMask
  <2> QED BY <2>1, <2>2 DEF ClaimInv, NoneLaunched
<1>4. CASE ThreadStep
  <2>1. Elsewhere
    BY <1>4, ThreadsStayElsewhere
  <2>2. health' = health \/ ~NoneLaunched
    BY <1>4 DEF ThreadStep, Kill, SignalStep, TakeSignal, SignalChecksManager, SignalReturns,
                SignalLeaves, TellStep, TellConsumer, ConsumerTold, CommitTopology, BusCalls,
                BusReturns, WorkerStep, WorkerRuns, WorkerReturns, WorkerEnds, WorkerCalls,
                WorkerThrows, NoneLaunched
  <2> QED BY <2>1, <2>2 DEF Elsewhere, ClaimInv, NoneLaunched
<1>5. CASE UNCHANGED daemonVars
  BY <1>5 DEF daemonVars, ClaimInv, NoneLaunched
<1> QED BY <1>1, <1>2, <1>3, <1>4, <1>5 DEF DaemonNext, MainStep, ThreadStep

(* When DaemonApplication::stop() has returned, nothing that start() took, to *)
(* whatever step it came, is left: no thread, no object, no bus name, no      *)
(* blocked signal; and a queued claim to the name only when start() came no   *)
(* further than startDbus.                                                    *)
THEOREM StopLeavesNothing == DaemonSpec => []OnlyQueuedClaimLeft
<1>1. DaemonInit => ClaimInv
  BY DEF DaemonInit, ClaimInv, NoneLaunched
<1>2. LifecycleInv /\ ClaimInv => OnlyQueuedClaimLeft
  <2> SUFFICES ASSUME LifecycleInv, ClaimInv, main.phase = "Done"
               PROVE  /\ threads = {} /\ alive \subseteq {"claim"}
                      /\ (\E w \in Workers : health[w] # "Absent") => alive = {}
    BY DEF OnlyQueuedClaimLeft
  <2>0. \A n \in 1 .. 14 : Left(n)
    BY DEF LifecycleInv, LeftInv, Past
  <2>1. alive \subseteq {"claim"}
    BY <2>0 DEF LifecycleInv, DaemonTypes, Left, Objects
  <2>2. threads = {}
    BY <2>0 DEF LifecycleInv, DaemonTypes, Left, ServiceThreads
  <2> QED BY <2>1, <2>2 DEF ClaimInv, NoneLaunched
<1> QED BY <1>1, <1>2, ClaimsKept, LifecycleInvariant, PTL DEF DaemonSpec

=============================================================================
