-------------------------- MODULE SocketTrackerProofs --------------------------
(***************************************************************************)
(* Proofs about the socket tracker, for any sockets, tuples and cookies of *)
(* the kernel, every limit of the table, and any number of failed dumps,   *)
(* restarts and topology changes.  The lemmas about the table of socket    *)
(* identities are those of SocketLifecycleProofs.                          *)
(***************************************************************************)
EXTENDS SocketTrackerLemmas

-----------------------------------------------------------------------------
(* The tracker's table is the one of the lifecycle proofs. *)

\* The critical section of reconcile() is an authoritative snapshot; a rejected
\* record aborts it in the same step, and close() is not used.  The last two
\* constants belong to the attribution and do not matter here.
Lifecycle == INSTANCE SocketLifecycleProofs WITH
    closed <- <<>>, snapshot <- IF pc = "commit" THEN "Authoritative" ELSE "none",
    observed <- Observed, refused <- FALSE, retired <- {}, NoValue <- 0, ByteBits <- 8

LEMMA LifecycleConstants == Lifecycle!TableAssumption /\ Lifecycle!AddressAssumption
    BY TableConstants DEF Table!TableAssumption, Lifecycle!TableAssumption,
                          Lifecycle!AddressAssumption

LEMMA SameSets ==
    ASSUME NEW S
    PROVE  /\ Table!Gens(S) = Lifecycle!Gens(S)
           /\ Lifecycle!IsFiniteSet(S) <=> IsFiniteSet(S)
  <1>1. Table!Gens(S) = Lifecycle!Gens(S)
    BY DEF Table!Gens, Lifecycle!Gens
  <1>2. Lifecycle!IsFiniteSet(S) <=> IsFiniteSet(S)
    BY DEF Lifecycle!IsFiniteSet, IsFiniteSet
  <1> QED BY <1>1, <1>2

LEMMA SameRoom ==
    ASSUME NEW S, NEW T
    PROVE  Table!Room(S, T) <=> Lifecycle!Room(S, T)
    BY DEF Table!Room, Lifecycle!Room, Table!Cardinality, Lifecycle!Cardinality

LEMMA SameMatch ==
    ASSUME NEW S, NEW T, NEW sup, NEW x
    PROVE  /\ Table!Match(S, T, sup, x) = Lifecycle!Match(S, T, sup, x)
           /\ Table!Victims(S, T, sup, x) = Lifecycle!Victims(S, T, sup, x)
           /\ Table!Superseding(S, sup, T) = Lifecycle!Superseding(S, sup, T)
  <1>1. /\ Table!Match(S, T, sup, x) = Lifecycle!Match(S, T, sup, x)
        /\ Table!WeakMatch(S, T, sup, x) = Lifecycle!WeakMatch(S, T, sup, x)
    BY DEF Table!Match, Lifecycle!Match, Table!CookieMatch, Lifecycle!CookieMatch,
           Table!WeakMatch, Lifecycle!WeakMatch, Table!SameCookie, Lifecycle!SameCookie,
           Table!SameTuple, Lifecycle!SameTuple, Table!Weak, Lifecycle!Weak,
           Table!Current, Lifecycle!Current, Table!Superseding, Lifecycle!Superseding,
           Table!Gens, Lifecycle!Gens
  <1>2. Table!CookieVictims(S, T, sup, x) = Lifecycle!CookieVictims(S, T, sup, x)
    BY DEF Table!CookieVictims, Lifecycle!CookieVictims, Table!SameCookie, Lifecycle!SameCookie,
           Table!SameTuple, Lifecycle!SameTuple, Table!Weak, Lifecycle!Weak,
           Table!Current, Lifecycle!Current, Table!Superseding, Lifecycle!Superseding,
           Table!Gens, Lifecycle!Gens
  <1>3. Table!WeakVictims(S, T, sup, x) = Lifecycle!WeakVictims(S, T, sup, x)
    BY DEF Table!WeakVictims, Lifecycle!WeakVictims, Table!First, Lifecycle!First,
           Table!SameTuple, Lifecycle!SameTuple, Table!Weak, Lifecycle!Weak,
           Table!Current, Lifecycle!Current, Table!Superseding, Lifecycle!Superseding,
           Table!Gens, Lifecycle!Gens
  <1>4. Table!Victims(S, T, sup, x) = Lifecycle!Victims(S, T, sup, x)
    BY <1>1, <1>2, <1>3 DEF Table!Victims, Lifecycle!Victims
  <1>5. Table!Superseding(S, sup, T) = Lifecycle!Superseding(S, sup, T)
    BY DEF Table!Superseding, Lifecycle!Superseding, Table!Gens, Lifecycle!Gens
  <1> QED BY <1>1, <1>4, <1>5

LEMMA SameTable ==
    ASSUME NEW S, NEW T, NEW sup, NEW x, NEW gen
    PROVE  /\ Table!Accepted(S, T, sup, x) <=> Lifecycle!Accepted(S, T, sup, x)
           /\ Table!PendingAfter(S, T, sup, x, gen) = Lifecycle!PendingAfter(S, T, sup, x, gen)
           /\ Table!SupersededAfter(S, T, sup, x) = Lifecycle!SupersededAfter(S, T, sup, x)
           /\ Table!GenerationAfter(S, T, sup, x, gen) = Lifecycle!GenerationAfter(S, T, sup, x, gen)
           /\ Table!Committed(S, T, sup) = Lifecycle!Committed(S, T, sup)
  <1>1. Table!Accepted(S, T, sup, x) <=> Lifecycle!Accepted(S, T, sup, x)
    BY SameMatch, SameRoom DEF Table!Accepted, Lifecycle!Accepted, Table!Unlisted, Lifecycle!Unlisted
  <1>2. Table!PendingAfter(S, T, sup, x, gen) = Lifecycle!PendingAfter(S, T, sup, x, gen)
    BY SameMatch, SameRoom DEF Table!PendingAfter, Lifecycle!PendingAfter, Table!Unlisted,
                               Lifecycle!Unlisted, Table!NewEntry, Lifecycle!NewEntry
  <1>3. Table!SupersededAfter(S, T, sup, x) = Lifecycle!SupersededAfter(S, T, sup, x)
    BY SameMatch DEF Table!SupersededAfter, Lifecycle!SupersededAfter
  <1>4. Table!GenerationAfter(S, T, sup, x, gen) = Lifecycle!GenerationAfter(S, T, sup, x, gen)
    BY <1>1, SameMatch DEF Table!GenerationAfter, Lifecycle!GenerationAfter
  <1>5. Table!Committed(S, T, sup) = Lifecycle!Committed(S, T, sup)
    BY DEF Table!Committed, Lifecycle!Committed, Table!Departed, Lifecycle!Departed,
           Table!Current, Lifecycle!Current, Table!Gens, Lifecycle!Gens
  <1> QED BY <1>1, <1>2, <1>3, <1>4, <1>5

-----------------------------------------------------------------------------
(* What the tracker uses of the table's invariant, and that it is kept. *)

LEMMA TableFacts ==
    ASSUME Lifecycle!TableInv
    PROVE  TableSummary
  <1>1. /\ next_generation \in Nat \ {0}
        /\ active \in SUBSET Lifecycle!Entry /\ pending \in SUBSET Lifecycle!Entry
    BY DEF Lifecycle!TableInv, Lifecycle!TableTypes
  <1>2. \A e \in active \cup pending : e.gen \in Nat \ {0} /\ e.gen < next_generation
    BY <1>1 DEF Lifecycle!TableInv, Lifecycle!GenerationsInv, Lifecycle!Entry
  <1>3. \A e, f \in active \cup pending : e.gen = f.gen => e = f
    BY DEF Lifecycle!TableInv, Lifecycle!Distinct, Lifecycle!Agree
  <1>4. /\ \A e \in pending : EntryRecord(e) \in Observed
        /\ Table!Unambiguous(Observed) => \A e \in active : EntryRecord(e) \in Observed => e \in pending
    BY DEF Lifecycle!TableInv, Lifecycle!MirrorInv, Lifecycle!Rec, EntryRecord,
           Lifecycle!Unambiguous, Table!Unambiguous
  <1>5. pc # "commit" => pending = {} /\ superseded = {}
    BY DEF Lifecycle!TableInv, Lifecycle!IdleInv
  <1>6. Lifecycle!Committed(active, pending, superseded) = pending
    <2>1. Lifecycle!Current(pending, superseded) = pending
      BY DEF Lifecycle!Current, Lifecycle!Gens, Lifecycle!TableInv, Lifecycle!SupersededInv
    <2>2. active \ Lifecycle!Departed(active, pending, superseded) \subseteq pending
      BY DEF Lifecycle!Departed, Lifecycle!Gens, Lifecycle!TableInv, Lifecycle!Agree
    <2> QED BY <2>1, <2>2 DEF Lifecycle!Committed
  <1>7. Table!Committed(active, pending, superseded) = pending
    BY <1>6, SameTable
  <1> QED BY <1>1, <1>2, <1>3, <1>4, <1>5, <1>7 DEF TableSummary

LEMMA TableKept ==
    ASSUME Lifecycle!TableInv, UNCHANGED <<active, next_generation, pending, superseded>>,
           (pc = "commit") <=> (pc' = "commit"), Observed' = Observed
    PROVE  Lifecycle!TableInv'
    BY DEF Lifecycle!TableInv, Lifecycle!TableTypes, Lifecycle!Distinct, Lifecycle!Agree,
           Lifecycle!GenerationsInv, Lifecycle!SupersededInv, Lifecycle!MirrorInv, Lifecycle!IdleInv

LEMMA RecordTypes ==
    ASSUME NEW s \in Sockets
    PROVE  RecordOf(s) \in Lifecycle!Record
    BY TrackerAssumption DEF RecordOf, Lifecycle!Record

LEMMA ObserveTable ==
    ASSUME Lifecycle!TableInv, TrackerTypes, Observe
    PROVE  Lifecycle!TableInv' /\ ObserveEffect
  <1> DEFINE x == RecordOf(records[at + 1].socket)
             accepted == Table!Accepted(active, pending, superseded, x)
  <1>1. pc = "commit" /\ at \in Nat /\ at < Len(records) /\ records \in Seq(DumpRecord)
    BY DEF Observe, TrackerTypes
  <1>2. at + 1 \in 1 .. Len(records) /\ records[at + 1].socket \in Sockets
    <2>1. at + 1 \in 1 .. Len(records)
      BY <1>1
    <2>2. records[at + 1] \in DumpRecord
      BY <1>1, <2>1
    <2> QED BY <2>1, <2>2 DEF DumpRecord
  <1>3. x \in Lifecycle!Record
    BY <1>2, RecordTypes
  <1>4. /\ next_generation' = Lifecycle!GenerationAfter(active, pending, superseded, x, next_generation)
        /\ next_generation' <= MaxGeneration + 1
        /\ active' = active
    BY SameTable DEF Observe
  <1>5. next_generation \in Nat \ {0}
    BY TableFacts DEF TableSummary
  <1>6. CASE accepted
    <2>1. /\ pending' = Lifecycle!PendingAfter(active, pending, superseded, x, next_generation)
          /\ superseded' = Lifecycle!SupersededAfter(active, pending, superseded, x)
          /\ at' = at + 1 /\ pc' = pc /\ records' = records
          /\ Lifecycle!Accepted(active, pending, superseded, x)
      BY <1>6, SameTable DEF Observe
    <2>2. Observed' = Observed \cup {x}
      <3>1. 1 .. at + 1 = (1 .. at) \cup {at + 1}
        BY <1>1
      <3> QED BY <2>1, <3>1 DEF Observed
    <2>3. Lifecycle!Observe(x)
      BY <1>1, <1>4, <2>1, <2>2 DEF Lifecycle!Observe
    <2>4. Lifecycle!TableInv'
      BY <1>3, <2>3, LifecycleConstants, Lifecycle!ObservePreserves
    <2>5. /\ pending' = (pending \ Lifecycle!Victim(x)) \cup Lifecycle!Added(x)
          /\ next_generation' = next_generation \/ next_generation' = next_generation + 1
      BY <1>3, <2>3, LifecycleConstants, Lifecycle!ObserveFacts
    <2>6. \A e \in Lifecycle!Added(x) : e \in active \cup pending \/ e.gen = next_generation
      <3>1. \A e \in Lifecycle!Added(x) : \/ e \in active \cup pending
                                          \/ e = Lifecycle!NewEntry(x, next_generation)
        BY <1>3, LifecycleConstants, Lifecycle!AddedFacts
      <3> QED BY <3>1 DEF Lifecycle!NewEntry
    <2> QED BY <1>4, <1>5, <2>1, <2>4, <2>5, <2>6 DEF ObserveEffect
  <1>7. CASE ~accepted
    <2>1. /\ pending' = {} /\ superseded' = {} /\ at' = 0 /\ pc' = "idle" /\ records' = <<>>
          /\ ~Lifecycle!Accepted(active, pending, superseded, x)
      BY <1>7, SameTable DEF Observe
    <2>2. next_generation' = next_generation
      BY <1>4, <2>1 DEF Lifecycle!GenerationAfter
    <2>3. Observed' = {}
      BY <2>1 DEF Observed
    <2>4. Lifecycle!Abort
      BY <1>1, <1>4, <2>1, <2>2, <2>3 DEF Lifecycle!Abort, Lifecycle!Discard, Lifecycle!tables
    <2>5. Lifecycle!TableInv'
      BY <2>4, LifecycleConstants, Lifecycle!AbortPreserves
    <2> QED BY <1>4, <1>5, <2>1, <2>2, <2>5 DEF ObserveEffect
  <1> QED BY <1>6, <1>7

LEMMA CommitTable ==
    ASSUME Lifecycle!TableInv, Commit
    PROVE  active' = pending /\ Lifecycle!TableInv'
  <1>1. active' = pending
    BY TableFacts DEF TableSummary, Commit
  <1>2. /\ pc' = "sockets" /\ pending' = {} /\ superseded' = {} /\ at' = 0
        /\ next_generation' = next_generation
    BY DEF Commit
  <1>3. Observed' = {}
    BY <1>2 DEF Observed
  <1>4. Lifecycle!IsFiniteSet(pending) /\ Lifecycle!IsFiniteSet({})
    BY LifecycleConstants, Lifecycle!CandidateIsFinite, SameSets, FS_EmptySet
  <1>5. Lifecycle!TableTypes'
    BY <1>1, <1>2, <1>3, <1>4 DEF Lifecycle!TableInv, Lifecycle!TableTypes
  <1>6. Lifecycle!Distinct(active)' /\ Lifecycle!Distinct(pending)' /\ Lifecycle!Agree'
        /\ Lifecycle!IdleInv'
    BY <1>1, <1>2, <1>3 DEF Lifecycle!TableInv, Lifecycle!Distinct, Lifecycle!Agree, Lifecycle!IdleInv
  <1>7. Lifecycle!SupersededInv' /\ Lifecycle!MirrorInv' /\ Lifecycle!GenerationsInv'
    BY <1>1, <1>2, <1>3 DEF Lifecycle!TableInv, Lifecycle!SupersededInv, Lifecycle!MirrorInv,
                            Lifecycle!GenerationsInv, Lifecycle!Gens
  <1> QED BY <1>1, <1>5, <1>6, <1>7 DEF Lifecycle!TableInv

LEMMA BeginTable ==
    ASSUME Lifecycle!TableInv, pc # "commit", pc' = "commit", Observed' = Observed,
           UNCHANGED <<active, next_generation, pending, superseded>>
    PROVE  Lifecycle!TableInv'
    BY LifecycleConstants, Lifecycle!BeginPreserves DEF Lifecycle!Begin, Lifecycle!tables

LEMMA TableInit == ASSUME Init PROVE Lifecycle!TableInv
  <1>0. /\ pc = "idle" /\ active = {} /\ next_generation = 1 /\ pending = {}
        /\ superseded = {} /\ Observed = {}
    <2>1. 1 .. 0 = {}
      OBVIOUS
    <2> QED BY <2>1 DEF Init, Observed
  <1>1. Lifecycle!IsFiniteSet({})
    BY SameSets, FS_EmptySet
  <1>2. Lifecycle!TableTypes
    BY <1>0, <1>1 DEF Lifecycle!TableTypes
  <1> QED BY <1>0, <1>2 DEF Lifecycle!TableInv, Lifecycle!Distinct, Lifecycle!Agree,
                            Lifecycle!GenerationsInv, Lifecycle!SupersededInv,
                            Lifecycle!MirrorInv, Lifecycle!IdleInv, Lifecycle!Gens

\* The dumps read into records, which is not yet the table's.
LEMMA DumpTable ==
    ASSUME Lifecycle!TableInv, DumpsInv, pc \in {"idle", "dump6"}, pc' \in {"idle", "dump6", "commit"},
           UNCHANGED <<active, next_generation, pending, superseded, at>>
    PROVE  Lifecycle!TableInv'
  <1>1. Observed' = Observed
    BY DEF DumpsInv, Observed
  <1>2. CASE pc' = "commit"
    BY <1>1, <1>2, BeginTable
  <1>3. CASE pc' # "commit"
    BY <1>1, <1>3, TableKept
  <1> QED BY <1>2, <1>3

\* The steps outside reconcile()'s critical section, kernel steps included.
LEMMA OtherTable ==
    ASSUME Lifecycle!TableInv, DumpsInv,
           \/ \E s \in Sockets : KernelOpens(s) \/ KernelCloses(s) \/ KernelCounts(s)
           \/ Start \/ PublishContext \/ TopologyChanges \/ Recompute \/ UNCHANGED vars
           \/ Stop \/ DumpFails \/ (\E bare : Dump4(bare) \/ Dump6(bare))
           \/ PublishSockets \/ StoreContexts \/ PublishSamples
    PROVE  Lifecycle!TableInv'
  <1>1. CASE \E s \in Sockets : KernelOpens(s) \/ KernelCloses(s) \/ KernelCounts(s)
    <2>1. UNCHANGED <<pc, records, at, active, next_generation, pending, superseded>>
      BY <1>1 DEF KernelOpens, KernelCloses, KernelCounts, table
    <2> QED BY <2>1, TableKept DEF Observed
  <1>2. CASE Start \/ PublishContext \/ TopologyChanges \/ Recompute \/ UNCHANGED vars
    BY <1>2, QuietSteps, TableKept DEF rest, Observed
  <1>3. CASE Stop \/ DumpFails
    <2>1. /\ pc \in {"idle", "dump6"} /\ pc' = "idle"
          /\ UNCHANGED <<active, next_generation, pending, superseded, at>>
      BY <1>3 DEF Stop, DumpFails, AfterFailedDump, table
    <2> QED BY <2>1, DumpTable
  <1>4. CASE \E bare : Dump4(bare) \/ Dump6(bare)
    <2>1. /\ pc \in {"idle", "dump6"} /\ pc' \in {"dump6", "commit"}
          /\ UNCHANGED <<active, next_generation, pending, superseded, at>>
      BY <1>4 DEF Dump4, Dump6, table
    <2> QED BY <2>1, DumpTable
  <1>5. CASE PublishSockets \/ StoreContexts \/ PublishSamples
    <2>1. /\ pc # "commit" /\ pc' # "commit"
          /\ UNCHANGED <<records, at, active, next_generation, pending, superseded>>
      <3>1. CASE PublishSockets
        BY <3>1 DEF PublishSockets, table
      <3>2. CASE StoreContexts
        BY <3>2 DEF StoreContexts, table
      <3>3. CASE PublishSamples
        BY <3>3 DEF PublishSamples, table
      <3> QED BY <1>5, <3>1, <3>2, <3>3
    <2> QED BY <2>1, TableKept DEF Observed
  <1> QED BY <1>1, <1>2, <1>3, <1>4, <1>5

-----------------------------------------------------------------------------
(* The theorems. *)

TrackerInv == SocketsInv /\ Lifecycle!TableInv

LEMMA TrackerInvariant == Spec => []TrackerInv
  <1>1. ASSUME Init PROVE TrackerInv
    BY <1>1, SocketsInit, TableInit DEF TrackerInv
  <1>2. ASSUME TrackerInv, [Next]_vars PROVE TrackerInv'
    <2>0. SocketsInv /\ Lifecycle!TableInv /\ TableSummary /\ TrackerTypes /\ DumpsInv
      BY <1>2, TableFacts DEF TrackerInv, SocketsInv
    <2>1. CASE \E s \in Sockets : KernelOpens(s) \/ KernelCloses(s) \/ KernelCounts(s)
      BY <2>0, <2>1, KernelStepMoves, KernelPreserves, OtherTable DEF TrackerInv
    <2>2. CASE Start \/ PublishContext \/ TopologyChanges \/ Recompute \/ UNCHANGED vars
      BY <2>0, <2>2, QuietSteps, QuietPreserves, OtherTable DEF TrackerInv
    <2>3. CASE Stop \/ DumpFails
      BY <2>0, <2>3, GivesUp, OtherTable DEF TrackerInv
    <2>4. CASE \E bare : Dump4(bare) \/ Dump6(bare)
      BY <2>0, <2>4, Dump4Preserves, Dump6Preserves, OtherTable DEF TrackerInv
    <2>5. CASE Observe
      BY <2>0, <2>5, ObserveTable, ObserveKeeps DEF TrackerInv
    <2>6. CASE Commit
      BY <2>0, <2>6, CommitTable, CommitKeeps DEF TrackerInv
    <2>7. CASE PublishSockets \/ StoreContexts \/ PublishSamples
      BY <2>0, <2>7, PublishSocketsKeeps, StoreContextsKeeps, PublishSamplesKeeps, OtherTable
         DEF TrackerInv
    <2> QED BY <1>2, <2>1, <2>2, <2>3, <2>4, <2>5, <2>6, <2>7 DEF Next, Reconcile
  <1> QED BY <1>1, <1>2, PTL DEF Spec

\* What publishCommitted() says of a socket's life is true: Closed is published
\* only of a socket the kernel closed, however many dumps fail, are stopped or
\* are rejected by a full table; and no sample is published before Active.
THEOREM ObservationsHold == Spec => []ObservationsAreTrue
  <1>1. ASSUME TrackerInv PROVE ObservationsAreTrue
    <2>1. ClosedMeansGone
      BY <1>1 DEF TrackerInv, SocketsInv, AnnouncedInv, Departs, ClosedMeansGone
    <2>2. AnnouncedBeforeSampled
      BY <1>1 DEF TrackerInv, SocketsInv, AnnouncedInv, AnnouncedBeforeSampled
    <2> QED BY <2>1, <2>2 DEF ObservationsAreTrue
  <1> QED BY <1>1, TrackerInvariant, PTL

\* The interval metrics publishCommitted() derives from tcp_baselines_ compare
\* the last two commits of one kernel socket, when it has a cookie.
THEOREM IntervalsHold == Spec => []IntervalsSpanOneSocket
  <1>1. ASSUME TrackerInv PROVE IntervalsSpanOneSocket
    BY <1>1 DEF TrackerInv, SocketsInv
  <1> QED BY <1>1, TrackerInvariant, PTL
=============================================================================
