-------------------------- MODULE SocketTrackerLemmas --------------------------
(***************************************************************************)
(* Lemmas about the socket tracker, for any sockets, tuples and cookies of *)
(* the kernel: what a dump lists, the invariant of the tracker apart from  *)
(* its table of identities, and that every step keeps it, whatever the     *)
(* table does within TableSummary.                                         *)
(***************************************************************************)
EXTENDS SocketTracker, TLAPS

-----------------------------------------------------------------------------
(* The answer to a dump request. *)

Information == Nat \cup {NoInfo}
DumpRecord == [socket : Sockets, info : Information]

LEMMA PairParts == ASSUME NEW a, NEW b, NEW p, p = <<a, b>> PROVE p[1] = a /\ p[2] = b
    OBVIOUS

-----------------------------------------------------------------------------
(* The invariant of the tracker, apart from its table. *)

\* The records of the running dump that are in the candidate.
Observed == {RecordOf(records[i].socket) : i \in 1 .. at}

EntryRecord(e) == [cookie |-> e.cookie, tuple |-> e.tuple]

TrackerTypes ==
    /\ kernel \in [Sockets -> {"new", "alive", "gone"}] /\ count \in [Sockets -> Nat]
    /\ pc \in {"idle", "dump6", "commit", "sockets", "contexts", "routes"}
    /\ records \in Seq(DumpRecord) /\ at \in 0 .. Len(records)
    /\ next_generation <= MaxGeneration + 1
    /\ sample \in [Generations -> Information] /\ baselines \in [Generations -> Information]
    /\ told \in [Generations -> {"nothing", "Active", "Closed"}]
    /\ owner \in [Generations -> Sockets \cup {0}]
    /\ history \in [Sockets -> Information \X Information]

Listed == {records[i].socket : i \in DOMAIN records}

\* No two sockets that are alive have one tuple.
Exclusive ==
    \A s, t \in Sockets : s # t /\ kernel[s] = "alive" /\ kernel[t] = "alive" => Tuple[s] # Tuple[t]

\* The two dumps of a round list sockets that were alive, no two with one tuple,
\* and every socket of the table that is still alive.
DumpsInv ==
    /\ Exclusive
    /\ pc # "commit" => at = 0
    /\ \A i, j \in DOMAIN records : i # j => Tuple[records[i].socket] # Tuple[records[j].socket]
    /\ \A s \in Listed : kernel[s] # "new"
    /\ pc = "dump6" => /\ Listed \cap Inet6 = {}
                       /\ \A e \in active : kernel[owner[e.gen]] = "alive"
                                               => owner[e.gen] \in Listed \cup Inet6
    /\ pc = "commit" => \A e \in active : kernel[owner[e.gen]] = "alive" => owner[e.gen] \in Listed

\* The owner of an active entry is a socket of the kernel with its record.
OwnersInv ==
    \A e \in active : /\ owner[e.gen] \in Sockets /\ kernel[owner[e.gen]] # "new"
                      /\ RecordOf(owner[e.gen]) = EntryRecord(e)

\* Active entries were announced, or are about to be; what was reported closed,
\* or is about to be, left the table for good and its owner is gone.
Departs(g) ==
    /\ g < next_generation /\ g \notin Table!Gens(active) \cup Table!Gens(pending)
    /\ owner[g] \in Sockets /\ kernel[owner[g]] = "gone"

AnnouncedInv ==
    /\ \A e \in active : told[e.gen] = "Active" \/ (pc = "sockets" /\ e \in fresh)
    /\ \A g \in Generations : told[g] = "Closed" => Departs(g)
    /\ pc = "sockets" => \A e \in gone : e.gen \in Generations /\ Departs(e.gen)

\* The samples of a socket with a cookie are those of its owner: the last one in
\* the table, and the one before as the baseline.
SamplesInv ==
    /\ \A g \in Generations \ Table!Gens(active) : sample[g] = NoInfo
    /\ \A e \in active : e.cookie # NoCookie => history[owner[e.gen]][2] = sample[e.gen]
    /\ pc \in {"idle", "dump6", "commit"} => baselines = sample
    /\ pc \in {"sockets", "contexts", "routes"} =>
          \A e \in active : e.cookie # NoCookie /\ baselines[e.gen] # NoInfo
                               => history[owner[e.gen]][1] = baselines[e.gen]
    /\ pc # "idle" => intervals = {}

SocketsInv ==
    /\ TrackerTypes /\ DumpsInv /\ OwnersInv /\ AnnouncedInv /\ SamplesInv /\ IntervalsSpanOneSocket

\* What the tracker relies on of the table: generations tell entries apart, the
\* candidate is made of observed records, and it keeps the entry of each of them.
TableSummary ==
    /\ next_generation \in Nat \ {0}
    /\ \A e \in active \cup pending : e.gen \in Nat \ {0} /\ e.gen < next_generation
    /\ \A e, f \in active \cup pending : e.gen = f.gen => e = f
    /\ \A e \in pending : EntryRecord(e) \in Observed
    /\ pc # "commit" => pending = {} /\ superseded = {}
    /\ Table!Unambiguous(Observed) => \A e \in active : EntryRecord(e) \in Observed => e \in pending
    /\ Table!Committed(active, pending, superseded) = pending

\* observe() puts in what was there or a new identity; a rejection aborts.
ObserveEffect ==
    /\ next_generation' \in Nat /\ next_generation <= next_generation'
    /\ \A e \in pending' : e \in active \cup pending \/ e.gen = next_generation
    /\ \/ at' = at + 1 /\ pc' = pc /\ records' = records
       \/ at' = 0 /\ pc' = "idle" /\ records' = <<>>
    /\ next_generation' <= MaxGeneration + 1

-----------------------------------------------------------------------------
(* It holds initially, and every step keeps it. *)

LEMMA SocketsInit == ASSUME Init PROVE SocketsInv
  <1>0. /\ pc = "idle" /\ records = <<>> /\ active = {} /\ next_generation = 1 /\ pending = {}
        /\ superseded = {} /\ at = 0 /\ intervals = {} /\ Observed = {}
    <2>1. 1 .. 0 = {}
      OBVIOUS
    <2> QED BY <2>1 DEF Init, Observed
  <1>1. TrackerTypes
    <2>1. MaxGeneration \in Nat
      BY TableConstants DEF Table!TableAssumption
    <2>2. records \in Seq(DumpRecord) /\ at \in 0 .. Len(records) /\ next_generation <= MaxGeneration + 1
      BY <1>0, <2>1
    <2>3. /\ kernel \in [Sockets -> {"new", "alive", "gone"}] /\ count \in [Sockets -> Nat]
          /\ sample \in [Generations -> Information] /\ baselines \in [Generations -> Information]
          /\ told \in [Generations -> {"nothing", "Active", "Closed"}]
          /\ owner \in [Generations -> Sockets \cup {0}]
          /\ history \in [Sockets -> Information \X Information]
      BY DEF Init, Information
    <2> QED BY <1>0, <2>2, <2>3 DEF TrackerTypes
  <1>3. DumpsInv /\ OwnersInv
    <2>1. Exclusive
      BY DEF Init, Exclusive
    <2> QED BY <1>0, <2>1 DEF DumpsInv, OwnersInv, Listed
  <1>4. AnnouncedInv
    BY <1>0 DEF AnnouncedInv, Init
  <1>5. SamplesInv /\ IntervalsSpanOneSocket
    BY <1>0 DEF SamplesInv, IntervalsSpanOneSocket, Init
  <1> QED BY <1>1, <1>3, <1>4, <1>5 DEF SocketsInv

LEMMA ListedTypes ==
    ASSUME TrackerTypes
    PROVE  /\ Listed \subseteq Sockets
           /\ \A i \in DOMAIN records : /\ records[i].socket \in Sockets /\ records[i].socket \in Listed
                                         /\ records[i].info \in Information
  <1>1. \A i \in DOMAIN records : records[i] \in DumpRecord
    BY DEF TrackerTypes
  <1> QED BY <1>1 DEF Listed, DumpRecord

\* Steps of the kernel: a socket that opens was never seen, one that is gone
\* stays gone.
rest == <<pc, records, active, next_generation, pending, superseded, at, sample, fresh, gone,
          baselines, told, owner, history, intervals>>

KernelMoves ==
    /\ kernel' \in [Sockets -> {"new", "alive", "gone"}] /\ count' \in [Sockets -> Nat]
    /\ Exclusive'
    /\ \A s \in Sockets : /\ kernel[s] = "gone" => kernel'[s] = "gone"
                          /\ kernel[s] # "new" => kernel'[s] # "new"
                          /\ kernel[s] # "new" /\ kernel'[s] = "alive" => kernel[s] = "alive"

LEMMA KernelPreserves == ASSUME SocketsInv, KernelMoves, UNCHANGED rest PROVE SocketsInv'
  <1>0. /\ TrackerTypes /\ DumpsInv /\ OwnersInv /\ AnnouncedInv
        /\ SamplesInv /\ IntervalsSpanOneSocket
    BY DEF SocketsInv
  <1>1. TrackerTypes'
    BY <1>0 DEF TrackerTypes, KernelMoves, rest
  <1>3. Listed' = Listed /\ Listed \subseteq Sockets
    BY <1>0, ListedTypes DEF rest, Listed
  <1>4. \A e \in active : kernel'[owner[e.gen]] = "alive" => kernel[owner[e.gen]] = "alive"
    BY <1>0 DEF OwnersInv, KernelMoves
  <1>5. DumpsInv'
    BY <1>0, <1>3, <1>4 DEF DumpsInv, KernelMoves, rest
  <1>6. OwnersInv'
    BY <1>0 DEF OwnersInv, KernelMoves, rest, EntryRecord
  <1>7. \A g : Departs(g) => Departs(g)'
    BY DEF Departs, KernelMoves, rest, Table!Gens
  <1>8. AnnouncedInv'
    BY <1>0, <1>7 DEF AnnouncedInv, rest
  <1>9. SamplesInv' /\ IntervalsSpanOneSocket'
    BY <1>0 DEF SamplesInv, IntervalsSpanOneSocket, rest, Table!Gens
  <1> QED BY <1>1, <1>5, <1>6, <1>8, <1>9 DEF SocketsInv

LEMMA KernelStepMoves ==
    ASSUME SocketsInv, NEW s \in Sockets, KernelOpens(s) \/ KernelCloses(s) \/ KernelCounts(s)
    PROVE  KernelMoves /\ UNCHANGED rest
  <1>1. kernel \in [Sockets -> {"new", "alive", "gone"}] /\ count \in [Sockets -> Nat] /\ Exclusive
    BY DEF SocketsInv, TrackerTypes, DumpsInv
  <1>2. CASE KernelOpens(s)
    <2>1. Exclusive'
      BY <1>1, <1>2 DEF KernelOpens, Exclusive
    <2> QED BY <1>1, <1>2, <2>1 DEF KernelOpens, KernelMoves, rest, table
  <1>3. CASE KernelCloses(s)
    <2>1. Exclusive'
      BY <1>1, <1>3 DEF KernelCloses, Exclusive
    <2> QED BY <1>1, <1>3, <2>1 DEF KernelCloses, KernelMoves, rest, table
  <1>4. CASE KernelCounts(s)
    <2>1. count' \in [Sockets -> Nat] /\ Exclusive'
      BY <1>1, <1>4 DEF KernelCounts, Exclusive
    <2> QED BY <1>1, <1>4, <2>1 DEF KernelCounts, KernelMoves, rest, table
  <1> QED BY <1>2, <1>3, <1>4

\* Steps that change none of this: of stop() and start(), of the worker that
\* publishes route contexts, and of the netlink worker.
LEMMA QuietPreserves ==
    ASSUME SocketsInv, UNCHANGED <<kernel, count>>, UNCHANGED rest
    PROVE  SocketsInv'
  <1>1. KernelMoves
    BY DEF SocketsInv, TrackerTypes, DumpsInv, Exclusive, KernelMoves
  <1> QED BY <1>1, KernelPreserves

LEMMA QuietSteps ==
    ASSUME Start \/ PublishContext \/ TopologyChanges \/ Recompute \/ UNCHANGED vars
    PROVE  UNCHANGED <<kernel, count>> /\ UNCHANGED rest
    BY DEF Start, PublishContext, TopologyChanges, Recompute, InstallTopology, StoreContext,
           PublishRecomputed, vars, rest, table, kernelVars

\* A dump that fails, or is stopped, throws away what it has read, or leaves it
\* to be overwritten by the next one.
LEMMA GivesUp == ASSUME SocketsInv, Stop \/ DumpFails PROVE SocketsInv'
  <1>0. /\ TrackerTypes /\ DumpsInv /\ OwnersInv /\ AnnouncedInv
        /\ SamplesInv /\ IntervalsSpanOneSocket
    BY DEF SocketsInv
  <1>1. /\ pc \in {"idle", "dump6"} /\ pc' = "idle" /\ records' \in {records, <<>>}
        /\ UNCHANGED <<kernel, count, active, next_generation, pending, superseded, at, sample,
                       fresh, gone, baselines, told, owner, history, intervals>>
    BY DEF Stop, DumpFails, AfterFailedDump, kernelVars, table
  <1>2. at = 0
    BY <1>0, <1>1 DEF DumpsInv
  <1>3. TrackerTypes'
    <2>1. records' \in Seq(DumpRecord)
      <3>1. records \in Seq(DumpRecord) /\ <<>> \in Seq(DumpRecord)
        BY <1>0 DEF TrackerTypes
      <3> QED BY <1>1, <3>1, Zenon
    <2>2. at' \in 0 .. Len(records')
      BY <1>1, <1>2, <2>1
    <2> QED BY <1>0, <1>1, <2>1, <2>2 DEF TrackerTypes
  <1>5. DumpsInv'
    <2>1. Exclusive' = Exclusive
      BY <1>1 DEF Exclusive
    <2>2. \A i \in DOMAIN records' : i \in DOMAIN records /\ records'[i] = records[i]
      BY <1>1
    <2> QED BY <1>0, <1>1, <1>2, <2>1, <2>2 DEF DumpsInv, Listed
  <1>6. OwnersInv'
    BY <1>0, <1>1 DEF OwnersInv, EntryRecord
  <1>7. AnnouncedInv'
    <2>1. \A g : Departs(g)' <=> Departs(g)
      BY <1>1 DEF Departs, Table!Gens
    <2> QED BY <1>0, <1>1, <2>1 DEF AnnouncedInv
  <1>8. SamplesInv' /\ IntervalsSpanOneSocket'
    BY <1>0, <1>1 DEF SamplesInv, IntervalsSpanOneSocket, Table!Gens
  <1> QED BY <1>3, <1>5, <1>6, <1>7, <1>8 DEF SocketsInv

\* A successful dump: only the records and the place change.
LEMMA DumpPreserves ==
    ASSUME SocketsInv, pc \in {"idle", "dump6"}, pc' \in {"dump6", "commit"},
           pc' = "commit" <=> pc = "dump6", intervals' = {},
           records' \in Seq(DumpRecord), DumpsInv',
           UNCHANGED <<kernel, count, active, next_generation, pending, superseded, at, sample,
                       fresh, gone, baselines, told, owner, history>>
    PROVE  SocketsInv'
  <1>0. /\ TrackerTypes /\ DumpsInv /\ OwnersInv /\ AnnouncedInv
        /\ SamplesInv /\ IntervalsSpanOneSocket
    BY DEF SocketsInv
  <1>1. at = 0
    BY <1>0 DEF DumpsInv
  <1>2. TrackerTypes'
    <2>1. at' \in 0 .. Len(records')
      BY <1>1
    <2> QED BY <1>0, <2>1 DEF TrackerTypes
  <1>4. OwnersInv'
    BY <1>0 DEF OwnersInv, EntryRecord
  <1>5. AnnouncedInv'
    <2>1. \A g : Departs(g)' <=> Departs(g)
      BY DEF Departs, Table!Gens
    <2> QED BY <1>0, <2>1 DEF AnnouncedInv
  <1>6. SamplesInv' /\ IntervalsSpanOneSocket'
    BY <1>0 DEF SamplesInv, IntervalsSpanOneSocket, Table!Gens
  <1> QED BY <1>2, <1>4, <1>5, <1>6 DEF SocketsInv


LEMMA ObserveKeeps == ASSUME SocketsInv, TableSummary, Observe, ObserveEffect PROVE SocketsInv'
  <1>0. /\ TrackerTypes /\ DumpsInv /\ OwnersInv /\ AnnouncedInv
        /\ SamplesInv /\ IntervalsSpanOneSocket
    BY DEF SocketsInv
  <1>1. /\ pc = "commit" /\ at < Len(records)
        /\ UNCHANGED <<kernel, count, active, sample, fresh, gone, baselines, told, owner, history,
                       intervals>>
    BY DEF Observe, kernelVars
  <1>2. /\ next_generation' \in Nat /\ next_generation <= next_generation'
        /\ \A e \in pending' : e \in active \cup pending \/ e.gen = next_generation
        /\ \/ /\ at' = at + 1 /\ pc' = pc /\ records' = records
           \/ /\ at' = 0 /\ pc' = "idle" /\ records' = <<>>
        /\ next_generation' <= MaxGeneration + 1
    BY DEF ObserveEffect
  <1>3. TrackerTypes'
    <2>1. records' \in Seq(DumpRecord)
      <3>1. records \in Seq(DumpRecord) /\ <<>> \in Seq(DumpRecord)
        BY <1>0 DEF TrackerTypes
      <3> QED BY <1>2, <3>1, Zenon
    <2>2. at' \in 0 .. Len(records')
      <3>1. at \in Nat /\ Len(records) \in Nat
        BY <1>0 DEF TrackerTypes
      <3>2. CASE at' = at + 1 /\ records' = records
        BY <1>1, <3>1, <3>2
      <3>3. CASE at' = 0 /\ records' = <<>>
        BY <3>3
      <3> QED BY <1>2, <3>2, <3>3
    <2> QED BY <1>0, <1>1, <1>2, <2>1, <2>2 DEF TrackerTypes
  <1>4. DumpsInv'
    <2>1. Exclusive' = Exclusive
      BY <1>1 DEF Exclusive
    <2>2. \A i \in DOMAIN records' : i \in DOMAIN records /\ records'[i] = records[i]
      BY <1>2
    <2>3. Listed' \subseteq Listed /\ (pc' = "commit" => Listed' = Listed)
      BY <1>1, <1>2 DEF Listed
    <2> QED BY <1>0, <1>1, <1>2, <2>1, <2>2, <2>3 DEF DumpsInv
  <1>5. OwnersInv'
    BY <1>0, <1>1 DEF OwnersInv, EntryRecord
  <1>6. AnnouncedInv'
    <2>1. ASSUME NEW g \in Generations, Departs(g) PROVE Departs(g)'
      <3>1. g \in Nat /\ next_generation \in Nat /\ g < next_generation
        BY <2>1 DEF Generations, Departs, TableSummary
      <3>2. g < next_generation'
        BY <1>2, <3>1
      <3>3. g \notin Table!Gens(active') /\ g \notin Table!Gens(pending')
        BY <1>1, <1>2, <2>1, <3>1 DEF Departs, Table!Gens
      <3> QED BY <1>1, <2>1, <3>2, <3>3 DEF Departs
    <2> QED BY <1>0, <1>1, <1>2, <2>1 DEF AnnouncedInv
  <1>7. SamplesInv' /\ IntervalsSpanOneSocket'
    BY <1>0, <1>1, <1>2 DEF SamplesInv, IntervalsSpanOneSocket, Table!Gens
  <1> QED BY <1>3, <1>4, <1>5, <1>6, <1>7 DEF SocketsInv

\* The dumps are unambiguous: the kernel gives no two living sockets one tuple,
\* and no two sockets one cookie.
LEMMA DumpsAreUnambiguous ==
    ASSUME TrackerTypes, DumpsInv
    PROVE  Table!Unambiguous(Observed)
  <1>1. \A i \in 1 .. at : i \in DOMAIN records
    BY DEF TrackerTypes
  <1>2. ASSUME NEW i \in 1 .. at, NEW j \in 1 .. at,
               RecordOf(records[i].socket) # RecordOf(records[j].socket)
        PROVE  /\ Tuple[records[i].socket] # Tuple[records[j].socket]
               /\ \/ Cookie[records[i].socket] # Cookie[records[j].socket]
                  \/ Cookie[records[i].socket] = NoCookie
    <2>1. /\ i \in DOMAIN records /\ j \in DOMAIN records /\ i # j
          /\ records[i].socket \in Sockets /\ records[j].socket \in Sockets
      BY <1>1, <1>2, ListedTypes
    <2>2. Tuple[records[i].socket] # Tuple[records[j].socket]
      BY <2>1 DEF DumpsInv
    <2> QED BY <2>1, <2>2, TrackerAssumption
  <1>3. ASSUME NEW x \in Observed, NEW y \in Observed, x # y
        PROVE  x.tuple # y.tuple /\ (x.cookie # y.cookie \/ x.cookie = NoCookie)
    <2>1. PICK i \in 1 .. at : x = RecordOf(records[i].socket)
      BY DEF Observed
    <2>2. PICK j \in 1 .. at : y = RecordOf(records[j].socket)
      BY DEF Observed
    <2> QED BY <1>2, <1>3, <2>1, <2>2 DEF RecordOf
  <1> QED BY <1>3 DEF Table!Unambiguous

\* A commit resolves every entry to the one record it was observed from.
LEMMA CommitOwners ==
    ASSUME TrackerTypes, TableSummary, DumpsInv, Commit, NEW e \in pending
    PROVE  \E i \in DOMAIN records :
              /\ e.gen \in Generations
              /\ RecordOf(records[i].socket) = EntryRecord(e)
              /\ owner'[e.gen] = records[i].socket /\ sample'[e.gen] = records[i].info
              /\ history'[records[i].socket] = <<history[records[i].socket][2], records[i].info>>
  <1>1. /\ pc = "commit" /\ at = Len(records) /\ records \in Seq(DumpRecord)
        /\ 1 .. at = DOMAIN records
    <2>1. pc = "commit" /\ at = Len(records)
      BY Zenon DEF Commit
    <2>2. records \in Seq(DumpRecord)
      BY DEF TrackerTypes
    <2> QED BY <2>1, <2>2
  <1>2. /\ EntryRecord(e) \in Observed
        /\ \A f \in pending : f.gen = e.gen => f = e
        /\ Table!Committed(active, pending, superseded) = pending
    BY DEF TableSummary
  <1>3. PICK i \in DOMAIN records : RecordOf(records[i].socket) = EntryRecord(e)
    BY <1>1, <1>2 DEF Observed
  <1>4. e.gen \in Generations
    <2>1. e.gen \in Nat \ {0} /\ next_generation \in Nat /\ e.gen < next_generation
          /\ next_generation <= MaxGeneration + 1
      BY DEF TrackerTypes, TableSummary
    <2>2. MaxGeneration \in Nat
      BY TableConstants DEF Table!TableAssumption
    <2> QED BY <2>1, <2>2 DEF Generations
  <1>5. (CHOOSE f \in pending : f.gen = e.gen) = e
    BY <1>2
  <1>6. \A j \in DOMAIN records : j # i => /\ Tuple[records[j].socket] # Tuple[records[i].socket]
                                           /\ records[j].socket # records[i].socket
    BY DEF DumpsInv
  <1>7. RecordFor(e) = i
    <2>1. \A j \in DOMAIN records : j # i => RecordOf(records[j].socket) # EntryRecord(e)
      BY <1>3, <1>6 DEF RecordOf
    <2>2. \A j \in DOMAIN records : j > i => j # i
      BY <1>1
    <2>3. EntryRecord(e) = [cookie |-> e.cookie, tuple |-> e.tuple]
      BY DEF EntryRecord
    <2> QED BY <1>3, <2>1, <2>2, <2>3 DEF RecordFor
  <1>8. e.gen \in Table!Gens(pending)
    BY DEF Table!Gens
  <1>9. owner'[e.gen] = records[i].socket /\ sample'[e.gen] = records[i].info
    BY <1>2, <1>4, <1>5, <1>7, <1>8 DEF Commit
  <1>10. history'[records[i].socket] = <<history[records[i].socket][2], records[i].info>>
    <2> DEFINE same == {j \in DOMAIN records : records[j].socket = records[i].socket}
    <2>1. same = {i}
      BY <1>6
    <2>2. records[i].socket \in Sockets
      BY ListedTypes
    <2>3. history'[records[i].socket] =
             <<history[records[i].socket][2],
               IF same = {} THEN NoInfo ELSE records[CHOOSE j \in same : TRUE].info>>
      BY <2>2 DEF Commit
    <2>4. (CHOOSE j \in same : TRUE) = i
      BY <2>1
    <2> QED BY <2>1, <2>3, <2>4
  <1> QED BY <1>3, <1>4, <1>9, <1>10

LEMMA CommitOthers ==
    ASSUME TableSummary, Commit, NEW g \in Generations, g \notin Table!Gens(pending)
    PROVE  owner'[g] = owner[g] /\ sample'[g] = NoInfo
    BY DEF Commit, TableSummary

LEMMA CommitDomains ==
    ASSUME Commit
    PROVE  /\ sample' = [g \in Generations |-> sample'[g]]
           /\ owner' = [g \in Generations |-> owner'[g]]
  <1>1. sample' = [g \in Generations |-> sample'[g]]
    BY DEF Commit
  <1>2. owner' = [g \in Generations |-> owner'[g]]
    BY DEF Commit
  <1> QED BY <1>1, <1>2

LEMMA CommitTypes ==
    ASSUME TrackerTypes, TableSummary, DumpsInv, Commit
    PROVE  TrackerTypes'
  <1>1. /\ pc' = "sockets" /\ records' = <<>> /\ at' = 0
        /\ UNCHANGED <<kernel, count, next_generation, baselines, told>>
    BY DEF Commit, kernelVars
  <1>2. ASSUME NEW g \in Generations
        PROVE  sample'[g] \in Information /\ owner'[g] \in Sockets \cup {0}
    <2>1. CASE g \in Table!Gens(pending)
      <3>1. PICK e \in pending : e.gen = g
        BY <2>1 DEF Table!Gens
      <3>2. PICK i \in DOMAIN records : owner'[g] = records[i].socket /\ sample'[g] = records[i].info
        BY <3>1, CommitOwners
      <3> QED BY <3>2, ListedTypes
    <2>2. CASE g \notin Table!Gens(pending)
      BY <2>2, CommitOthers DEF TrackerTypes, Information
    <2> QED BY <2>1, <2>2
  <1>3. /\ sample' = [g \in Generations |-> sample'[g]] /\ owner' = [g \in Generations |-> owner'[g]]
    BY CommitDomains
  <1>4. sample' \in [Generations -> Information] /\ owner' \in [Generations -> Sockets \cup {0}]
    BY <1>2, <1>3
  <1>5. history' \in [Sockets -> Information \X Information]
    <2> DEFINE same(s) == {j \in DOMAIN records : records[j].socket = s}
               info(s) == IF same(s) = {} THEN NoInfo ELSE records[CHOOSE j \in same(s) : TRUE].info
    <2>1. history' = [s \in Sockets |-> <<history[s][2], info(s)>>]
      BY DEF Commit
    <2>2. ASSUME NEW s \in Sockets PROVE info(s) \in Information
      <3>1. CASE same(s) = {}
        BY <3>1 DEF Information
      <3>2. CASE same(s) # {}
        <4>1. (CHOOSE j \in same(s) : TRUE) \in DOMAIN records
          BY <3>2
        <4> QED BY <3>2, <4>1, ListedTypes
      <3> QED BY <3>1, <3>2
    <2>3. \A s \in Sockets : history[s][2] \in Information
      BY DEF TrackerTypes
    <2> HIDE DEF info
    <2> QED BY <2>1, <2>2, <2>3
  <1>6. records' \in Seq(DumpRecord) /\ at' \in 0 .. Len(records')
    BY <1>1
  <1> QED BY <1>1, <1>4, <1>5, <1>6 DEF TrackerTypes

LEMMA CommitKeeps == ASSUME SocketsInv, TableSummary, Commit PROVE SocketsInv'
  <1>0. /\ TrackerTypes /\ DumpsInv /\ OwnersInv /\ AnnouncedInv
        /\ SamplesInv /\ IntervalsSpanOneSocket
    BY DEF SocketsInv
  <1>1. /\ pc = "commit" /\ at = Len(records) /\ pc' = "sockets" /\ records' = <<>> /\ at' = 0
        /\ pending' = {} /\ UNCHANGED <<kernel, count, next_generation, baselines, told, intervals>>
    BY DEF Commit, kernelVars
  <1>2. active' = pending /\ fresh' = pending \ active /\ gone' = active \ pending
    BY DEF Commit, Changed, TableSummary
  <1>3. /\ \A e \in active \cup pending : e.gen \in Nat \ {0} /\ e.gen < next_generation
        /\ \A e, f \in active \cup pending : e.gen = f.gen => e = f
        /\ \A e \in active : EntryRecord(e) \in Observed => e \in pending
    BY <1>0, DumpsAreUnambiguous DEF TableSummary
  <1>4. \A e \in active \cup pending : e.gen \in Generations
    <2>1. MaxGeneration \in Nat /\ next_generation \in Nat /\ next_generation <= MaxGeneration + 1
      BY <1>0, TableConstants DEF Table!TableAssumption, TrackerTypes, TableSummary
    <2> QED BY <1>3, <2>1 DEF Generations
  <1>5. TrackerTypes'
    BY <1>0, CommitTypes
  <1>6. DumpsInv'
    <2>1. Exclusive' = Exclusive
      BY <1>1 DEF Exclusive
    <2> QED BY <1>0, <1>1, <2>1 DEF DumpsInv, Listed
  <1>7. OwnersInv'
    <2>1. ASSUME NEW e \in pending
          PROVE  /\ owner'[e.gen] \in Sockets /\ kernel[owner'[e.gen]] # "new"
                 /\ RecordOf(owner'[e.gen]) = EntryRecord(e)
      <3>1. PICK i \in DOMAIN records : /\ RecordOf(records[i].socket) = EntryRecord(e)
                                        /\ owner'[e.gen] = records[i].socket
        BY <1>0, CommitOwners
      <3> QED BY <1>0, <3>1, ListedTypes DEF DumpsInv
    <2> QED BY <1>1, <1>2, <2>1 DEF OwnersInv, EntryRecord
  <1>8. AnnouncedInv'
    <2>1. ASSUME NEW g \in Generations, Departs(g) PROVE Departs(g)'
      BY <1>0, <1>1, <1>2, <2>1, CommitOthers DEF Departs, Table!Gens
    <2>2. ASSUME NEW e \in active \ pending PROVE e.gen \in Generations /\ Departs(e.gen)'
      <3>1. e.gen \in Generations /\ e.gen < next_generation /\ e.gen \notin Table!Gens(pending)
        BY <1>3, <1>4 DEF Table!Gens
      <3>2. owner'[e.gen] = owner[e.gen]
        BY <1>0, <3>1, CommitOthers
      <3>3. /\ owner[e.gen] \in Sockets /\ kernel[owner[e.gen]] \in {"alive", "gone"}
            /\ RecordOf(owner[e.gen]) = EntryRecord(e)
        BY <1>0 DEF OwnersInv, TrackerTypes
      <3>4. kernel[owner[e.gen]] # "alive"
        <4>1. SUFFICES ASSUME kernel[owner[e.gen]] = "alive" PROVE FALSE
          OBVIOUS
        <4>2. PICK i \in DOMAIN records : records[i].socket = owner[e.gen]
          BY <1>0, <1>1, <4>1 DEF DumpsInv, Listed
        <4>3. i \in 1 .. at
          BY <1>0, <1>1 DEF TrackerTypes
        <4>4. EntryRecord(e) \in Observed
          BY <3>3, <4>2, <4>3 DEF Observed
        <4> QED BY <1>3, <4>4
      <3> QED BY <1>1, <1>2, <3>1, <3>2, <3>3, <3>4 DEF Departs, Table!Gens
    <2>3. \A e \in pending : told[e.gen] = "Active" \/ e \in pending \ active
      BY <1>0, <1>1 DEF AnnouncedInv
    <2> QED BY <1>0, <1>1, <1>2, <2>1, <2>2, <2>3 DEF AnnouncedInv
  <1>9. SamplesInv'
    <2>1. \A g \in Generations \ Table!Gens(pending) : sample'[g] = NoInfo
      BY <1>0, CommitOthers
    <2>2. ASSUME NEW e \in pending, e.cookie # NoCookie
          PROVE  /\ history'[owner'[e.gen]][2] = sample'[e.gen]
                 /\ baselines[e.gen] # NoInfo => history'[owner'[e.gen]][1] = baselines[e.gen]
      <3>1. PICK i \in DOMAIN records :
               /\ RecordOf(records[i].socket) = EntryRecord(e)
               /\ owner'[e.gen] = records[i].socket /\ sample'[e.gen] = records[i].info
               /\ history'[records[i].socket] = <<history[records[i].socket][2], records[i].info>>
        BY <1>0, CommitOwners
      <3>2. baselines = sample
        BY <1>0, <1>1 DEF SamplesInv
      <3>3. CASE e \in active
        <4>1. owner[e.gen] \in Sockets /\ RecordOf(owner[e.gen]) = EntryRecord(e)
              /\ history[owner[e.gen]][2] = sample[e.gen]
          BY <1>0, <2>2, <3>3 DEF OwnersInv, SamplesInv
        <4>2. Cookie[owner[e.gen]] = Cookie[records[i].socket] /\ Cookie[owner[e.gen]] # NoCookie
          BY <2>2, <3>1, <4>1 DEF RecordOf, EntryRecord
        <4>3. owner[e.gen] = records[i].socket
          BY <1>0, <4>1, <4>2, ListedTypes, TrackerAssumption
        <4>4. /\ history'[owner'[e.gen]] = <<history[owner[e.gen]][2], records[i].info>>
              /\ sample'[e.gen] = records[i].info /\ baselines[e.gen] = sample[e.gen]
          BY Zenon, <3>1, <3>2, <4>3
        <4>5. /\ history'[owner'[e.gen]][1] = history[owner[e.gen]][2]
              /\ history'[owner'[e.gen]][2] = records[i].info
          <5>1. PICK t, x, y : /\ t = history'[owner'[e.gen]] /\ x = history[owner[e.gen]][2]
                               /\ y = records[i].info
            OBVIOUS
          <5>2. t = <<x, y>>
            BY Zenon, <4>4, <5>1
          <5>3. t[1] = x /\ t[2] = y
            BY <5>2, PairParts
          <5> QED BY Zenon, <5>1, <5>3
        <4> QED BY Zenon, <4>1, <4>4, <4>5
      <3>4. CASE e \notin active
        <4>1. e.gen \in Generations \ Table!Gens(active)
          BY <1>3, <1>4, <3>4 DEF Table!Gens
        <4>2. sample[e.gen] = NoInfo
          BY <1>0, <4>1 DEF SamplesInv
        <4>3. /\ history'[owner'[e.gen]] = <<history[records[i].socket][2], records[i].info>>
              /\ sample'[e.gen] = records[i].info /\ baselines[e.gen] = NoInfo
          BY Zenon, <3>1, <3>2, <4>2
        <4>4. history'[owner'[e.gen]][2] = records[i].info
          BY <4>3
        <4> QED BY Zenon, <4>3, <4>4
      <3> QED BY <3>3, <3>4
    <2>3. intervals' = {}
      BY <1>0, <1>1 DEF SamplesInv
    <2> QED BY <1>1, <1>2, <2>1, <2>2, <2>3 DEF SamplesInv, Table!Gens
  <1>10. IntervalsSpanOneSocket'
    BY <1>1 DEF IntervalsSpanOneSocket
  <1> QED BY <1>2, <1>5, <1>6, <1>7, <1>8, <1>9, <1>10 DEF SocketsInv

LEMMA PublishSocketsKeeps == ASSUME SocketsInv, TableSummary, PublishSockets PROVE SocketsInv'
  <1>0. /\ TrackerTypes /\ DumpsInv /\ OwnersInv /\ AnnouncedInv
        /\ SamplesInv /\ IntervalsSpanOneSocket
    BY DEF SocketsInv
  <1>1. /\ pc = "sockets" /\ pc' = "contexts"
        /\ told' = [g \in Generations |-> IF g \in Table!Gens(gone) THEN "Closed"
                                          ELSE IF g \in Table!Gens(fresh) THEN "Active" ELSE told[g]]
        /\ UNCHANGED <<kernel, count, records, active, next_generation, pending, superseded, at,
                       sample, gone, baselines, owner, history, intervals>>
    BY DEF PublishSockets, kernelVars, table
  <1>2. TrackerTypes'
    <2>1. told' \in [Generations -> {"nothing", "Active", "Closed"}]
      BY <1>0, <1>1 DEF TrackerTypes
    <2> QED BY <1>0, <1>1, <2>1 DEF TrackerTypes
  <1>4. DumpsInv' /\ OwnersInv'
    BY <1>0, <1>1 DEF DumpsInv, OwnersInv, Exclusive, Listed, EntryRecord
  <1>5. AnnouncedInv'
    <2>1. \A g : Departs(g)' <=> Departs(g)
      BY <1>1 DEF Departs, Table!Gens
    <2>2. \A e \in active : e.gen \in Generations
      <3>1. /\ MaxGeneration \in Nat /\ next_generation \in Nat /\ next_generation <= MaxGeneration + 1
            /\ \A e \in active : e.gen \in Nat \ {0} /\ e.gen < next_generation
        BY <1>0, TableConstants DEF Table!TableAssumption, TrackerTypes, TableSummary
      <3> QED BY <3>1 DEF Generations
    <2>3. \A g \in Table!Gens(gone) : Departs(g)
      BY <1>0, <1>1 DEF AnnouncedInv, Table!Gens
    <2>4. ASSUME NEW e \in active PROVE told'[e.gen] = "Active"
      <3>1. e.gen \in Generations /\ e.gen \notin Table!Gens(gone)
        BY <2>2, <2>3 DEF Departs, Table!Gens
      <3>2. told[e.gen] = "Active" \/ e.gen \in Table!Gens(fresh)
        BY <1>0 DEF AnnouncedInv, Table!Gens
      <3> QED BY <1>1, <3>1, <3>2
    <2>5. ASSUME NEW g \in Generations, told'[g] = "Closed" PROVE Departs(g)
      <3>1. g \in Table!Gens(gone) \/ told[g] = "Closed"
        BY <1>1, <2>5
      <3> QED BY <1>0, <2>3, <3>1 DEF AnnouncedInv
    <2> QED BY <1>1, <2>1, <2>4, <2>5 DEF AnnouncedInv
  <1>6. SamplesInv' /\ IntervalsSpanOneSocket'
    BY <1>0, <1>1 DEF SamplesInv, IntervalsSpanOneSocket, Table!Gens
  <1> QED BY <1>2, <1>4, <1>5, <1>6 DEF SocketsInv

LEMMA StoreContextsKeeps == ASSUME SocketsInv, StoreContexts PROVE SocketsInv'
  <1>0. /\ TrackerTypes /\ DumpsInv /\ OwnersInv /\ AnnouncedInv
        /\ SamplesInv /\ IntervalsSpanOneSocket
    BY DEF SocketsInv
  <1>1. /\ pc = "contexts" /\ pc' = "routes"
        /\ UNCHANGED <<kernel, count, records, active, next_generation, pending, superseded, at,
                       sample, fresh, gone, baselines, told, owner, history, intervals>>
    BY DEF StoreContexts, kernelVars, table
  <1>2. TrackerTypes'
    BY <1>0, <1>1 DEF TrackerTypes
  <1>3. DumpsInv' /\ OwnersInv'
    BY <1>0, <1>1 DEF DumpsInv, OwnersInv, Exclusive, Listed, EntryRecord
  <1>4. AnnouncedInv'
    <2>1. \A g : Departs(g)' <=> Departs(g)
      BY <1>1 DEF Departs, Table!Gens
    <2> QED BY <1>0, <1>1, <2>1 DEF AnnouncedInv
  <1>5. SamplesInv' /\ IntervalsSpanOneSocket'
    BY <1>0, <1>1 DEF SamplesInv, IntervalsSpanOneSocket, Table!Gens
  <1> QED BY <1>2, <1>3, <1>4, <1>5 DEF SocketsInv

LEMMA PublishSamplesKeeps == ASSUME SocketsInv, PublishSamples PROVE SocketsInv'
  <1>0. /\ TrackerTypes /\ DumpsInv /\ OwnersInv /\ AnnouncedInv
        /\ SamplesInv /\ IntervalsSpanOneSocket
    BY DEF SocketsInv
  <1>1. /\ pc = "routes" /\ pc' = "idle"
        /\ intervals' = {[gen |-> g, from |-> baselines[g], to |-> sample[g]] :
                            g \in {h \in Generations : baselines[h] # NoInfo /\ sample[h] # NoInfo}}
        /\ baselines' = [g \in Generations |-> BaselineAfter(g)]
        /\ UNCHANGED <<kernel, count, records, active, next_generation, pending, superseded, at,
                       sample, fresh, told, owner, history>>
    BY DEF PublishSamples, kernelVars, table
  <1>2. baselines' = sample
    <2>1. \A g \in Generations : BaselineAfter(g) = sample[g]
      BY <1>0 DEF BaselineAfter, SamplesInv
    <2> QED BY <1>0, <1>1, <2>1 DEF TrackerTypes
  <1>3. TrackerTypes'
    BY <1>0, <1>1, <1>2 DEF TrackerTypes
  <1>4. DumpsInv' /\ OwnersInv'
    BY <1>0, <1>1 DEF DumpsInv, OwnersInv, Exclusive, Listed, EntryRecord
  <1>5. AnnouncedInv'
    <2>1. \A g : Departs(g)' <=> Departs(g)
      BY <1>1 DEF Departs, Table!Gens
    <2> QED BY <1>0, <1>1, <2>1 DEF AnnouncedInv
  <1>6. SamplesInv'
    BY <1>0, <1>1, <1>2 DEF SamplesInv, Table!Gens
  <1>7. IntervalsSpanOneSocket'
    <2>1. SUFFICES ASSUME NEW m \in intervals', Cookie[owner[m.gen]] # NoCookie
                   PROVE  history[owner[m.gen]] = <<m.from, m.to>>
      BY <1>1 DEF IntervalsSpanOneSocket
    <2>2. PICK g \in Generations : /\ baselines[g] # NoInfo /\ sample[g] # NoInfo
                                   /\ m = [gen |-> g, from |-> baselines[g], to |-> sample[g]]
      BY <1>1
    <2>3. PICK e \in active : e.gen = g
      BY <1>0, <2>2 DEF SamplesInv, Table!Gens
    <2>4. owner[g] \in Sockets /\ e.cookie # NoCookie
      BY <1>0, <2>1, <2>2, <2>3 DEF OwnersInv, RecordOf, EntryRecord
    <2>5. history[owner[g]][1] = baselines[g] /\ history[owner[g]][2] = sample[g]
      BY <1>0, <1>1, <2>2, <2>3, <2>4 DEF SamplesInv
    <2>6. history[owner[g]] \in Information \X Information
      BY <1>0, <2>4 DEF TrackerTypes
    <2>7. PICK a \in Information, b \in Information : history[owner[g]] = <<a, b>>
      BY <2>6
    <2>8. a = baselines[g] /\ b = sample[g]
      BY <2>5, <2>7
    <2>9. m.gen = g /\ m.from = baselines[g] /\ m.to = sample[g]
      BY <2>2
    <2> QED BY Zenon, <2>7, <2>8, <2>9
  <1> QED BY <1>3, <1>4, <1>5, <1>6, <1>7 DEF SocketsInv

-----------------------------------------------------------------------------
(* What a dump lists: the answer to a request, and that the two requests keep *)
(* the invariant.                                                            *)

INSTANCE FiniteSetTheorems

\* Ascending lists every element of a finite set of integers once.
LEMMA AscendingLists ==
    ASSUME NEW S, IsFiniteSet(S), S \subseteq Int
    PROVE  /\ Ascending(S) \in Seq(S) /\ DOMAIN Ascending(S) = 1 .. Cardinality(S)
           /\ \A x \in S : \E i \in DOMAIN Ascending(S) : Ascending(S)[i] = x
           /\ \A i, j \in DOMAIN Ascending(S) : Ascending(S)[i] = Ascending(S)[j] => i = j
  <1> DEFINE n == Cardinality(S)
             below(x) == {y \in S : y < x}
             r == [x \in S |-> Cardinality(below(x))]
             A == Ascending(S)
  <1>1. n \in Nat
    BY FS_CardinalityType
  <1>2. \A x \in S : IsFiniteSet(below(x)) /\ Cardinality(below(x)) \in Nat
    BY FS_Subset, FS_CardinalityType
  <1>3. ASSUME NEW x \in S PROVE r[x] \in 0 .. n - 1
    <2>1. below(x) \in SUBSET S /\ below(x) # S
      OBVIOUS
    <2>2. Cardinality(below(x)) <= n /\ Cardinality(below(x)) # n
      BY <2>1, FS_Subset
    <2> QED BY <2>2, <1>1, <1>2
  <1>4. ASSUME NEW x \in S, NEW y \in S, x < y PROVE r[x] < r[y]
    <2>1. x \in Int /\ y \in Int /\ x \in below(y) /\ x \notin below(x)
      BY <1>4
    <2>2. below(x) \in SUBSET below(y)
      <3>1. ASSUME NEW z \in S, z < x PROVE z < y
        BY <3>1, <1>4
      <3> QED BY <3>1
    <2>3. Cardinality(below(x)) <= Cardinality(below(y)) /\ Cardinality(below(x)) # Cardinality(below(y))
      BY <2>1, <2>2, <1>2, FS_Subset
    <2> QED BY <2>3, <1>2
  <1>5. \A x, y \in S : r[x] = r[y] => x = y
    <2>1. SUFFICES ASSUME NEW x \in S, NEW y \in S, r[x] = r[y], x # y PROVE FALSE
      OBVIOUS
    <2>2. x < y \/ y < x
      BY <2>1
    <2>3. r[x] \in Int /\ r[y] \in Int
      BY <1>1, <1>3
    <2> QED BY <2>1, <2>2, <2>3, <1>4
  <1> DEFINE R == {r[x] : x \in S}
  <1>6. R = 0 .. n - 1
    <2>1. R \in SUBSET (0 .. n - 1)
      BY <1>3
    <2>2. r \in Bijection(S, R)
      <3>1. r \in [S -> R]
        OBVIOUS
      <3>2. \A z \in R : \E x \in S : r[x] = z
        OBVIOUS
      <3> HIDE DEF r, R
      <3> QED BY <3>1, <3>2, <1>5 DEF Bijection, Injection, Surjection, IsInjective
    <2>3. Cardinality(R) = n
      <3> HIDE DEF R, r
      <3>1. ExistsBijection(S, R)
        BY <2>2 DEF ExistsBijection
      <3> QED BY <3>1, FS_Bijection
    <2>4. IsFiniteSet(0 .. n - 1) /\ Cardinality(0 .. n - 1) = n
      BY <1>1, FS_Interval
    <2> HIDE DEF R, r
    <2> QED BY <2>1, <2>3, <2>4, FS_Subset
  <1>7. ASSUME NEW i \in 1 .. n PROVE A[i] \in S /\ r[A[i]] = i - 1
    <2>0. i - 1 \in 0 .. n - 1
      BY <1>1
    <2>1. i - 1 \in R
      BY <2>0, <1>6
    <2>2. PICK x \in S : Cardinality(below(x)) = i - 1
      BY <2>1
    <2>3. A[i] = CHOOSE y \in S : Cardinality(below(y)) = i - 1
      BY DEF Ascending
    <2>4. A[i] \in S /\ Cardinality(below(A[i])) = i - 1
      BY <2>2, <2>3
    <2> QED BY <2>4
  <1>8. A \in [1 .. n -> S]
    <2>1. \A i \in 1 .. n : A[i] \in S
      BY <1>7
    <2>2. PICK f : f = A
      OBVIOUS
    <2>3. f = [i \in 1 .. n |-> CHOOSE y \in S : Cardinality(below(y)) = i - 1]
      BY <2>2 DEF Ascending
    <2>4. \A i \in 1 .. n : (CHOOSE y \in S : Cardinality(below(y)) = i - 1) \in S
      BY <2>1 DEF Ascending
    <2>5. f \in [1 .. n -> S]
      BY <2>3, <2>4
    <2> QED BY <2>2, <2>5
  <1> HIDE DEF A, r
  <1>9. A \in Seq(S)
    BY <1>1, <1>8
  <1>10. ASSUME NEW x \in S PROVE \E i \in 1 .. n : A[i] = x
    <2>1. r[x] + 1 \in 1 .. n /\ (r[x] + 1) - 1 = r[x]
      BY <1>1, <1>3
    <2>2. A[r[x] + 1] \in S /\ r[A[r[x] + 1]] = r[x]
      BY <2>1, <1>7
    <2> QED BY <2>1, <2>2, <1>5
  <1>11. \A i, j \in 1 .. n : A[i] = A[j] => i = j
    <2>1. SUFFICES ASSUME NEW i \in 1 .. n, NEW j \in 1 .. n, A[i] = A[j] PROVE i = j
      OBVIOUS
    <2>2. i - 1 = j - 1
      BY <2>1, <1>7
    <2> QED BY <2>2, <1>1
  <1> QED BY <1>8, <1>9, <1>10, <1>11 DEF A

LEMMA AnswerLists ==
    ASSUME NEW family, NEW bare, count \in [Sockets -> Nat]
    PROVE  LET alive == {s \in Requested(family) : kernel[s] = "alive"}
               a == Answer(family, bare)
           IN  /\ a \in Seq(DumpRecord)
               /\ \A i \in DOMAIN a : a[i].socket \in alive
               /\ \A s \in alive : \E i \in DOMAIN a : a[i].socket = s
               /\ \A i, j \in DOMAIN a : i # j => a[i].socket # a[j].socket
  <1> DEFINE alive == {s \in Requested(family) : kernel[s] = "alive"}
             all == Ascending(alive)
             n == Cardinality(alive)
             a == Answer(family, bare)
             info(s) == IF s \in bare THEN NoInfo ELSE count[s]
  <1>1. Requested(family) \subseteq Sockets /\ Sockets \subseteq Int /\ IsFiniteSet(Sockets)
    <2>1. NumSockets \in Int /\ 1 \in Int
      BY TrackerAssumption
    <2>2. IsFiniteSet(1 .. NumSockets)
      BY <2>1, FS_Interval, Zenon
    <2>3. Requested(family) \subseteq Sockets
      BY TrackerAssumption, Zenon DEF Requested
    <2>4. Sockets \subseteq Int
      BY DEF Sockets
    <2> QED BY <2>2, <2>3, <2>4, Zenon DEF Sockets
  <1>2. alive \subseteq Sockets /\ alive \subseteq Int /\ IsFiniteSet(alive)
    BY <1>1, FS_Subset
  <1>3. n \in Nat
    BY <1>2, FS_CardinalityType
  <1> HIDE DEF alive
  <1>4. /\ \A i \in 1 .. n : all[i] \in alive
        /\ DOMAIN all = 1 .. n
        /\ \A x \in alive : \E i \in 1 .. n : all[i] = x
        /\ \A i, j \in 1 .. n : all[i] = all[j] => i = j
    <2>1. /\ all \in Seq(alive) /\ DOMAIN all = 1 .. n
          /\ \A x \in alive : \E i \in DOMAIN all : all[i] = x
          /\ \A i, j \in DOMAIN all : all[i] = all[j] => i = j
      BY <1>2, AscendingLists, Zenon
    <2> HIDE DEF all, n
    <2>2. \A i \in DOMAIN all : all[i] \in alive
      <3>1. all \in Seq(alive)
        BY <2>1
      <3> QED BY <3>1
    <2> QED BY <2>1, <2>2, Zenon
  <1>5. a = [i \in 1 .. n |-> [socket |-> all[i], info |-> info(all[i])]]
    BY <1>4 DEF Answer, alive
  <1> HIDE DEF all, a, n
  <1>6. ASSUME NEW i \in 1 .. n PROVE all[i] \in alive /\ a[i].socket = all[i] /\ a[i] \in DumpRecord
    <2>1. all[i] \in alive
      BY <1>4
    <2>2. info(all[i]) \in Information
      BY <2>1, <1>2 DEF Information
    <2> HIDE DEF info
    <2> QED BY <2>1, <2>2, <1>2, <1>5 DEF DumpRecord
  <1>7. a \in Seq(DumpRecord) /\ DOMAIN a = 1 .. n
    <2>1. DOMAIN a = 1 .. n /\ a = [i \in 1 .. n |-> a[i]]
      BY <1>5
    <2> QED BY <2>1, <1>3, <1>6
  <1>8. \A s \in alive : \E i \in DOMAIN a : a[i].socket = s
    BY <1>4, <1>6, <1>7
  <1>9. \A i, j \in DOMAIN a : i # j => a[i].socket # a[j].socket
    BY <1>4, <1>6, <1>7
  <1>10. \A i \in DOMAIN a : a[i].socket \in alive
    BY <1>6, <1>7
  <1> QED BY <1>7, <1>8, <1>9, <1>10, Zenon DEF a, alive

LEMMA Dump4Preserves == ASSUME SocketsInv, NEW bare, Dump4(bare) PROVE SocketsInv'
  <1> DEFINE alive == {s \in Sockets \ Inet6 : kernel[s] = "alive"}
  <1>0. TrackerTypes /\ DumpsInv /\ OwnersInv
    BY DEF SocketsInv
  <1>1. /\ pc = "idle" /\ pc' = "dump6" /\ records' = Answer(4, bare) /\ intervals' = {}
        /\ UNCHANGED <<kernel, count, active, next_generation, pending, superseded, at, sample,
                       fresh, gone, baselines, told, owner, history>>
    BY DEF Dump4, kernelVars, table
  <1>2. /\ records' \in Seq(DumpRecord)
        /\ \A i \in DOMAIN records' : records'[i].socket \in alive
        /\ \A s \in alive : \E i \in DOMAIN records' : records'[i].socket = s
        /\ \A i, j \in DOMAIN records' : i # j => records'[i].socket # records'[j].socket
    <2>1. Requested(4) = Sockets \ Inet6 /\ count \in [Sockets -> Nat]
      BY <1>0 DEF Requested, TrackerTypes
    <2> QED BY <1>1, <2>1, AnswerLists
  <1>3. Listed' = alive
    BY <1>2 DEF Listed
  <1>4. DumpsInv'
    <2>1. Exclusive /\ Exclusive'
      BY <1>0, <1>1 DEF DumpsInv, Exclusive
    <2>2. \A i, j \in DOMAIN records' : i # j => Tuple[records'[i].socket] # Tuple[records'[j].socket]
      BY <1>2, <2>1 DEF Exclusive
    <2>3. \A e \in active : kernel[owner[e.gen]] = "alive" => owner[e.gen] \in alive \cup Inet6
      BY <1>0 DEF OwnersInv
    <2> QED BY <1>0, <1>1, <1>3, <2>1, <2>2, <2>3 DEF DumpsInv
  <1> QED BY <1>1, <1>2, <1>4, DumpPreserves

LEMMA Dump6Preserves == ASSUME SocketsInv, NEW bare, Dump6(bare) PROVE SocketsInv'
  <1> DEFINE alive == {s \in Inet6 : kernel[s] = "alive"}
             a == Answer(6, bare)
             n == Len(records)
  <1>0. TrackerTypes /\ DumpsInv /\ OwnersInv /\ SamplesInv
    BY DEF SocketsInv
  <1>1. /\ pc = "dump6" /\ pc' = "commit" /\ records' = records \o a /\ intervals' = intervals
        /\ UNCHANGED <<kernel, count, active, next_generation, pending, superseded, at, sample,
                       fresh, gone, baselines, told, owner, history>>
    BY DEF Dump6, kernelVars, table
  <1>2. /\ a \in Seq(DumpRecord)
        /\ \A i \in DOMAIN a : a[i].socket \in alive
        /\ \A s \in alive : \E i \in DOMAIN a : a[i].socket = s
        /\ \A i, j \in DOMAIN a : i # j => a[i].socket # a[j].socket
    <2>1. Requested(6) = Inet6 /\ count \in [Sockets -> Nat]
      BY <1>0 DEF Requested, TrackerTypes
    <2> QED BY <2>1, AnswerLists
  <1> HIDE DEF a
  <1>3. records \in Seq(DumpRecord) /\ n \in Nat /\ Len(a) \in Nat
        /\ DOMAIN records = 1 .. n /\ DOMAIN a = 1 .. Len(a)
    BY <1>0, <1>2 DEF TrackerTypes
  <1>4. /\ records' \in Seq(DumpRecord) /\ DOMAIN records' = 1 .. n + Len(a)
        /\ \A i \in 1 .. n + Len(a) : records'[i] = IF i <= n THEN records[i] ELSE a[i - n]
    BY <1>1, <1>2, <1>3
  <1>5. \A i \in DOMAIN records' : \/ i \in DOMAIN records /\ records'[i] = records[i]
                                   \/ i > n /\ i - n \in DOMAIN a /\ records'[i] = a[i - n]
    BY <1>3, <1>4
  <1>6. Listed' = Listed \cup alive
    <2>1. Listed' \subseteq Listed \cup alive
      BY <1>2, <1>5 DEF Listed
    <2>2. \A i \in DOMAIN records : i \in DOMAIN records' /\ records'[i] = records[i]
      BY <1>3, <1>4
    <2>3. Listed \subseteq Listed'
      BY <2>2 DEF Listed
    <2>4. \A i \in DOMAIN a : i + n \in DOMAIN records' /\ records'[i + n] = a[i]
      BY <1>3, <1>4
    <2>5. alive \subseteq Listed'
      BY <1>2, <2>4 DEF Listed
    <2> QED BY <2>1, <2>3, <2>5
  <1>7. Listed \subseteq Sockets /\ Listed \cap Inet6 = {} /\ Inet6 \subseteq Sockets
    BY <1>0, <1>1, ListedTypes, TrackerAssumption DEF DumpsInv
  <1>8. DumpsInv'
    <2>1. Exclusive /\ Exclusive'
      BY <1>0, <1>1 DEF DumpsInv, Exclusive
    <2>2. ASSUME NEW i \in DOMAIN records', NEW j \in DOMAIN records', i # j
          PROVE  Tuple[records'[i].socket] # Tuple[records'[j].socket]
      <3>1. CASE i <= n /\ j <= n
        <4>1. i \in DOMAIN records /\ j \in DOMAIN records
              /\ records'[i] = records[i] /\ records'[j] = records[j]
          BY <3>1, <1>3, <1>4
        <4> QED BY <4>1, <2>2, <1>0 DEF DumpsInv
      <3>2. CASE i > n /\ j > n
        <4>1. i - n \in DOMAIN a /\ j - n \in DOMAIN a /\ i - n # j - n
              /\ records'[i] = a[i - n] /\ records'[j] = a[j - n]
          BY <3>2, <2>2, <1>3, <1>4
        <4>2. a[i - n].socket \in alive /\ a[j - n].socket \in alive /\ a[i - n].socket # a[j - n].socket
          BY <4>1, <1>2
        <4> QED BY <4>1, <4>2, <2>1, <1>7 DEF Exclusive
      <3>3. ASSUME NEW k \in DOMAIN records', NEW l \in DOMAIN records', k <= n, l > n
            PROVE  Tuple[records'[k].socket] # Tuple[records'[l].socket]
        <4>1. k \in DOMAIN records /\ l - n \in DOMAIN a
              /\ records'[k] = records[k] /\ records'[l] = a[l - n]
          BY <3>3, <1>3, <1>4
        <4>2. records[k].socket \in Sockets \ Inet6 /\ a[l - n].socket \in Inet6
          BY <4>1, <1>0, <1>2, <1>7, ListedTypes
        <4> QED BY <4>1, <4>2, TrackerAssumption
      <3>4. i \in Int /\ j \in Int
        BY <1>3, <1>4
      <3> QED BY <3>1, <3>2, <3>3, <3>4, <1>3
    <2>3. \A e \in active : kernel[owner[e.gen]] = "alive" => owner[e.gen] \in Listed \cup alive
      BY <1>0, <1>1 DEF DumpsInv
    <2> QED BY <1>0, <1>1, <1>6, <2>1, <2>2, <2>3 DEF DumpsInv
  <1>9. intervals' = {}
    BY <1>0, <1>1 DEF SamplesInv
  <1> QED BY <1>1, <1>4, <1>8, <1>9, DumpPreserves
=============================================================================
