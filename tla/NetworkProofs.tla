---------------------------- MODULE NetworkProofs ----------------------------
(***************************************************************************)
(* Proofs about the two parts that keep the state of the network: the      *)
(* RTNETLINK collector, for every set of links, addresses and routes,      *)
(* every length of the receive buffer, and any number of changes, failures *)
(* and restarts; and the V1 manager, for any list of interfaces and        *)
(* whatever the monitors measure.                                          *)
(***************************************************************************)
EXTENDS NetlinkCollector, NetworkManager, TLAPS

Operations == {"add", "delete"}
News == [type : {"notification", "garbled"}, op : Operations, fact : Facts]
Replies == [type : {"reply"}, facts : SUBSET Facts, interrupted : BOOLEAN]
Message == News \cup Replies \cup {Stale}

IsReply(m) == m.type = "reply"

CollectorTypes ==
    /\ kernel \in SUBSET Facts /\ queue \in Seq(Message) /\ overrun \in BOOLEAN
    /\ asked \in 0 .. 4 /\ dumping \in 0 .. 4
    /\ pc \in {"off", "begin", "idle", "dump", "dead"}
    /\ candidate \in SUBSET Facts /\ raced \in BOOLEAN
    /\ facts \in SUBSET Facts /\ authoritative \in BOOLEAN /\ degraded \in BOOLEAN
    /\ alarm \in BOOLEAN /\ missed \in BOOLEAN

\* A request is unanswered only while the worker waits in dump(); there is at
\* most one answer in the receive buffer, and none before the kernel gave it.
RequestInv ==
    /\ pc = "dump" => dumping # 0
    /\ asked # 0 => pc = "dump" /\ asked = dumping
    /\ \A i \in 1 .. Len(queue) : IsReply(queue[i]) => pc = "dump" /\ asked = 0
    /\ \A i, j \in 1 .. Len(queue) : IsReply(queue[i]) /\ IsReply(queue[j]) => i = j

\* What one unread message does to the kernel's state it is news of.
After(S, m) == IF m.type \in {"notification", "garbled"} THEN KernelApply(S, m) ELSE S

\* m takes the kernel from S to T; what it deletes was there.
Explains(S, m, T) ==
    /\ T = After(S, m)
    /\ m \in News /\ m.op = "delete" => m.fact \in S

\* t is the kernel's history along the unread messages of q.
Witnessed(S, q, t) ==
    /\ t \in [0 .. Len(q) -> SUBSET Facts] /\ t[0] = S
    /\ \A i \in 1 .. Len(q) : Explains(t[i - 1], q[i], t[i])

\* The unread messages of q lead from the state S to the state k.
Leads(S, q, k) == \E t : Witnessed(S, q, t) /\ t[Len(q)] = k

OfKinds(S, K) == {f \in S : KindOf(f) \in K}

\* The dumps so far and the answer at the head of the buffer are parts of one
\* state of the kernel, and everything that happened since is unread.
OneMoment(k) ==
    /\ candidate = OfKinds(k, 1 .. dumping - 1)
    /\ Head(queue).facts = OfKinds(k, {dumping})
    /\ Leads(k, Tail(queue), kernel)

\* A reconciliation that has met no notification: the kernel has not changed
\* since its begin, or not since it gave the answer that is read next.
DumpInv ==
    pc = "dump" /\ ~raced /\ ~overrun =>
        /\ queue = <<>> => candidate = OfKinds(kernel, 1 .. dumping - 1) /\ asked = dumping
        /\ queue # <<>> /\ IsReply(Head(queue)) => \E k \in SUBSET Facts : OneMoment(k)

\* Unless a change was missed, the unread messages lead from the model to the
\* kernel's state.  Without a socket everything is missed.
ModelInv ==
    /\ pc = "off" => missed
    /\ ~missed => Leads(facts, queue, kernel)

CollectorInv == CollectorTypes /\ RequestInv /\ DumpInv /\ ModelInv /\ MissedIsFlagged

-----------------------------------------------------------------------------
(* Messages and the states they lead to. *)

LEMMA MessageTypes ==
    /\ \A m \in News : /\ m.type \in {"notification", "garbled"} /\ ~IsReply(m) /\ m # Stale
                       /\ m.op \in Operations /\ m.fact \in Facts
    /\ \A m \in Replies : /\ m \notin News /\ m.type \notin {"notification", "garbled"} /\ IsReply(m)
                          /\ m.facts \in SUBSET Facts /\ m.interrupted \in BOOLEAN
    /\ Stale \notin News /\ ~IsReply(Stale) /\ Stale.type = "stale"
    BY DEF News, Replies, Stale, IsReply

LEMMA MessageCases ==
    ASSUME NEW m \in Message
    PROVE  /\ m.type \in {"notification", "garbled"} <=> m \in News
           /\ IsReply(m) <=> m \in Replies
           /\ m.type \in {"notification", "garbled", "reply", "stale"}
    BY MessageTypes DEF Message, IsReply

LEMMA ApplyTypes ==
    ASSUME NEW S \in SUBSET Facts, NEW op \in Operations, NEW f \in Facts,
           NEW m, m.op = op, m.fact = f
    PROVE  /\ Apply(S, m) \in SUBSET Facts
           /\ KernelApply(S, m) \in SUBSET Facts
  <1>1. Apply(S, m) \in SUBSET Facts
    <2>1. CASE op = "add" /\ f \in LinkFacts
      BY <2>1 DEF Apply
    <2>2. CASE op = "add" /\ f \notin LinkFacts
      BY <2>2 DEF Apply
    <2>3. CASE op = "delete" /\ f \in LinkFacts
      <3>1. f \notin Addresses /\ f \notin Routes
        BY <2>3, TopologyAssumption
      <3> QED BY <2>3, <3>1 DEF Apply
    <2>4. CASE op = "delete" /\ f \in Addresses
      <3>1. f \notin LinkFacts /\ f \notin Routes
        BY <2>4, TopologyAssumption
      <3> QED BY <2>4, <3>1 DEF Apply
    <2>5. CASE op = "delete" /\ f \in Routes
      <3>1. f \notin LinkFacts /\ f \notin Addresses
        BY <2>5, TopologyAssumption
      <3> QED BY <2>5, <3>1 DEF Apply
    <2> QED BY <2>1, <2>2, <2>3, <2>4, <2>5 DEF Operations, Facts
  <1> QED BY <1>1 DEF KernelApply

LEMMA AfterType ==
    ASSUME NEW S \in SUBSET Facts, NEW m \in Message
    PROVE  After(S, m) \in SUBSET Facts
    BY MessageCases, MessageTypes, ApplyTypes DEF After

LEMMA NewsAfter ==
    ASSUME NEW S, NEW m \in Message
    PROVE  After(S, m) = IF m \in News THEN KernelApply(S, m) ELSE S
    BY MessageCases DEF After

\* Two messages with the same news, or both without.
Alike(m, n) == (m \in News <=> n \in News) /\ (m \in News => m.op = n.op /\ m.fact = n.fact)

LEMMA AlikeExplains ==
    ASSUME NEW m \in Message, NEW n \in Message, Alike(m, n), NEW S, NEW T, Explains(S, m, T)
    PROVE  Explains(S, n, T)
  <1>1. ASSUME m \in News PROVE KernelApply(S, m) = KernelApply(S, n)
    <2> DEFINE op == m.op
               f == m.fact
    <2>1. m.op = op /\ m.fact = f /\ n.op = op /\ n.fact = f
      BY <1>1 DEF Alike
    <2> HIDE DEF op, f
    <2>2. Apply(S, m) = Apply(S, n)
      BY <2>1, Zenon DEF Apply
    <2> QED BY <2>1, <2>2, Zenon DEF KernelApply
  <1>2. After(S, m) = After(S, n)
    BY <1>1, NewsAfter DEF Alike
  <1> QED BY <1>2 DEF Explains, Alike

LEMMA LeadsTypes ==
    ASSUME NEW q \in Seq(Message), NEW S, NEW k, Leads(S, q, k)
    PROVE  S \in SUBSET Facts /\ k \in SUBSET Facts
  <1>1. PICK t : Witnessed(S, q, t) /\ t[Len(q)] = k
    BY DEF Leads
  <1>2. Len(q) \in Nat /\ 0 \in 0 .. Len(q) /\ Len(q) \in 0 .. Len(q)
    OBVIOUS
  <1> QED BY <1>1, <1>2 DEF Witnessed

LEMMA LeadsEmpty ==
    ASSUME NEW S \in SUBSET Facts
    PROVE  /\ Leads(S, <<>>, S)
           /\ \A k : Leads(S, <<>>, k) => k = S
  <1>1. Len(<<>>) = 0 /\ 0 .. 0 = {0} /\ 1 .. 0 = {}
    OBVIOUS
  <1>2. Witnessed(S, <<>>, [i \in 0 .. 0 |-> S])
    BY <1>1 DEF Witnessed
  <1> QED BY <1>1, <1>2 DEF Leads, Witnessed

LEMMA LeadsAppend ==
    ASSUME NEW q \in Seq(Message), NEW m \in Message, NEW S, NEW k, Leads(S, q, k),
           NEW T, Explains(k, m, T)
    PROVE  Leads(S, Append(q, m), T)
  <1>1. PICK t : Witnessed(S, q, t) /\ t[Len(q)] = k
    BY DEF Leads
  <1> DEFINE n == Len(q)
             u == [i \in 0 .. n + 1 |-> IF i = n + 1 THEN T ELSE t[i]]
  <1>2. n \in Nat /\ Len(Append(q, m)) = n + 1
    OBVIOUS
  <1>3. T \in SUBSET Facts
    BY LeadsTypes, AfterType DEF Explains
  <1>4. u \in [0 .. n + 1 -> SUBSET Facts] /\ u[0] = S
    BY <1>1, <1>2, <1>3 DEF Witnessed
  <1>5. ASSUME NEW i \in 1 .. n + 1 PROVE Explains(u[i - 1], Append(q, m)[i], u[i])
    <2>1. CASE i = n + 1
      <3>1. u[i - 1] = k /\ u[i] = T /\ Append(q, m)[i] = m
        BY <1>1, <1>2, <2>1
      <3> QED BY <3>1
    <2>2. CASE i # n + 1
      <3>1. i \in 1 .. n /\ u[i - 1] = t[i - 1] /\ u[i] = t[i] /\ Append(q, m)[i] = q[i]
        BY <1>2, <2>2
      <3> QED BY <3>1, <1>1 DEF Witnessed
    <2> QED BY <2>1, <2>2
  <1>6. u[n + 1] = T
    BY <1>2
  <1> HIDE DEF u
  <1> QED BY <1>2, <1>4, <1>5, <1>6 DEF Leads, Witnessed

LEMMA LeadsTail ==
    ASSUME NEW q \in Seq(Message), q # <<>>, NEW S, NEW k, Leads(S, q, k)
    PROVE  /\ Leads(After(S, Head(q)), Tail(q), k)
           /\ Explains(S, Head(q), After(S, Head(q)))
  <1>1. PICK t : Witnessed(S, q, t) /\ t[Len(q)] = k
    BY DEF Leads
  <1> DEFINE n == Len(q) - 1
             u == [i \in 0 .. n |-> t[i + 1]]
  <1>2. n \in Nat /\ Len(q) = n + 1 /\ Len(Tail(q)) = n /\ Head(q) = q[1] /\ Tail(q) \in Seq(Message)
    OBVIOUS
  <1>3. Explains(S, Head(q), t[1])
    <2>1. 1 \in 1 .. Len(q) /\ 1 - 1 = 0
      BY <1>2
    <2>2. Explains(t[1 - 1], q[1], t[1])
      BY <1>1, <2>1 DEF Witnessed
    <2> QED BY <2>1, <2>2, <1>1, <1>2 DEF Witnessed
  <1>4. u \in [0 .. n -> SUBSET Facts] /\ u[0] = t[1] /\ u[n] = k
    BY <1>1, <1>2 DEF Witnessed
  <1>5. ASSUME NEW i \in 1 .. n PROVE Explains(u[i - 1], Tail(q)[i], u[i])
    <2>1. i + 1 \in 1 .. Len(q) /\ u[i - 1] = t[i] /\ u[i] = t[i + 1] /\ Tail(q)[i] = q[i + 1]
          /\ (i + 1) - 1 = i
      BY <1>2
    <2> QED BY <2>1, <1>1 DEF Witnessed
  <1> HIDE DEF u
  <1>6. Witnessed(t[1], Tail(q), u)
    BY <1>2, <1>4, <1>5 DEF Witnessed
  <1> QED BY <1>2, <1>3, <1>4, <1>6 DEF Leads, Explains

LEMMA LeadsAlike ==
    ASSUME NEW q \in Seq(Message), NEW p \in Seq(Message), Len(p) = Len(q),
           \A i \in 1 .. Len(q) : Alike(q[i], p[i]),
           NEW S, NEW k, Leads(S, q, k)
    PROVE  Leads(S, p, k)
  <1>1. PICK t : Witnessed(S, q, t) /\ t[Len(q)] = k
    BY DEF Leads
  <1>2. ASSUME NEW i \in 1 .. Len(q) PROVE Explains(t[i - 1], p[i], t[i])
    <2>1. q[i] \in Message /\ p[i] \in Message /\ Alike(q[i], p[i])
      OBVIOUS
    <2>2. Explains(t[i - 1], q[i], t[i])
      BY <1>1 DEF Witnessed
    <2> QED BY <2>1, <2>2, AlikeExplains
  <1> QED BY <1>1, <1>2 DEF Leads, Witnessed

LEMMA Kinds ==
    ASSUME NEW f \in Facts PROVE KindOf(f) \in 1 .. 4
  <1>1. CASE f \in LinkFacts
    BY <1>1, TopologyAssumption DEF KindOf
  <1>2. CASE f \in Addresses
    BY <1>2, TopologyAssumption DEF KindOf
  <1>3. CASE f \in Routes \ Inet6
    BY <1>3, TopologyAssumption DEF KindOf
  <1>4. CASE f \in Inet6
    BY <1>4, TopologyAssumption DEF KindOf
  <1> QED BY <1>1, <1>2, <1>3, <1>4 DEF Facts

-----------------------------------------------------------------------------
(* The invariant holds initially, and every step keeps it. *)

LEMMA CollectorInit == ASSUME Init PROVE CollectorInv
  <1>1. CollectorTypes
    <2>1. /\ kernel \in SUBSET Facts /\ queue \in Seq(Message) /\ asked \in 0 .. 4
          /\ dumping \in 0 .. 4 /\ candidate \in SUBSET Facts /\ facts \in SUBSET Facts
      BY DEF Init
    <2>2. /\ pc \in {"off", "begin", "idle", "dump", "dead"}
          /\ overrun \in BOOLEAN /\ raced \in BOOLEAN /\ authoritative \in BOOLEAN
          /\ degraded \in BOOLEAN /\ alarm \in BOOLEAN /\ missed \in BOOLEAN
      BY Zenon DEF Init
    <2> QED BY <2>1, <2>2 DEF CollectorTypes
  <1>2. RequestInv
    BY DEF Init, RequestInv
  <1>3. DumpInv /\ ModelInv /\ MissedIsFlagged
    BY DEF Init, DumpInv, ModelInv, MissedIsFlagged
  <1> QED BY <1>1, <1>2, <1>3 DEF CollectorInv

LEMMA NotificationIsNews ==
    ASSUME NEW op \in Operations, NEW f \in Facts
    PROVE  Notification(op, f) \in News /\ Notification(op, f) \in Message
           /\ Notification(op, f).op = op /\ Notification(op, f).fact = f
           /\ Notification(op, f).type = "notification"
    BY DEF Notification, News, Message

LEMMA ChangePreserves ==
    ASSUME CollectorInv, NEW op \in Operations, NEW f \in Facts, KernelChange(op, f)
    PROVE  CollectorInv'
  <1> DEFINE m == Notification(op, f)
  <1>0. CollectorTypes /\ RequestInv /\ DumpInv /\ ModelInv /\ MissedIsFlagged
    BY DEF CollectorInv
  <1>1. m \in News /\ m \in Message /\ m.op = op /\ m.fact = f /\ ~IsReply(m)
    BY NotificationIsNews, MessageTypes
  <1> HIDE DEF m
  <1>2. /\ kernel' = KernelApply(kernel, m) /\ (op = "delete" => f \in kernel)
        /\ \/ pc = "off" /\ missed' = TRUE /\ queue' = queue /\ overrun' = overrun
           \/ pc # "off" /\ queue' = Append(queue, m) /\ overrun' = overrun /\ missed' = missed
           \/ pc # "off" /\ overrun' = TRUE /\ missed' = TRUE /\ queue' = queue
        /\ UNCHANGED <<asked, pc, dumping, candidate, raced, facts, authoritative, degraded, alarm>>
    <2>1. kernel' = KernelApply(kernel, m) /\ Possible(m)
      BY DEF KernelChange, m
    <2>2. op = "delete" => f \in kernel
      BY <2>1, <1>1 DEF Possible
    <2>3. \/ pc = "off" /\ missed' = TRUE /\ queue' = queue /\ overrun' = overrun
          \/ pc # "off" /\ queue' = Append(queue, m) /\ overrun' = overrun /\ missed' = missed
          \/ pc # "off" /\ overrun' = TRUE /\ missed' = TRUE /\ queue' = queue
      BY DEF KernelChange, m
    <2>4. UNCHANGED <<asked, pc, dumping, candidate, raced, facts, authoritative, degraded, alarm>>
      BY DEF KernelChange, snapshot
    <2> QED BY <2>1, <2>2, <2>3, <2>4
  <1>3. kernel \in SUBSET Facts /\ queue \in Seq(Message) /\ kernel' \in SUBSET Facts
    BY <1>0, <1>1, <1>2, ApplyTypes DEF CollectorTypes
  <1>4. Explains(kernel, m, kernel')
    BY <1>1, <1>2, NewsAfter DEF Explains
  <1>5. queue' = queue \/ queue' = Append(queue, m)
    BY <1>2
  <1>6. CollectorTypes'
    <2>1. queue' \in Seq(Message)
      BY <1>1, <1>3, <1>5
    <2>2. overrun' \in BOOLEAN /\ missed' \in BOOLEAN
      BY <1>0, <1>2, Zenon DEF CollectorTypes
    <2> QED BY <1>0, <1>2, <1>3, <2>1, <2>2 DEF CollectorTypes
  <1>7. RequestInv'
    <2>1. Append(queue, m) \in Seq(Message) /\ Len(Append(queue, m)) = Len(queue) + 1
          /\ \A i \in 1 .. Len(queue) + 1 :
                Append(queue, m)[i] = IF i = Len(queue) + 1 THEN m ELSE queue[i]
      BY <1>1, <1>3
    <2>2. \A i \in 1 .. Len(queue') : IsReply(queue'[i]) => i \in 1 .. Len(queue) /\ queue'[i] = queue[i]
      BY <1>1, <1>3, <1>5, <2>1
    <2> QED BY <1>0, <1>2, <2>2 DEF RequestInv
  <1>8. DumpInv'
    <2> SUFFICES ASSUME pc' = "dump", ~raced', ~overrun' PROVE DumpInv'
      BY DEF DumpInv
    <2>1. pc = "dump" /\ ~raced /\ ~overrun /\ queue' = Append(queue, m)
      BY <1>2
    <2>2. queue' # <<>>
      BY <2>1, <1>3, <1>1
    <2>3. ASSUME IsReply(Head(queue')) PROVE \E k \in SUBSET Facts : OneMoment(k)'
      <3>1. queue # <<>>
        BY <2>1, <2>3, <1>1
      <3>2. Head(queue') = Head(queue) /\ Tail(queue') = Append(Tail(queue), m)
            /\ Tail(queue) \in Seq(Message)
        BY <2>1, <3>1, <1>3, <1>1
      <3>3. PICK k \in SUBSET Facts : OneMoment(k)
        BY <1>0, <2>1, <3>1, <3>2, <2>3 DEF DumpInv
      <3>4. Leads(k, Tail(queue'), kernel')
        BY <3>2, <3>3, <1>1, <1>4, LeadsAppend DEF OneMoment
      <3> QED BY <3>2, <3>3, <3>4, <1>2 DEF OneMoment
    <2> QED BY <2>2, <2>3 DEF DumpInv
  <1>9. ModelInv'
    <2> SUFFICES ASSUME ~missed' PROVE Leads(facts', queue', kernel')
      BY <1>0, <1>2 DEF ModelInv
    <2>1. ~missed /\ queue' = Append(queue, m) /\ facts' = facts
      BY <1>2
    <2> QED BY <2>1, <1>0, <1>1, <1>3, <1>4, LeadsAppend DEF ModelInv
  <1>10. MissedIsFlagged'
    <2>1. CASE pc = "off"
      BY <2>1, <1>2 DEF MissedIsFlagged
    <2>2. CASE missed' = missed
      BY <2>2, <1>0, <1>2 DEF MissedIsFlagged
    <2>3. CASE overrun' = TRUE
      BY <2>3 DEF MissedIsFlagged
    <2> QED BY <1>2, <2>1, <2>2, <2>3
  <1> QED BY <1>6, <1>7, <1>8, <1>9, <1>10 DEF CollectorInv

LEMMA GarblePreserves == ASSUME CollectorInv, KernelGarbles PROVE CollectorInv'
  <1> DEFINE n == Len(queue)
             m == queue[n]
  <1>0. CollectorTypes /\ RequestInv /\ DumpInv /\ ModelInv /\ MissedIsFlagged
    BY DEF CollectorInv
  <1>1. queue \in Seq(Message) /\ queue # <<>> /\ n \in Nat \ {0} /\ n \in 1 .. n
    BY <1>0 DEF CollectorTypes, KernelGarbles
  <1>2. m \in News
    BY <1>1, MessageCases DEF KernelGarbles
  <1>3. Garbled(m) \in News /\ Garbled(m).op = m.op /\ Garbled(m).fact = m.fact
    BY <1>2 DEF Garbled, News
  <1>4. queue' = [queue EXCEPT ![n] = Garbled(m)]
    BY DEF KernelGarbles
  <1>5. queue' \in Seq(Message) /\ Len(queue') = n
        /\ \A i \in 1 .. n : queue'[i] = IF i = n THEN Garbled(m) ELSE queue[i]
    <2>1. Garbled(m) \in Message
      BY <1>3 DEF Message
    <2> QED BY <1>1, <1>4, <2>1
  <1>6. \A i \in 1 .. n : Alike(queue[i], queue'[i])
    BY <1>2, <1>3, <1>5 DEF Alike
  <1>7. \A i \in 1 .. n : IsReply(queue'[i]) <=> IsReply(queue[i])
    BY <1>2, <1>3, <1>5, MessageTypes
  <1>8. UNCHANGED <<kernel, overrun, asked, pc, dumping, candidate, raced, facts, authoritative,
                    degraded, alarm, missed>>
    BY DEF KernelGarbles, snapshot
  <1>9. CollectorTypes'
    BY <1>0, <1>5, <1>8 DEF CollectorTypes
  <1>10. RequestInv'
    BY <1>0, <1>5, <1>7, <1>8 DEF RequestInv
  <1>11. DumpInv'
    <2> SUFFICES ASSUME pc' = "dump", ~raced', ~overrun' PROVE DumpInv'
      BY DEF DumpInv
    <2>1. pc = "dump" /\ ~raced /\ ~overrun /\ queue' # <<>>
      BY <1>1, <1>5, <1>8
    <2>2. ASSUME IsReply(Head(queue')) PROVE \E k \in SUBSET Facts : OneMoment(k)'
      <3>1. Head(queue') = queue'[1] /\ Head(queue) = queue[1] /\ 1 \in 1 .. n
        BY <1>1, <1>5, <2>1
      <3>2. IsReply(queue[1])
        BY <3>1, <1>7, <2>2
      <3>3. n # 1
        BY <3>2, <1>2, MessageTypes
      <3>4. Head(queue') = Head(queue)
        BY <3>1, <3>3, <1>5
      <3>5. /\ Tail(queue) \in Seq(Message) /\ Tail(queue') \in Seq(Message)
            /\ Len(Tail(queue)) = n - 1 /\ Len(Tail(queue')) = n - 1
            /\ \A i \in 1 .. n - 1 : /\ i + 1 \in 1 .. n
                                     /\ Tail(queue)[i] = queue[i + 1] /\ Tail(queue')[i] = queue'[i + 1]
        BY <1>1, <1>5, <2>1
      <3>6. PICK k \in SUBSET Facts : OneMoment(k)
        BY <1>0, <2>1, <1>1, <3>1, <3>2 DEF DumpInv
      <3>7. Leads(k, Tail(queue'), kernel)
        BY <3>5, <3>6, <1>6, LeadsAlike DEF OneMoment
      <3> QED BY <3>4, <3>6, <3>7, <1>8 DEF OneMoment
    <2> QED BY <2>1, <2>2 DEF DumpInv
  <1>12. ModelInv'
    BY <1>0, <1>1, <1>5, <1>6, <1>8, LeadsAlike DEF ModelInv
  <1>13. MissedIsFlagged'
    BY <1>0, <1>8 DEF MissedIsFlagged
  <1> QED BY <1>9, <1>10, <1>11, <1>12, <1>13 DEF CollectorInv

LEMMA AnswerPreserves ==
    ASSUME CollectorInv, NEW intr \in BOOLEAN, KernelAnswers(intr)
    PROVE  CollectorInv'
  <1> DEFINE m == Reply(OfKinds(kernel, {asked}), intr)
  <1>0. CollectorTypes /\ RequestInv /\ DumpInv /\ ModelInv /\ MissedIsFlagged
    BY DEF CollectorInv
  <1>1. asked # 0 /\ asked = dumping /\ pc = "dump" /\ dumping \in 1 .. 4
    BY <1>0 DEF KernelAnswers, RequestInv, CollectorTypes
  <1>2. kernel \in SUBSET Facts /\ queue \in Seq(Message)
    BY <1>0 DEF CollectorTypes
  <1>3. m \in Message /\ m \notin News /\ IsReply(m) /\ m.facts = OfKinds(kernel, {dumping})
    <2>1. m \in Replies /\ m.facts = OfKinds(kernel, {asked})
      BY <1>2 DEF Reply, Replies, OfKinds
    <2> QED BY <2>1, <1>1, MessageTypes DEF Message
  <1>4. queue' = Append(queue, m)
    <2>1. {f \in kernel : KindOf(f) = asked} = OfKinds(kernel, {asked})
      BY DEF OfKinds
    <2> QED BY <2>1 DEF KernelAnswers
  <1>5. asked' = 0 /\ UNCHANGED <<kernel, overrun, pc, dumping, candidate, raced, facts,
                                  authoritative, degraded, alarm, missed>>
    BY DEF KernelAnswers, snapshot
  <1> HIDE DEF m
  <1>6. /\ queue' \in Seq(Message) /\ Len(queue') = Len(queue) + 1
        /\ \A i \in 1 .. Len(queue) + 1 : queue'[i] = IF i = Len(queue) + 1 THEN m ELSE queue[i]
    BY <1>2, <1>3, <1>4
  <1>7. Explains(kernel, m, kernel)
    BY <1>3, NewsAfter DEF Explains
  <1>8. CollectorTypes'
    BY <1>0, <1>5, <1>6 DEF CollectorTypes
  <1>9. RequestInv'
    <2>1. \A i \in 1 .. Len(queue) : ~IsReply(queue[i])
      BY <1>0, <1>1 DEF RequestInv
    <2>2. \A i \in 1 .. Len(queue') : IsReply(queue'[i]) => i = Len(queue) + 1
      BY <2>1, <1>2, <1>6
    <2> QED BY <2>2, <1>0, <1>1, <1>5 DEF RequestInv
  <1>10. DumpInv'
    <2> SUFFICES ASSUME pc' = "dump", ~raced', ~overrun' PROVE DumpInv'
      BY DEF DumpInv
    <2>1. ~raced /\ ~overrun /\ queue' # <<>>
      BY <1>2, <1>5, <1>6
    <2>2. ASSUME IsReply(Head(queue')) PROVE OneMoment(kernel)'
      <3>1. queue = <<>>
        <4>1. SUFFICES ASSUME queue # <<>> PROVE FALSE
          OBVIOUS
        <4>2. 1 \in 1 .. Len(queue) /\ queue'[1] = queue[1] /\ Head(queue') = queue'[1]
          BY <4>1, <1>2, <1>6, <2>1
        <4> QED BY <4>2, <2>2, <1>0, <1>1 DEF RequestInv
      <3>2. Head(queue') = m /\ Tail(queue') = <<>>
        BY <3>1, <1>3, <1>4
      <3>3. candidate = OfKinds(kernel, 1 .. dumping - 1)
        BY <3>1, <2>1, <1>0, <1>1 DEF DumpInv
      <3> QED BY <3>2, <3>3, <1>2, <1>3, <1>5, LeadsEmpty DEF OneMoment
    <2> QED BY <2>1, <2>2, <1>2, <1>5 DEF DumpInv
  <1>11. ModelInv'
    BY <1>0, <1>2, <1>3, <1>4, <1>5, <1>7, LeadsAppend DEF ModelInv
  <1>12. MissedIsFlagged'
    BY <1>0, <1>5 DEF MissedIsFlagged
  <1> QED BY <1>8, <1>9, <1>10, <1>11, <1>12 DEF CollectorInv

\* What an abandoned reconciliation leaves in the receive buffer: no answer
\* that could be taken for the next one's, and all the news.
LEMMA FailedQueue ==
    ASSUME NEW q \in Seq(Message), ReconcileFails(q)
    PROVE  /\ queue' \in Seq(Message)
           /\ \A i \in 1 .. Len(queue') : ~IsReply(queue'[i])
           /\ \A S, k : Leads(S, q, k) => Leads(S, queue', k)
  <1> DEFINE p == Abandon(q)
  <1>1. DOMAIN q = 1 .. Len(q) /\ Len(q) \in Nat
    OBVIOUS
  <1>2. Stale \in Message
    BY DEF Message
  <1>3. \A i \in 1 .. Len(q) : p[i] = IF IsReply(q[i]) THEN Stale ELSE q[i]
    BY <1>1 DEF Abandon, IsReply
  <1>4. p \in Seq(Message) /\ Len(p) = Len(q)
    <2>1. \A i \in 1 .. Len(q) : p[i] \in Message
      BY <1>2, <1>3
    <2>2. p = [i \in 1 .. Len(q) |-> p[i]]
      BY <1>1 DEF Abandon
    <2> HIDE DEF p
    <2> QED BY <1>1, <2>1, <2>2
  <1>5. \A i \in 1 .. Len(q) : Alike(q[i], p[i])
    <2>1. SUFFICES ASSUME NEW i \in 1 .. Len(q) PROVE Alike(q[i], p[i])
      OBVIOUS
    <2>2. q[i] \in Message
      OBVIOUS
    <2> QED BY <2>2, <1>3, MessageCases, MessageTypes DEF Alike
  <1>6. \A i \in 1 .. Len(p) : ~IsReply(p[i])
    BY <1>3, <1>4, MessageTypes
  <1>7. \A S, k : Leads(S, q, k) => Leads(S, p, k)
    BY <1>4, <1>5, LeadsAlike
  <1>8. queue' = p \/ queue' = Append(p, Stale)
    BY DEF ReconcileFails
  <1> HIDE DEF p
  <1>9. CASE queue' = p
    BY <1>9, <1>4, <1>6, <1>7
  <1>10. CASE queue' = Append(p, Stale)
    <2>1. /\ queue' \in Seq(Message) /\ Len(queue') = Len(p) + 1
          /\ \A i \in 1 .. Len(p) + 1 : queue'[i] = IF i = Len(p) + 1 THEN Stale ELSE p[i]
      BY <1>10, <1>2, <1>4
    <2>2. \A i \in 1 .. Len(queue') : ~IsReply(queue'[i])
      BY <2>1, <1>4, <1>6, MessageTypes
    <2>3. ASSUME NEW S, NEW k, Leads(S, q, k) PROVE Leads(S, queue', k)
      <3>1. Explains(k, Stale, k)
        BY <1>2, NewsAfter, MessageTypes DEF Explains
      <3> QED BY <3>1, <1>2, <1>4, <1>7, <1>10, <2>3, LeadsAppend
    <2> QED BY <2>1, <2>2, <2>3
  <1> QED BY <1>8, <1>9, <1>10

\* The worker gives up a reconciliation and is idle again.
LEMMA GiveUpPreserves ==
    ASSUME CollectorInv, NEW q \in Seq(Message), ReconcileFails(q), pc' = "idle",
           kernel' = kernel, overrun' \in BOOLEAN, missed' \in BOOLEAN,
           ~missed' => Leads(facts, q, kernel)
    PROVE  CollectorInv'
  <1>0. CollectorTypes
    BY DEF CollectorInv
  <1>1. /\ asked' = 0 /\ dumping' = 0 /\ candidate' = {} /\ raced' = raced /\ alarm' = TRUE
        /\ degraded' = DegradedAfterFailure /\ facts' = facts /\ authoritative' = authoritative
    BY DEF ReconcileFails, MarkDegraded
  <1>2. degraded' \in BOOLEAN /\ alarm' \in BOOLEAN
    BY <1>1, <1>0, Zenon DEF DegradedAfterFailure, CollectorTypes
  <1>3. /\ queue' \in Seq(Message)
        /\ \A i \in 1 .. Len(queue') : ~IsReply(queue'[i])
        /\ \A S, k : Leads(S, q, k) => Leads(S, queue', k)
    BY FailedQueue
  <1>4. CollectorTypes'
    BY <1>0, <1>1, <1>2, <1>3 DEF CollectorTypes
  <1>5. RequestInv'
    BY <1>1, <1>3 DEF RequestInv
  <1>6. DumpInv' /\ ModelInv' /\ MissedIsFlagged'
    BY <1>1, <1>3 DEF DumpInv, ModelInv, MissedIsFlagged
  <1> QED BY <1>4, <1>5, <1>6 DEF CollectorInv

LEMMA TimeoutPreserves == ASSUME CollectorInv, DumpTimeout \/ DumpOverflow PROVE CollectorInv'
  <1>1. CollectorTypes /\ ModelInv
    BY DEF CollectorInv
  <1>2. queue \in Seq(Message) /\ ReconcileFails(queue) /\ pc' = "idle"
        /\ kernel' = kernel /\ missed' = missed
    BY <1>1 DEF DumpTimeout, DumpOverflow, CollectorTypes
  <1>3. overrun' \in BOOLEAN /\ missed' \in BOOLEAN
    BY <1>1, Zenon DEF DumpTimeout, DumpOverflow, CollectorTypes
  <1> QED BY <1>1, <1>2, <1>3, GiveUpPreserves DEF ModelInv

LEMMA QueueRead ==
    ASSUME NEW q \in Seq(Message), q # <<>>
    PROVE  /\ Head(q) \in Message /\ Head(q) = q[1] /\ 1 \in 1 .. Len(q)
           /\ Tail(q) \in Seq(Message) /\ Len(Tail(q)) = Len(q) - 1
           /\ \A i \in 1 .. Len(Tail(q)) : i + 1 \in 1 .. Len(q) /\ Tail(q)[i] = q[i + 1]
    OBVIOUS

\* Reading a message without news.
LEMMA ReadNoNews ==
    ASSUME NEW q \in Seq(Message), q # <<>>, Head(q) \notin News, NEW S, NEW k, Leads(S, q, k)
    PROVE  Leads(S, Tail(q), k)
    BY LeadsTail, NewsAfter, QueueRead

\* Starting, stopping and waiting.
LEMMA StartPreserves == ASSUME CollectorInv, Start PROVE CollectorInv'
  <1>0. CollectorTypes /\ RequestInv /\ DumpInv /\ ModelInv /\ MissedIsFlagged
    BY DEF CollectorInv
  <1>1. /\ pc = "off" /\ pc' = "begin" /\ queue' = <<>> /\ overrun' = FALSE
        /\ UNCHANGED <<kernel, asked, dumping, candidate, raced, facts, authoritative, degraded,
                       alarm, missed>>
    BY DEF Start, snapshot
  <1>2. CollectorTypes'
    <2>1. queue' \in Seq(Message)
      BY <1>1
    <2>2. overrun' \in BOOLEAN
      BY <1>1, Zenon
    <2> QED BY <1>0, <1>1, <2>1, <2>2 DEF CollectorTypes
  <1>3. RequestInv'
    BY <1>0, <1>1 DEF RequestInv
  <1>4. DumpInv' /\ MissedIsFlagged'
    BY <1>1 DEF DumpInv, MissedIsFlagged
  <1>5. ModelInv'
    <2>1. missed
      BY <1>0, <1>1 DEF ModelInv
    <2> QED BY <2>1, <1>1 DEF ModelInv
  <1> QED BY <1>2, <1>3, <1>4, <1>5 DEF CollectorInv

LEMMA StopPreserves == ASSUME CollectorInv, Stop PROVE CollectorInv'
  <1>0. CollectorTypes
    BY DEF CollectorInv
  <1>1. /\ pc' = "off" /\ queue' = <<>> /\ overrun' = FALSE /\ missed' = TRUE
        /\ asked' = 0 /\ dumping' = 0 /\ candidate' = {} /\ raced' = FALSE /\ kernel' = kernel
    BY DEF Stop
  <1>2. \/ alarm' = TRUE /\ degraded' = DegradedAfterFailure /\ UNCHANGED <<facts, authoritative>>
        \/ UNCHANGED <<facts, authoritative, degraded, alarm>>
    BY DEF Stop, MarkDegraded, snapshot
  <1>3. CollectorTypes'
    <2>1. queue' \in Seq(Message) /\ asked' \in 0 .. 4 /\ dumping' \in 0 .. 4
          /\ candidate' \in SUBSET Facts
      BY <1>1
    <2>2. /\ overrun' \in BOOLEAN /\ missed' \in BOOLEAN /\ raced' \in BOOLEAN
          /\ alarm' \in BOOLEAN /\ degraded' \in BOOLEAN
      BY <1>0, <1>1, <1>2, Zenon DEF CollectorTypes, DegradedAfterFailure
    <2>3. facts' = facts /\ authoritative' = authoritative
      BY <1>2
    <2> QED BY <1>0, <1>1, <2>1, <2>2, <2>3 DEF CollectorTypes
  <1>4. RequestInv'
    BY <1>1 DEF RequestInv
  <1>5. DumpInv' /\ ModelInv' /\ MissedIsFlagged'
    BY <1>1 DEF DumpInv, ModelInv, MissedIsFlagged
  <1> QED BY <1>3, <1>4, <1>5 DEF CollectorInv

LEMMA BreakPreserves == ASSUME CollectorInv, LoopBreaks \/ LoopOverflow PROVE CollectorInv'
  <1>0. CollectorTypes /\ RequestInv /\ DumpInv /\ ModelInv /\ MissedIsFlagged
    BY DEF CollectorInv
  <1>1. pc = "idle" /\ pc' \in {"idle", "dead"}
        /\ UNCHANGED <<kernel, queue, asked, dumping, candidate, raced, facts, authoritative, missed>>
    BY DEF LoopBreaks, LoopOverflow, MarkDegraded, snapshot
  <1>2. \/ overrun' = FALSE /\ alarm' = TRUE /\ degraded' = DegradedAfterFailure
        \/ pc' = "dead" /\ UNCHANGED <<overrun, alarm, degraded>>
    BY DEF LoopBreaks, LoopOverflow, MarkDegraded, snapshot
  <1>3. overrun' \in BOOLEAN /\ alarm' \in BOOLEAN /\ degraded' \in BOOLEAN
    BY <1>0, <1>2, Zenon DEF CollectorTypes, DegradedAfterFailure
  <1>4. CollectorTypes'
    BY <1>0, <1>1, <1>3 DEF CollectorTypes
  <1>5. RequestInv'
    BY <1>0, <1>1 DEF RequestInv
  <1>6. DumpInv'
    BY <1>1 DEF DumpInv
  <1>7. ModelInv'
    BY <1>0, <1>1 DEF ModelInv
  <1>8. MissedIsFlagged'
    BY <1>1, <1>2 DEF MissedIsFlagged
  <1> QED BY <1>4, <1>5, <1>6, <1>7, <1>8 DEF CollectorInv

LEMMA BeginPreserves == ASSUME CollectorInv, BeginReconcile PROVE CollectorInv'
  <1>0. CollectorTypes /\ RequestInv /\ DumpInv /\ ModelInv /\ MissedIsFlagged
    BY DEF CollectorInv
  <1>1. /\ pc \in {"begin", "idle"} /\ pc' = "dump" /\ dumping' = 1 /\ asked' = 1
        /\ candidate' = {} /\ raced' = FALSE
        /\ UNCHANGED <<kernel, queue, overrun, facts, authoritative, degraded, alarm, missed>>
    BY DEF BeginReconcile, NoRaceYet, snapshot
  <1>2. CollectorTypes'
    <2>1. raced' \in BOOLEAN
      BY <1>1, Zenon
    <2> QED BY <1>0, <1>1, <2>1 DEF CollectorTypes
  <1>3. \A i \in 1 .. Len(queue) : ~IsReply(queue[i])
    BY <1>0, <1>1 DEF RequestInv
  <1>4. RequestInv'
    BY <1>1, <1>3 DEF RequestInv
  <1>5. DumpInv'
    <2>1. OfKinds(kernel, 1 .. 1 - 1) = {}
      BY DEF OfKinds
    <2>2. ASSUME queue # <<>> PROVE ~IsReply(Head(queue))
      BY <1>0, <1>3, <2>2, QueueRead DEF CollectorTypes
    <2> QED BY <1>1, <2>1, <2>2 DEF DumpInv
  <1>6. ModelInv'
    BY <1>0, <1>1 DEF ModelInv
  <1>7. MissedIsFlagged'
    BY <1>1 DEF MissedIsFlagged
  <1> QED BY <1>2, <1>4, <1>5, <1>6, <1>7 DEF CollectorInv

-----------------------------------------------------------------------------
(* A message is read. *)

LEMMA RequestTail ==
    ASSUME CollectorTypes, RequestInv, queue # <<>>, queue' = Tail(queue),
           UNCHANGED <<pc, asked, dumping>>
    PROVE  RequestInv'
  <1>1. \A i \in 1 .. Len(queue') : i + 1 \in 1 .. Len(queue) /\ queue'[i] = queue[i + 1]
    BY QueueRead DEF CollectorTypes
  <1>2. \A i, j \in 1 .. Len(queue') : i + 1 = j + 1 => i = j
    OBVIOUS
  <1> QED BY <1>1, <1>2 DEF RequestInv

LEMMA RacePreserves == ASSUME CollectorInv, DumpNotification PROVE CollectorInv'
  <1>0. CollectorTypes /\ RequestInv /\ DumpInv /\ ModelInv /\ MissedIsFlagged
    BY DEF CollectorInv
  <1>1. /\ pc = "dump" /\ queue # <<>> /\ queue' = Tail(queue) /\ raced' = TRUE /\ missed' = TRUE
        /\ UNCHANGED <<kernel, overrun, asked, pc, dumping, candidate, facts, authoritative,
                       degraded, alarm>>
    BY DEF DumpNotification, RaceSeen, snapshot
  <1>2. CollectorTypes'
    <2>1. queue' \in Seq(Message)
      BY <1>0, <1>1, QueueRead DEF CollectorTypes
    <2>2. raced' \in BOOLEAN /\ missed' \in BOOLEAN
      BY <1>1, Zenon
    <2> QED BY <1>0, <1>1, <2>1, <2>2 DEF CollectorTypes
  <1>3. RequestInv'
    BY <1>0, <1>1, RequestTail
  <1>4. DumpInv' /\ ModelInv' /\ MissedIsFlagged'
    BY <1>1 DEF DumpInv, ModelInv, MissedIsFlagged
  <1> QED BY <1>2, <1>3, <1>4 DEF CollectorInv

LEMMA RejectPreserves == ASSUME CollectorInv, DumpRejected PROVE CollectorInv'
  <1>0. CollectorTypes /\ ModelInv
    BY DEF CollectorInv
  <1>1. /\ queue # <<>> /\ pc' = "idle" /\ ReconcileFails(Tail(queue)) /\ kernel' = kernel
        /\ overrun' = overrun /\ missed' = (missed \/ Head(queue).type = "garbled")
        /\ Head(queue).type \in {"stale", "garbled", "reply"}
    BY DEF DumpRejected
  <1>2. queue \in Seq(Message) /\ Tail(queue) \in Seq(Message) /\ Head(queue) \in Message
    BY <1>0, <1>1, QueueRead DEF CollectorTypes
  <1>3. overrun' \in BOOLEAN /\ missed' \in BOOLEAN
    BY <1>0, <1>1, Zenon DEF CollectorTypes
  <1>4. ASSUME ~missed' PROVE Leads(facts, Tail(queue), kernel)
    <2>1. ~missed /\ Head(queue) \notin News
      BY <1>1, <1>2, <1>4, MessageCases
    <2> QED BY <2>1, <1>0, <1>1, <1>2, ReadNoNews DEF ModelInv
  <1> QED BY <1>1, <1>2, <1>3, <1>4, GiveUpPreserves

\* The dumps up to the one that is read next, as parts of the state k.
LEMMA JoinKinds ==
    ASSUME NEW k, NEW d \in 1 .. 4
    PROVE  OfKinds(k, 1 .. d - 1) \cup OfKinds(k, {d}) = OfKinds(k, 1 .. d)
  <1>1. 1 .. d = (1 .. d - 1) \cup {d}
    OBVIOUS
  <1> QED BY <1>1 DEF OfKinds

LEMMA CompletePreserves == ASSUME CollectorInv, DumpComplete PROVE CollectorInv'
  <1> DEFINE all == candidate \cup Head(queue).facts
  <1>0. CollectorTypes /\ RequestInv /\ DumpInv /\ ModelInv /\ MissedIsFlagged
    BY DEF CollectorInv
  <1>1. /\ pc = "dump" /\ ~overrun /\ queue # <<>> /\ IsReply(Head(queue))
        /\ kernel' = kernel /\ overrun' = overrun
    BY DEF DumpComplete, IsReply
  <1>2. queue \in Seq(Message) /\ Tail(queue) \in Seq(Message) /\ Head(queue) \in Message
    BY <1>0, <1>1, QueueRead DEF CollectorTypes
  <1>3. Head(queue) \notin News /\ Head(queue).facts \in SUBSET Facts
    BY <1>1, <1>2, MessageCases, MessageTypes
  <1>4. dumping \in 1 .. 4 /\ all \in SUBSET Facts
    BY <1>0, <1>1, <1>3 DEF CollectorTypes, RequestInv
  <1>5. asked = 0
    BY <1>0, <1>1, <1>2, QueueRead DEF RequestInv
  <1>6. ~missed => Leads(facts, Tail(queue), kernel)
    BY <1>0, <1>1, <1>2, <1>3, ReadNoNews DEF ModelInv
  <1>7. \A i \in 1 .. Len(Tail(queue)) : ~IsReply(Tail(queue)[i])
    <2>1. SUFFICES ASSUME NEW i \in 1 .. Len(Tail(queue)), IsReply(Tail(queue)[i]) PROVE FALSE
      OBVIOUS
    <2>2. i + 1 \in 1 .. Len(queue) /\ IsReply(queue[i + 1]) /\ 1 \in 1 .. Len(queue)
          /\ IsReply(queue[1])
      BY <2>1, <1>1, <1>2, QueueRead
    <2>3. i + 1 = 1
      BY <2>2, <1>0 DEF RequestInv
    <2> QED BY <2>1, <2>3
  <1>8. ASSUME ~raced
        PROVE  \E k \in SUBSET Facts : all = OfKinds(k, 1 .. dumping) /\ Leads(k, Tail(queue), kernel)
    <2>1. PICK k \in SUBSET Facts : OneMoment(k)
      BY <1>0, <1>1, <1>8 DEF DumpInv
    <2> QED BY <2>1, <1>4, JoinKinds DEF OneMoment
  <1>9. ASSUME dumping < 4, queue' = Tail(queue), candidate' = all,
               dumping' = dumping + 1, asked' = dumping + 1,
               UNCHANGED <<pc, raced, snapshot, selected, alarm, told, uplink, missed>>
        PROVE  CollectorInv'
    <2>1. UNCHANGED <<facts, authoritative, degraded>>
      BY <1>9 DEF snapshot
    <2>2. CollectorTypes'
      BY <1>0, <1>1, <1>2, <1>4, <1>9, <2>1 DEF CollectorTypes
    <2>3. RequestInv'
      BY <1>1, <1>4, <1>7, <1>9 DEF RequestInv
    <2>4. DumpInv'
      <3>1. ASSUME queue' # <<>> PROVE ~IsReply(Head(queue'))
        BY <3>1, <1>2, <1>7, <1>9, QueueRead
      <3>2. ASSUME ~raced, queue' = <<>> PROVE candidate' = OfKinds(kernel', 1 .. dumping' - 1)
        <4>1. PICK k \in SUBSET Facts : all = OfKinds(k, 1 .. dumping) /\ Leads(k, Tail(queue), kernel)
          BY <1>8, <3>2
        <4>2. k = kernel
          BY <4>1, <3>2, <1>9, LeadsEmpty
        <4>3. dumping' - 1 = dumping
          BY <1>4, <1>9
        <4> QED BY <4>1, <4>2, <4>3, <1>1, <1>9
      <3> QED BY <3>1, <3>2, <1>9 DEF DumpInv
    <2>5. ModelInv'
      BY <1>0, <1>1, <1>6, <1>9, <2>1 DEF ModelInv
    <2>6. MissedIsFlagged'
      BY <1>1, <1>9 DEF MissedIsFlagged
    <2> QED BY <2>2, <2>3, <2>4, <2>5, <2>6 DEF CollectorInv
  <1>10. ASSUME pc' = "idle", ReconcileFails(Tail(queue)), missed' = missed
         PROVE  CollectorInv'
    <2>1. overrun' \in BOOLEAN /\ missed' \in BOOLEAN
      BY <1>0, <1>1, <1>10 DEF CollectorTypes
    <2> QED BY <1>1, <1>2, <1>6, <1>10, <2>1, GiveUpPreserves
  <1>11. ASSUME dumping = 4, ~raced, queue' = Tail(queue), pc' = "idle", dumping' = 0,
                candidate' = {}, missed' = FALSE, alarm' = FALSE, Install(all, TRUE),
                UNCHANGED <<asked, raced>>
         PROVE  CollectorInv'
    <2>1. facts' = all /\ authoritative' = TRUE /\ degraded' = FALSE
      BY <1>11 DEF Install
    <2>2. CollectorTypes'
      <3>1. /\ authoritative' \in BOOLEAN /\ degraded' \in BOOLEAN /\ missed' \in BOOLEAN
            /\ alarm' \in BOOLEAN
        BY <1>11, <2>1, Zenon
      <3> QED BY <1>0, <1>1, <1>2, <1>4, <1>11, <2>1, <3>1 DEF CollectorTypes
    <2>3. RequestInv'
      BY <1>5, <1>7, <1>11 DEF RequestInv
    <2>4. Leads(all, Tail(queue), kernel)
      <3>1. PICK k \in SUBSET Facts : all = OfKinds(k, 1 .. dumping) /\ Leads(k, Tail(queue), kernel)
        BY <1>8, <1>11
      <3>2. OfKinds(k, 1 .. 4) = k
        BY Kinds DEF OfKinds
      <3> QED BY <3>1, <3>2, <1>11
    <2>5. DumpInv' /\ ModelInv' /\ MissedIsFlagged'
      BY <1>1, <1>11, <2>1, <2>4 DEF DumpInv, ModelInv, MissedIsFlagged
    <2> QED BY <2>2, <2>3, <2>5 DEF CollectorInv
  <1> QED BY <1>9, <1>10, <1>11 DEF DumpComplete

LEMMA LoopRejectPreserves == ASSUME CollectorInv, LoopRejected PROVE CollectorInv'
  <1>0. CollectorTypes /\ RequestInv /\ DumpInv /\ ModelInv /\ MissedIsFlagged
    BY DEF CollectorInv
  <1>1. /\ pc = "idle" /\ queue # <<>> /\ queue' = Tail(queue) /\ alarm' = TRUE
        /\ missed' = (missed \/ Head(queue).type \in {"garbled", "notification"})
        /\ UNCHANGED <<kernel, overrun, asked, pc, dumping, candidate, raced, facts, authoritative,
                       degraded>>
    BY DEF LoopRejected, RejectionDegrades, snapshot
  <1>2. queue \in Seq(Message) /\ Tail(queue) \in Seq(Message) /\ Head(queue) \in Message
    BY <1>0, <1>1, QueueRead DEF CollectorTypes
  <1>3. CollectorTypes'
    <2>1. alarm' \in BOOLEAN /\ missed' \in BOOLEAN
      BY <1>0, <1>1, Zenon DEF CollectorTypes
    <2> QED BY <1>0, <1>1, <1>2, <2>1 DEF CollectorTypes
  <1>4. RequestInv'
    BY <1>0, <1>1, RequestTail
  <1>5. DumpInv' /\ MissedIsFlagged'
    BY <1>1 DEF DumpInv, MissedIsFlagged
  <1>6. ASSUME ~missed' PROVE Leads(facts', queue', kernel')
    <2>1. ~missed /\ Head(queue) \notin News
      BY <1>1, <1>2, <1>6, MessageCases
    <2> QED BY <2>1, <1>0, <1>1, <1>2, ReadNoNews DEF ModelInv
  <1>7. ModelInv'
    BY <1>1, <1>6 DEF ModelInv
  <1> QED BY <1>3, <1>4, <1>5, <1>7 DEF CollectorInv

\* Facts about finite sets and well-founded relations, from here on.
INSTANCE FiniteSetTheorems

\* The recursion of Pending computes what the messages lead to.
LEMMA LeadsPending ==
    ASSUME NEW q \in Seq(Message), NEW S, NEW k, Leads(S, q, k)
    PROVE  Pending(S, q) = k
  <1>1. PICK t : Witnessed(S, q, t) /\ t[Len(q)] = k
    BY DEF Leads
  <1> DEFINE n == Len(q)
             Next1(f, i) == IF q[i].type \in {"notification", "garbled"}
                            THEN KernelApply(f[i - 1], q[i]) ELSE f[i - 1]
             Sat(f) == f = [i \in 0 .. n |->
                  IF i = 0 THEN S
                  ELSE IF q[i].type \in {"notification", "garbled"}
                       THEN KernelApply(f[i - 1], q[i]) ELSE f[i - 1]]
             h == CHOOSE f : Sat(f)
  <1>2. n \in Nat /\ n \in 0 .. n
    OBVIOUS
  <1>3. Pending(S, q) = h[n]
    BY DEF Pending
  <1>4. Sat(t)
    <2>1. ASSUME NEW i \in 0 .. n PROVE t[i] = IF i = 0 THEN S ELSE Next1(t, i)
      <3>1. CASE i = 0
        BY <3>1, <1>1 DEF Witnessed
      <3>2. CASE i # 0
        <4>1. i \in 1 .. n
          BY <1>2, <3>2
        <4> QED BY <4>1, <3>2, <1>1 DEF Witnessed, Explains, After
      <3> QED BY <3>1, <3>2
    <2>2. t \in [0 .. n -> SUBSET Facts]
      BY <1>1 DEF Witnessed
    <2> QED BY <2>1, <2>2
  <1>5. Sat(h)
    BY <1>4
  <1> HIDE DEF h
  <1>6. ASSUME NEW i \in 0 .. n PROVE h[i] = IF i = 0 THEN S ELSE Next1(h, i)
    BY <1>5
  <1>7. ASSUME NEW i \in 0 .. n PROVE t[i] = IF i = 0 THEN S ELSE Next1(t, i)
    BY <1>4
  <1> DEFINE Bad == {i \in 0 .. n : h[i] # t[i]}
  <1>8. Bad = {}
    <2> SUFFICES ASSUME Bad # {} PROVE FALSE
      OBVIOUS
    <2>1. Bad \subseteq Nat
      BY <1>2
    <2>2. PICK i \in Bad : \A j \in Bad : ~(<<j, i>> \in OpToRel(<, Nat))
      BY <2>1, NatLessThanWellFounded, WFMin
    <2>3. i \in 0 .. n /\ h[i] # t[i]
      OBVIOUS
    <2>4. i # 0
      BY <2>3, <1>6, <1>7
    <2>5. i - 1 \in 0 .. n /\ <<i - 1, i>> \in OpToRel(<, Nat)
      BY <2>3, <2>4, <1>2 DEF OpToRel
    <2>6. h[i - 1] = t[i - 1]
      BY <2>2, <2>5
    <2>7. Next1(h, i) = Next1(t, i)
      BY <2>6
    <2> HIDE DEF Next1
    <2> QED BY <2>3, <2>4, <2>7, <1>6, <1>7
  <1> QED BY <1>1, <1>2, <1>3, <1>8

LEMMA PairSize == ASSUME NEW r, NEW x, x # r PROVE Cardinality({r} \cup {x}) = 2
  <1>1. IsFiniteSet({r}) /\ Cardinality({r}) = 1 /\ x \notin {r}
    BY FS_Singleton
  <1> QED BY <1>1, FS_AddElement

\* What the collector makes of a notification that is not ambiguous is what
\* happened in the kernel.
LEMMA ApplyAsKernel ==
    ASSUME NEW S \in SUBSET Facts, NEW m \in News, ~Ambiguous(S, m),
           m.op = "delete" => m.fact \in S
    PROVE  Apply(S, m) = KernelApply(S, m)
  <1>0. m.op \in Operations /\ m.fact \in Facts
    BY MessageTypes
  <1>1. CASE m.op = "delete" /\ m.fact \in Routes
    <2> DEFINE r == m.fact
               M == Matches(S, r)
    <2>1. r \in M /\ M \in SUBSET Routes
      BY <1>1, TopologyAssumption DEF Matches
    <2>2. IsFiniteSet(M) /\ Cardinality(M) \in Nat
      BY <2>1, TopologyAssumption, FS_Subset, FS_CardinalityType
    <2>3. Cardinality(M) <= 1
      BY <1>1, <2>2 DEF Ambiguous
    <2>4. ASSUME NEW x \in M, x # r PROVE FALSE
      <3>2. Cardinality({r} \cup {x}) = 2
        BY <2>4, PairSize
      <3>3. {r} \cup {x} \in SUBSET M
        BY <2>1, <2>4
      <3>4. Cardinality({r} \cup {x}) <= Cardinality(M)
        BY <3>3, <2>2, FS_Subset
      <3> QED BY <3>2, <3>4, <2>2, <2>3
    <2>5. M = {r}
      BY <2>1, <2>4
    <2>6. Apply(S, m) = S \ M
      <3>1. r \notin LinkFacts /\ r \notin Addresses
        BY <1>1, TopologyAssumption
      <3> QED BY <1>1, <3>1 DEF Apply
    <2> QED BY <1>1, <2>5, <2>6 DEF KernelApply
  <1>2. CASE m.op = "delete" /\ m.fact \in LinkFacts
    <2>1. m.fact \notin Routes /\ m.fact \notin Addresses
      BY <1>2, TopologyAssumption
    <2> QED BY <1>2, <2>1 DEF Apply, KernelApply, RemovedWith
  <1>3. CASE ~(m.op = "delete" /\ m.fact \in Routes \cup LinkFacts)
    BY <1>3 DEF KernelApply
  <1> QED BY <1>1, <1>2, <1>3

LEMMA LoopNotifyPreserves == ASSUME CollectorInv, LoopNotification PROVE CollectorInv'
  <1> DEFINE m == Head(queue)
             after == Apply(facts, m)
  <1>0. CollectorTypes /\ RequestInv /\ DumpInv /\ ModelInv /\ MissedIsFlagged
    BY DEF CollectorInv
  <1>1. /\ pc = "idle" /\ queue # <<>> /\ queue' = Tail(queue) /\ missed' = missed
        /\ m.type = "notification" /\ ~Ambiguous(facts, m)
        /\ UNCHANGED <<kernel, overrun, asked, pc, dumping, candidate, raced, alarm>>
    BY DEF LoopNotification
  <1>2. queue \in Seq(Message) /\ Tail(queue) \in Seq(Message) /\ m \in Message /\ facts \in SUBSET Facts
    BY <1>0, <1>1, QueueRead DEF CollectorTypes
  <1>3. m \in News /\ m.op \in Operations /\ m.fact \in Facts
    BY <1>1, <1>2, MessageCases, MessageTypes
  <1>4. facts' = after /\ after \in SUBSET Facts
    <2>1. facts' = after
      BY DEF LoopNotification, Install, snapshot
    <2> QED BY <2>1, <1>2, <1>3, ApplyTypes
  <1>5. authoritative' \in BOOLEAN /\ degraded' \in BOOLEAN
    <2>1. CASE after # facts
      <3>1. authoritative' = authoritative /\ degraded' = FALSE
        BY <2>1 DEF LoopNotification, Install
      <3> QED BY <3>1, <1>0, Zenon DEF CollectorTypes
    <2>2. CASE after = facts
      BY <2>2, <1>0 DEF LoopNotification, snapshot, CollectorTypes
    <2> QED BY <2>1, <2>2
  <1> HIDE DEF m, after
  <1>6. CollectorTypes'
    BY <1>0, <1>1, <1>2, <1>4, <1>5 DEF CollectorTypes
  <1>7. RequestInv'
    BY <1>0, <1>1, RequestTail
  <1>8. DumpInv' /\ MissedIsFlagged'
    BY <1>0, <1>1 DEF DumpInv, MissedIsFlagged
  <1>9. ASSUME ~missed' PROVE Leads(facts', queue', kernel')
    <2>1. Leads(facts, queue, kernel)
      BY <1>0, <1>1, <1>9 DEF ModelInv
    <2>2. Leads(After(facts, m), Tail(queue), kernel) /\ Explains(facts, m, After(facts, m))
      BY <2>1, <1>1, <1>2, LeadsTail DEF m
    <2>3. After(facts, m) = KernelApply(facts, m) /\ (m.op = "delete" => m.fact \in facts)
      BY <2>2, <1>2, <1>3, NewsAfter DEF Explains
    <2>4. after = KernelApply(facts, m)
      BY <2>3, <1>1, <1>2, <1>3, ApplyAsKernel DEF after
    <2> QED BY <2>2, <2>3, <2>4, <1>1, <1>4
  <1>10. ModelInv'
    BY <1>1, <1>9 DEF ModelInv
  <1> QED BY <1>6, <1>7, <1>8, <1>10 DEF CollectorInv

LEMMA CollectorInvariant == Spec => []CollectorInv
  <1>1. Init => CollectorInv
    BY CollectorInit
  <1>2. CollectorInv /\ [Next]_vars => CollectorInv'
    <2> SUFFICES ASSUME CollectorInv, [Next]_vars PROVE CollectorInv'
      OBVIOUS
    <2>1. CASE UNCHANGED vars
      <3>1. CollectorTypes' = CollectorTypes
        BY <2>1 DEF vars, CollectorTypes
      <3>2. RequestInv' = RequestInv /\ MissedIsFlagged' = MissedIsFlagged
        BY <2>1 DEF vars, RequestInv, MissedIsFlagged
      <3>3. DumpInv' = DumpInv /\ ModelInv' = ModelInv
        BY <2>1 DEF vars, DumpInv, ModelInv, OneMoment
      <3> QED BY <3>1, <3>2, <3>3 DEF CollectorInv
    <2>2. ASSUME NEW op \in {"add", "delete"}, NEW f \in Facts, KernelChange(op, f) PROVE CollectorInv'
      BY <2>2, ChangePreserves DEF Operations
    <2>3. ASSUME NEW intr \in BOOLEAN, KernelAnswers(intr) PROVE CollectorInv'
      BY <2>3, AnswerPreserves
    <2>4. CASE KernelGarbles \/ Start \/ DumpTimeout \/ LoopBreaks \/ Stop
      BY <2>4, GarblePreserves, StartPreserves, TimeoutPreserves, BreakPreserves, StopPreserves
    <2>5. CASE Reconciling
      BY <2>5, BeginPreserves, TimeoutPreserves, RacePreserves, RejectPreserves, CompletePreserves
         DEF Reconciling
    <2>6. CASE Looping
      BY <2>6, BreakPreserves, LoopRejectPreserves, LoopNotifyPreserves DEF Looping
    <2> QED BY <2>1, <2>2, <2>3, <2>4, <2>5, <2>6 DEF Next
  <1> QED BY <1>1, <1>2, PTL DEF Spec

(* The model that NetlinkCollector keeps is what the kernel has, but for       *)
(* notifications that are still unread; or it says that it may not be.  A      *)
(* notification that races with a dump, an overflow of the receive buffer, a   *)
(* datagram that does not parse, an ambiguous delete and a restart are all     *)
(* among the steps.                                                            *)
THEOREM NothingIsMissed == Spec => []NothingMissedSilently
  <1>1. CollectorInv => NothingMissedSilently
    <2> SUFFICES ASSUME CollectorInv PROVE NothingMissedSilently
      OBVIOUS
    <2>1. MissedIsFlagged /\ ModelInv /\ queue \in Seq(Message)
      BY DEF CollectorInv, CollectorTypes
    <2>2. CaughtUp
      BY <2>1, LeadsPending DEF CaughtUp, ModelInv
    <2> QED BY <2>1, <2>2 DEF NothingMissedSilently
  <1> QED BY <1>1, CollectorInvariant, PTL

-----------------------------------------------------------------------------
(* The events. *)

LEMMA SelectFacts ==
    ASSUME NEW S, NEW a, NEW d, NEW b, NEW e
    PROVE  /\ Select(S, a, d).interface = Select(S, b, e).interface
           /\ Select(S, a, d).validity # "untold"
    BY DEF Select, NoUplink

\* No step but the installation of a model touches what was published, and
\* what is installed is published.
Published ==
    \/ UNCHANGED <<facts, authoritative, selected, told, uplink>>
    \/ \E after, auth : Install(after, auth)

LEMMA StepPublishes == ASSUME [Next]_vars PROVE Published
  <1>1. ASSUME NEW q, ReconcileFails(q) PROVE Published
    BY <1>1 DEF ReconcileFails, MarkDegraded, Published
  <1>2. ASSUME NEW op, NEW f, KernelChange(op, f) PROVE Published
    BY <1>2 DEF KernelChange, Published, snapshot
  <1>3. ASSUME NEW intr, KernelAnswers(intr) PROVE Published
    BY <1>3 DEF KernelAnswers, Published, snapshot
  <1>4. CASE KernelGarbles \/ Start \/ LoopBreaks
    BY <1>4 DEF KernelGarbles, Start, LoopBreaks, Published, snapshot
  <1>5. CASE DumpTimeout \/ DumpOverflow \/ DumpRejected
    BY <1>5, <1>1 DEF DumpTimeout, DumpOverflow, DumpRejected
  <1>6. CASE Stop
    BY <1>6 DEF Stop, MarkDegraded, Published, snapshot
  <1>7. CASE BeginReconcile \/ DumpNotification
    BY <1>7 DEF BeginReconcile, DumpNotification, Published, snapshot
  <1>8. CASE DumpComplete
    <2>1. \/ UNCHANGED <<facts, authoritative, selected, told, uplink>>
          \/ ReconcileFails(Tail(queue))
          \/ Install(candidate \cup Head(queue).facts, TRUE)
      BY <1>8 DEF DumpComplete, snapshot
    <2> QED BY <2>1, <1>1 DEF Published
  <1>9. CASE LoopOverflow \/ LoopRejected
    BY <1>9 DEF LoopOverflow, LoopRejected, MarkDegraded, Published, snapshot
  <1>10. CASE LoopNotification
    <2>1. \/ UNCHANGED <<facts, authoritative, selected, told, uplink>>
          \/ Install(Apply(facts, Head(queue)), authoritative)
      BY <1>10 DEF LoopNotification, snapshot
    <2> QED BY <2>1 DEF Published
  <1>11. CASE UNCHANGED vars
    BY <1>11 DEF vars, Published
  <1> QED BY <1>2, <1>3, <1>4, <1>5, <1>6, <1>7, <1>8, <1>9, <1>10, <1>11
          DEF Next, Reconciling, Looping

(* Whoever starts from nothing and applies the link, address and route events  *)
(* that publishChanges() emits knows the collector's model at every moment,    *)
(* and the last uplink event names the uplink of the model, although an event  *)
(* is emitted only for what differs from the model before.                     *)
THEOREM EventsSuffice == Spec => []EventsTellModel
  <1>1. Init => EventsTellModel
    BY DEF Init, EventsTellModel, NoUplink
  <1>2. EventsTellModel /\ [Next]_vars => EventsTellModel'
    <2> SUFFICES ASSUME EventsTellModel, Published PROVE EventsTellModel'
      BY StepPublishes
    <2>1. CASE UNCHANGED <<facts, authoritative, selected, told, uplink>>
      BY <2>1, SelectFacts DEF EventsTellModel
    <2>2. ASSUME NEW after, NEW auth, Install(after, auth) PROVE EventsTellModel'
      <3> DEFINE old == Select(facts, authoritative, degraded)
                 new == Select(after, auth, FALSE)
      <3>1. /\ facts' = after /\ authoritative' = auth /\ degraded' = FALSE /\ selected' = new
            /\ told' = (told \ (facts \ after)) \cup (after \ facts)
            /\ uplink' = IF auth \/ old # new THEN new ELSE uplink
        BY <2>2 DEF Install, PublishChanges, Withdrawn, UplinkAnnounced
      <3>2. told' = facts'
        BY <3>1 DEF EventsTellModel
      <3>3. new = Select(facts', authoritative', degraded') /\ new.validity # "untold"
        BY <3>1, SelectFacts
      <3> HIDE DEF old, new
      <3>4. CASE auth \/ old # new
        BY <3>4, <3>1, <3>2, <3>3 DEF EventsTellModel
      <3>5. CASE ~(auth \/ old # new)
        <4>1. uplink' = uplink /\ old = new /\ ~authoritative'
          BY <3>1, <3>5
        <4>2. uplink.validity # "untold" => uplink.interface = old.interface
          BY DEF EventsTellModel, old
        <4> QED BY <4>1, <4>2, <3>2, <3>3 DEF EventsTellModel
      <3> QED BY <3>4, <3>5
    <2> QED BY <2>1, <2>2 DEF Published
  <1> QED BY <1>1, <1>2, PTL DEF Spec

-----------------------------------------------------------------------------
(* The V1 manager: the invariant. *)

Traffic == [bps : Int, pps : Int, flows : Int]
Net == [inUse : BOOLEAN, rtt : Int, quality : {"Unknown", "Bad", "Good", "Fair", "Poor"}, up : BOOLEAN,
        loss : Int, rssi : Int, traffic : Traffic]
Unknown == [level |-> "UNKNOWN", score |-> 0]

\* The monitors' copies list the interfaces of the list.
ListsInv ==
    /\ interfaces \in Seq(Net)
    /\ pinging = NoList \/ pinging \in [DOMAIN interfaces -> Net]
    /\ analyzing = NoList \/ analyzing \in [DOMAIN interfaces -> Net]
    /\ lastSample = NoBaseline \/ lastSample \in Samples

\* The monitor's previous is what was announced last, until the first signal.
AnnouncedQuality ==
    \/ signalled = previous /\ signalled.score \in Int
    \/ previous.level = "UNKNOWN" /\ signalled = Unknown

ManagerInv == ListsInv /\ AnnouncedQuality

-----------------------------------------------------------------------------
(* The scores are integers. *)

LEMMA TwoIntegers ==
    ASSUME NEW a \in Int, NEW b \in Int
    PROVE  Max({a, b}) \in Int /\ Min({a, b}) \in Int
  <1>1. PICK x \in {a, b} : \A y \in {a, b} : x >= y
    BY Z3
  <1>2. PICK z \in {a, b} : \A y \in {a, b} : z <= y
    BY Z3
  <1> QED BY <1>1, <1>2 DEF Max, Min

LEMMA LeastIndex ==
    ASSUME NEW S, S \subseteq Nat, S # {}
    PROVE  Min(S) \in S
  <1>1. PICK i \in S : \A j \in S : ~(<<j, i>> \in OpToRel(<, Nat))
    BY NatLessThanWellFounded, WFMin
  <1>2. ASSUME NEW j \in S PROVE i <= j
    <2>1. i \in Nat /\ j \in Nat
      OBVIOUS
    <2>2. j < i => <<j, i>> \in OpToRel(<, Nat)
      BY <2>1 DEF OpToRel
    <2>3. ~(<<j, i>> \in OpToRel(<, Nat))
      BY <1>1, Zenon
    <2>4. ~(j < i)
      BY <2>2, <2>3, Zenon
    <2> QED BY <2>1, <2>4
  <1> QED BY <1>2 DEF Min

LEMMA ScoresAreIntegers ==
    ASSUME NEW net \in Net
    PROVE  /\ calculateRttScore(net.rtt) \in Int /\ calculateTcpLossScore(net.loss) \in Int
           /\ calculateRssiScore(net.rssi) \in Int /\ calculateTrafficScore(net.traffic) \in Int
  <1>1. net.rtt \in Int /\ net.loss \in Int /\ net.rssi \in Int /\ net.traffic \in Traffic
    BY DEF Net
  <1>2. ASSUME NEW a \in Int, NEW b \in Int, NEW c \in Int, NEW d \in Int
        PROVE  Max({a, b - Min({c, d})}) \in Int
    <2>1. Min({c, d}) \in Int
      BY TwoIntegers
    <2>2. b - Min({c, d}) \in Int
      BY <2>1
    <2> DEFINE e == b - Min({c, d})
    <2>3. e \in Int
      BY <2>2
    <2> HIDE DEF e
    <2>4. Max({a, e}) \in Int
      BY <2>3, TwoIntegers
    <2> QED BY <2>4 DEF e
  <1>3. calculateRttScore(net.rtt) \in Int
    <2>1. Max({Points(20), Points(60) - Min({net.rtt - 200, Points(40)})}) \in Int
      BY <1>1, <1>2 DEF Points
    <2> QED BY <1>1, <2>1 DEF calculateRttScore, Points
  <1>4. calculateTcpLossScore(net.loss) \in Int
    <2>1. Max({Points(10), Points(60) - Min({((net.loss - 200) * 2) \div 5, Points(50)})}) \in Int
      BY <1>1, <1>2 DEF Points
    <2> QED BY <1>1, <2>1 DEF calculateTcpLossScore, Points
  <1>5. calculateRssiScore(net.rssi) \in Int
    <2>1. Max({Points(10), Points(60) - Min({4 * (-70 - net.rssi), Points(50)})}) \in Int
      BY <1>1, <1>2 DEF Points
    <2> QED BY <1>1, <2>1 DEF calculateRssiScore, Points
  <1>6. calculateTrafficScore(net.traffic) \in Int
    <2>1. ASSUME NEW n \in Int PROVE Points(Max({0, Min({100, n})})) \in Int
      <3>1. Min({100, n}) \in Int
        BY TwoIntegers
      <3>2. Max({0, Min({100, n})}) \in Int
        BY <3>1, TwoIntegers
      <3> QED BY <3>2 DEF Points
    <2> DEFINE t == net.traffic
               size == IF t.bps = 0 \/ t.pps = 0 THEN 0
                       ELSE IF t.bps > 1000 * t.pps THEN 20 ELSE IF t.bps < 200 * t.pps THEN -20 ELSE 0
               count == IF t.flows >= 5 THEN 10 ELSE 0
    <2>2. 70 + size + count \in Int
      OBVIOUS
    <2>3. calculateTrafficScore(t) = IF t.flows = 0 THEN Points(50)
                                     ELSE Points(Max({0, Min({100, 70 + size + count})}))
      BY DEF calculateTrafficScore
    <2> HIDE DEF size, count
    <2>4. Points(Max({0, Min({100, 70 + size + count})})) \in Int /\ Points(50) \in Int
      BY <2>1, <2>2 DEF Points
    <2> QED BY <2>3, <2>4
  <1> QED BY <1>3, <1>4, <1>5, <1>6

\* assess() of a list of interfaces: a level of its own for an empty one.
LEMMA Assessment ==
    ASSUME ListsInv
    PROVE  /\ assessQuality(interfaces).score \in Int
           /\ assessQuality(interfaces).level = "UNKNOWN" => assessQuality(interfaces) = Unknown
  <1>1. CASE interfaces = <<>>
    BY <1>1 DEF assessQuality, Unknown
  <1>2. CASE interfaces # <<>>
    <2> DEFINE inUse == {i \in DOMAIN interfaces : interfaces[i].inUse}
               net == ActiveInterface(interfaces)
               total == 3 * calculateRttScore(net.rtt) + 3 * calculateTcpLossScore(net.loss)
                      + 2 * calculateRssiScore(net.rssi) + 2 * calculateTrafficScore(net.traffic)
    <2>1. interfaces \in Seq(Net) /\ 1 \in DOMAIN interfaces /\ DOMAIN interfaces \subseteq Nat
      BY <1>2 DEF ListsInv
    <2>2. inUse # {} => Min(inUse) \in inUse
      <3>1. inUse \subseteq Nat
        BY <2>1
      <3> HIDE DEF inUse
      <3> QED BY <3>1, LeastIndex
    <2>3. net \in Net
      <3>1. net = interfaces[IF inUse = {} THEN 1 ELSE Min(inUse)]
        BY DEF ActiveInterface
      <3>2. (IF inUse = {} THEN 1 ELSE Min(inUse)) \in DOMAIN interfaces
        BY <2>1, <2>2
      <3> HIDE DEF net, inUse
      <3> QED BY <2>1, <3>1, <3>2
    <2> HIDE DEF net
    <2>4. total \in Int
      BY <2>3, ScoresAreIntegers
    <2>5. /\ assessQuality(interfaces).score = total
          /\ assessQuality(interfaces).level \in {"EXCELLENT", "GOOD", "FAIR", "POOR"}
      BY <1>2 DEF assessQuality, assessInterfaceQuality, net
    <2> QED BY <2>4, <2>5
  <1> QED BY <1>1, <1>2

-----------------------------------------------------------------------------
(* The V1 manager: every step keeps the invariant. *)

LEMMA ManagerStarts == ASSUME ManagerInit PROVE ManagerInv
  <1>1. PICK list \in InitialLists : interfaces = [i \in DOMAIN list |-> NetInfo(list[i])]
    BY DEF ManagerInit
  <1>2. interfaces \in Seq(Net)
    <2>1. list \in Seq(BOOLEAN)
      BY ManagerAssumption
    <2>2. Len(list) \in Nat /\ DOMAIN list = 1 .. Len(list) /\ \A i \in 1 .. Len(list) : list[i] \in BOOLEAN
      <3> DEFINE B == BOOLEAN
      <3>1. list \in Seq(B)
        BY <2>1
      <3> HIDE DEF B
      <3>2. Len(list) \in Nat /\ DOMAIN list = 1 .. Len(list) /\ \A i \in 1 .. Len(list) : list[i] \in B
        BY <3>1
      <3> QED BY <3>2 DEF B
    <2>3. ASSUME NEW inUse \in BOOLEAN PROVE NetInfo(inUse) \in Net
      <3>1. NoTraffic \in Traffic /\ UnmeasuredRssi \in Int
        BY DEF NoTraffic, Traffic, UnmeasuredRssi
      <3>2. TRUE \in BOOLEAN
        OBVIOUS
      <3> QED BY <3>1, <3>2 DEF NetInfo, Net
    <2>4. interfaces = [i \in 1 .. Len(list) |-> NetInfo(list[i])]
      BY <1>1, <2>2
    <2>5. \A i \in 1 .. Len(list) : NetInfo(list[i]) \in Net
      BY <2>2, <2>3
    <2> QED BY <2>2, <2>4, <2>5
  <1>3. ListsInv
    BY <1>2 DEF ManagerInit, ListsInv
  <1>4. AnnouncedQuality
    BY DEF ManagerInit, AnnouncedQuality, Unknown
  <1> QED BY <1>3, <1>4 DEF ManagerInv

LEMMA CopyKeeps == ASSUME ManagerInv, CopyForPing \/ CopyForAnalysis PROVE ManagerInv'
  <1>1. interfaces \in [DOMAIN interfaces -> Net]
    BY DEF ManagerInv, ListsInv
  <1>2. ListsInv'
    BY <1>1 DEF ManagerInv, ListsInv, CopyForPing, CopyForAnalysis
  <1>3. AnnouncedQuality'
    BY DEF ManagerInv, AnnouncedQuality, CopyForPing, CopyForAnalysis
  <1> QED BY <1>2, <1>3 DEF ManagerInv

\* A new list with the same interfaces.
LEMMA ListKeeps ==
    ASSUME ManagerInv, NEW f, interfaces' = f, f \in [DOMAIN interfaces -> Net],
           pinging' \in {pinging, NoList}, analyzing' \in {analyzing, NoList},
           lastSample' = lastSample \/ lastSample' \in Samples, UNCHANGED <<previous, signalled>>
    PROVE  ManagerInv'
  <1>1. interfaces \in Seq(Net) /\ DOMAIN interfaces = 1 .. Len(interfaces) /\ Len(interfaces) \in Nat
    BY DEF ManagerInv, ListsInv
  <1>2. interfaces' \in Seq(Net) /\ DOMAIN interfaces' = DOMAIN interfaces
    BY <1>1
  <1>3. ListsInv'
    BY <1>2 DEF ManagerInv, ListsInv
  <1>4. AnnouncedQuality'
    BY DEF ManagerInv, AnnouncedQuality
  <1> QED BY <1>3, <1>4 DEF ManagerInv

LEMMA RttFacts ==
    ASSUME ListsInv, updateRttAndStateSafe
    PROVE  /\ interfaces' \in [DOMAIN interfaces -> Net]
           /\ \A i \in DOMAIN interfaces : /\ interfaces'[i].loss = interfaces[i].loss
                                           /\ interfaces'[i].traffic = interfaces[i].traffic
  <1>1. PICK rtts \in [DOMAIN pinging -> Rtts] :
           interfaces' = [i \in DOMAIN interfaces |->
                             MergeRtt(interfaces[i], updateRttAndState(pinging, rtts)[i])]
    BY DEF updateRttAndStateSafe
  <1>2. pinging \in [DOMAIN interfaces -> Net] /\ interfaces \in Seq(Net)
    BY DEF ListsInv, updateRttAndStateSafe
  <1>3. ASSUME NEW i \in DOMAIN interfaces
        PROVE  /\ interfaces'[i] \in Net /\ interfaces'[i].loss = interfaces[i].loss
               /\ interfaces'[i].traffic = interfaces[i].traffic
    <2> DEFINE m == updateRttAndState(pinging, rtts)[i]
    <2>1. rtts[i] \in Int /\ pinging[i] \in Net /\ interfaces[i] \in Net /\ i \in DOMAIN pinging
      <3>1. i \in DOMAIN pinging /\ pinging[i] \in Net
        BY <1>2
      <3>2. rtts[i] \in Rtts
        BY <1>1, <3>1
      <3>3. interfaces[i] \in Net
        BY <1>2
      <3> QED BY <3>1, <3>2, <3>3, ManagerAssumption
    <2>2. (rtts[i] >= 0) \in BOOLEAN
          /\ classifyQualityFromRtt(rtts[i]) \in {"Unknown", "Bad", "Good", "Fair", "Poor"}
      BY <2>1 DEF classifyQualityFromRtt
    <2>3. m = [pinging[i] EXCEPT !.rtt = rtts[i], !.up = rtts[i] >= 0,
                                 !.quality = classifyQualityFromRtt(rtts[i])]
      BY <2>1 DEF updateRttAndState
    <2>4. m \in Net
      BY <2>1, <2>2, <2>3, Zenon DEF Net
    <2>5. interfaces'[i] = MergeRtt(interfaces[i], m)
      BY <1>1
    <2> HIDE DEF m
    <2> QED BY <2>1, <2>4, <2>5 DEF MergeRtt, Net
  <1> QED BY <1>1, <1>3

LEMMA TrafficFacts ==
    ASSUME ListsInv, updateTrafficAnalysisSafe
    PROVE  /\ interfaces' \in [DOMAIN interfaces -> Net]
           /\ \A i \in DOMAIN interfaces : /\ interfaces'[i].loss = interfaces[i].loss
                                           /\ interfaces'[i].rtt = interfaces[i].rtt
                                           /\ interfaces'[i].quality = interfaces[i].quality
  <1>1. PICK measured \in {analyzing} \cup {updateTrafficAnalysis(analyzing, t) : t \in Traffics} :
           interfaces' = [i \in DOMAIN interfaces |->
                            [interfaces[i] EXCEPT !.traffic = measured[i].traffic]]
    BY DEF updateTrafficAnalysisSafe
  <1>2. analyzing \in [DOMAIN interfaces -> Net] /\ interfaces \in Seq(Net)
    BY DEF ListsInv, updateTrafficAnalysisSafe
  <1>3. Traffics \subseteq Traffic
    BY ManagerAssumption DEF Traffic
  <1>4. ASSUME NEW i \in DOMAIN interfaces
        PROVE  /\ interfaces'[i] \in Net /\ interfaces'[i].loss = interfaces[i].loss
               /\ interfaces'[i].rtt = interfaces[i].rtt /\ interfaces'[i].quality = interfaces[i].quality
    <2> DEFINE m == measured[i].traffic
    <2>1. analyzing[i] \in Net /\ interfaces[i] \in Net /\ i \in DOMAIN analyzing
      BY <1>2
    <2>2. m \in Traffic
      <3>1. ASSUME NEW t \in Traffics
            PROVE  \/ updateTrafficAnalysis(analyzing, t)[i] = analyzing[i]
                   \/ updateTrafficAnalysis(analyzing, t)[i] = [analyzing[i] EXCEPT !.traffic = t]
        BY <2>1 DEF updateTrafficAnalysis
      <3>2. \/ measured[i] = analyzing[i]
            \/ \E t \in Traffics : measured[i] = [analyzing[i] EXCEPT !.traffic = t]
        BY <3>1
      <3> QED BY <1>3, <2>1, <3>2 DEF Net
    <2>3. interfaces'[i] = [interfaces[i] EXCEPT !.traffic = m]
      BY <1>1
    <2> HIDE DEF m
    <2> QED BY <2>1, <2>2, <2>3 DEF Net
  <1> QED BY <1>1, <1>4

LEMMA LossFacts ==
    ASSUME ListsInv, TcpLossCycle
    PROVE  /\ interfaces' \in [DOMAIN interfaces -> Net] /\ lastSample' \in Samples
           /\ \A i \in DOMAIN interfaces : /\ interfaces'[i].traffic = interfaces[i].traffic
                                           /\ interfaces'[i].rtt = interfaces[i].rtt
                                           /\ interfaces'[i].quality = interfaces[i].quality
  <1> DEFINE inUse == {i \in DOMAIN interfaces : interfaces[i].inUse}
             rate(s) == IF lastSample = NoBaseline THEN -1 ELSE compute(lastSample, s)
  <1>1. PICK s \in Samples : /\ lastSample' = s
                             /\ interfaces' = IF rate(s) < 0 THEN interfaces
                                              ELSE [interfaces EXCEPT ![Min(inUse)].loss = rate(s)]
    BY DEF TcpLossCycle
  <1>2. interfaces \in [DOMAIN interfaces -> Net]
    BY DEF ListsInv
  <1>3. rate(s) \in Int
    <2>1. CASE lastSample = NoBaseline
      BY <2>1
    <2>2. CASE lastSample # NoBaseline
      <3>1. /\ lastSample.out \in Int /\ lastSample.retrans \in Int /\ s.out \in Int /\ s.retrans \in Int
        BY <2>2, ManagerAssumption DEF ListsInv
      <3> QED BY <2>2, <3>1 DEF compute
    <2> QED BY <2>1, <2>2
  <1> DEFINE r == rate(s)
             n == Min(inUse)
  <1>4. interfaces' = interfaces \/ interfaces' = [interfaces EXCEPT ![n].loss = r]
    BY <1>1
  <1>5. r \in Int
    BY <1>3
  <1> HIDE DEF r, n
  <1>6. ASSUME NEW i \in DOMAIN interfaces
        PROVE  /\ interfaces'[i] \in Net /\ interfaces'[i].traffic = interfaces[i].traffic
               /\ interfaces'[i].rtt = interfaces[i].rtt /\ interfaces'[i].quality = interfaces[i].quality
    <2>1. interfaces[i] \in Net
      BY <1>2
    <2>2. interfaces'[i] = interfaces[i] \/ interfaces'[i] = [interfaces[i] EXCEPT !.loss = r]
      BY <1>2, <1>4
    <2> QED BY <1>5, <2>1, <2>2 DEF Net
  <1>7. interfaces' \in [DOMAIN interfaces -> Net]
    BY <1>2, <1>4, <1>6
  <1> QED BY <1>1, <1>6, <1>7

LEMMA QualityKeeps ==
    ASSUME ManagerInv, QualityCycle
    PROVE  ManagerInv' /\ Near(signalled', assessQuality(interfaces))
  <1> DEFINE q == assessQuality(interfaces)
  <1>1. q.score \in Int /\ (q.level = "UNKNOWN" => q = Unknown)
    BY Assessment DEF ManagerInv
  <1>2. /\ signalled' = IF Near(q, previous) THEN signalled ELSE q
        /\ previous' = IF Near(q, previous) THEN previous ELSE q
        /\ UNCHANGED <<interfaces, pinging, analyzing, lastSample>>
    BY DEF QualityCycle
  <1>3. ListsInv'
    BY <1>2 DEF ManagerInv, ListsInv
  <1> HIDE DEF q
  <1>4. AnnouncedQuality' /\ Near(signalled', q)
    <2>1. CASE ~Near(q, previous)
      BY <1>1, <1>2, <2>1 DEF AnnouncedQuality, Near
    <2>2. CASE Near(q, previous)
      <3>1. CASE signalled = previous /\ signalled.score \in Int
        BY <1>1, <1>2, <2>2, <3>1 DEF AnnouncedQuality, Near
      <3>2. CASE previous.level = "UNKNOWN" /\ signalled = Unknown
        <4>1. q = Unknown
          BY <1>1, <2>2, <3>2 DEF Near
        <4> QED BY <1>1, <1>2, <2>2, <3>2, <4>1 DEF AnnouncedQuality, Near, Unknown
      <3> QED BY <3>1, <3>2 DEF ManagerInv, AnnouncedQuality
    <2> QED BY <2>1, <2>2
  <1> QED BY <1>3, <1>4 DEF ManagerInv, q

LEMMA ManagerInvariant == ManagerSpec => []ManagerInv
  <1>1. ASSUME ManagerInv, [ManagerNext]_managerVars PROVE ManagerInv'
    <2>0. ListsInv
      BY <1>1 DEF ManagerInv
    <2>1. CASE CopyForPing \/ CopyForAnalysis
      BY <1>1, <2>1, CopyKeeps
    <2>2. CASE updateRttAndStateSafe
      BY <1>1, <2>0, <2>2, RttFacts, ListKeeps DEF updateRttAndStateSafe
    <2>3. CASE updateTrafficAnalysisSafe
      BY <1>1, <2>0, <2>3, TrafficFacts, ListKeeps DEF updateTrafficAnalysisSafe
    <2>4. CASE TcpLossCycle
      BY <1>1, <2>0, <2>4, LossFacts, ListKeeps DEF TcpLossCycle
    <2>5. CASE QualityCycle
      BY <1>1, <2>5, QualityKeeps
    <2>6. CASE UNCHANGED managerVars
      BY <1>1, <2>6 DEF managerVars, ManagerInv, ListsInv, AnnouncedQuality
    <2> QED BY <1>1, <2>1, <2>2, <2>3, <2>4, <2>5, <2>6 DEF ManagerNext
  <1> QED BY ManagerStarts, <1>1, PTL DEF ManagerSpec

\* updateRttAndStateSafe() and updateTrafficAnalysisSafe() merge what they
\* measured on a copy without the lock: whatever the other monitors stored
\* meanwhile, in however many cycles, is still there.
THEOREM MonitorsDoNotInterfere == ManagerSpec => MonitorsKeepApart
  <1> DEFINE Apart == \A i \in DOMAIN interfaces :
                 LET old == interfaces[i]
                     new == interfaces'[i]
                 IN /\ pinging = pinging' => new.rtt = old.rtt /\ new.quality = old.quality
                    /\ analyzing = analyzing' => new.traffic = old.traffic
                    /\ pinging # pinging' \/ analyzing # analyzing' => new.loss = old.loss
  <1>1. ASSUME ListsInv, ManagerNext PROVE Apart
    <2>1. CASE CopyForPing \/ CopyForAnalysis \/ QualityCycle
      BY <2>1 DEF CopyForPing, CopyForAnalysis, QualityCycle
    <2>2. CASE updateRttAndStateSafe
      BY <1>1, <2>2, RttFacts DEF updateRttAndStateSafe
    <2>3. CASE updateTrafficAnalysisSafe
      BY <1>1, <2>3, TrafficFacts DEF updateTrafficAnalysisSafe
    <2>4. CASE TcpLossCycle
      BY <1>1, <2>4, LossFacts DEF TcpLossCycle
    <2> QED BY <1>1, <2>1, <2>2, <2>3, <2>4 DEF ManagerNext
  <1>2. ASSUME ManagerInv, [ManagerNext]_managerVars PROVE [Apart]_managerVars
    BY <1>1, <1>2 DEF ManagerInv
  <1> QED BY <1>2, ManagerInvariant, PTL DEF ManagerSpec, MonitorsKeepApart

\* The quality monitor compares with what it announced last: after each cycle
\* the last signal is at most 15 points off and of the level assess() returns,
\* also after the first cycle, whose previous score is not initialised.
THEOREM QualityIsKnown == ManagerSpec => ClientsKnowQuality
  <1>1. ASSUME ManagerInv, [ManagerNext]_managerVars
        PROVE  [QualityCycle => Near(signalled', assessQuality(interfaces))]_managerVars
    BY <1>1, QualityKeeps
  <1> QED BY <1>1, ManagerInvariant, PTL DEF ManagerSpec, ClientsKnowQuality

=============================================================================
