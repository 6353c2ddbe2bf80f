------------------------ MODULE IncidentEngineProofs ------------------------
(***************************************************************************)
(* Proofs about the incident engine, for every set of sockets, cookies and *)
(* samples and every policy: that each of its steps keeps the invariant,   *)
(* and the theorems.                                                       *)
(***************************************************************************)
EXTENDS IncidentEngineLemmas

-----------------------------------------------------------------------------
(* One call of process(). *)

(* The end of the sockets of S: their records go, and nothing else changes.  *)
LEMMA ForgetStep ==
    ASSUME EngineInv, NEW S \in SUBSET Sockets, \A s \in S : Over(s),
           NEW gone \in Seq(Emitted), Told(gone) = {}, Mentioned(gone) = IdsOn(S),
           Commit(Without(records, S), gone, <<>>), next_incident_id' = next_incident_id,
           window' = [k \in Keys |-> IF k[2] \in S THEN <<>> ELSE window[k]]
    PROVE  /\ RecordStep
           /\ \A k \in Keys : IF k[2] \in S THEN records'[k] = NoRecord
                              ELSE records'[k] = records[k]
<1>0. /\ records' = [k \in Keys |-> IF k[2] \in S THEN NoRecord ELSE records[k]]
      /\ view' = {o \in view : o.id \notin Mentioned(emissions')} \cup Told(emissions')
      /\ emissions' = gone \o <<>>
  BY DEF Commit, Without
<1>1. Mentioned(emissions') = IdsOn(S) /\ Told(emissions') = {}
  BY <1>0, ConcatSays, NothingSays
<1>2. \A k \in Keys :
         /\ k[2] \in S => records'[k] = NoRecord /\ ~Active(k)' /\ Forgotten(k)
         /\ k[2] \notin S => /\ records'[k] = records[k] /\ (Active(k)' <=> Active(k)) /\ Kept(k)
                             /\ Shown(k)' = Shown(k)
  BY <1>0 DEF Active, NoRecord, Forgotten, Kept, Shown, Observation
<1>3. \A k \in Keys : Active(k) => (records[k].id \in IdsOn(S) <=> k[2] \in S)
  BY DEF IdsOn, EngineInv, IdsInv
<1>4. Reported
  BY <1>0, <1>1, <1>2, <1>3 DEF Reported
<1>5. \A k \in Keys : ~Opens(k)
  BY <1>2 DEF Opens
<1> QED BY <1>0, <1>2, <1>4, <1>5 DEF RecordStep

(* One evaluateLocked() call.                                                *)
LEMMA JudgeStep ==
    ASSUME EngineInv, KeysCounted, NEW k \in Keys, NEW e \in Evidences, NEW old \in SUBSET Sockets,
           \A s, t \in old : s = t, \A s \in old : Over(s), k[2] \notin old, Judge(k, e, old)
    PROVE  /\ RecordStep /\ authoritative' = authoritative \ old
           /\ \A j \in Keys : /\ j[2] \in old => records'[j] = NoRecord
                              /\ j[2] \notin old /\ j # k => records'[j] = records[j]
           /\ e.verdict = "Unavailable" => records'[k] = records[k]
<1> DEFINE table == Without(records, old)
           r == records[k]
           new == Evaluate(table[k], e, Room(table), next_incident_id)
           gone == ResolutionsOf(old) \o Recovered(k, table[k], e)
           up == Raised(k, table[k], e, new)
<1>1. /\ records' = [table EXCEPT ![k] = new] /\ emissions' = gone \o up
      /\ view' = {o \in view : o.id \notin Mentioned(emissions')} \cup Told(emissions')
      /\ next_incident_id' = next_incident_id + (IF Opened(table[k], new) THEN 1 ELSE 0)
      /\ authoritative' = authoritative \ old
      /\ window' = [[j \in Keys |-> IF j[2] \in old THEN <<>> ELSE window[j]]
                       EXCEPT ![k] = Judged(@, e)]
  BY DEF Judge, Commit
<1>2. /\ records \in [Keys -> RecordType] /\ next_incident_id \in Nat /\ Counts(r, window[k])
      /\ window[k] \in Seq(Verdicts) /\ DOMAIN records = Keys /\ EngineTypes
      /\ NoRecord \in RecordType /\ r \in RecordType
  BY NoElements DEF EngineInv, EngineTypes, CountsInv, NoRecord, RecordType
<1>3. table \in [Keys -> RecordType] /\ table[k] = r
      /\ table = [j \in Keys |-> IF j[2] \in old THEN NoRecord ELSE records[j]]
  BY <1>2 DEF Without
<1>4. Evaluated(r, e, next_incident_id, new)
  BY <1>2, <1>3, EvaluatedInTable
<1> HIDE DEF table, new
<1> DEFINE M == MentionedOf(k, r, e, new)
           T == ToldOf(k, r, e, new)
<1>5. /\ Recovered(k, r, e) \in Seq(Emitted) /\ Told(Recovered(k, r, e)) = {}
      /\ Raised(k, r, e, new) \in Seq(Emitted)
      /\ \A i \in M : \/ r.status = "active" /\ i = r.id
                      \/ r.status # "active" /\ new.status = "active" /\ i = next_incident_id
      /\ \A t \in T : new.status = "active" /\ t = Observation(k, new, "Active")
      /\ r.status = "active" /\ new.status = "active"
            /\ Observation(k, new, "Active") = Observation(k, r, "Active")
            => r.id \notin M \/ Observation(k, new, "Active") \in T
      /\ r.status = "active"
            /\ ~(new.status = "active"
                 /\ Observation(k, new, "Active") = Observation(k, r, "Active")) => r.id \in M
      /\ new.status = "active"
            /\ ~(r.status = "active"
                 /\ Observation(k, new, "Active") = Observation(k, r, "Active"))
            => Observation(k, new, "Active") \in T
  <2>1. Publishes(k, e, new)
    BY <1>2, <1>4, SamplePublishes
  <2> QED BY <2>1 DEF Publishes, Active, Shown
<1>6. Mentioned(emissions') = IdsOn(old) \cup M /\ Told(emissions') = T
  <2>1. /\ ResolutionsOf(old) \in Seq(Emitted) /\ Told(ResolutionsOf(old)) = {}
        /\ Mentioned(ResolutionsOf(old)) = IdsOn(old)
    BY <1>2, ResolutionsOfSay
  <2>2. /\ gone \in Seq(Emitted) /\ Told(gone) = {}
        /\ Mentioned(gone) = IdsOn(old) \cup Mentioned(Recovered(k, r, e))
    BY <1>3, <1>5, <2>1, ConcatSays
  <2>3. up = Raised(k, r, e, new) /\ up \in Seq(Emitted)
    BY <1>3, <1>5
  <2>4. emissions' = gone \o up
    BY <1>1
  <2> HIDE DEF gone, up
  <2>5. /\ Mentioned(gone \o up) = Mentioned(gone) \cup Mentioned(up)
        /\ Told(gone \o up) = Told(gone) \cup Told(up)
    <3>1. gone \in Seq(Emitted) /\ up \in Seq(Emitted)
      BY <2>2, <2>3
    <3> QED BY <3>1, ConcatSays
  <2> QED BY <2>2, <2>3, <2>4, <2>5 DEF MentionedOf, ToldOf
<1> HIDE DEF M, T, gone, up
<1>7. /\ \A j \in Keys : records'[j] = IF j = k THEN new ELSE IF j[2] \in old THEN NoRecord
                                       ELSE records[j]
      /\ \A j \in Keys : window'[j] = IF j = k THEN Judged(window[k], e)
                                      ELSE IF j[2] \in old THEN <<>> ELSE window[j]
      /\ records' = [j \in Keys |-> records'[j]] /\ window' = [j \in Keys |-> window'[j]]
      /\ DOMAIN records' = Keys /\ DOMAIN window' = Keys
  BY <1>1, <1>3
<1>8. /\ Active(k) <=> r.status = "active"
      /\ Active(k)' <=> new.status = "active"
      /\ Shown(k) = Observation(k, r, "Active") /\ Shown(k)' = Observation(k, new, "Active")
  BY <1>7 DEF Active, Shown
<1>9. ASSUME NEW j \in Keys, j # k, j[2] \in old PROVE ~Active(j)' /\ Forgotten(j)
  BY <1>7, <1>9 DEF Active, NoRecord, Forgotten
<1>10. ASSUME NEW j \in Keys, j # k, j[2] \notin old
       PROVE  (Active(j)' <=> Active(j)) /\ Shown(j)' = Shown(j) /\ Kept(j)
  BY <1>7, <1>10 DEF Active, Shown, Observation, Kept
<1>11. Reported
  <2>1. \A j \in Keys : Active(j) => (records[j].id \in IdsOn(old) <=> j[2] \in old)
    BY DEF IdsOn, EngineInv, IdsInv
  <2>2. ASSUME NEW j \in Keys, j # k, Active(j) PROVE records[j].id \notin M
    <3>1. /\ records[j].id < next_incident_id
          /\ Active(k) => records[j].id # records[k].id
      BY <2>2 DEF EngineInv, IdsInv
    <3>2. records[j].id \in Nat
      BY <1>2 DEF RecordType
    <3>3. \A i \in M : (Active(k) /\ i = records[k].id) \/ i = next_incident_id
      BY <1>5, <1>8
    <3> QED BY <1>2, <3>1, <3>2, <3>3
  <2>3. ASSUME NEW j \in Keys
        PROVE  /\ Active(j) /\ Active(j)' /\ Shown(j)' = Shown(j) =>
                     records[j].id \notin Mentioned(emissions') \/ Shown(j)' \in Told(emissions')
               /\ Active(j) /\ ~(Active(j)' /\ Shown(j)' = Shown(j)) =>
                     records[j].id \in Mentioned(emissions')
               /\ Active(j)' /\ ~(Active(j) /\ Shown(j)' = Shown(j)) =>
                     Shown(j)' \in Told(emissions')
    <3>1. CASE j = k
      BY <1>5, <1>6, <1>8, <2>1, <3>1
    <3>2. CASE j # k /\ j[2] \in old
      BY <1>6, <1>9, <2>1, <3>2
    <3>3. CASE j # k /\ j[2] \notin old
      BY <1>6, <1>10, <2>1, <2>2, <3>3
    <3> QED BY <3>1, <3>2, <3>3
  <2>4. \A o \in Told(emissions') : \E j \in Keys : Active(j)' /\ o = Shown(j)'
    BY <1>5, <1>6, <1>8
  <2> QED BY <1>1, <2>3, <2>4 DEF Reported
<1>12. \A j \in Keys : Opens(j) => j = k /\ Opened(r, new)
  BY <1>8, <1>9, <1>10 DEF Opens, Opened
<1>13. next_incident_id' = next_incident_id + (IF Opened(r, new) THEN 1 ELSE 0)
  BY <1>1, <1>3
<1>14. Sampled(k, e)
  BY <1>4, <1>7 DEF Sampled
<1>15. RecordStep
  BY <1>2, <1>7, <1>9, <1>10, <1>11, <1>12, <1>13, <1>14 DEF RecordStep
<1>16. e.verdict = "Unavailable" => new = r
  BY <1>3 DEF new, Evaluate
<1> QED BY <1>1, <1>7, <1>15, <1>16

LEMMA VerdictTypes ==
    /\ \A rtt \in RttSamples : Evidence(RttVerdict(rtt), rtt) \in Evidences
    /\ \A m \in IntervalSamples : Evidence(IntervalVerdict(m), m.ratio) \in Evidences
    /\ \A u \in UplinkSamples : Evidence(UplinkVerdict(u), u.validity) \in Evidences
    /\ \A s \in Sockets, c \in RouteContexts :
          /\ Evidence(RouteVerdict(s, c), "none") \in Evidences
          /\ Evidence(ConflictVerdict(s, c), c.ifindex) \in Evidences
          /\ ~(RouteVerdict(s, c) = "Bad" /\ ConflictVerdict(s, c) = "Bad")
          /\ s \notin authoritative =>
                RouteVerdict(s, c) = "Unavailable" /\ ConflictVerdict(s, c) = "Unavailable"
<1>1. ASSUME NEW rtt \in RttSamples PROVE Evidence(RttVerdict(rtt), rtt) \in Evidences
  <2>1. RttVerdict(rtt) \in Verdicts /\ rtt \in Values
    BY DEF RttVerdict, Verdicts, Values
  <2> QED BY <2>1 DEF Evidence, Evidences
<1>2. ASSUME NEW m \in IntervalSamples PROVE Evidence(IntervalVerdict(m), m.ratio) \in Evidences
  <2>1. IntervalVerdict(m) \in Verdicts /\ m.ratio \in Values
    BY DEF IntervalVerdict, Verdicts, Values
  <2> QED BY <2>1 DEF Evidence, Evidences
<1>3. ASSUME NEW u \in UplinkSamples PROVE Evidence(UplinkVerdict(u), u.validity) \in Evidences
  <2>1. UplinkVerdict(u) \in Verdicts /\ u.validity \in Values
    BY DEF UplinkVerdict, Verdicts, Values
  <2> QED BY <2>1 DEF Evidence, Evidences
<1>4. ASSUME NEW s \in Sockets, NEW c \in RouteContexts
      PROVE  /\ Evidence(RouteVerdict(s, c), "none") \in Evidences
             /\ Evidence(ConflictVerdict(s, c), c.ifindex) \in Evidences
             /\ ~(RouteVerdict(s, c) = "Bad" /\ ConflictVerdict(s, c) = "Bad")
             /\ s \notin authoritative =>
                   RouteVerdict(s, c) = "Unavailable" /\ ConflictVerdict(s, c) = "Unavailable"
  <2>1. RouteVerdict(s, c) \in Verdicts /\ "none" \in Values
    BY DEF RouteVerdict, Verdicts, Values
  <2>2. ConflictVerdict(s, c) \in Verdicts /\ c.ifindex \in Values
    BY DEF ConflictVerdict, Verdicts, Values
  <2>3. RouteVerdict(s, c) = "Bad" => c.status = "Unavailable"
    BY DEF RouteVerdict
  <2>4. ConflictVerdict(s, c) = "Bad" => c.status \in {"Partial", "Ambiguous"}
    BY DEF ConflictVerdict
  <2>5. s \notin authoritative =>
           RouteVerdict(s, c) = "Unavailable" /\ ConflictVerdict(s, c) = "Unavailable"
    BY DEF RouteVerdict, ConflictVerdict, SocketAuthoritative
  <2> QED BY <2>1, <2>2, <2>3, <2>4, <2>5 DEF Evidence, Evidences
<1> QED BY <1>1, <1>2, <1>3, <1>4

(* One route context of a socket.                                            *)
LEMMA RouteStep ==
    ASSUME EngineInv, KeysCounted, NEW s \in Sockets, NEW c \in RouteContexts, SocketRoute(s, c)
    PROVE  /\ RecordStep
           /\ \A j \in Keys : j[2] # s => records'[j] = records[j]
           /\ \A x \in SocketTypes :
                 \/ records'[<<x, s>>] = records[<<x, s>>]
                 \/ s \in authoritative
<1> DEFINE k == <<"RouteUnavailable", s>>
           l == <<"SocketRouteConflict", s>>
           e == Evidence(RouteVerdict(s, c), "none")
           f == Evidence(ConflictVerdict(s, c), c.ifindex)
           nk == Evaluate(records[k], e, Room(records), next_incident_id)
           nl == Evaluate(records[l], f, Room(records), next_incident_id)
           gone == Recovered(k, records[k], e) \o Recovered(l, records[l], f)
           up == Raised(k, records[k], e, nk) \o Raised(l, records[l], f, nl)
<1>1. /\ records' = [records EXCEPT ![k] = nk, ![l] = nl] /\ emissions' = gone \o up
      /\ view' = {o \in view : o.id \notin Mentioned(emissions')} \cup Told(emissions')
      /\ next_incident_id' = next_incident_id
            + (IF Opened(records[k], nk) \/ Opened(records[l], nl) THEN 1 ELSE 0)
      /\ window' = [window EXCEPT ![k] = Judged(@, e), ![l] = Judged(@, f)]
  BY DEF SocketRoute, Commit
<1>2. /\ k \in Keys /\ l \in Keys /\ k # l /\ k[2] = s /\ l[2] = s /\ DOMAIN records = Keys
      /\ DOMAIN window = Keys
      /\ records \in [Keys -> RecordType] /\ next_incident_id \in Nat
  BY KeyFacts DEF SocketTypes, EngineInv, EngineTypes
<1>3. /\ e \in Evidences /\ f \in Evidences /\ ~(e.verdict = "Bad" /\ f.verdict = "Bad")
      /\ s \notin authoritative => e.verdict = "Unavailable" /\ f.verdict = "Unavailable"
  BY VerdictTypes DEF Evidence
<1> HIDE DEF k, l, e, f
<1>4. /\ Evaluated(records[k], e, next_incident_id, nk)
      /\ Evaluated(records[l], f, next_incident_id, nl)
  BY <1>2, <1>3, EvaluatedInTable
<1>5. s \notin authoritative => nk = records[k] /\ nl = records[l]
  BY <1>3 DEF Evaluate
<1> HIDE DEF nk, nl
<1>6. Publishes(k, e, nk) /\ Publishes(l, f, nl)
  BY <1>2, <1>3, <1>4, SamplePublishes
<1> DEFINE Mk == MentionedOf(k, records[k], e, nk)
           Ml == MentionedOf(l, records[l], f, nl)
           Tk == ToldOf(k, records[k], e, nk)
           Tl == ToldOf(l, records[l], f, nl)
<1>7. Mentioned(emissions') = Mk \cup Ml /\ Told(emissions') = Tk \cup Tl
  <2>1. /\ gone \in Seq(Emitted) /\ Told(gone) = {}
        /\ Mentioned(gone) = Mentioned(Recovered(k, records[k], e))
                               \cup Mentioned(Recovered(l, records[l], f))
    BY <1>6, ConcatSays DEF Publishes
  <2>2. /\ up \in Seq(Emitted) /\ Told(up) = Tk \cup Tl
        /\ Mentioned(up) = Mentioned(Raised(k, records[k], e, nk))
                             \cup Mentioned(Raised(l, records[l], f, nl))
    BY <1>6, ConcatSays DEF Publishes, ToldOf
  <2>3. emissions' = gone \o up
    BY <1>1
  <2> HIDE DEF gone, up
  <2>4. /\ Mentioned(gone \o up) = Mentioned(gone) \cup Mentioned(up)
        /\ Told(gone \o up) = Told(gone) \cup Told(up)
    <3>1. gone \in Seq(Emitted) /\ up \in Seq(Emitted)
      BY <2>1, <2>2
    <3> QED BY <3>1, ConcatSays
  <2> QED BY <2>1, <2>2, <2>3, <2>4 DEF MentionedOf
<1>8. /\ records'[k] = nk /\ records'[l] = nl
      /\ window'[k] = Judged(window[k], e) /\ window'[l] = Judged(window[l], f)
      /\ \A j \in Keys : j # k /\ j # l => records'[j] = records[j] /\ window'[j] = window[j]
      /\ records' = [j \in Keys |-> records'[j]] /\ window' = [j \in Keys |-> window'[j]]
      /\ DOMAIN records' = Keys /\ DOMAIN window' = Keys
  BY <1>1, <1>2
<1> HIDE DEF Mk, Ml, Tk, Tl, gone, up
<1>9. /\ Active(k)' <=> nk.status = "active"
      /\ Active(l)' <=> nl.status = "active"
      /\ Shown(k)' = Observation(k, nk, "Active") /\ Shown(l)' = Observation(l, nl, "Active")
  BY <1>8 DEF Active, Shown
<1>10. ASSUME NEW j \in Keys, j # k, j # l
       PROVE  (Active(j)' <=> Active(j)) /\ Shown(j)' = Shown(j) /\ Kept(j)
  BY <1>8, <1>10 DEF Active, Shown, Observation, Kept
<1>11. /\ Active(k) <=> records[k].status = "active"
       /\ Active(l) <=> records[l].status = "active"
  BY DEF Active
<1>12. ~(Opened(records[k], nk) /\ Opened(records[l], nl))
  <2>1. ASSUME NEW j \in Keys, NEW d \in Evidences, NEW new,
               Evaluated(records[j], d, next_incident_id, new), Opened(records[j], new)
        PROVE  d.verdict = "Bad"
    <3>1. /\ records[j] \in RecordType /\ window[j] \in Seq(Verdicts)
          /\ Counts(records[j], window[j])
      BY DEF EngineInv, EngineTypes, CountsInv
    <3>2. Outcome(records[j], window[j], d, next_incident_id, new)
      BY <1>2, <2>1, <3>1, EvaluateCounts
    <3> QED BY <2>1, <3>2 DEF Opened, Outcome
  <2> QED BY <1>2, <1>3, <1>4, <2>1
<1>13. Reported
  <2>1. \A i, j \in Keys : i # j /\ Active(i) /\ Active(j) => records[i].id # records[j].id
    BY DEF EngineInv, IdsInv
  <2>2. \A j \in Keys : Active(j) => records[j].id # next_incident_id
    BY <1>2 DEF EngineInv, IdsInv
  <2>3. \A j \in Keys : Active(j) /\ j # k => records[j].id \notin Mk
    BY <1>2, <1>6, <2>1, <2>2 DEF Publishes, Mk
  <2>4. \A j \in Keys : Active(j) /\ j # l => records[j].id \notin Ml
    BY <1>2, <1>6, <2>1, <2>2 DEF Publishes, Ml
  <2>5. ASSUME NEW j \in Keys
        PROVE  /\ Active(j) /\ Active(j)' /\ Shown(j)' = Shown(j) =>
                     records[j].id \notin Mentioned(emissions') \/ Shown(j)' \in Told(emissions')
               /\ Active(j) /\ ~(Active(j)' /\ Shown(j)' = Shown(j)) =>
                     records[j].id \in Mentioned(emissions')
               /\ Active(j)' /\ ~(Active(j) /\ Shown(j)' = Shown(j)) =>
                     Shown(j)' \in Told(emissions')
    <3>1. CASE j = k
      BY <1>2, <1>6, <1>7, <1>9, <2>4, <3>1 DEF Publishes, Mk, Tk
    <3>2. CASE j = l
      BY <1>2, <1>6, <1>7, <1>9, <2>3, <3>2 DEF Publishes, Ml, Tl
    <3>3. CASE j # k /\ j # l
      BY <1>7, <1>10, <2>3, <2>4, <3>3
    <3> QED BY <3>1, <3>2, <3>3
  <2>6. ASSUME NEW o \in Told(emissions') PROVE \E j \in Keys : Active(j)' /\ o = Shown(j)'
    <3>1. CASE o \in Tk
      BY <1>2, <1>6, <1>9, <3>1 DEF Publishes, Tk
    <3>2. CASE o \in Tl
      BY <1>2, <1>6, <1>9, <3>2 DEF Publishes, Tl
    <3> QED BY <1>7, <3>1, <3>2
  <2> QED BY <1>1, <2>5, <2>6 DEF Reported
<1>14. \A j \in Keys : Opens(j) => \/ j = k /\ Opened(records[k], nk)
                                   \/ j = l /\ Opened(records[l], nl)
  BY <1>9, <1>10, <1>11 DEF Opens, Opened
<1>15. Sampled(k, e) /\ Sampled(l, f)
  BY <1>4, <1>8 DEF Sampled
<1>16. /\ next_incident_id' \in {next_incident_id, next_incident_id + 1}
       /\ \A j \in Keys : Opens(j) => /\ next_incident_id' = next_incident_id + 1
                                      /\ \A i \in Keys : i # j => ~Opens(i)
  BY <1>1, <1>2, <1>12, <1>14
<1>17. RecordStep
  BY <1>3, <1>8, <1>10, <1>13, <1>15, <1>16 DEF RecordStep
<1>18. \A j \in Keys : j[2] # s => records'[j] = records[j]
  BY <1>2, <1>8
<1>19. ASSUME NEW x \in SocketTypes
       PROVE  records'[<<x, s>>] = records[<<x, s>>] \/ s \in authoritative
  BY <1>5, <1>8, KeyFacts
<1> QED BY <1>17, <1>18, <1>19

\* The tracker never takes up a socket again that it left.
TrackerStep ==
    /\ tracker' \in [Sockets -> {"new", "open", "replaced", "closed"}]
    /\ \A t \in Sockets :
          /\ tracker[t] # "new" => tracker'[t] # "new"
          /\ tracker[t] \in {"replaced", "closed"} => tracker'[t] \in {"replaced", "closed"}
          /\ tracker[t] = "closed" => tracker'[t] = "closed"

LEMMA TrackerActiveFacts ==
    ASSUME EngineInv, NEW s \in Sockets, TrackerActive(s)
    PROVE  /\ TrackerStep /\ TrackerInv' /\ tracker'[s] = "open" /\ tracker[s] # "closed"
           /\ \A t \in Sockets : SameCookie(s, t) /\ tracker[t] # "new" => Over(t)
           /\ \A t \in Sockets :
                 SameCookie(s, t) /\ Generation[s] < Generation[t] => tracker[t] = "new"
<1>0. /\ tracker \in [Sockets -> {"new", "open", "replaced", "closed"}] /\ TrackerInv
      /\ \A t \in Sockets : Generation[t] \in Nat
  BY SocketAssumption DEF EngineInv, EngineTypes
<1>1. /\ tracker[s] \in {"new", "open"}
      /\ tracker' = [t \in Sockets |->
            IF t = s THEN "open"
            ELSE IF tracker[t] = "open" /\ SameCookie(s, t) THEN "replaced" ELSE tracker[t]]
      /\ \A t \in Sockets :
            SameCookie(s, t) /\ Generation[s] < Generation[t] => tracker[t] = "new"
  BY <1>0 DEF TrackerActive, SameCookie
<1>2. TrackerStep
  BY <1>0, <1>1 DEF TrackerStep
<1>3. \A t \in Sockets : SameCookie(s, t) /\ tracker[t] # "new" => Over(t)
  BY <1>0, <1>1 DEF SameCookie, Over
<1>4. TrackerInv'
  <2> SUFFICES ASSUME NEW a \in Sockets, NEW b \in Sockets, SameCookie(a, b),
                      Generation[a] < Generation[b], tracker'[b] # "new"
               PROVE  tracker'[a] # "open"
    BY DEF TrackerInv, SameCookie
  <2>1. CASE a = s
    BY <1>1, <2>1 DEF SameCookie
  <2>2. CASE b = s
    BY <1>1, <2>2 DEF SameCookie
  <2>3. CASE a # s /\ b # s
    BY <1>0, <1>1, <2>3 DEF TrackerInv
  <2> QED BY <2>1, <2>2, <2>3
<1> QED BY <1>1, <1>2, <1>3, <1>4

LEMMA TrackerClosedFacts ==
    ASSUME EngineInv, NEW s \in Sockets, TrackerClosed(s)
    PROVE  TrackerStep /\ TrackerInv' /\ tracker'[s] = "closed" /\ tracker[s] # "new"
<1>0. tracker \in [Sockets -> {"new", "open", "replaced", "closed"}] /\ TrackerInv
  BY DEF EngineInv, EngineTypes
<1> QED BY <1>0 DEF TrackerClosed, TrackerStep, TrackerInv, SameCookie

LEMMA TrackerSame ==
    ASSUME EngineInv, tracker' = tracker
    PROVE  TrackerStep /\ TrackerInv'
  BY DEF EngineInv, EngineTypes, TrackerStep, TrackerInv, SameCookie

(* The older generation that s supersedes: there is at most one, and SocketTracker *)
(* is done with it when it is on to s.                                            *)
LEMMA SupersededFacts ==
    ASSUME EngineInv, NEW s \in Sockets
    PROVE  /\ Superseded(s) \in SUBSET Sockets /\ s \notin Superseded(s)
           /\ Superseded(s) = {t \in authoritative : SameCookie(s, t)}
           /\ \A t, u \in Superseded(s) : t = u
           /\ tracker[s] = "open" /\ tracker' = tracker => \A t \in Superseded(s) : Over(t)
           /\ TrackerActive(s) => \A t \in Superseded(s) : Over(t)
<1>0. /\ authoritative \in SUBSET Sockets /\ \A t \in authoritative : tracker[t] # "new"
      /\ tracker \in [Sockets -> {"new", "open", "replaced", "closed"}] /\ TrackerInv
      /\ \A t, u \in authoritative : ~SameCookie(t, u)
  BY DEF EngineInv, EngineTypes, SocketInv
<1>1. Superseded(s) = {t \in authoritative : SameCookie(s, t)}
  BY DEF Superseded, SameCookie
<1>2. \A t, u \in Superseded(s) : t = u
  BY <1>0, <1>1 DEF SameCookie
<1>3. ASSUME tracker[s] = "open", tracker' = tracker, NEW t \in Superseded(s) PROVE Over(t)
  <2>1. t \in Sockets /\ SameCookie(s, t) /\ SameCookie(t, s) /\ tracker[t] # "new"
    BY <1>0, <1>1 DEF SameCookie
  <2>2. /\ Generation[s] \in Nat /\ Generation[t] \in Nat /\ Generation[s] # Generation[t]
    BY <2>1, SocketAssumption DEF SameCookie
  <2>3. tracker[t] # "open"
    BY <1>0, <1>3, <2>1, <2>2 DEF TrackerInv
  <2> QED BY <1>0, <1>3, <2>1, <2>3 DEF Over
<1>4. ASSUME TrackerActive(s), NEW t \in Superseded(s) PROVE Over(t)
  BY <1>0, <1>1, <1>4, TrackerActiveFacts
<1> QED BY <1>0, <1>1, <1>2, <1>3, <1>4 DEF SameCookie

\* A step that leaves the table alone.
Quiet == UNCHANGED <<records, window, next_incident_id, view>>

\* The sockets the engine knows, after a step.
KnownSockets ==
    /\ authoritative' \in SUBSET heard' /\ heard' \in SUBSET Sockets /\ ended' \in SUBSET Sockets

LEMMA StepPreserves ==
    ASSUME EngineInv, RecordStep \/ Quiet, TrackerStep, TrackerInv', KnownSockets, SocketInv'
    PROVE  EngineInv'
<1>1. CASE RecordStep
  <2>1. /\ records' \in [Keys -> RecordType] /\ window' \in [Keys -> Seq(Verdicts)]
        /\ next_incident_id' \in Nat \ {0}
        /\ CountsInv' /\ IdsInv' /\ EmissionsSuffice'
    BY <1>1, RecordStepPreserves
  <2>2. EngineTypes'
    BY <2>1 DEF EngineTypes, TrackerStep, KnownSockets
  <2> QED BY <2>1, <2>2 DEF EngineInv
<1>2. CASE Quiet
  <2>1. EngineTypes'
    BY <1>2 DEF Quiet, EngineInv, EngineTypes, TrackerStep, KnownSockets
  <2>2. CountsInv'
    BY <1>2 DEF Quiet, EngineInv, CountsInv, Counts, Crowded
  <2>3. IdsInv'
    BY <1>2 DEF Quiet, EngineInv, IdsInv, Active
  <2>4. EmissionsSuffice'
    BY <1>2 DEF Quiet, EngineInv, EmissionsSuffice, Active
  <2> QED BY <2>1, <2>2, <2>3, <2>4 DEF EngineInv
<1> QED BY <1>1, <1>2

\* SocketInv with its parts named, to prove them one by one.
Started == \A s \in Sockets : s \in heard \/ Tracked(s) => tracker[s] # "new"
LeftBehind == \A s \in heard \ authoritative : tracker[s] \in {"replaced", "closed"} /\ ~Tracked(s)
Ended == \A s \in ended : tracker[s] = "closed" /\ s \notin authoritative /\ ~Tracked(s)
OneAuthority == \A s, t \in authoritative : ~SameCookie(s, t)
NewerTracked ==
    \A s, t \in Sockets :
        SameCookie(s, t) /\ Generation[s] < Generation[t] /\ Tracked(t) => s \notin authoritative
RoutesKnown ==
    \A s \in Sockets, x \in {"RouteUnavailable", "SocketRouteConflict"} :
        Stored(<<x, s>>) => s \in authoritative

LEMMA SocketInvParts ==
    /\ SocketInv <=> /\ Started /\ LeftBehind /\ Ended
                     /\ OneAuthority /\ NewerTracked /\ RoutesKnown
    /\ SocketInv' <=> /\ Started' /\ LeftBehind' /\ Ended'
                      /\ OneAuthority' /\ NewerTracked' /\ RoutesKnown'
  BY DEF SocketInv, Started, LeftBehind, Ended, OneAuthority, NewerTracked, RoutesKnown

\* After a step, the sockets of gone are forgotten, and a key that is stored was
\* stored before or is one of fresh.
StoredStep(gone, fresh) ==
    \A x \in SocketTypes, t \in Sockets :
        Stored(<<x, t>>)' => t \notin gone /\ (Stored(<<x, t>>) \/ <<x, t>> \in fresh)

LEMMA SocketActivePreserves ==
    ASSUME EngineInv, NEW s \in Sockets, SocketActive(s)
    PROVE  EngineInv' /\ RecordStep
<1> DEFINE old == Superseded(s)
<1>0. /\ TrackerActive(s) /\ Commit(Without(records, old), ResolutionsOf(old), <<>>)
      /\ authoritative' = (authoritative \ old) \cup {s}
      /\ window' = [k \in Keys |-> IF k[2] \in old THEN <<>> ELSE window[k]]
      /\ heard' = heard \cup {s} /\ ended' = ended /\ next_incident_id' = next_incident_id
  BY DEF SocketActive
<1>1. /\ old \in SUBSET Sockets /\ s \notin old
      /\ old = {t \in authoritative : SameCookie(s, t)}
      /\ \A t, u \in old : t = u
  BY <1>0, SupersededFacts
<1>2. /\ TrackerStep /\ TrackerInv' /\ tracker'[s] = "open" /\ tracker[s] # "closed"
      /\ \A t \in Sockets :
            SameCookie(s, t) /\ Generation[s] < Generation[t] => tracker[t] = "new"
  BY <1>0, TrackerActiveFacts
<1>3. \A t \in old : Over(t)
  BY <1>0, SupersededFacts
<1> HIDE DEF old
<1>4. /\ RecordStep
      /\ \A k \in Keys : IF k[2] \in old THEN records'[k] = NoRecord ELSE records'[k] = records[k]
  <2>1. /\ ResolutionsOf(old) \in Seq(Emitted) /\ Told(ResolutionsOf(old)) = {}
        /\ Mentioned(ResolutionsOf(old)) = IdsOn(old)
    BY <1>1, ResolutionsOfSay DEF EngineInv
  <2> QED BY <1>0, <1>1, <1>3, <2>1, ForgetStep
<1>5. StoredStep(old, {})
  BY <1>4, KeyFacts DEF StoredStep, Stored, NoRecord
<1>6. \A t \in Sockets : Tracked(t)' => t \notin old /\ Tracked(t)
  BY <1>5 DEF StoredStep, Tracked
<1>7. /\ heard \in SUBSET Sockets /\ authoritative \in SUBSET heard /\ ended \in SUBSET Sockets
      /\ Started /\ LeftBehind /\ Ended /\ OneAuthority /\ NewerTracked /\ RoutesKnown
  BY SocketInvParts DEF EngineInv, EngineTypes
<1>8. KnownSockets
  BY <1>0, <1>7 DEF KnownSockets
<1>9. Started'
  BY <1>0, <1>2, <1>6, <1>7 DEF Started, TrackerStep
<1>10. LeftBehind'
  <2> SUFFICES ASSUME NEW t \in heard' \ authoritative'
               PROVE  tracker'[t] \in {"replaced", "closed"} /\ ~Tracked(t)'
    BY DEF LeftBehind
  <2>1. CASE t \in old
    BY <1>3, <1>6, <2>1 DEF Over
  <2>2. CASE t \notin old
    BY <1>0, <1>2, <1>6, <1>7, <2>2 DEF LeftBehind, TrackerStep
  <2> QED BY <2>1, <2>2
<1>11. Ended'
  BY <1>0, <1>2, <1>6, <1>7 DEF Ended, TrackerStep
<1>12. OneAuthority'
  BY <1>0, <1>1, <1>7 DEF OneAuthority, SameCookie
<1>13. NewerTracked'
  <2> SUFFICES ASSUME NEW a \in Sockets, NEW b \in Sockets, SameCookie(a, b),
                      Generation[a] < Generation[b], Tracked(b)', a \in authoritative'
               PROVE  FALSE
    BY DEF NewerTracked, SameCookie
  <2>1. CASE a = s
    BY <1>2, <1>6, <1>7, <2>1 DEF Started
  <2>2. CASE a # s
    BY <1>0, <1>6, <1>7, <2>2 DEF NewerTracked
  <2> QED BY <2>1, <2>2
<1>14. RoutesKnown'
  BY <1>0, <1>5, <1>7 DEF RoutesKnown, StoredStep, SocketTypes
<1>15. SocketInv'
  BY <1>9, <1>10, <1>11, <1>12, <1>13, <1>14, SocketInvParts
<1> QED BY <1>2, <1>4, <1>8, <1>15, StepPreserves

LEMMA SocketClosedPreserves ==
    ASSUME EngineInv, NEW s \in Sockets, SocketClosed(s)
    PROVE  EngineInv' /\ RecordStep
<1>0. /\ TrackerClosed(s) /\ Commit(Without(records, {s}), SocketResolutions(s), <<>>)
      /\ authoritative' = authoritative \ {s}
      /\ window' = [k \in Keys |-> IF k[2] \in {s} THEN <<>> ELSE window[k]]
      /\ heard' = heard /\ ended' = ended \cup {s} /\ next_incident_id' = next_incident_id
  BY DEF SocketClosed
<1>1. TrackerStep /\ TrackerInv' /\ tracker'[s] = "closed" /\ tracker[s] # "new"
  BY <1>0, TrackerClosedFacts
<1>2. /\ RecordStep
      /\ \A k \in Keys : IF k[2] \in {s} THEN records'[k] = NoRecord ELSE records'[k] = records[k]
  <2>1. /\ SocketResolutions(s) \in Seq(Emitted) /\ Told(SocketResolutions(s)) = {}
        /\ Mentioned(SocketResolutions(s)) = IdsOn({s})
    BY SocketResolutionsSay DEF EngineInv
  <2>2. \A t \in {s} : Over(t)
    BY <1>1 DEF Over
  <2> QED BY <1>0, <2>1, <2>2, ForgetStep
<1>3. StoredStep({s}, {})
  BY <1>2, KeyFacts DEF StoredStep, Stored, NoRecord
<1>4. \A t \in Sockets : Tracked(t)' => t # s /\ Tracked(t)
  BY <1>3 DEF StoredStep, Tracked
<1>5. /\ heard \in SUBSET Sockets /\ authoritative \in SUBSET heard /\ ended \in SUBSET Sockets
      /\ Started /\ LeftBehind /\ Ended /\ OneAuthority /\ NewerTracked /\ RoutesKnown
  BY SocketInvParts DEF EngineInv, EngineTypes
<1>6. KnownSockets
  BY <1>0, <1>5 DEF KnownSockets
<1>7. Started'
  BY <1>0, <1>1, <1>4, <1>5 DEF Started, TrackerStep
<1>8. LeftBehind'
  BY <1>0, <1>1, <1>4, <1>5 DEF LeftBehind, TrackerStep
<1>9. Ended'
  BY <1>0, <1>1, <1>4, <1>5 DEF Ended, TrackerStep
<1>10. OneAuthority'
  BY <1>0, <1>5 DEF OneAuthority, SameCookie
<1>11. NewerTracked'
  BY <1>0, <1>4, <1>5 DEF NewerTracked, SameCookie
<1>12. RoutesKnown'
  BY <1>0, <1>3, <1>5 DEF RoutesKnown, StoredStep, SocketTypes
<1>13. SocketInv'
  BY <1>7, <1>8, <1>9, <1>10, <1>11, <1>12, SocketInvParts
<1> QED BY <1>1, <1>2, <1>6, <1>13, StepPreserves

(* A TCP_INFO or an interval of an open socket.                              *)
LEMMA SamplePreserves ==
    ASSUME EngineInv, KeysCounted, NEW s \in Sockets, NEW x \in {"HighTcpRtt", "ElevatedTcpRetransmission"},
           NEW e \in Evidences, tracker[s] = "open", Judge(<<x, s>>, e, Superseded(s)),
           UNCHANGED <<tracker, heard, ended>>
    PROVE  EngineInv' /\ RecordStep
<1> DEFINE old == Superseded(s)
           k == <<x, s>>
<1>1. /\ old \in SUBSET Sockets /\ s \notin old
      /\ old = {t \in authoritative : SameCookie(s, t)}
      /\ \A t, u \in old : t = u
  BY SupersededFacts
<1>2. \A t \in old : Over(t)
  BY SupersededFacts
<1>3. TrackerStep /\ TrackerInv'
  BY TrackerSame
<1>4. k \in Keys /\ k[2] = s /\ Judge(k, e, old)
  BY KeyFacts DEF SocketTypes
<1> HIDE DEF old, k
<1>5. /\ RecordStep /\ authoritative' = authoritative \ old
      /\ \A j \in Keys : /\ j[2] \in old => records'[j] = NoRecord
                         /\ j[2] \notin old /\ j # k => records'[j] = records[j]
  BY <1>1, <1>2, <1>4, JudgeStep
<1>6. StoredStep(old, {k})
  BY <1>5, KeyFacts DEF StoredStep, Stored, NoRecord
<1>7. \A t \in Sockets : Tracked(t)' => t \notin old /\ (Tracked(t) \/ t = s)
  BY <1>6 DEF StoredStep, Tracked, k
<1>8. /\ heard \in SUBSET Sockets /\ authoritative \in SUBSET heard /\ ended \in SUBSET Sockets
      /\ Started /\ LeftBehind /\ Ended /\ OneAuthority /\ NewerTracked /\ RoutesKnown
      /\ tracker' = tracker /\ heard' = heard /\ ended' = ended
  BY SocketInvParts DEF EngineInv, EngineTypes
<1>9. KnownSockets
  BY <1>5, <1>8 DEF KnownSockets
<1>10. Started'
  BY <1>7, <1>8 DEF Started
<1>11. LeftBehind'
  <2> SUFFICES ASSUME NEW t \in heard \ authoritative'
               PROVE  tracker[t] \in {"replaced", "closed"} /\ ~Tracked(t)'
    BY <1>8 DEF LeftBehind
  <2>1. CASE t \in old
    BY <1>2, <1>7, <1>8, <2>1 DEF Over
  <2>2. CASE t \notin old
    BY <1>5, <1>7, <1>8, <2>2 DEF LeftBehind
  <2> QED BY <2>1, <2>2
<1>12. Ended'
  BY <1>5, <1>7, <1>8 DEF Ended
<1>13. OneAuthority'
  BY <1>5, <1>8 DEF OneAuthority, SameCookie
<1>14. NewerTracked'
  <2> SUFFICES ASSUME NEW a \in Sockets, NEW b \in Sockets, SameCookie(a, b),
                      Generation[a] < Generation[b], Tracked(b)', a \in authoritative \ old
               PROVE  FALSE
    BY <1>5 DEF NewerTracked, SameCookie
  <2>1. CASE b = s
    BY <1>1, <2>1 DEF SameCookie
  <2>2. CASE b # s
    BY <1>7, <1>8, <2>2 DEF NewerTracked
  <2> QED BY <2>1, <2>2
<1>15. RoutesKnown'
  BY <1>5, <1>6, <1>8 DEF RoutesKnown, StoredStep, SocketTypes, k
<1>16. SocketInv'
  BY <1>10, <1>11, <1>12, <1>13, <1>14, <1>15, SocketInvParts
<1> QED BY <1>3, <1>5, <1>9, <1>16, StepPreserves

LEMMA SocketRoutePreserves ==
    ASSUME EngineInv, KeysCounted, NEW s \in Sockets, NEW c \in RouteContexts, SocketRoute(s, c)
    PROVE  EngineInv' /\ RecordStep
<1>1. /\ RecordStep
      /\ \A j \in Keys : j[2] # s => records'[j] = records[j]
      /\ \A x \in SocketTypes : records'[<<x, s>>] = records[<<x, s>>] \/ s \in authoritative
  BY RouteStep
<1>2. /\ authoritative' = authoritative /\ tracker' = tracker /\ heard' = heard /\ ended' = ended
  BY DEF SocketRoute
<1>3. TrackerStep /\ TrackerInv'
  BY <1>2, TrackerSame
<1>4. \A x \in SocketTypes, t \in Sockets :
         Stored(<<x, t>>)' => Stored(<<x, t>>) \/ (t = s /\ s \in authoritative)
  BY <1>1, KeyFacts DEF Stored
<1>5. \A t \in Sockets : Tracked(t)' => Tracked(t) \/ (t = s /\ s \in authoritative)
  BY <1>4 DEF Tracked
<1>6. /\ heard \in SUBSET Sockets /\ authoritative \in SUBSET heard /\ ended \in SUBSET Sockets
      /\ Started /\ LeftBehind /\ Ended /\ OneAuthority /\ NewerTracked /\ RoutesKnown
  BY SocketInvParts DEF EngineInv, EngineTypes
<1>7. KnownSockets
  BY <1>2, <1>6 DEF KnownSockets
<1>8. Started'
  BY <1>2, <1>5, <1>6 DEF Started
<1>9. LeftBehind'
  BY <1>2, <1>5, <1>6 DEF LeftBehind
<1>10. Ended'
  BY <1>2, <1>5, <1>6 DEF Ended
<1>11. OneAuthority'
  BY <1>2, <1>6 DEF OneAuthority, SameCookie
<1>12. NewerTracked'
  <2> SUFFICES ASSUME NEW a \in Sockets, NEW b \in Sockets, SameCookie(a, b),
                      Generation[a] < Generation[b], Tracked(b)', a \in authoritative
               PROVE  FALSE
    BY <1>2 DEF NewerTracked, SameCookie
  <2> QED BY <1>5, <1>6 DEF NewerTracked, OneAuthority
<1>13. RoutesKnown'
  BY <1>2, <1>4, <1>6 DEF RoutesKnown, SocketTypes
<1>14. SocketInv'
  BY <1>8, <1>9, <1>10, <1>11, <1>12, <1>13, SocketInvParts
<1> QED BY <1>1, <1>3, <1>7, <1>14, StepPreserves

\* A step after which every socket key is stored as before.
SocketKeysKept == \A x \in SocketTypes, t \in Sockets : Stored(<<x, t>>)' <=> Stored(<<x, t>>)

LEMMA OtherPreserves ==
    ASSUME EngineInv, RecordStep \/ Quiet, SocketKeysKept, TrackerStep, TrackerInv',
           UNCHANGED <<authoritative, heard, ended>>
    PROVE  EngineInv'
<1>1. \A t \in Sockets : Tracked(t)' <=> Tracked(t)
  BY DEF SocketKeysKept, Tracked
<1>2. /\ heard \in SUBSET Sockets /\ authoritative \in SUBSET heard /\ ended \in SUBSET Sockets
      /\ Started /\ LeftBehind /\ Ended /\ OneAuthority /\ NewerTracked /\ RoutesKnown
      /\ authoritative' = authoritative /\ heard' = heard /\ ended' = ended
  BY SocketInvParts DEF EngineInv, EngineTypes
<1>3. KnownSockets
  BY <1>2 DEF KnownSockets
<1>4. Started'
  BY <1>1, <1>2 DEF Started, TrackerStep
<1>5. LeftBehind'
  BY <1>1, <1>2 DEF LeftBehind, TrackerStep
<1>6. Ended'
  BY <1>1, <1>2 DEF Ended, TrackerStep
<1>7. OneAuthority'
  BY <1>2 DEF OneAuthority, SameCookie
<1>8. NewerTracked'
  BY <1>1, <1>2 DEF NewerTracked, SameCookie
<1>9. RoutesKnown'
  BY <1>2 DEF RoutesKnown, SocketKeysKept, SocketTypes
<1>10. SocketInv'
  BY <1>4, <1>5, <1>6, <1>7, <1>8, <1>9, SocketInvParts
<1> QED BY <1>3, <1>10, StepPreserves

LEMMA UplinkPreserves ==
    ASSUME EngineInv, KeysCounted, NEW u \in UplinkSamples, Uplink(u)
    PROVE  EngineInv' /\ RecordStep
<1> DEFINE e == Evidence(UplinkVerdict(u), u.validity)
<1>1. /\ UplinkKey \in Keys /\ UplinkKey[2] \notin Sockets /\ e \in Evidences
      /\ Judge(UplinkKey, e, {}) /\ tracker' = tracker /\ heard' = heard /\ ended' = ended
  BY KeyFacts, VerdictTypes DEF Uplink
<1> HIDE DEF e
<1>2. /\ RecordStep /\ authoritative' = authoritative
      /\ \A j \in Keys : j # UplinkKey => records'[j] = records[j]
  <2> DEFINE old == {}
  <2>1. /\ old \in SUBSET Sockets /\ \A s, t \in old : s = t
        /\ \A s \in old : Over(s)
        /\ UplinkKey[2] \notin old /\ Judge(UplinkKey, e, old)
    BY <1>1
  <2>2. authoritative \ old = authoritative /\ \A j \in Keys : j[2] \notin old
    OBVIOUS
  <2> HIDE DEF old
  <2>3. /\ RecordStep /\ authoritative' = authoritative \ old
        /\ \A j \in Keys : j[2] \notin old /\ j # UplinkKey => records'[j] = records[j]
    BY <1>1, <2>1, JudgeStep
  <2> QED BY <2>2, <2>3
<1>3. SocketKeysKept
  <2>1. \A x \in SocketTypes, t \in Sockets : <<x, t>> \in Keys /\ <<x, t>> # UplinkKey
    BY KeyFacts
  <2> QED BY <1>2, <2>1 DEF SocketKeysKept, Stored
<1>4. TrackerStep /\ TrackerInv'
  BY <1>1, TrackerSame
<1> QED BY <1>1, <1>2, <1>3, <1>4, OtherPreserves

LEMMA QuietPreserves ==
    ASSUME EngineInv, Quiet, UNCHANGED <<authoritative, heard, ended>>,
           \/ tracker' = tracker
           \/ \E s \in Sockets : TrackerActive(s) \/ TrackerClosed(s)
    PROVE  EngineInv'
<1>1. TrackerStep /\ TrackerInv'
  BY TrackerSame, TrackerActiveFacts, TrackerClosedFacts
<1>2. SocketKeysKept
  BY DEF SocketKeysKept, Quiet, Stored
<1> QED BY <1>1, <1>2, OtherPreserves

LEMMA NextPreserves ==
    ASSUME EngineInv, KeysCounted, [Next]_vars
    PROVE  EngineInv' /\ (RecordStep \/ Quiet)
<1>1. CASE Start \/ Stop
  BY <1>1, QuietPreserves DEF Start, Stop, history, Quiet
<1>2. CASE \E s \in Sockets : SocketActive(s)
  BY <1>2, SocketActivePreserves
<1>3. CASE \E s \in Sockets : SocketClosed(s)
  BY <1>3, SocketClosedPreserves
<1>4. CASE \E s \in Sockets : SocketEventLost(s)
  BY <1>4, QuietPreserves DEF SocketEventLost, engine, Quiet
<1>5. CASE \E s \in Sockets, rtt \in RttSamples : TcpInfo(s, rtt)
  BY <1>5, SamplePreserves, VerdictTypes DEF TcpInfo, SupersededBySample
<1>6. CASE \E s \in Sockets, m \in IntervalSamples : TcpInterval(s, m)
  BY <1>6, SamplePreserves, VerdictTypes DEF TcpInterval, SupersededBySample
<1>7. CASE \E s \in Sockets, c \in RouteContexts : SocketRoute(s, c)
  BY <1>7, SocketRoutePreserves
<1>8. CASE \E u \in UplinkSamples : Uplink(u)
  BY <1>8, UplinkPreserves
<1>9. CASE UNCHANGED vars
  BY <1>9, QuietPreserves DEF vars, Quiet
<1> QED BY <1>1, <1>2, <1>3, <1>4, <1>5, <1>6, <1>7, <1>8, <1>9 DEF Next

(* The facts about finite sets are only needed from here on.                 *)
INSTANCE FiniteSetTheorems

LEMMA KeysFinite == IsFiniteSet(Keys)
<1>1. SocketTypes = {"HighTcpRtt"} \cup {"ElevatedTcpRetransmission"} \cup {"RouteUnavailable"}
                       \cup {"SocketRouteConflict"}
  BY DEF SocketTypes
<1>2. IsFiniteSet(SocketTypes)
  BY <1>1, FS_Singleton, FS_Union
<1>3. IsFiniteSet(SocketTypes \X Sockets)
  BY <1>2, FS_Product, SocketAssumption
<1> QED BY <1>3, FS_Singleton, FS_Union DEF Keys

LEMMA KeysAreCounted == KeysCounted
<1>1. IsFiniteSet(Keys) /\ Cardinality(Keys) \in Nat
  BY KeysFinite, FS_CardinalityType
<1>2. ASSUME NEW S \in SUBSET Keys, S # Keys
      PROVE  Cardinality(S) \in 0 .. Cardinality(Keys) - 1
  <2>1. /\ IsFiniteSet(S) /\ Cardinality(S) <= Cardinality(Keys)
        /\ Cardinality(S) = Cardinality(Keys) => S = Keys
    BY <1>1, FS_Subset
  <2>2. Cardinality(S) \in Nat
    BY <2>1, FS_CardinalityType
  <2> QED BY <1>1, <1>2, <2>1, <2>2
<1> QED BY <1>1, <1>2 DEF KeysCounted

LEMMA EngineInvariant == Spec => []EngineInv
<1>1. Init => EngineInv
  <2> SUFFICES ASSUME Init PROVE EngineInv
    OBVIOUS
  <2>1. /\ records = [k \in Keys |-> NoRecord] /\ window = [k \in Keys |-> <<>>]
        /\ next_incident_id = 1 /\ authoritative = {} /\ heard = {} /\ ended = {} /\ view = {}
        /\ tracker = [s \in Sockets |-> "new"]
    BY DEF Init
  <2>2. NoRecord \in RecordType /\ NoRecord.status = "none" /\ NoRecord.bad = 0
    BY NoElements DEF RecordType, NoRecord
  <2>3. EngineTypes
    BY <2>1, <2>2, NoElements DEF EngineTypes
  <2>4. AllLast(<<>>, 0, "Bad") /\ ~AllLast(<<>>, 0 + 1, "Bad")
    BY NoElements DEF AllLast
  <2>5. CountsInv
    BY <2>1, <2>2, <2>4 DEF CountsInv, Counts
  <2>6. \A k \in Keys : ~Active(k) /\ ~Stored(k)
    BY <2>1, <2>2 DEF Active, Stored
  <2>7. IdsInv /\ EmissionsSuffice
    BY <2>1, <2>6 DEF IdsInv, EmissionsSuffice
  <2>8. TrackerInv
    BY <2>1 DEF TrackerInv
  <2>9. \A s \in Sockets : ~Tracked(s)
    BY <2>6, KeyFacts DEF Tracked
  <2>10. \A s \in Sockets, x \in {"RouteUnavailable", "SocketRouteConflict"} : ~Stored(<<x, s>>)
    BY <2>6, KeyFacts DEF SocketTypes
  <2>11. SocketInv
    BY <2>1, <2>9, <2>10 DEF SocketInv
  <2> QED BY <2>3, <2>5, <2>7, <2>8, <2>11 DEF EngineInv
<1>2. EngineInv /\ [Next]_vars => EngineInv'
  BY NextPreserves, KeysAreCounted
<1> QED BY <1>1, <1>2, PTL DEF Spec

(* Whoever replays what the engine publishes has exactly its active incidents, *)
(* with their evidence, whichever of a sample, a route context, a closed socket *)
(* or a reused cookie changed them.                                            *)
THEOREM EmissionsTellAll == Spec => []EmissionsSuffice
<1>1. EngineInv => EmissionsSuffice
  BY DEF EngineInv
<1> QED BY <1>1, EngineInvariant, PTL

(* The engine keeps no record of a socket that it knows to be closed or replaced, *)
(* and none of a route whose socket it does not know, whatever the bus loses.     *)
THEOREM RecordsAreOfLiveSockets == Spec => []RecordsHaveLiveSockets
<1>1. EngineInv => RecordsHaveLiveSockets
  <2> SUFFICES ASSUME EngineInv PROVE RecordsHaveLiveSockets
    OBVIOUS
  <2>1. /\ DOMAIN records = Keys /\ DOMAIN tracker = Sockets /\ authoritative \in SUBSET heard
        /\ ended \in SUBSET Sockets
        /\ Started /\ LeftBehind /\ Ended /\ OneAuthority /\ NewerTracked /\ RoutesKnown
    BY SocketInvParts DEF EngineInv, EngineTypes
  <2>2. NothingOnClosedSocket
    <3> SUFFICES ASSUME NEW k \in Keys, k[2] \in ended PROVE ~Stored(k)
      BY <2>1 DEF NothingOnClosedSocket
    <3>1. k[1] \in SocketTypes /\ k = <<k[1], k[2]>>
      BY <2>1, KeyFacts
    <3> QED BY <2>1, <3>1 DEF Ended, Tracked
  <2>3. RouteNeedsAuthority
    BY <2>1 DEF RouteNeedsAuthority, RoutesKnown
  <2>4. OneGeneration
    <3> SUFFICES ASSUME NEW s \in Sockets, NEW t \in Sockets, Cookie[s] = Cookie[t],
                        Cookie[s] # NoCookie, Generation[s] < Generation[t]
                 PROVE  /\ ~(s \in authoritative /\ t \in authoritative)
                        /\ s \in heard => \A x, y \in SocketTypes :
                                             ~(Stored(<<x, s>>) /\ Stored(<<y, t>>))
      BY <2>1 DEF OneGeneration
    <3>1. SameCookie(s, t)
      BY SocketAssumption DEF SameCookie
    <3>2. ~(s \in authoritative /\ t \in authoritative)
      BY <2>1, <3>1 DEF OneAuthority
    <3>3. ASSUME s \in heard, NEW x \in SocketTypes, NEW y \in SocketTypes,
                 Stored(<<x, s>>), Stored(<<y, t>>)
          PROVE  FALSE
      <4>1. Tracked(s) /\ Tracked(t)
        BY <3>3 DEF Tracked
      <4>2. s \in authoritative
        BY <2>1, <3>3, <4>1 DEF LeftBehind
      <4> QED BY <2>1, <3>1, <4>1, <4>2 DEF NewerTracked
    <3> QED BY <3>2, <3>3
  <2> QED BY <2>2, <2>3, <2>4 DEF RecordsHaveLiveSockets
<1> QED BY <1>1, EngineInvariant, PTL

(* While the table has room for every key, an incident is active as soon as the *)
(* last activation_consecutive decisive samples were Bad; and it is over as soon *)
(* as the last recovery_consecutive ones were Good, room or not.                 *)
THEOREM VerdictsArePrompt == Spec => []PromptVerdict
<1>1. EngineInv => PromptVerdict
  <2> SUFFICES ASSUME EngineInv, NEW k \in Keys
               PROVE  /\ AllLast(window[k], Activation, "Bad") /\ ~Crowded => Active(k)
                      /\ AllLast(window[k], Recovery, "Good") => ~Active(k)
    BY DEF PromptVerdict, Crowded, EngineInv, EngineTypes
  <2>1. /\ records[k] \in RecordType /\ window[k] \in Seq(Verdicts)
        /\ Counts(records[k], window[k])
    BY DEF EngineInv, EngineTypes, CountsInv
  <2>2. /\ records[k].bad \in Nat /\ records[k].good \in Nat
        /\ records[k].status \in {"none", "pending", "active"}
        /\ Activation \in Nat \ {0} /\ Recovery \in Nat \ {0}
        /\ "Bad" \in Verdicts /\ "Good" \in Verdicts
    BY <2>1, PolicyAssumption DEF RecordType, Verdicts
  <2>3. ASSUME AllLast(window[k], Activation, "Bad"), ~Crowded, ~Active(k) PROVE FALSE
    <3>0. records[k].status # "active" /\ records[k].bad < Activation
      <4>1. CASE records[k].status = "none"
        <5>1. records[k] = NoRecord
          BY <2>1, <4>1 DEF Counts
        <5>2. NoRecord.bad = 0 /\ NoRecord.status = "none"
          BY DEF NoRecord
        <5> QED BY <2>2, <5>1, <5>2
      <4>2. CASE records[k].status = "pending"
        BY <2>1, <4>2 DEF Counts
      <4> QED BY <2>2, <2>3, <4>1, <4>2 DEF Active
    <3>1. records[k].bad + 1 <= Activation /\ records[k].bad + 1 \in Nat
      BY <2>2, <3>0
    <3>2. AllLast(window[k], records[k].bad + 1, "Bad")
      BY <2>1, <2>2, <2>3, <3>1, ShorterRun
    <3> QED BY <2>1, <2>3, <3>2 DEF Counts, Active
  <2>4. ASSUME AllLast(window[k], Recovery, "Good"), Active(k) PROVE FALSE
    <3>1. records[k].good + 1 <= Recovery /\ records[k].good + 1 \in Nat
      BY <2>1, <2>2, <2>4 DEF Counts, Active
    <3>2. AllLast(window[k], records[k].good + 1, "Good")
      BY <2>1, <2>2, <2>4, <3>1, ShorterRun
    <3> QED BY <2>1, <2>4, <3>2 DEF Counts, Active
  <2> QED BY <2>3, <2>4
<1> QED BY <1>1, EngineInvariant, PTL

(* An incident opens on an unbroken run of Bad samples and ends on one of Good  *)
(* samples or with its socket; an identifier is never given out twice.          *)
THEOREM RunsDecide == Spec => DecidedByRuns
<1> DEFINE Decided ==
        \A k \in DOMAIN records : OpensOnlyOnRun(k) /\ ResolvesOnlyOnRun(k) /\ NoIdReuse(k)
<1>1. EngineInv /\ EngineInv' /\ [Next]_vars => [Decided]_vars
  <2> SUFFICES ASSUME EngineInv, EngineInv', [Next]_vars, NEW k \in Keys
               PROVE  (OpensOnlyOnRun(k) /\ ResolvesOnlyOnRun(k) /\ NoIdReuse(k))
    BY DEF EngineInv, EngineTypes
  <2>0. DOMAIN records = Keys /\ DOMAIN tracker = Sockets /\ next_incident_id \in Nat
    BY DEF EngineInv, EngineTypes
  <2>1. CASE RecordStep
    <3>1. /\ Opens(k) => /\ records'[k].id = next_incident_id
                         /\ AllLast(window'[k], Activation, "Bad")
          /\ Active(k) /\ ~Active(k)' => AllLast(window'[k], Recovery, "Good") \/ Over(k[2])
          /\ Active(k) /\ Active(k)' => records'[k].id = records[k].id
      BY <2>1, KeyStep
    <3>2. OpensOnlyOnRun(k)
      BY <3>1 DEF OpensOnlyOnRun, Opens
    <3>3. ResolvesOnlyOnRun(k)
      BY <2>0, <3>1 DEF ResolvesOnlyOnRun, Over
    <3>4. NoIdReuse(k)
      <4> SUFFICES ASSUME Active(k)', Active(k) => records'[k].id # records[k].id
                   PROVE  /\ records'[k].id >= next_incident_id
                          /\ \A j \in Keys \ {k} : Active(j)' => records'[j].id # records'[k].id
        BY <2>0 DEF NoIdReuse
      <4>1. Opens(k)
        BY <3>1 DEF Opens
      <4>2. \A j \in Keys : j # k /\ Active(j)' => records'[j].id # records'[k].id
        <5>1. IdsInv'
          BY DEF EngineInv
        <5> QED BY <5>1 DEF IdsInv, Active
      <4>3. records'[k].id = next_incident_id
        BY <3>1, <4>1
      <4>4. next_incident_id \in Nat
        BY DEF EngineInv, EngineTypes
      <4> QED BY <4>2, <4>3, <4>4
    <3> QED BY <3>2, <3>3, <3>4
  <2>2. CASE Quiet
    <3>1. records' = records
      BY <2>2 DEF Quiet
    <3> QED BY <3>1 DEF OpensOnlyOnRun, ResolvesOnlyOnRun, NoIdReuse, Active
  <2> QED BY <2>1, <2>2, NextPreserves, KeysAreCounted
<1> QED BY <1>1, EngineInvariant, PTL DEF Spec, DecidedByRuns

(* appendEvidence() never drops the sample that opened the incident.            *)
THEOREM OpeningSampleStays == Spec => OpeningEvidenceKept
<1> DEFINE Stays ==
        \A k \in DOMAIN records : Active(k) /\ Active(k)' /\ MaxEvidence > 1
           => records'[k].evidence[1] = records[k].evidence[1]
<1>1. EngineInv /\ [Next]_vars => [Stays]_vars
  <2> SUFFICES ASSUME EngineInv, [Next]_vars, NEW k \in Keys, Active(k), Active(k)',
                      MaxEvidence > 1
               PROVE  records'[k].evidence[1] = records[k].evidence[1]
    BY DEF EngineInv, EngineTypes
  <2>1. CASE RecordStep
    BY <2>1, KeyStep
  <2>2. CASE Quiet
    BY <2>2 DEF Quiet
  <2> QED BY <2>1, <2>2, NextPreserves, KeysAreCounted
<1> QED BY <1>1, EngineInvariant, PTL DEF Spec, OpeningEvidenceKept
=============================================================================
