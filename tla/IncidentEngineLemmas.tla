------------------------ MODULE IncidentEngineLemmas ------------------------
(***************************************************************************)
(* Lemmas about the incident engine, for every set of sockets, cookies and *)
(* samples and every policy: its invariant, what one sample does to the    *)
(* record of its key, and what the engine publishes of it.                 *)
(***************************************************************************)
EXTENDS IncidentEngine, TLAPS

-----------------------------------------------------------------------------
(* Sequences. *)

\* A sequence is a function from the numbers up to its length.
LEMMA LengthOf ==
    ASSUME NEW S, NEW s \in Seq(S)
    PROVE  Len(s) \in Nat /\ DOMAIN s = 1 .. Len(s) /\ s \in [1 .. Len(s) -> S]
  OBVIOUS

\* Only <<>> has no element.
LEMMA NoElements ==
    ASSUME NEW S
    PROVE  /\ <<>> \in Seq(S) /\ Len(<<>>) = 0
           /\ \A s \in Seq(S) : s # <<>> => Len(s) \in Nat \ {0}
  OBVIOUS

\* push_back(): one more element, at the end.
LEMMA Appended ==
    ASSUME NEW S, NEW s \in Seq(S), NEW x \in S
    PROVE  /\ Append(s, x) \in Seq(S) /\ Append(s, x) # <<>>
           /\ Len(Append(s, x)) = Len(s) + 1 /\ Append(s, x)[Len(s) + 1] = x
           /\ \A i \in 1 .. Len(s) : Append(s, x)[i] = s[i]
  OBVIOUS

\* The elements of a part of a sequence.
LEMMA PartOf ==
    ASSUME NEW S, NEW s, NEW m \in Int, NEW n \in Int, \A i \in m .. n : s[i] \in S
    PROVE  /\ SubSeq(s, m, n) \in Seq(S)
           /\ Len(SubSeq(s, m, n)) = IF m <= n THEN n - m + 1 ELSE 0
           /\ \A i \in 1 .. n - m + 1 : SubSeq(s, m, n)[i] = s[m + i - 1]
  OBVIOUS

\* The elements of two sequences in a row.
LEMMA Joined ==
    ASSUME NEW S, NEW s \in Seq(S), NEW t \in Seq(S)
    PROVE  /\ s \o t \in Seq(S) /\ Len(s \o t) = Len(s) + Len(t)
           /\ \A i \in 1 .. Len(s) + Len(t) :
                 (s \o t)[i] = IF i <= Len(s) THEN s[i] ELSE t[i - Len(s)]
  OBVIOUS

-----------------------------------------------------------------------------
Verdicts == {"Bad", "Good", "Neutral", "Unavailable"}
Values ==
    RttSamples \cup {m.ratio : m \in IntervalSamples} \cup {"none"}
       \cup {c.ifindex : c \in RouteContexts} \cup {u.validity : u \in UplinkSamples}
Evidences == [verdict : Verdicts, value : Values]
RecordType == [status : {"none", "pending", "active"}, bad : Nat, good : Nat, id : Nat,
               evidence : Seq(Evidences)]

EngineTypes ==
    /\ records \in [Keys -> RecordType] /\ window \in [Keys -> Seq(Verdicts)]
    /\ next_incident_id \in Nat \ {0}
    /\ tracker \in [Sockets -> {"new", "open", "replaced", "closed"}]
    /\ authoritative \in SUBSET heard /\ heard \in SUBSET Sockets /\ ended \in SUBSET Sockets

Crowded == ~(Cardinality(DOMAIN records) <= MaxTracked)

\* A record counts the verdicts at the end of the window of its key: the streak
\* is in the window, and unless there was no room for the record the window has
\* no longer one.
Counts(r, q) ==
    /\ r.status = "none" => r = NoRecord
    /\ r.status = "pending" => r.bad < Activation /\ r.evidence = <<>>
    /\ r.status # "active" => AllLast(q, r.bad, "Bad")
    /\ r.status # "active" /\ ~Crowded => ~AllLast(q, r.bad + 1, "Bad")
    /\ r.status = "active" => /\ r.good < Recovery
                              /\ AllLast(q, r.good, "Good") /\ ~AllLast(q, r.good + 1, "Good")
                              /\ Len(r.evidence) \in 1 .. MaxEvidence

CountsInv == \A k \in Keys : Counts(records[k], window[k])

\* The active incidents have identifiers of their own, given out before.
IdsInv ==
    \A k \in Keys : Active(k) =>
        /\ records[k].id < next_incident_id
        /\ \A j \in Keys : j # k /\ Active(j) => records[j].id # records[k].id

SameCookie(s, t) == s # t /\ Cookie[s] # NoCookie /\ Cookie[t] = Cookie[s]

\* The tracker follows one generation of a cookie at a time, and never returns
\* to an older one.
TrackerInv ==
    \A s, t \in Sockets :
        SameCookie(s, t) /\ Generation[s] < Generation[t] /\ tracker[t] # "new" => tracker[s] # "open"

Tracked(s) == \E x \in SocketTypes : Stored(<<x, s>>)

\* What the engine knows of a socket agrees with where the tracker is.
SocketInv ==
    /\ \A s \in Sockets : s \in heard \/ Tracked(s) => tracker[s] # "new"
    /\ \A s \in heard \ authoritative : tracker[s] \in {"replaced", "closed"} /\ ~Tracked(s)
    /\ \A s \in ended : tracker[s] = "closed" /\ s \notin authoritative /\ ~Tracked(s)
    /\ \A s, t \in authoritative : ~SameCookie(s, t)
    /\ \A s, t \in Sockets :
          SameCookie(s, t) /\ Generation[s] < Generation[t] /\ Tracked(t) => s \notin authoritative
    /\ \A s \in Sockets, x \in {"RouteUnavailable", "SocketRouteConflict"} :
          Stored(<<x, s>>) => s \in authoritative

EngineInv ==
    /\ EngineTypes /\ CountsInv /\ IdsInv /\ TrackerInv /\ SocketInv /\ EmissionsSuffice

(* The window of a key after one more decisive verdict: a run at its end is  *)
(* the run before it and the verdict.                                        *)
LEMMA WindowGrows ==
    ASSUME NEW q \in Seq(Verdicts), NEW v \in Verdicts, NEW n \in Nat, n < WindowLength
    PROVE  /\ LastOf(Append(q, v), WindowLength) \in Seq(Verdicts)
           /\ \A w \in Verdicts :
                 AllLast(LastOf(Append(q, v), WindowLength), n + 1, w)
                    <=> v = w /\ AllLast(q, n, w)
<1> DEFINE a == Append(q, v)
           W == WindowLength
           p == LastOf(a, W)
           m == Len(a) - Len(p)
<1>0. Len(q) \in Nat /\ W \in Nat \ {0} /\ \A i \in 1 .. Len(q) : q[i] \in Verdicts
  BY LengthOf, PolicyAssumption DEF WindowLength
<1>1. /\ a \in Seq(Verdicts) /\ Len(a) = Len(q) + 1 /\ a[Len(q) + 1] = v
      /\ \A i \in 1 .. Len(q) : a[i] = q[i]
  BY Appended
<1> HIDE DEF a, W
<1>2. /\ p \in Seq(Verdicts) /\ Len(p) = (IF Len(a) <= W THEN Len(a) ELSE W)
      /\ \A i \in 1 .. Len(p) : p[i] = a[i + m]
  <2>1. CASE Len(a) <= W
    BY <1>0, <1>1, <2>1 DEF LastOf
  <2>2. CASE ~(Len(a) <= W)
    <3> DEFINE l == Len(a) - W + 1
    <3>1. l \in 1 .. Len(a) /\ p = SubSeq(a, l, Len(a))
      BY <1>0, <1>1, <2>2 DEF LastOf
    <3>2. \A i \in l .. Len(a) : a[i] \in Verdicts
      BY <1>0, <1>1, <3>1, LengthOf
    <3> HIDE DEF l, p
    <3>3. /\ p \in Seq(Verdicts)
          /\ Len(p) = IF l <= Len(a) THEN Len(a) - l + 1 ELSE 0
          /\ \A i \in 1 .. (Len(a) - l + 1) : p[i] = a[l + i - 1]
      BY <1>0, <1>1, <3>1, <3>2, PartOf
    <3>4. Len(p) = W /\ l = Len(a) - W + 1 /\ m = Len(a) - W
      BY <1>0, <1>1, <3>1, <3>3 DEF l
    <3>5. \A i \in 1 .. W : l + i - 1 = i + m
      BY <1>0, <1>1, <3>4
    <3> QED BY <1>0, <1>1, <2>2, <3>3, <3>4, <3>5
  <2> QED BY <2>1, <2>2
<1> HIDE DEF p
<1>3. Len(p) \in 1 .. W /\ Len(p) <= Len(a) /\ n + 1 <= W /\ (Len(p) < W => Len(p) = Len(a))
  BY <1>0, <1>1, <1>2 DEF W
<1>4. ASSUME NEW w \in Verdicts PROVE AllLast(p, n + 1, w) <=> v = w /\ AllLast(q, n, w)
  <2>0. Len(p) \in Nat /\ m \in Nat /\ Len(p) + m = Len(q) + 1
    BY <1>0, <1>1, <1>3
  <2>1. p[Len(p)] = v
    <3>1. Len(p) \in 1 .. Len(p)
      BY <1>0, <1>3
    <3>2. p[Len(p)] = a[Len(p) + m]
      BY <1>2, <3>1
    <3> QED BY <1>1, <2>0, <3>2
  <2>2. ASSUME NEW j \in 1 .. Len(q), j - m \in 1 .. Len(p) PROVE p[j - m] = q[j]
    <3>1. p[j - m] = a[(j - m) + m]
      BY <1>2, <2>2
    <3>2. (j - m) + m = j
      BY <1>0, <2>0
    <3> QED BY <1>1, <3>1, <3>2
  <2>3. ASSUME AllLast(p, n + 1, w) PROVE v = w /\ AllLast(q, n, w)
    <3>1. Len(p) >= n + 1 /\ \A i \in (Len(p) - n) .. Len(p) : p[i] = w
      BY <1>0, <1>3, <2>3 DEF AllLast
    <3>2. v = w
      BY <1>3, <2>1, <3>1
    <3>3. ASSUME NEW j \in (Len(q) - n + 1) .. Len(q) PROVE q[j] = w
      <4>1. j \in 1 .. Len(q) /\ j - m \in 1 .. Len(p) /\ j - m \in (Len(p) - n) .. Len(p)
        BY <1>0, <1>1, <1>3, <3>1
      <4> QED BY <2>2, <3>1, <4>1
    <3> QED BY <1>0, <1>1, <1>3, <3>1, <3>2, <3>3 DEF AllLast
  <2>4. ASSUME v = w, AllLast(q, n, w) PROVE AllLast(p, n + 1, w)
    <3>1. Len(q) >= n /\ \A j \in (Len(q) - n + 1) .. Len(q) : q[j] = w
      BY <2>4 DEF AllLast
    <3>2. Len(p) >= n + 1
      BY <1>0, <1>1, <1>3, <3>1
    <3>3. ASSUME NEW i \in (Len(p) - (n + 1) + 1) .. Len(p) PROVE p[i] = w
      <4>1. CASE i = Len(p)
        BY <2>1, <2>4, <4>1
      <4>2. CASE i # Len(p)
        <5>1. /\ i + m \in 1 .. Len(q) /\ i + m \in (Len(q) - n + 1) .. Len(q)
              /\ (i + m) - m = i /\ i \in 1 .. Len(p)
          BY <1>0, <1>1, <1>3, <3>2, <4>2
        <5> QED BY <2>2, <3>1, <5>1
      <4> QED BY <4>1, <4>2
    <3> QED BY <3>2, <3>3 DEF AllLast
  <2> QED BY <2>3, <2>4
<1> QED BY <1>2, <1>4 DEF p, a, W

LEMMA ShorterRun ==
    ASSUME NEW q \in Seq(Verdicts), NEW w \in Verdicts, NEW n \in Nat, NEW m \in Nat, m <= n,
           AllLast(q, n, w)
    PROVE  AllLast(q, m, w)
<1>1. Len(q) \in Nat
  BY LengthOf
<1> QED BY <1>1 DEF AllLast

(* appendEvidence() keeps the list within its bound and its first sample.    *)
LEMMA EvidenceGrows ==
    ASSUME NEW ev \in Seq(Evidences), Len(ev) \in 1 .. MaxEvidence, NEW e \in Evidences
    PROVE  /\ AppendEvidence(ev, e) \in Seq(Evidences)
           /\ Len(AppendEvidence(ev, e)) \in 1 .. MaxEvidence
           /\ MaxEvidence > 1 => AppendEvidence(ev, e)[1] = ev[1]
<1>0. MaxEvidence \in Nat \ {0} /\ Len(ev) \in Nat
  BY PolicyAssumption, LengthOf
<1>1. CASE Equivalent(ev, e)
  BY <1>1 DEF AppendEvidence
<1>2. CASE ~Equivalent(ev, e) /\ HasSpace(ev)
  <2>1. AppendEvidence(ev, e) = Append(ev, e)
    BY <1>2 DEF AppendEvidence
  <2>2. /\ Append(ev, e) \in Seq(Evidences) /\ Len(Append(ev, e)) = Len(ev) + 1
        /\ \A i \in 1 .. Len(ev) : Append(ev, e)[i] = ev[i]
    BY Appended
  <2> QED BY <1>0, <1>2, <2>1, <2>2 DEF HasSpace
<1>3. CASE ~Equivalent(ev, e) /\ ~HasSpace(ev)
  <2>1. AppendEvidence(ev, e) = EvictIntermediate(ev, e) /\ Len(ev) = MaxEvidence
    BY <1>0, <1>3 DEF AppendEvidence, HasSpace
  <2>2. CASE MaxEvidence = 1
    BY <2>1, <2>2 DEF EvictIntermediate
  <2>3. CASE MaxEvidence # 1
    <3> DEFINE mid == SubSeq(ev, 3, Len(ev))
               head == <<ev[1]>>
    <3>1. /\ AppendEvidence(ev, e) = (head \o mid) \o <<e>>
      BY <2>1, <2>3 DEF EvictIntermediate
    <3>2. head \in Seq(Evidences) /\ Len(head) = 1 /\ head[1] = ev[1]
      BY <1>0, <2>1, LengthOf
    <3>3. mid \in Seq(Evidences) /\ Len(mid) = Len(ev) - 2
      <4>1. \A i \in 3 .. Len(ev) : ev[i] \in Evidences
        BY <1>0, LengthOf
      <4>2. /\ mid \in Seq(Evidences)
            /\ Len(mid) = IF 3 <= Len(ev) THEN Len(ev) - 3 + 1 ELSE 0
        BY <1>0, <4>1, PartOf
      <4> QED BY <1>0, <2>1, <2>3, <4>2
    <3> HIDE DEF mid, head
    <3>4. /\ head \o mid \in Seq(Evidences) /\ Len(head \o mid) = MaxEvidence - 1
          /\ (head \o mid)[1] = ev[1]
      <4>1. /\ head \o mid \in Seq(Evidences) /\ Len(head \o mid) = Len(head) + Len(mid)
            /\ \A i \in 1 .. Len(head) + Len(mid) :
                  (head \o mid)[i] = IF i <= Len(head) THEN head[i] ELSE mid[i - Len(head)]
        BY <3>2, <3>3, Joined
      <4>2. 1 \in 1 .. Len(head) + Len(mid) /\ 1 <= Len(head)
        BY <1>0, <2>1, <2>3, <3>2, <3>3
      <4> QED BY <1>0, <2>1, <3>2, <3>3, <4>1, <4>2
    <3>5. /\ AppendEvidence(ev, e) \in Seq(Evidences)
          /\ Len(AppendEvidence(ev, e)) = MaxEvidence
          /\ AppendEvidence(ev, e)[1] = ev[1]
      <4> DEFINE h == head \o mid
      <4> HIDE DEF h
      <4>1. h \in Seq(Evidences) /\ Len(h) = MaxEvidence - 1 /\ h[1] = ev[1]
        BY <3>4 DEF h
      <4>2. <<e>> \in Seq(Evidences) /\ Len(<<e>>) = 1
        OBVIOUS
      <4>3. /\ h \o <<e>> \in Seq(Evidences) /\ Len(h \o <<e>>) = Len(h) + Len(<<e>>)
            /\ \A i \in 1 .. Len(h) + Len(<<e>>) :
                  (h \o <<e>>)[i] = IF i <= Len(h) THEN h[i] ELSE <<e>>[i - Len(h)]
        BY <4>1, <4>2, Joined
      <4>4. 1 \in 1 .. Len(h) + Len(<<e>>) /\ 1 <= Len(h)
        BY <1>0, <2>3, <4>1, <4>2
      <4> QED BY <1>0, <3>1, <4>1, <4>2, <4>3, <4>4 DEF h
    <3> QED BY <1>0, <3>5
  <2> QED BY <2>2, <2>3
<1> QED BY <1>1, <1>2, <1>3

\* What evaluateLocked() may make of record r, with room for a new one or, in a
\* crowded table, without.
Evaluated(r, e, id, new) ==
    \/ new = Evaluate(r, e, TRUE, id)
    \/ Crowded /\ new = Evaluate(r, e, FALSE, id)

(* One sample of a key: how its record may change.                           *)
LEMMA EvaluateCases ==
    ASSUME NEW r \in RecordType, NEW e \in Evidences, NEW id \in Nat,
           NEW new, Evaluated(r, e, id, new), r.status = "none" => r = NoRecord
    PROVE  \/ e.verdict = "Unavailable" /\ new = r
           \/ /\ e.verdict = "Neutral"
              /\ new = IF r.status = "active"
                       THEN [status |-> "active", bad |-> r.bad, good |-> 0, id |-> r.id,
                             evidence |-> r.evidence]
                       ELSE NoRecord
           \/ /\ e.verdict = "Good"
              /\ new = IF r.status = "active" /\ ~(r.good + 1 >= Recovery)
                       THEN [status |-> "active", bad |-> 0, good |-> r.good + 1, id |-> r.id,
                             evidence |-> r.evidence]
                       ELSE NoRecord
           \/ /\ e.verdict = "Bad" /\ r.status = "active"
              /\ \E b \in Nat : new = [status |-> "active", bad |-> b, good |-> 0, id |-> r.id,
                                       evidence |-> AppendEvidence(r.evidence, e)]
           \/ /\ e.verdict = "Bad" /\ r.status = "none" /\ Crowded /\ new = NoRecord
           \/ /\ e.verdict = "Bad" /\ r.status # "active" /\ r.bad + 1 < Activation
              /\ new = [status |-> "pending", bad |-> r.bad + 1, good |-> 0, id |-> 0,
                        evidence |-> <<>>]
           \/ /\ e.verdict = "Bad" /\ r.status # "active" /\ ~(r.bad + 1 < Activation)
              /\ new = [status |-> "active", bad |-> r.bad + 1, good |-> 0, id |-> id,
                        evidence |-> <<e>>]
<1>0. /\ e.verdict \in Verdicts /\ r.bad \in Nat /\ r.good \in Nat /\ r.id \in Nat
      /\ r.status \in {"none", "pending", "active"} /\ Activation \in Nat
      /\ r = [status |-> r.status, bad |-> r.bad, good |-> r.good, id |-> r.id,
              evidence |-> r.evidence]
  BY PolicyAssumption DEF Evidences, RecordType
<1>1. CASE e.verdict = "Unavailable"
  BY <1>1 DEF Evaluated, Evaluate
<1>2. CASE e.verdict = "Neutral"
  <2>1. new = AfterNeutral(r)
    BY <1>2 DEF Evaluated, Evaluate
  <2>2. r.status = "active" => [r EXCEPT !.good = 0] =
           [status |-> "active", bad |-> r.bad, good |-> 0, id |-> r.id, evidence |-> r.evidence]
    BY <1>0
  <2> QED BY <1>2, <2>1, <2>2 DEF AfterNeutral
<1>3. CASE e.verdict = "Good"
  <2>1. new = AfterGood(r)
    BY <1>3 DEF Evaluated, Evaluate
  <2>2. r.status = "active" => [r EXCEPT !.bad = 0, !.good = @ + 1] =
           [status |-> "active", bad |-> 0, good |-> r.good + 1, id |-> r.id,
            evidence |-> r.evidence]
    <3> DEFINE g == r.good + 1
    <3>1. [r EXCEPT !.bad = 0, !.good = @ + 1] = [r EXCEPT !.bad = 0, !.good = g]
      BY <1>0
    <3> HIDE DEF g
    <3>2. [r EXCEPT !.bad = 0, !.good = g] =
             [status |-> r.status, bad |-> 0, good |-> g, id |-> r.id, evidence |-> r.evidence]
      <4> DEFINE r1 == [r EXCEPT !.bad = 0]
      <4>1. r1 = [status |-> r.status, bad |-> 0, good |-> r.good, id |-> r.id,
                  evidence |-> r.evidence]
        BY <1>0
      <4>2. [r EXCEPT !.bad = 0, !.good = g] = [r1 EXCEPT !.good = g]
        OBVIOUS
      <4> HIDE DEF r1
      <4> QED BY <4>1, <4>2
    <3> QED BY <3>1, <3>2 DEF g
  <2> QED BY <1>3, <2>1, <2>2 DEF AfterGood, RecoveryComplete
<1>4. CASE e.verdict = "Bad"
  <2>1. new = AfterBad(r, e, TRUE, id) \/ (Crowded /\ new = AfterBad(r, e, FALSE, id))
    BY <1>4 DEF Evaluated, Evaluate
  <2>2. CASE r.status = "active"
    <3> DEFINE b == IF r.bad < Activation THEN r.bad + 1 ELSE Activation
    <3>1. new = [r EXCEPT !.good = 0, !.bad = b, !.evidence = AppendEvidence(r.evidence, e)]
      BY <2>1, <2>2 DEF AfterBad, GoodStreakAfterBad
    <3>2. b \in Nat
      BY <1>0
    <3> HIDE DEF b
    <3>3. new = [status |-> "active", bad |-> b, good |-> 0, id |-> r.id,
                 evidence |-> AppendEvidence(r.evidence, e)]
      BY <1>0, <2>2, <3>1
    <3> QED BY <1>4, <2>2, <3>2, <3>3
  <2>3. CASE r.status # "active"
    BY <1>4, <2>1, <2>3 DEF AfterBad
  <2> QED BY <2>2, <2>3
<1> QED BY <1>0, <1>1, <1>2, <1>3, <1>4 DEF Verdicts

(* One sample of a key keeps its record in step with its window.  An incident *)
(* opens on a full run of Bad verdicts and is over on a full run of Good ones.*)
Outcome(r, q, e, id, new) ==
    /\ new \in RecordType /\ Judged(q, e) \in Seq(Verdicts)
    /\ Counts(new, Judged(q, e))
    /\ r.status # "active" /\ new.status = "active" =>
          /\ e.verdict = "Bad" /\ new.id = id /\ new.evidence = <<e>>
          /\ AllLast(Judged(q, e), Activation, "Bad")
    /\ r.status = "active" /\ new.status # "active" =>
          e.verdict = "Good" /\ AllLast(Judged(q, e), Recovery, "Good")
    /\ r.status = "active" /\ new.status = "active" =>
          /\ new.id = r.id /\ (MaxEvidence > 1 => new.evidence[1] = r.evidence[1])
          /\ new.evidence = IF e.verdict = "Bad" THEN AppendEvidence(r.evidence, e)
                            ELSE r.evidence
    /\ e.verdict = "Good" /\ RecoveryComplete(r) <=>
          r.status = "active" /\ new.status # "active"

LEMMA EvaluateCounts ==
    ASSUME NEW r \in RecordType, NEW q \in Seq(Verdicts), NEW e \in Evidences, NEW id \in Nat,
           NEW new, Evaluated(r, e, id, new), Counts(r, q)
    PROVE  Outcome(r, q, e, id, new)
<1> USE DEF Outcome
<1> DEFINE p == LastOf(Append(q, e.verdict), WindowLength)
<1>0. /\ Activation \in Nat \ {0} /\ Recovery \in Nat \ {0} /\ MaxEvidence \in Nat \ {0}
      /\ WindowLength \in Nat /\ Activation <= WindowLength /\ Recovery <= WindowLength
  BY PolicyAssumption DEF WindowLength
<1>1. /\ e.verdict \in Verdicts /\ r.bad \in Nat /\ r.good \in Nat /\ r.id \in Nat
      /\ r.status \in {"none", "pending", "active"} /\ r.evidence \in Seq(Evidences)
  BY DEF Evidences, RecordType
<1>2. \A n \in Nat : n < WindowLength =>
         /\ p \in Seq(Verdicts)
         /\ \A w \in Verdicts : AllLast(p, n + 1, w) <=> e.verdict = w /\ AllLast(q, n, w)
  BY <1>1, WindowGrows
<1>3. p \in Seq(Verdicts) /\ \A w \in Verdicts : AllLast(p, 1, w) <=> e.verdict = w
  <2>1. 0 < WindowLength /\ 0 \in Nat /\ 0 + 1 = 1 /\ Len(q) \in Nat
    BY <1>0, LengthOf
  <2>2. \A w \in Verdicts : AllLast(q, 0, w)
    BY <2>1 DEF AllLast
  <2> QED BY <1>2, <2>1, <2>2
<1>4. e.verdict # "Unavailable" => Judged(q, e) = p
  BY DEF Judged
<1> HIDE DEF p
<1>5. /\ "Bad" \in Verdicts /\ "Good" \in Verdicts
      /\ NoRecord \in RecordType /\ NoRecord.status = "none" /\ NoRecord.bad = 0
  BY NoElements DEF Verdicts, RecordType, NoRecord
<1>6. CASE e.verdict = "Unavailable" /\ new = r
  BY <1>1, <1>6 DEF Judged
<1>7. CASE e.verdict = "Neutral" /\ r.status # "active" /\ new = NoRecord
  <2>1. AllLast(p, 0, "Bad") /\ ~AllLast(p, 0 + 1, "Bad")
    BY <1>3, <1>5, <1>7, LengthOf DEF AllLast
  <2> QED BY <1>3, <1>4, <1>5, <1>7, <2>1 DEF Counts
<1>8. CASE /\ e.verdict = "Neutral" /\ r.status = "active"
           /\ new = [status |-> "active", bad |-> r.bad, good |-> 0, id |-> r.id,
                     evidence |-> r.evidence]
  <2>1. new \in RecordType
    BY <1>1, <1>8 DEF RecordType
  <2>2. AllLast(p, 0, "Good") /\ ~AllLast(p, 0 + 1, "Good")
    BY <1>3, <1>5, <1>8, LengthOf DEF AllLast
  <2>3. Len(r.evidence) \in 1 .. MaxEvidence
    BY <1>8 DEF Counts
  <2> QED BY <1>0, <1>3, <1>4, <1>8, <2>1, <2>2, <2>3 DEF Counts
<1>9. CASE /\ e.verdict = "Good" /\ r.status = "active" /\ ~(r.good + 1 >= Recovery)
           /\ new = [status |-> "active", bad |-> 0, good |-> r.good + 1, id |-> r.id,
                     evidence |-> r.evidence]
  <2>1. new \in RecordType
    BY <1>1, <1>9 DEF RecordType
  <2>2. /\ r.good < WindowLength /\ r.good + 1 < WindowLength /\ r.good + 1 \in Nat
        /\ r.good + 1 < Recovery
    BY <1>0, <1>1, <1>9
  <2>3. AllLast(q, r.good, "Good") /\ ~AllLast(q, r.good + 1, "Good")
        /\ Len(r.evidence) \in 1 .. MaxEvidence
    BY <1>9 DEF Counts
  <2>4. AllLast(p, r.good + 1, "Good") /\ ~AllLast(p, (r.good + 1) + 1, "Good")
    BY <1>1, <1>2, <1>5, <1>9, <2>2, <2>3
  <2> QED BY <1>3, <1>4, <1>9, <2>1, <2>2, <2>3, <2>4 DEF Counts, RecoveryComplete
<1>10. CASE /\ e.verdict = "Good" /\ ~(r.status = "active" /\ ~(r.good + 1 >= Recovery))
            /\ new = NoRecord
  <2>1. AllLast(p, 0, "Bad") /\ ~AllLast(p, 0 + 1, "Bad")
    BY <1>3, <1>5, <1>10, LengthOf DEF AllLast
  <2>2. Counts(new, p)
    BY <1>5, <1>10, <2>1 DEF Counts
  <2>3. r.status = "active" => AllLast(p, Recovery, "Good") /\ r.good + 1 >= Recovery
    <3> SUFFICES ASSUME r.status = "active" PROVE AllLast(p, Recovery, "Good")
      BY <1>10
    <3>1. r.good < Recovery /\ AllLast(q, r.good, "Good") /\ r.good < WindowLength
      BY <1>0, <1>1 DEF Counts
    <3>2. AllLast(p, r.good + 1, "Good")
      BY <1>1, <1>2, <1>5, <1>10, <3>1
    <3>3. r.good + 1 = Recovery
      BY <1>0, <1>1, <1>10, <3>1
    <3> QED BY <3>2, <3>3
  <2> QED BY <1>3, <1>4, <1>5, <1>10, <2>2, <2>3 DEF RecoveryComplete
<1>11. CASE /\ e.verdict = "Bad" /\ r.status = "active"
            /\ \E b \in Nat : new = [status |-> "active", bad |-> b, good |-> 0, id |-> r.id,
                                     evidence |-> AppendEvidence(r.evidence, e)]
  <2>1. PICK b \in Nat : new = [status |-> "active", bad |-> b, good |-> 0, id |-> r.id,
                                evidence |-> AppendEvidence(r.evidence, e)]
    BY <1>11
  <2>2. /\ AppendEvidence(r.evidence, e) \in Seq(Evidences)
        /\ Len(AppendEvidence(r.evidence, e)) \in 1 .. MaxEvidence
        /\ MaxEvidence > 1 => AppendEvidence(r.evidence, e)[1] = r.evidence[1]
    BY <1>1, <1>11, EvidenceGrows DEF Counts
  <2>3. new \in RecordType
    BY <1>1, <2>1, <2>2 DEF RecordType
  <2>4. AllLast(p, 0, "Good") /\ ~AllLast(p, 0 + 1, "Good")
    BY <1>3, <1>5, <1>11, LengthOf DEF AllLast
  <2> QED BY <1>0, <1>3, <1>4, <1>11, <2>1, <2>2, <2>3, <2>4 DEF Counts
<1>12. CASE e.verdict = "Bad" /\ r.status = "none" /\ Crowded /\ new = NoRecord
  <2>1. AllLast(p, 0, "Bad")
    BY <1>3, LengthOf DEF AllLast
  <2> QED BY <1>3, <1>4, <1>5, <1>12, <2>1 DEF Counts
<1>13. CASE /\ e.verdict = "Bad" /\ r.status # "active" /\ r.bad + 1 < Activation
            /\ new = [status |-> "pending", bad |-> r.bad + 1, good |-> 0, id |-> 0,
                      evidence |-> <<>>]
  <2>1. new \in RecordType
    BY <1>1, <1>13, NoElements DEF RecordType
  <2>2. r.bad < WindowLength /\ r.bad + 1 < WindowLength /\ r.bad + 1 \in Nat
    BY <1>0, <1>1, <1>13
  <2>3. AllLast(q, r.bad, "Bad") /\ (~Crowded => ~AllLast(q, r.bad + 1, "Bad"))
    BY <1>13 DEF Counts
  <2>4. AllLast(p, r.bad + 1, "Bad") /\ (~Crowded => ~AllLast(p, (r.bad + 1) + 1, "Bad"))
    BY <1>1, <1>2, <1>5, <1>13, <2>2, <2>3
  <2> QED BY <1>3, <1>4, <1>13, <2>1, <2>4 DEF Counts
<1>14. CASE /\ e.verdict = "Bad" /\ r.status # "active" /\ ~(r.bad + 1 < Activation)
            /\ new = [status |-> "active", bad |-> r.bad + 1, good |-> 0, id |-> id,
                      evidence |-> <<e>>]
  <2>1. <<e>> \in Seq(Evidences) /\ Len(<<e>>) = 1
    OBVIOUS
  <2>2. new \in RecordType
    BY <1>1, <1>14, <2>1 DEF RecordType
  <2>3. AllLast(p, 0, "Good") /\ ~AllLast(p, 0 + 1, "Good")
    BY <1>3, <1>5, <1>14, LengthOf DEF AllLast
  <2>4. r.bad < Activation /\ AllLast(q, r.bad, "Bad")
    BY <1>0, <1>1, <1>5, <1>14 DEF Counts
  <2>5. AllLast(p, Activation, "Bad")
    <3>1. r.bad < WindowLength /\ r.bad + 1 = Activation
      BY <1>0, <1>1, <1>14, <2>4
    <3> QED BY <1>1, <1>2, <1>5, <1>14, <2>4, <3>1
  <2>6. Counts(new, p)
    BY <1>0, <1>14, <2>1, <2>3 DEF Counts
  <2> QED BY <1>3, <1>4, <1>14, <2>2, <2>5, <2>6
<1>15. r.status = "none" => r = NoRecord
  BY DEF Counts
<1> QED BY <1>6, <1>7, <1>8, <1>9, <1>10, <1>11, <1>12, <1>13, <1>14, <1>15, EvaluateCases

(* What a sequence of emissions says: whom it mentions and what it tells.    *)
Emitted == [id : Nat, key : Keys, state : {"Active", "Resolved"}, evidence : Seq(Evidences)]

LEMMA ConcatSays ==
    ASSUME NEW u \in Seq(Emitted), NEW v \in Seq(Emitted)
    PROVE  /\ u \o v \in Seq(Emitted)
           /\ Mentioned(u \o v) = Mentioned(u) \cup Mentioned(v)
           /\ Told(u \o v) = Told(u) \cup Told(v)
<1> DEFINE w == u \o v
<1>0. Len(u) \in Nat /\ Len(v) \in Nat
  BY LengthOf
<1>1. /\ w \in Seq(Emitted) /\ Len(w) = Len(u) + Len(v)
      /\ \A i \in 1 .. Len(u) + Len(v) :
            w[i] = IF i <= Len(u) THEN u[i] ELSE v[i - Len(u)]
  BY Joined
<1> HIDE DEF w
<1>2. \A i \in 1 .. Len(w) :
         \/ i \in 1 .. Len(u) /\ w[i] = u[i]
         \/ i - Len(u) \in 1 .. Len(v) /\ w[i] = v[i - Len(u)]
  BY <1>0, <1>1
<1>3. \A i \in 1 .. Len(u) : i \in 1 .. Len(w) /\ w[i] = u[i]
  BY <1>0, <1>1
<1>4. ASSUME NEW i \in 1 .. Len(v) PROVE Len(u) + i \in 1 .. Len(w) /\ w[Len(u) + i] = v[i]
  <2>1. Len(u) + i \in 1 .. Len(u) + Len(v) /\ ~(Len(u) + i <= Len(u)) /\ (Len(u) + i) - Len(u) = i
    BY <1>0
  <2> QED BY <1>1, <2>1
<1>5. Mentioned(w) = Mentioned(u) \cup Mentioned(v)
  <2>1. ASSUME NEW i \in 1 .. Len(w) PROVE w[i].id \in Mentioned(u) \cup Mentioned(v)
    BY <1>2 DEF Mentioned
  <2>2. ASSUME NEW i \in 1 .. Len(u) PROVE u[i].id \in Mentioned(w)
    BY <1>3 DEF Mentioned
  <2>3. ASSUME NEW i \in 1 .. Len(v) PROVE v[i].id \in Mentioned(w)
    BY <1>4 DEF Mentioned
  <2> QED BY <2>1, <2>2, <2>3 DEF Mentioned
<1>6. Told(w) = Told(u) \cup Told(v)
  <2>1. ASSUME NEW i \in 1 .. Len(w), w[i].state = "Active" PROVE w[i] \in Told(u) \cup Told(v)
    BY <1>2, <2>1 DEF Told
  <2>2. ASSUME NEW i \in 1 .. Len(u), u[i].state = "Active" PROVE u[i] \in Told(w)
    BY <1>3, <2>2 DEF Told
  <2>3. ASSUME NEW i \in 1 .. Len(v), v[i].state = "Active" PROVE v[i] \in Told(w)
    BY <1>4, <2>3 DEF Told
  <2> QED BY <2>1, <2>2, <2>3 DEF Told
<1> QED BY <1>1, <1>5, <1>6 DEF w

LEMMA NothingSays ==
    <<>> \in Seq(Emitted) /\ Mentioned(<<>>) = {} /\ Told(<<>>) = {}
  BY NoElements DEF Mentioned, Told

LEMMA ObservationSays ==
    ASSUME NEW k \in Keys, NEW r \in RecordType
    PROVE  /\ Observation(k, r, "Active") \in Emitted /\ Observation(k, r, "Resolved") \in Emitted
           /\ <<Observation(k, r, "Active")>> \in Seq(Emitted)
           /\ Mentioned(<<Observation(k, r, "Active")>>) = {r.id}
           /\ Told(<<Observation(k, r, "Active")>>) = {Observation(k, r, "Active")}
           /\ Resolution(k, r) \in Seq(Emitted) /\ Told(Resolution(k, r)) = {}
           /\ Mentioned(Resolution(k, r)) = IF r.status = "active" THEN {r.id} ELSE {}
<1> DEFINE a == Observation(k, r, "Active")
           b == Observation(k, r, "Resolved")
<1>1. /\ a \in Emitted /\ a.id = r.id /\ a.state = "Active"
      /\ b \in Emitted /\ b.id = r.id /\ b.state = "Resolved"
  BY DEF Observation, Emitted, RecordType
<1> HIDE DEF a, b
<1>2. \A o \in Emitted : /\ <<o>> \in Seq(Emitted) /\ Mentioned(<<o>>) = {o.id}
                         /\ Told(<<o>>) = IF o.state = "Active" THEN {o} ELSE {}
  <2> SUFFICES ASSUME NEW o \in Emitted
               PROVE  /\ <<o>> \in Seq(Emitted) /\ Mentioned(<<o>>) = {o.id}
                      /\ Told(<<o>>) = IF o.state = "Active" THEN {o} ELSE {}
    OBVIOUS
  <2> DEFINE u == <<o>>
  <2>1. u \in Seq(Emitted) /\ Len(u) = 1 /\ u[1] = o /\ 1 .. 1 = {1}
    OBVIOUS
  <2> HIDE DEF u
  <2>2. Mentioned(u) = {o.id}
    BY <2>1 DEF Mentioned
  <2>3. Told(u) = IF o.state = "Active" THEN {o} ELSE {}
    BY <2>1 DEF Told
  <2> QED BY <2>1, <2>2, <2>3 DEF u
<1>3. Resolution(k, r) = IF r.status = "active" THEN <<b>> ELSE <<>>
  BY DEF Resolution, b
<1> QED BY <1>1, <1>2, <1>3, NothingSays DEF a, b

LEMMA KeyFacts ==
    /\ \A k \in Keys : k[2] \in Sockets => k[1] \in SocketTypes /\ k = <<k[1], k[2]>>
    /\ \A x \in SocketTypes, s \in Sockets : <<x, s>> \in Keys /\ <<x, s>>[2] = s
    /\ UplinkKey \in Keys /\ UplinkKey[2] = Netns /\ Netns \notin Sockets
    /\ \A k \in Keys : k[2] \notin Sockets => k = UplinkKey
  BY SocketAssumption DEF Keys, UplinkKey

\* The identifiers of the active incidents on the sockets of S.
IdsOn(S) == {records[k].id : k \in {j \in Keys : j[2] \in S /\ Active(j)}}

LEMMA SocketResolutionsSay ==
    ASSUME EngineTypes, NEW s \in Sockets
    PROVE  /\ SocketResolutions(s) \in Seq(Emitted) /\ Told(SocketResolutions(s)) = {}
           /\ Mentioned(SocketResolutions(s)) = IdsOn({s})
<1> DEFINE R(x) == Resolution(<<x, s>>, records[<<x, s>>])
           Ids(x) == IF Active(<<x, s>>) THEN {records[<<x, s>>].id} ELSE {}
<1>1. ASSUME NEW x \in SocketTypes
      PROVE  R(x) \in Seq(Emitted) /\ Told(R(x)) = {} /\ Mentioned(R(x)) = Ids(x)
  <2>1. <<x, s>> \in Keys /\ records[<<x, s>>] \in RecordType
    BY KeyFacts DEF EngineTypes
  <2> QED BY <2>1, ObservationSays DEF Active
<1>2. SocketResolutions(s) = ((R("HighTcpRtt") \o R("ElevatedTcpRetransmission"))
                                \o R("RouteUnavailable")) \o R("SocketRouteConflict")
  BY DEF SocketResolutions
<1>3. SocketTypes = {"HighTcpRtt", "ElevatedTcpRetransmission", "RouteUnavailable",
                     "SocketRouteConflict"}
  BY DEF SocketTypes
<1> HIDE DEF R, Ids
<1> DEFINE a == R("HighTcpRtt") \o R("ElevatedTcpRetransmission")
           b == a \o R("RouteUnavailable")
<1>4. /\ a \in Seq(Emitted) /\ Told(a) = {}
      /\ Mentioned(a) = Ids("HighTcpRtt") \cup Ids("ElevatedTcpRetransmission")
  BY <1>1, <1>3, ConcatSays
<1> HIDE DEF a
<1>5. /\ b \in Seq(Emitted) /\ Told(b) = {}
      /\ Mentioned(b) = Mentioned(a) \cup Ids("RouteUnavailable")
  BY <1>1, <1>3, <1>4, ConcatSays
<1> HIDE DEF b
<1>6. /\ b \o R("SocketRouteConflict") \in Seq(Emitted)
      /\ Told(b \o R("SocketRouteConflict")) = {}
      /\ Mentioned(b \o R("SocketRouteConflict")) = Mentioned(b) \cup Ids("SocketRouteConflict")
  BY <1>1, <1>3, <1>5, ConcatSays
<1>7. SocketResolutions(s) = b \o R("SocketRouteConflict")
  BY <1>2 DEF a, b
<1>8. Mentioned(SocketResolutions(s)) = UNION {Ids(x) : x \in SocketTypes}
  BY <1>3, <1>4, <1>5, <1>6, <1>7
<1>9. UNION {Ids(x) : x \in SocketTypes} = IdsOn({s})
  <2>1. ASSUME NEW x \in SocketTypes, NEW i \in Ids(x) PROVE i \in IdsOn({s})
    BY <2>1, KeyFacts DEF Ids, IdsOn
  <2>2. ASSUME NEW i \in IdsOn({s}) PROVE \E x \in SocketTypes : i \in Ids(x)
    <3>1. PICK k \in Keys : k[2] = s /\ Active(k) /\ i = records[k].id
      BY <2>2 DEF IdsOn
    <3>2. k[1] \in SocketTypes /\ k = <<k[1], s>>
      BY <3>1, KeyFacts
    <3> QED BY <3>1, <3>2 DEF Ids
  <2> QED BY <2>1, <2>2
<1> QED BY <1>6, <1>7, <1>8, <1>9

LEMMA ResolutionsOfSay ==
    ASSUME EngineTypes, NEW old \in SUBSET Sockets, \A s, t \in old : s = t
    PROVE  /\ ResolutionsOf(old) \in Seq(Emitted) /\ Told(ResolutionsOf(old)) = {}
           /\ Mentioned(ResolutionsOf(old)) = IdsOn(old)
<1>1. CASE old = {}
  BY <1>1, NothingSays DEF ResolutionsOf, IdsOn
<1>2. CASE old # {}
  <2>1. PICK s \in old : s = CHOOSE t \in old : TRUE
    BY <1>2
  <2>2. old = {s} /\ ResolutionsOf(old) = SocketResolutions(s)
    BY <1>2, <2>1 DEF ResolutionsOf
  <2> QED BY <2>2, SocketResolutionsSay
<1> QED BY <1>1, <1>2

\* The observation that a consumer holds of an active incident.
Shown(k) == Observation(k, records[k], "Active")

\* Whatever a step changes about the active incidents, it publishes.
Reported ==
    /\ view' = {o \in view : o.id \notin Mentioned(emissions')} \cup Told(emissions')
    /\ \A k \in Keys :
          /\ Active(k) /\ Active(k)' /\ Shown(k)' = Shown(k) =>
                records[k].id \notin Mentioned(emissions') \/ Shown(k)' \in Told(emissions')
          /\ Active(k) /\ ~(Active(k)' /\ Shown(k)' = Shown(k)) =>
                records[k].id \in Mentioned(emissions')
          /\ Active(k)' /\ ~(Active(k) /\ Shown(k)' = Shown(k)) => Shown(k)' \in Told(emissions')
    /\ \A o \in Told(emissions') : \E k \in Keys : Active(k)' /\ o = Shown(k)'

LEMMA ViewFollows ==
    ASSUME DOMAIN records = Keys, DOMAIN records' = Keys, EmissionsSuffice, Reported
    PROVE  EmissionsSuffice'
<1>1. view = {Shown(k) : k \in {j \in Keys : Active(j)}}
  BY DEF EmissionsSuffice, Shown
<1>2. ASSUME NEW o \in view' PROVE \E k \in Keys : Active(k)' /\ o = Shown(k)'
  <2>1. CASE o \in Told(emissions')
    BY <2>1 DEF Reported
  <2>2. CASE o \in view /\ o.id \notin Mentioned(emissions')
    <3>1. PICK k \in Keys : Active(k) /\ o = Shown(k)
      BY <1>1, <2>2
    <3>2. o.id = records[k].id
      BY <3>1 DEF Shown, Observation
    <3> QED BY <2>2, <3>1, <3>2 DEF Reported
  <2> QED BY <1>2, <2>1, <2>2 DEF Reported
<1>3. ASSUME NEW k \in Keys, Active(k)' PROVE Shown(k)' \in view'
  <2>1. CASE Active(k) /\ Shown(k)' = Shown(k) /\ records[k].id \notin Mentioned(emissions')
    <3>1. Shown(k) \in view /\ Shown(k).id = records[k].id
      BY <1>1, <2>1 DEF Shown, Observation
    <3> QED BY <2>1, <3>1 DEF Reported
  <2> QED BY <1>3, <2>1 DEF Reported
<1>4. view' = {Shown(k)' : k \in {j \in Keys : Active(j)'}}
  BY <1>2, <1>3
<1> QED BY <1>4 DEF EmissionsSuffice, Shown

Kept(k) == records'[k] = records[k] /\ window'[k] = window[k]

Over(s) == s \in Sockets /\ tracker'[s] \in {"replaced", "closed"}

Forgotten(k) == records'[k] = NoRecord /\ window'[k] = <<>> /\ Over(k[2])

Sampled(k, e) ==
    /\ Evaluated(records[k], e, next_incident_id, records'[k])
    /\ window'[k] = Judged(window[k], e)

Opens(k) == ~Active(k) /\ Active(k)'

\* What one processed observation does to the table: it keeps a key, forgets it
\* with its socket, or judges it; and at most one incident opens.
RecordStep ==
    /\ DOMAIN records' = Keys /\ DOMAIN window' = Keys
    /\ records' = [k \in Keys |-> records'[k]] /\ window' = [k \in Keys |-> window'[k]]
    /\ \A k \in Keys : Kept(k) \/ Forgotten(k) \/ \E e \in Evidences : Sampled(k, e)
    /\ next_incident_id' \in {next_incident_id, next_incident_id + 1}
    /\ \A k \in Keys : Opens(k) =>
          /\ next_incident_id' = next_incident_id + 1
          /\ \A j \in Keys : j # k => ~Opens(j)
    /\ Reported

(* One key in one step.                                                      *)
LEMMA KeyStep ==
    ASSUME EngineInv, RecordStep, NEW k \in Keys
    PROVE  /\ records'[k] \in RecordType /\ window'[k] \in Seq(Verdicts)
           /\ Counts(records'[k], window'[k])
           /\ Opens(k) => /\ records'[k].id = next_incident_id
                          /\ AllLast(window'[k], Activation, "Bad")
           /\ Active(k) /\ ~Active(k)' => \/ AllLast(window'[k], Recovery, "Good")
                                          \/ Over(k[2])
           /\ Active(k) /\ Active(k)' =>
                 /\ records'[k].id = records[k].id
                 /\ MaxEvidence > 1 => records'[k].evidence[1] = records[k].evidence[1]
<1>0. /\ records[k] \in RecordType /\ window[k] \in Seq(Verdicts) /\ next_incident_id \in Nat
      /\ Counts(records[k], window[k])
  BY DEF EngineInv, EngineTypes, CountsInv
<1>1. CASE Kept(k)
  BY <1>0, <1>1 DEF Kept, Opens, Active
<1>2. CASE Forgotten(k)
  <2>1. NoRecord \in RecordType /\ <<>> \in Seq(Verdicts) /\ Len(<<>>) = 0
    BY NoElements DEF RecordType, NoRecord
  <2>2. AllLast(<<>>, 0, "Bad") /\ ~AllLast(<<>>, 0 + 1, "Bad")
    BY <2>1 DEF AllLast
  <2>3. NoRecord.status = "none" /\ NoRecord.bad = 0
    BY DEF NoRecord
  <2>4. Counts(NoRecord, <<>>)
    BY <2>2, <2>3 DEF Counts
  <2> QED BY <1>2, <2>1, <2>3, <2>4 DEF Forgotten, Opens, Active
<1>3. CASE \E e \in Evidences : Sampled(k, e)
  <2>1. PICK e \in Evidences : Sampled(k, e)
    BY <1>3
  <2> DEFINE new == records'[k]
  <2>2. Evaluated(records[k], e, next_incident_id, new) /\ window'[k] = Judged(window[k], e)
    BY <2>1 DEF Sampled
  <2> HIDE DEF new
  <2>3. /\ new \in RecordType /\ Judged(window[k], e) \in Seq(Verdicts)
        /\ Counts(new, Judged(window[k], e))
        /\ records[k].status # "active" /\ new.status = "active" =>
              new.id = next_incident_id /\ AllLast(Judged(window[k], e), Activation, "Bad")
        /\ records[k].status = "active" /\ new.status # "active" =>
              AllLast(Judged(window[k], e), Recovery, "Good")
        /\ records[k].status = "active" /\ new.status = "active" =>
              /\ new.id = records[k].id
              /\ MaxEvidence > 1 => new.evidence[1] = records[k].evidence[1]
    <3>1. Outcome(records[k], window[k], e, next_incident_id, new)
      BY <1>0, <2>2, EvaluateCounts
    <3> QED BY <3>1 DEF Outcome
  <2> QED BY <2>2, <2>3 DEF new, Opens, Active
<1> QED BY <1>1, <1>2, <1>3 DEF RecordStep

LEMMA RecordStepPreserves ==
    ASSUME EngineInv, RecordStep
    PROVE  /\ records' \in [Keys -> RecordType] /\ window' \in [Keys -> Seq(Verdicts)]
           /\ next_incident_id' \in Nat \ {0}
           /\ CountsInv' /\ IdsInv' /\ EmissionsSuffice'
<1>0. DOMAIN records = Keys /\ DOMAIN records' = Keys /\ next_incident_id \in Nat \ {0}
  BY DEF EngineInv, EngineTypes, RecordStep
<1>1. records' \in [Keys -> RecordType] /\ window' \in [Keys -> Seq(Verdicts)]
  <2>1. \A k \in Keys : records'[k] \in RecordType /\ window'[k] \in Seq(Verdicts)
    BY KeyStep
  <2>2. records' = [k \in Keys |-> records'[k]] /\ window' = [k \in Keys |-> window'[k]]
    BY DEF RecordStep
  <2> QED BY <2>1, <2>2
<1>2. next_incident_id' \in Nat \ {0} /\ next_incident_id' >= next_incident_id
  BY <1>0 DEF RecordStep
<1>3. CountsInv'
  <2>1. Crowded' <=> Crowded
    BY <1>0 DEF Crowded
  <2>2. \A k \in Keys : Counts(records'[k], window'[k])
    BY KeyStep
  <2> QED BY <2>1, <2>2 DEF CountsInv, Counts
<1>4. IdsInv'
  <2>1. \A k \in Keys : Active(k) => records[k].id < next_incident_id /\ records[k].id \in Nat
    BY DEF EngineInv, EngineTypes, IdsInv, RecordType
  <2>2. \A k \in Keys : Active(k)' =>
           \/ Active(k) /\ records'[k].id = records[k].id
           \/ Opens(k) /\ records'[k].id = next_incident_id
    BY KeyStep DEF Opens
  <2>3. ASSUME NEW k \in Keys, Active(k)' PROVE records'[k].id < next_incident_id'
    <3>1. CASE Active(k) /\ records'[k].id = records[k].id
      BY <1>0, <1>2, <2>1, <3>1
    <3>2. CASE Opens(k) /\ records'[k].id = next_incident_id
      BY <1>0, <3>2 DEF RecordStep
    <3> QED BY <2>2, <2>3, <3>1, <3>2
  <2>4. ASSUME NEW k \in Keys, Active(k)', NEW j \in Keys, j # k, Active(j)'
        PROVE  records'[j].id # records'[k].id
    <3>1. CASE Active(k) /\ records'[k].id = records[k].id
      <4>1. CASE Active(j) /\ records'[j].id = records[j].id
        BY <2>4, <3>1, <4>1 DEF EngineInv, IdsInv
      <4>2. CASE Opens(j) /\ records'[j].id = next_incident_id
        BY <1>0, <2>1, <3>1, <4>2
      <4> QED BY <2>2, <2>4, <4>1, <4>2
    <3>2. CASE Opens(k) /\ records'[k].id = next_incident_id
      <4>1. CASE Active(j) /\ records'[j].id = records[j].id
        BY <1>0, <2>1, <3>2, <4>1
      <4>2. CASE Opens(j)
        BY <2>4, <3>2, <4>2 DEF RecordStep
      <4> QED BY <2>2, <2>4, <4>1, <4>2
    <3> QED BY <2>2, <2>4, <3>1, <3>2
  <2> QED BY <2>3, <2>4 DEF IdsInv, Active
<1>5. EmissionsSuffice'
  BY <1>0, ViewFollows DEF EngineInv, RecordStep
<1> QED BY <1>1, <1>2, <1>3, <1>4, <1>5

(* The table is counted: with a key missing it is smaller than with all.     *)
KeysCounted ==
    /\ Cardinality(Keys) \in Nat
    /\ \A S \in SUBSET Keys : S # Keys => Cardinality(S) \in 0 .. Cardinality(Keys) - 1

(* Unless the table is crowded, a key without a record finds room for one.   *)
LEMMA EvaluatedInTable ==
    ASSUME KeysCounted, DOMAIN records = Keys, NEW table \in [Keys -> RecordType], NEW k \in Keys,
           NEW e \in Evidences, NEW id \in Nat
    PROVE  Evaluated(table[k], e, id, Evaluate(table[k], e, Room(table), id))
<1>1. Crowded \/ Room(table) \/ table[k].status # "none"
  <2> SUFFICES ASSUME ~Crowded, table[k].status = "none" PROVE Room(table)
    OBVIOUS
  <2> DEFINE S == {j \in Keys : table[j].status # "none"}
  <2>1. S \subseteq Keys /\ S # Keys
    OBVIOUS
  <2> HIDE DEF S
  <2>2. Cardinality(Keys) \in Nat /\ Cardinality(S) \in 0 .. Cardinality(Keys) - 1
    BY <2>1 DEF KeysCounted
  <2>3. MaxTracked \in Nat
    BY PolicyAssumption
  <2>4. Cardinality(S) < MaxTracked
    BY <2>2, <2>3 DEF Crowded
  <2> QED BY <2>4 DEF Room, S
<1>2. CASE Room(table)
  BY <1>2 DEF Evaluated, Evaluate, AfterBad
<1>3. CASE ~Room(table) /\ Crowded
  BY <1>3 DEF Evaluated, Evaluate, AfterBad
<1>4. CASE ~Room(table) /\ table[k].status # "none"
  BY <1>4 DEF Evaluated, Evaluate, AfterBad
<1> QED BY <1>1, <1>2, <1>3, <1>4

\* What is published when evidence e turns record r of key k into new.
MentionedOf(k, r, e, new) == Mentioned(Recovered(k, r, e)) \cup Mentioned(Raised(k, r, e, new))
ToldOf(k, r, e, new) == Told(Raised(k, r, e, new))

LEMMA SampleSays ==
    ASSUME NEW k \in Keys, NEW e \in Evidences, NEW r \in RecordType, NEW q \in Seq(Verdicts),
           Counts(r, q), NEW id \in Nat, NEW new, Evaluated(r, e, id, new)
    PROVE  LET M == MentionedOf(k, r, e, new)
               T == ToldOf(k, r, e, new)
               o == Observation(k, r, "Active")
               p == Observation(k, new, "Active")
               same == new.status = "active" /\ p = o
           IN  /\ Recovered(k, r, e) \in Seq(Emitted) /\ Told(Recovered(k, r, e)) = {}
               /\ Raised(k, r, e, new) \in Seq(Emitted)
               /\ \A i \in M : \/ r.status = "active" /\ i = r.id
                               \/ r.status # "active" /\ new.status = "active" /\ i = id
               /\ \A t \in T : new.status = "active" /\ t = p
               /\ r.status = "active" /\ same => r.id \notin M \/ p \in T
               /\ r.status = "active" /\ ~same => r.id \in M
               /\ new.status = "active" /\ ~(r.status = "active" /\ same) => p \in T
<1> DEFINE a == Recovered(k, r, e)
           b == Raised(k, r, e, new)
           o == Observation(k, r, "Active")
           p == Observation(k, new, "Active")
           over == r.status = "active" /\ new.status # "active"
           raised == e.verdict = "Bad" /\ new.status = "active" /\ ~Equivalent(r.evidence, e)
<1>1. /\ new \in RecordType
      /\ r.status # "active" /\ new.status = "active" =>
            e.verdict = "Bad" /\ new.id = id /\ new.evidence = <<e>>
      /\ over => e.verdict = "Good"
      /\ r.status = "active" /\ new.status = "active" =>
            /\ new.id = r.id
            /\ new.evidence = IF e.verdict = "Bad" THEN AppendEvidence(r.evidence, e)
                              ELSE r.evidence
      /\ e.verdict = "Good" /\ RecoveryComplete(r) <=> over
  <2>1. Outcome(r, q, e, id, new)
    BY EvaluateCounts
  <2> QED BY <2>1 DEF Outcome
<1>2. r.status # "active" => r.evidence = <<>>
  BY DEF Counts, NoRecord, RecordType
<1>3. a \in Seq(Emitted) /\ Told(a) = {} /\ Mentioned(a) = IF over THEN {r.id} ELSE {}
  <2>1. CASE over
    <3> DEFINE l == AppendEvidence(r.evidence, e)
               r1 == [r EXCEPT !.evidence = l]
    <3>1. l \in Seq(Evidences)
      BY <2>1, EvidenceGrows DEF Counts, RecordType
    <3> HIDE DEF l
    <3>2. r1 \in RecordType /\ r1.id = r.id /\ r1.status = "active"
      BY <2>1, <3>1 DEF RecordType
    <3>3. a = Resolution(k, r1)
      BY <1>1, <2>1 DEF Recovered, l
    <3> HIDE DEF r1
    <3> QED BY <2>1, <3>2, <3>3, ObservationSays
  <2>2. CASE ~over
    BY <1>1, <2>2, NothingSays DEF Recovered
  <2> QED BY <2>1, <2>2
<1>4. /\ b \in Seq(Emitted) /\ Mentioned(b) = IF raised THEN {new.id} ELSE {}
      /\ Told(b) = IF raised THEN {p} ELSE {}
  <2>1. CASE raised
    BY <1>1, <2>1, ObservationSays DEF Raised
  <2>2. CASE ~raised
    BY <2>2, NothingSays DEF Raised
  <2> QED BY <2>1, <2>2
<1>5. r.status # "active" => ~Equivalent(r.evidence, e)
  BY <1>2 DEF Equivalent
<1>6. Equivalent(r.evidence, e) => AppendEvidence(r.evidence, e) = r.evidence
  BY DEF AppendEvidence
<1>7. p = o <=> new.id = r.id /\ new.evidence = r.evidence
  BY DEF Observation
<1> QED BY <1>1, <1>3, <1>4, <1>5, <1>6, <1>7 DEF MentionedOf, ToldOf

\* What SampleSays says of key k, evidence e and the record it becomes.
Publishes(k, e, new) ==
    LET M == MentionedOf(k, records[k], e, new)
        T == ToldOf(k, records[k], e, new)
        p == Observation(k, new, "Active")
        same == new.status = "active" /\ p = Shown(k)
    IN  /\ Recovered(k, records[k], e) \in Seq(Emitted) /\ Told(Recovered(k, records[k], e)) = {}
        /\ Raised(k, records[k], e, new) \in Seq(Emitted)
        /\ \A i \in M : \/ Active(k) /\ i = records[k].id
                        \/ ~Active(k) /\ new.status = "active" /\ i = next_incident_id
        /\ \A t \in T : new.status = "active" /\ t = p
        /\ Active(k) /\ same => records[k].id \notin M \/ p \in T
        /\ Active(k) /\ ~same => records[k].id \in M
        /\ new.status = "active" /\ ~(Active(k) /\ same) => p \in T

LEMMA SamplePublishes ==
    ASSUME EngineInv, NEW k \in Keys, NEW e \in Evidences, NEW new,
           Evaluated(records[k], e, next_incident_id, new)
    PROVE  Publishes(k, e, new)
<1>1. /\ records[k] \in RecordType /\ window[k] \in Seq(Verdicts) /\ next_incident_id \in Nat
      /\ Counts(records[k], window[k])
  BY DEF EngineInv, EngineTypes, CountsInv
<1> QED BY <1>1, SampleSays DEF Publishes, Active, Shown

=============================================================================
