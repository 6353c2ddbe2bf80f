------------------------ MODULE SocketLifecycleProofs ------------------------
(***************************************************************************)
(* Proofs about two parts the socket tracker is built from: the            *)
(* attribution of any socket to an interface by any routes, and the table  *)
(* of socket identities, for every set of tuples and cookies and every     *)
(* limit of the table.                                                     *)
(***************************************************************************)
EXTENDS SocketLifecycle, SocketRouteAttributor, FiniteSetTheorems, TLAPS

-----------------------------------------------------------------------------
(* The attribution of a socket to an interface. *)

\* Prefix, metric and identity of a route are unsigned integers.
Ordered(paths) == \A r \in paths : r.prefix \in Nat /\ r.priority \in Nat /\ r.id \in Nat

\* A longer prefix wins, then a better table, then a smaller metric.
Beats(a, b) ==
    \/ a.prefix > b.prefix
    \/ a.prefix = b.prefix /\ tableRank(a.table) < tableRank(b.table)
    \/ a.prefix = b.prefix /\ tableRank(a.table) = tableRank(b.table) /\ a.priority < b.priority

Unbeaten(paths) == {r \in paths : \A q \in paths : ~Beats(q, r)}

LEMMA Ranks == \A t : tableRank(t) \in 0 .. 2
    BY DEF tableRank

LEMMA LeastOf ==
    ASSUME NEW S, NEW f \in [S -> Nat], S # {}
    PROVE  \E r \in S : \A q \in S : f[r] <= f[q]
  <1> DEFINE V == {f[r] : r \in S}
  <1>1. V \subseteq Nat /\ V # {}
    OBVIOUS
  <1> HIDE DEF V
  <1>2. PICK v \in V : \A w \in V : ~(<<w, v>> \in OpToRel(<, Nat))
    BY <1>1, NatLessThanWellFounded, WFMin
  <1>3. ASSUME NEW w \in V PROVE v <= w
    <2>1. v \in Nat /\ w \in Nat
      BY <1>1
    <2>2. w < v => <<w, v>> \in OpToRel(<, Nat)
      BY <2>1 DEF OpToRel
    <2>3. ~(<<w, v>> \in OpToRel(<, Nat))
      BY <1>2, Zenon
    <2>4. ~(w < v)
      BY <2>2, <2>3, Zenon
    <2> QED BY <2>1, <2>4
  <1>4. PICK r \in S : v = f[r]
    BY <1>2 DEF V
  <1>5. \A q \in S : f[q] \in V
    BY DEF V
  <1> QED BY <1>3, <1>4, <1>5

\* The two passes of attribute() over the candidates leave the unbeaten ones.
LEMMA TiedAreUnbeaten ==
    ASSUME NEW paths, Ordered(paths)
    PROVE  Tied(paths) = Unbeaten(paths)
  <1>1. ASSUME NEW r \in Tied(paths), NEW q \in paths PROVE ~Beats(q, r)
    <2>1. r \in paths /\ q.prefix <= r.prefix
          /\ \A x \in paths : x.prefix <= r.prefix
          /\ (q \in Longest(paths) => Ranked(r, q))
      BY DEF Tied, Longest
    <2>2. CASE q.prefix = r.prefix
      <3>1. Ranked(r, q)
        BY <2>1, <2>2 DEF Longest
      <3> QED BY <2>1, <2>2, <3>1, Ranks DEF Ranked, Beats, Ordered
    <2>3. CASE q.prefix < r.prefix
      BY <2>1, <2>3 DEF Beats, Ordered
    <2> QED BY <2>1, <2>2, <2>3 DEF Ordered
  <1>2. ASSUME NEW r \in Unbeaten(paths) PROVE r \in Tied(paths)
    <2>1. r \in paths /\ \A q \in paths : ~Beats(q, r)
      BY DEF Unbeaten
    <2>2. r \in Longest(paths)
      BY <2>1 DEF Longest, Beats, Ordered
    <2>3. ASSUME NEW q \in Longest(paths) PROVE Ranked(r, q)
      <3>1. q \in paths /\ q.prefix = r.prefix
        BY <2>1, <2>2 DEF Longest, Ordered
      <3> QED BY <2>1, <3>1, Ranks DEF Ranked, Beats, Ordered
    <2> QED BY <2>2, <2>3 DEF Tied
  <1>3. Tied(paths) \subseteq paths
    BY DEF Tied, Longest
  <1> QED BY <1>1, <1>2, <1>3 DEF Unbeaten

\* Prefixes are bounded, so that some candidate is unbeaten.
LEMMA SomeAreTied ==
    ASSUME NEW paths, Ordered(paths), paths # {},
           NEW bits \in Nat, \A r \in paths : r.prefix <= bits
    PROVE  Tied(paths) # {}
  <1> DEFINE L == Longest(paths)
             short == [r \in paths |-> bits - r.prefix]
             rank == [r \in L |-> tableRank(r.table)]
  <1>1. PICK l \in paths : \A q \in paths : short[l] <= short[q]
    <2>1. short \in [paths -> Nat]
      BY DEF Ordered
    <2> HIDE DEF short
    <2> QED BY <2>1, LeastOf
  <1>2. l \in L
    BY <1>1 DEF Longest, Ordered
  <1>3. L \subseteq paths
    BY DEF Longest
  <1> HIDE DEF L, short
  <1>4. PICK m \in L : \A q \in L : rank[m] <= rank[q]
    <2>1. rank \in [L -> Nat]
      BY Ranks
    <2> HIDE DEF rank
    <2> QED BY <1>2, <2>1, LeastOf
  <1> DEFINE M == {r \in L : tableRank(r.table) = tableRank(m.table)}
             metric == [r \in M |-> r.priority]
  <1>5. PICK r \in M : \A q \in M : metric[r] <= metric[q]
    <2>1. metric \in [M -> Nat] /\ M # {}
      BY <1>3, <1>4 DEF Ordered
    <2> HIDE DEF metric, M
    <2> QED BY <2>1, LeastOf
  <1>6. ASSUME NEW q \in L PROVE Ranked(r, q)
    <2>1. tableRank(r.table) = tableRank(m.table) /\ tableRank(m.table) <= tableRank(q.table)
      BY <1>4, <1>5
    <2>2. tableRank(q.table) = tableRank(m.table) => r.priority <= q.priority
      BY <1>5
    <2> QED BY <2>1, <2>2, Ranks DEF Ranked
  <1> QED BY <1>5, <1>6 DEF Tied, L

\* A topology as the collector commits it.
IsTopology(t) ==
    /\ t = [authoritative |-> t.authoritative, netns |-> t.netns, partial |-> t.partial,
            degraded |-> t.degraded, routes |-> t.routes, addresses |-> t.addresses]
    /\ Ordered(t.routes)

Best(socket, network) == Unbeaten(Matching(socket, network))

LEMMA MatchingIsTied ==
    ASSUME NEW socket, NEW network, IsTopology(network), Len(socket.remote.address) \in Nat
    PROVE  LET candidates == Matching(socket, network)
           IN  /\ Ordered(candidates)
               /\ Tied(candidates) = Best(socket, network)
               /\ candidates # {} => Best(socket, network) # {}
  <1> DEFINE candidates == Matching(socket, network)
             bits == AddressBits(socket.remote.address)
  <1>1. candidates \subseteq network.routes /\ Ordered(candidates)
    BY DEF Matching, IsTopology, Ordered
  <1>2. bits \in Nat
    BY AddressAssumption DEF AddressBits
  <1>3. \A r \in candidates : r.prefix <= bits
    BY DEF Matching, prefixMatches
  <1> HIDE DEF candidates, bits
  <1>4. Tied(candidates) = Unbeaten(candidates)
    BY <1>1, TiedAreUnbeaten
  <1>5. candidates # {} => Tied(candidates) # {}
    BY <1>1, <1>2, <1>3, SomeAreTied
  <1> QED BY <1>1, <1>4, <1>5 DEF Best, candidates

LEMMA LeastIdentity ==
    ASSUME NEW tied, tied # {}, Ordered(tied)
    PROVE  (CHOOSE r \in tied : \A q \in tied : r.id <= q.id) \in tied
  <1> DEFINE number == [r \in tied |-> r.id]
  <1>1. number \in [tied -> Nat]
    BY DEF Ordered
  <1> HIDE DEF number
  <1>2. PICK r \in tied : \A q \in tied : number[r] <= number[q]
    BY <1>1, LeastOf
  <1>3. \A q \in tied : r.id <= q.id
    BY <1>2 DEF number
  <1> QED BY <1>2, <1>3

\* What Available says of the routes that are tied.
LEMMA TiedRoutesForce ==
    ASSUME NEW socket, NEW network, NEW uplink, NEW tied, tied # {}, Ordered(tied),
           Attribution(socket, network, uplink, tied).status = "Available"
    PROVE  LET selected == Attribution(socket, network, uplink, tied).selected
           IN  /\ selected # 0 /\ socket.diag \in {0, selected}
               /\ \A r \in tied : r.type = "Unicast" /\ Outputs(r) = {selected}
  <1> DEFINE result == Attribution(socket, network, uplink, tied)
             ambiguous == \E r, q \in tied : ~sameOutput(r, q)
             route == CHOOSE r \in tied : \A q \in tied : r.id <= q.id
             forward == {r \in (IF ambiguous THEN tied ELSE {route}) : r.type = "Unicast"}
             possible == UNION {Outputs(r) : r \in forward}
             reasons == RouteReasons(route, possible) \cup DiagReasons(socket.diag, possible)
                        \cup AddressReasons(socket, network, route, possible)
             open == /\ ~ambiguous /\ route.type = "Unicast" /\ route.hops = {}
                     /\ reasons \cap Blocking = {} /\ ~network.partial /\ ~network.degraded
  <1>1. /\ result.status = (IF open THEN "Available" ELSE IF ambiguous THEN "Ambiguous" ELSE "Partial")
        /\ result.selected = (IF route.type # "Local" /\ Cardinality(possible) = 1
                              THEN CHOOSE i \in possible : TRUE ELSE 0)
    BY DEF Attribution
  <1>2. route \in tied
    BY LeastIdentity
  <1> HIDE DEF result, reasons, route, ambiguous
  <1>3. open
    BY <1>1 DEF result
  <1>4. possible = Outputs(route)
    BY <1>3
  <1>5. Outputs(route) = {route.out} \ {0}
    BY <1>3 DEF Outputs
  <1> HIDE DEF possible
  <1>6. possible # {}
    <2>1. "MissingOutputInterface" \notin RouteReasons(route, possible)
      BY <1>3 DEF reasons, Blocking
    <2> QED BY <1>3, <2>1 DEF RouteReasons
  <1>7. possible = {route.out} /\ route.out # 0
    BY <1>4, <1>5, <1>6
  <1>8. result.selected = route.out
    <2>1. Cardinality(possible) = 1
      BY <1>7, FS_Singleton
    <2> QED BY <1>1, <1>3, <1>7, <2>1
  <1>9. socket.diag \in {0, route.out}
    <2>1. "DiagIfindexConflicts" \notin DiagReasons(socket.diag, possible)
      BY <1>3 DEF reasons, Blocking
    <2> QED BY <1>7, <2>1 DEF DiagReasons
  <1>10. ASSUME NEW r \in tied PROVE r.type = "Unicast" /\ Outputs(r) = {route.out}
    <2>1. sameOutput(r, route)
      BY <1>2, <1>3 DEF ambiguous
    <2> QED BY <1>3, <1>4, <1>7, <2>1 DEF sameOutput
  <1> QED BY <1>7, <1>8, <1>9, <1>10 DEF result

\* attribute(): an Available context names the one interface on which every
\* unbeaten route sends, and the kernel's own choice, if it was observed, is
\* that interface.
THEOREM AvailableNamesTheInterface ==
    ASSUME NEW socket, NEW network, NEW uplink, IsTopology(network),
           Len(socket.remote.address) \in Nat,
           attribute(socket, network, uplink).status = "Available"
    PROVE  LET selected == attribute(socket, network, uplink).selected
           IN  /\ Best(socket, network) # {} /\ selected # 0
               /\ \A r \in Best(socket, network) : r.type = "Unicast" /\ Outputs(r) = {selected}
               /\ socket.diag \in {0, selected}
  <1> DEFINE candidates == Matching(socket, network)
             tied == Tied(candidates)
             result == attribute(socket, network, uplink)
  <1>1. \A reasons : Unattributed(reasons).status # "Available"
    BY DEF Unattributed
  <1>2. candidates # {} /\ result = Attribution(socket, network, uplink, tied)
    BY <1>1, Zenon DEF attribute
  <1>3. tied = Best(socket, network) /\ tied # {} /\ Ordered(tied)
    <2>1. tied \subseteq candidates
      BY DEF Tied, Longest
    <2> QED BY <1>2, <2>1, MatchingIsTied DEF Ordered
  <1> HIDE DEF tied, candidates
  <1> QED BY <1>2, <1>3, TiedRoutesForce

LEMMA TiedStayTied ==
    ASSUME NEW paths, Ordered(paths)
    PROVE  Tied(Tied(paths)) = Tied(paths)
  <1>1. Tied(paths) \subseteq paths /\ Ordered(Tied(paths))
    BY DEF Tied, Longest, Ordered
  <1>2. Tied(paths) = Unbeaten(paths) /\ Tied(Tied(paths)) = Unbeaten(Tied(paths))
    BY <1>1, TiedAreUnbeaten
  <1> QED BY <1>1, <1>2 DEF Unbeaten

\* attribute(): the routes that another one beats, or that do not match, change
\* nothing in the context of a socket.
THEOREM BeatenRoutesAreIgnored ==
    ASSUME NEW socket, NEW network, NEW uplink, IsTopology(network),
           Len(socket.remote.address) \in Nat, Matching(socket, network) # {}
    PROVE  attribute(socket, [network EXCEPT !.routes = Best(socket, network)], uplink)
              = attribute(socket, network, uplink)
  <1> DEFINE candidates == Matching(socket, network)
             best == Best(socket, network)
             smaller == [network EXCEPT !.routes = best]
  <1>1. best = Tied(candidates) /\ best # {} /\ Ordered(candidates)
    BY MatchingIsTied
  <1>2. /\ smaller.routes = best /\ smaller.authoritative = network.authoritative
        /\ smaller.netns = network.netns /\ smaller.partial = network.partial
        /\ smaller.degraded = network.degraded /\ smaller.addresses = network.addresses
    BY DEF IsTopology
  <1>3. best \subseteq candidates
    BY <1>1 DEF Tied, Longest
  <1> HIDE DEF best, smaller
  <1>4. Matching(socket, smaller) = best
    BY <1>2, <1>3 DEF Matching
  <1>5. Tied(Matching(socket, smaller)) = Tied(candidates)
    BY <1>1, <1>4, TiedStayTied
  <1> HIDE DEF candidates
  <1>6. \A tied : Attribution(socket, smaller, uplink, tied) = Attribution(socket, network, uplink, tied)
    <2>1. \A route, outputs : AddressReasons(socket, smaller, route, outputs)
                              = AddressReasons(socket, network, route, outputs)
      BY <1>2 DEF AddressReasons
    <2>2. TopologyReasons(smaller) = TopologyReasons(network)
      BY <1>2 DEF TopologyReasons
    <2>3. TAKE tied
    <2> DEFINE ambiguous == \E r, q \in tied : ~sameOutput(r, q)
               route == CHOOSE r \in tied : \A q \in tied : r.id <= q.id
               forward == {r \in (IF ambiguous THEN tied ELSE {route}) : r.type = "Unicast"}
               possible == UNION {Outputs(r) : r \in forward}
    <2>4. AddressReasons(socket, smaller, route, possible)
             = AddressReasons(socket, network, route, possible)
      BY <2>1, Zenon
    <2> QED BY <1>2, <2>2, <2>4, Zenon DEF Attribution
  <1>7. attribute(socket, smaller, uplink) =
           IF ~network.authoritative \/ socket.netns # network.netns
           THEN Unattributed({"TopologyNonAuthoritative"} \cup NoDiag(socket))
           ELSE Attribution(socket, network, uplink, Tied(candidates))
    <2>1. Matching(socket, smaller) # {}
      BY <1>1, <1>4
    <2>2. attribute(socket, smaller, uplink) =
             IF ~smaller.authoritative \/ socket.netns # smaller.netns
             THEN Unattributed({"TopologyNonAuthoritative"} \cup NoDiag(socket))
             ELSE Attribution(socket, smaller, uplink, Tied(Matching(socket, smaller)))
      BY <2>1, Zenon DEF attribute
    <2>3. Attribution(socket, smaller, uplink, Tied(Matching(socket, smaller)))
             = Attribution(socket, network, uplink, Tied(candidates))
      BY <1>5, <1>6, Zenon
    <2> QED BY <1>2, <2>2, <2>3, Zenon
  <1>8. attribute(socket, network, uplink) =
           IF ~network.authoritative \/ socket.netns # network.netns
           THEN Unattributed({"TopologyNonAuthoritative"} \cup NoDiag(socket))
           ELSE Attribution(socket, network, uplink, Tied(candidates))
    BY DEF attribute, candidates
  <1> QED BY <1>7, <1>8 DEF smaller, best

-----------------------------------------------------------------------------
(* The table of socket identities. *)

Rec(e) == [cookie |-> e.cookie, tuple |-> e.tuple]

TableTypes ==
    /\ active \in SUBSET Entry /\ IsFiniteSet(active)
    /\ pending \in SUBSET Entry
    /\ retired \in SUBSET Nat /\ next_generation \in Nat \ {0}
    /\ snapshot \in {"none", "Authoritative", "Partial", "Failed"}
    /\ superseded \in SUBSET Nat
    /\ observed \in SUBSET Record /\ IsFiniteSet(observed) /\ refused \in BOOLEAN

\* No two entries of S have the same generation, the same cookie, or the same
\* tuple and no cookie.
Distinct(S) ==
    \A e, f \in S : e # f =>
        /\ e.gen # f.gen
        /\ e.cookie # f.cookie \/ (e.cookie = NoCookie /\ e.tuple # f.tuple)

\* The table and the candidate speak of the same sockets.
Agree == \A e \in active, f \in pending : e.gen = f.gen => e = f

\* Generations are given out once: what is active or pending was given out
\* before, and did not leave the table since.
GenerationsInv ==
    /\ \A e \in active \cup pending : e.gen < next_generation
    /\ \A g \in retired :
          g < next_generation /\ g \notin Gens(active) \cup Gens(pending)

\* What is superseded is an active entry that is not in the candidate, and a
\* record of the dump contradicts it.
SupersededInv ==
    /\ superseded \subseteq Gens(active) /\ superseded \cap Gens(pending) = {}
    /\ \A e \in active : e.gen \in superseded =>
          \E y \in observed : /\ y # Rec(e)
                              /\ y.tuple = e.tuple \/ (y.cookie = e.cookie /\ y.cookie # NoCookie)

\* The candidate holds records of the dump; all of them, unless the dump is
\* ambiguous or one was rejected; and an active entry that the dump mentions is
\* in the candidate.
MirrorInv ==
    /\ \A e \in pending : Rec(e) \in observed
    /\ ~refused /\ Unambiguous(observed) =>
          /\ \A x \in observed : \E e \in pending : Rec(e) = x
          /\ \A e \in active : Rec(e) \in observed => e \in pending

\* Without a running snapshot there is no candidate.
IdleInv ==
    snapshot \in {"none", "Failed"} =>
        pending = {} /\ superseded = {} /\ observed = {} /\ ~refused

TableInv ==
    /\ TableTypes /\ Distinct(active) /\ Distinct(pending) /\ Agree
    /\ GenerationsInv /\ SupersededInv /\ MirrorInv /\ IdleInv

(* The order of the cookies has a least element, so that the first entry in  *)
(* the order of the map exists.                                              *)
LEMMA FirstIsMember ==
    ASSUME NEW S \in SUBSET Entry PROVE First(S) \subseteq S
<1>1. CASE S = {}
  BY <1>1 DEF First
<1>2. CASE S # {}
  <2> DEFINE T == {e.cookie - NoCookie : e \in S}
  <2>1. \A e \in S : e.cookie \in Int /\ e.cookie - NoCookie \in Nat
    <3>1. \A c \in Cookies \cup {NoCookie} : c \in Int /\ NoCookie <= c
      BY TableAssumption
    <3>2. \A e \in S : e.cookie \in Cookies \cup {NoCookie}
      BY DEF Entry
    <3>3. \A c \in Cookies \cup {NoCookie} : c - NoCookie \in Nat
      BY <3>1, TableAssumption
    <3> QED BY <3>1, <3>2, <3>3
  <2>2. T \subseteq Nat /\ T # {}
    BY <1>2, <2>1
  <2>3. PICK n \in T : \A m \in T : ~(<<m, n>> \in OpToRel(<, Nat))
    <3> HIDE DEF T
    <3> QED BY <2>2, WFMin, NatLessThanWellFounded
  <2>4. \A m \in T : n <= m
    <3> HIDE DEF T
    <3>1. SUFFICES ASSUME NEW m \in T PROVE n <= m
      OBVIOUS
    <3>2. m \in Nat /\ n \in Nat /\ ~(<<m, n>> \in {ss \in Nat \X Nat : ss[1] < ss[2]})
      BY <2>2, <2>3 DEF OpToRel
    <3> QED BY <3>2
  <2>5. PICK e \in S : n = e.cookie - NoCookie
    OBVIOUS
  <2>6. \A f \in S : e.cookie <= f.cookie
    <3>1. SUFFICES ASSUME NEW f \in S PROVE e.cookie <= f.cookie
      OBVIOUS
    <3>2. e.cookie - NoCookie <= f.cookie - NoCookie
      BY <2>4, <2>5
    <3> QED BY <2>1, <3>2, TableAssumption
  <2>7. (CHOOSE d \in S : \A f \in S : d.cookie <= f.cookie) \in S
    BY <2>6
  <2> QED BY <1>2, <2>7 DEF First
<1> QED BY <1>1, <1>2


(* What observe() finds for a record: the entries it matches are of exactly   *)
(* this record and not superseded; every entry it could match is found.       *)
Matched(x) == Match(active, pending, superseded, x)
Victim(x) == Victims(active, pending, superseded, x)

Contradicts(x, e) ==
    Rec(e) # x /\ (e.tuple = x.tuple \/ (e.cookie = x.cookie /\ x.cookie # NoCookie))

LEMMA RecIs ==
    ASSUME NEW e \in Entry, NEW x \in Record
    PROVE  /\ Rec(e) \in Record
           /\ Rec(e) = x <=> e.cookie = x.cookie /\ e.tuple = x.tuple
  BY DEF Rec, Entry, Record

LEMMA MatchFacts ==
    ASSUME TableInv, NEW x \in Record
    PROVE  /\ Matched(x) \subseteq pending \/ Matched(x) \subseteq active
           /\ \A e \in Matched(x) : Rec(e) = x /\ e.gen \notin superseded
           /\ \A e \in pending : Rec(e) = x => e \in Matched(x)
           /\ \A e \in active : Rec(e) = x /\ e.gen \notin superseded \cup Gens(Victim(x))
                 => e \in Matched(x) \/ \E f \in pending : Rec(f) = x
<1>0. /\ \A e \in active \cup pending : e \in Entry
      /\ \A e \in pending : e.gen \notin superseded
  BY DEF TableInv, TableTypes, SupersededInv, Gens
<1>1. \A e \in active \cup pending : Rec(e) = x <=> e.cookie = x.cookie /\ e.tuple = x.tuple
  BY <1>0, RecIs
<1>2. CASE x.cookie # NoCookie
  <2> DEFINE inPending == {e \in pending : e.cookie = x.cookie /\ e.tuple = x.tuple}
             wrong == {e \in pending : e.cookie = x.cookie /\ e.tuple # x.tuple}
             sup1 == superseded \cup (Gens(wrong) \cap Gens(active))
             inActive == {e \in active : e.cookie = x.cookie /\ e.gen \notin sup1}
             known == {e \in inActive : e.tuple = x.tuple}
  <2>1. /\ SameTuple(SameCookie(pending, x), x) = inPending
        /\ SameCookie(pending, x) \ inPending = wrong
    BY DEF SameTuple, SameCookie
  <2>2. Matched(x) = IF inPending # {} THEN inPending ELSE known
    BY <1>2, <2>1, Zenon
    DEF Matched, Match, CookieMatch, Superseding, SameTuple, SameCookie, Current
  <2>3. inPending = {} => wrong \subseteq Victim(x)
    BY <1>2, <2>1 DEF Victim, Victims, CookieVictims, Superseding, SameTuple, SameCookie, Current
  <2>4. \A e \in Matched(x) : Rec(e) = x /\ e.gen \notin superseded
    BY <1>0, <1>1, <2>2
  <2>5. \A e \in pending : Rec(e) = x => e \in Matched(x)
    BY <1>1, <2>2
  <2>6. ASSUME NEW e \in active, Rec(e) = x, e.gen \notin superseded \cup Gens(Victim(x))
        PROVE  e \in Matched(x) \/ \E f \in pending : Rec(f) = x
    BY <1>1, <2>2, <2>3, <2>6 DEF Gens
  <2> QED BY <2>2, <2>4, <2>5, <2>6
<1>3. CASE x.cookie = NoCookie
  <2> DEFINE inPending == {e \in pending : e.cookie = NoCookie /\ e.tuple = x.tuple}
             known == {e \in active : /\ e.cookie = NoCookie /\ e.tuple = x.tuple
                                      /\ e.gen \notin superseded}
  <2>1. Matched(x) = IF inPending # {} THEN inPending ELSE known
    BY <1>3, Zenon DEF Matched, Match, WeakMatch, SameTuple, Weak, Current
  <2> QED BY <1>0, <1>1, <1>3, <2>1
<1> QED BY <1>2, <1>3

(* What observe() supersedes contradicts the record, and nothing that would   *)
(* share its place in an index stays in the candidate.                        *)
LEMMA VictimFacts ==
    ASSUME TableInv, NEW x \in Record
    PROVE  /\ Victim(x) \subseteq active \cup pending
           /\ \A e \in Victim(x) : Contradicts(x, e)
           /\ \A e \in pending \ Victim(x) :
                 Rec(e) # x => \/ e.cookie # x.cookie
                               \/ x.cookie = NoCookie /\ e.tuple # x.tuple
<1>0. active \in SUBSET Entry /\ pending \in SUBSET Entry /\ Distinct(pending)
  BY DEF TableInv, TableTypes
<1>1. \A e \in active \cup pending : Rec(e) = x <=> e.cookie = x.cookie /\ e.tuple = x.tuple
  BY <1>0, RecIs
<1>2. CASE x.cookie # NoCookie
  <2> DEFINE inPending == {e \in pending : e.cookie = x.cookie /\ e.tuple = x.tuple}
             wrong == {e \in pending : e.cookie = x.cookie /\ e.tuple # x.tuple}
             sup1 == superseded \cup (Gens(wrong) \cap Gens(active))
             inActive == {e \in active : e.cookie = x.cookie /\ e.gen \notin sup1}
             known == {e \in inActive : e.tuple = x.tuple}
             weakPending == {e \in pending : e.cookie = NoCookie /\ e.tuple = x.tuple}
             weakActive == {e \in active : /\ e.cookie = NoCookie /\ e.gen \notin sup1
                                           /\ e.tuple = x.tuple}
  <2>1. /\ SameTuple(SameCookie(pending, x), x) = inPending
        /\ SameCookie(pending, x) \ inPending = wrong
    BY DEF SameTuple, SameCookie
  <2>2. Victim(x) = IF inPending # {} THEN {} ELSE IF known # {} THEN wrong
                    ELSE wrong \cup inActive
                           \cup (IF weakPending # {} THEN weakPending ELSE weakActive)
    BY <1>2, <2>1, Zenon
    DEF Victim, Victims, CookieVictims, Superseding, SameTuple, SameCookie, Current, Weak
  <2>3. Victim(x) \subseteq active \cup pending
    BY <2>2
  <2>4. ASSUME NEW e \in Victim(x) PROVE Contradicts(x, e)
    BY <1>1, <1>2, <2>2 DEF Contradicts
  <2>5. ASSUME NEW e \in pending \ Victim(x), Rec(e) # x PROVE e.cookie # x.cookie
    BY <1>0, <1>1, <1>2, <2>2, <2>5 DEF Distinct
  <2> QED BY <2>3, <2>4, <2>5
<1>3. CASE x.cookie = NoCookie
  <2> DEFINE inPending == {e \in pending : e.cookie # NoCookie /\ e.tuple = x.tuple}
             sup1 == Superseding(active, superseded, First(inPending))
             inActive == {e \in active : /\ e.cookie # NoCookie /\ e.tuple = x.tuple
                                         /\ e.gen \notin sup1}
  <2>1. Victim(x) = {} \/ Victim(x) = First(inPending) \cup First(inActive)
    <3>1. SameTuple(pending, x) \ Weak(pending) = inPending
      BY DEF SameTuple, Weak
    <3>2. SameTuple(Current(active, sup1), x) \ Weak(active) = inActive
      BY DEF SameTuple, Weak, Current
    <3> HIDE DEF inPending, sup1, inActive
    <3>3. sup1 = Superseding(active, superseded, First(inPending))
      BY DEF sup1
    <3> QED BY <1>3, <3>1, <3>2, <3>3 DEF Victim, Victims, WeakVictims
  <2>2. First(inPending) \subseteq inPending /\ First(inActive) \subseteq inActive
    BY <1>0, FirstIsMember
  <2>3. Victim(x) \subseteq inPending \cup inActive
    BY <2>1, <2>2
  <2>4. \A e \in inPending \cup inActive : e \in active \cup pending /\ Contradicts(x, e)
    BY <1>1, <1>3 DEF Contradicts
  <2>5. \A e \in pending : Rec(e) # x => e.cookie # x.cookie \/ e.tuple # x.tuple
    BY <1>1
  <2> HIDE DEF inPending, inActive
  <2> QED BY <1>3, <2>3, <2>4, <2>5
<1> QED BY <1>2, <1>3


(* The candidate after a record: the victims leave, and the match or, if      *)
(* there is room, a new entry comes in.                                       *)
Added(x) ==
    IF Matched(x) # {} THEN Matched(x)
    ELSE IF Room(active, pending \ Victim(x)) THEN {NewEntry(x, next_generation)}
    ELSE {}

LEMMA ObserveFacts ==
    ASSUME TableInv, NEW x \in Record, Observe(x)
    PROVE  /\ pending' = (pending \ Victim(x)) \cup Added(x)
           /\ superseded' = superseded \cup (Gens(Victim(x)) \cap Gens(active))
           /\ next_generation' = IF Added(x) = {NewEntry(x, next_generation)}
                                 THEN next_generation + 1 ELSE next_generation
           /\ observed' = observed \cup {x}
           /\ refused' = (refused \/ Added(x) = {})
           /\ active' = active /\ retired' = retired /\ snapshot' = snapshot
           /\ snapshot \in {"Authoritative", "Partial"}
<1>1. Accepted(active, pending, superseded, x) <=> Added(x) # {}
  BY DEF Accepted, Added, Matched, Victim, Unlisted
<1>2. \A e \in Matched(x) : e # NewEntry(x, next_generation)
  <2>1. NewEntry(x, next_generation).gen = next_generation
    BY DEF NewEntry
  <2>2. \A e \in Matched(x) : e.gen < next_generation /\ e.gen \in Nat
    BY MatchFacts DEF TableInv, GenerationsInv, TableTypes, Entry
  <2>3. next_generation \in Nat
    BY DEF TableInv, TableTypes
  <2> QED BY <2>1, <2>2, <2>3
<1>3. Added(x) = {NewEntry(x, next_generation)} <=>
         Match(active, pending, superseded, x) = {} /\ Accepted(active, pending, superseded, x)
  BY <1>1, <1>2 DEF Added, Matched
<1>4. pending' = (pending \ Victim(x)) \cup Added(x)
  BY DEF Observe, PendingAfter, Added, Matched, Victim, Unlisted
<1> QED BY <1>1, <1>3, <1>4 DEF Observe, SupersededAfter, Superseding, Victim, GenerationAfter

(* What comes in: at most one entry, of this record.  It is known, or its     *)
(* generation is the next one.                                                *)
LEMMA AddedFacts ==
    ASSUME TableInv, NEW x \in Record
    PROVE  /\ Added(x) \in SUBSET Entry
           /\ \A e, f \in Added(x) : e = f
           /\ \A e \in Added(x) : /\ Rec(e) = x /\ e.gen \notin superseded
                                  /\ e \in active \cup pending
                                     \/ e = NewEntry(x, next_generation)
           /\ Matched(x) # {} => Added(x) = Matched(x)
<1>0. /\ active \in SUBSET Entry /\ pending \in SUBSET Entry /\ next_generation \in Nat \ {0}
      /\ Distinct(active) /\ Distinct(pending)
      /\ superseded \subseteq Gens(active)
      /\ \A e \in active : e.gen < next_generation
  BY DEF TableInv, TableTypes, SupersededInv, GenerationsInv
<1>1. NewEntry(x, next_generation) \in Entry
  BY <1>0 DEF NewEntry, Entry, Record
<1>2. Rec(NewEntry(x, next_generation)) = x
  BY DEF NewEntry, Rec, Record
<1>3. NewEntry(x, next_generation).gen \notin superseded
  <2>1. next_generation \notin Gens(active)
    BY <1>0 DEF Gens, Entry
  <2> QED BY <1>0, <2>1 DEF NewEntry
<1>4. ASSUME NEW e \in Matched(x), NEW f \in Matched(x) PROVE e = f
  <2>1. Rec(e) = Rec(f) /\ e \in Entry /\ f \in Entry
    BY <1>0, MatchFacts
  <2>2. e.cookie = f.cookie /\ e.tuple = f.tuple
    BY <2>1 DEF Rec
  <2> QED BY <1>0, <2>2, MatchFacts DEF Distinct
<1>5. CASE Matched(x) # {}
  BY <1>0, <1>4, <1>5, MatchFacts DEF Added
<1>6. CASE Matched(x) = {}
  BY <1>1, <1>2, <1>3, <1>6 DEF Added
<1> QED BY <1>5, <1>6


LEMMA ObservePreserves == ASSUME TableInv, NEW x \in Record, Observe(x) PROVE TableInv'
<1> DEFINE rest == pending \ Victim(x)
<1>0. /\ pending' = rest \cup Added(x)
      /\ superseded' = superseded \cup (Gens(Victim(x)) \cap Gens(active))
      /\ next_generation' = IF Added(x) = {NewEntry(x, next_generation)}
                            THEN next_generation + 1 ELSE next_generation
      /\ observed' = observed \cup {x} /\ refused' = (refused \/ Added(x) = {})
      /\ active' = active /\ retired' = retired /\ snapshot' = snapshot
      /\ snapshot \in {"Authoritative", "Partial"}
  BY ObserveFacts
<1>1. /\ active \in SUBSET Entry /\ pending \in SUBSET Entry /\ next_generation \in Nat \ {0}
      /\ Distinct(active) /\ Distinct(pending) /\ Agree
      /\ \A e \in active \cup pending : e.gen < next_generation /\ e.gen \in Nat
  BY DEF TableInv, TableTypes, GenerationsInv, Entry
<1>2. /\ Added(x) \in SUBSET Entry
      /\ \A e, f \in Added(x) : e = f
      /\ \A e \in Added(x) : /\ Rec(e) = x /\ e.gen \notin superseded
                             /\ e \in active \cup pending \/ e = NewEntry(x, next_generation)
      /\ Matched(x) # {} => Added(x) = Matched(x)
  BY AddedFacts
<1>3. /\ Victim(x) \subseteq active \cup pending
      /\ \A e \in Victim(x) : Contradicts(x, e)
      /\ \A e \in rest : Rec(e) # x => \/ e.cookie # x.cookie
                                       \/ x.cookie = NoCookie /\ e.tuple # x.tuple
  BY VictimFacts
<1>4. NewEntry(x, next_generation).gen = next_generation
  BY DEF NewEntry
<1>5. \A e \in Added(x) : e.cookie = x.cookie /\ e.tuple = x.tuple
  BY <1>2, RecIs
<1>6. \A e \in rest : Rec(e) = x => e \in Added(x)
  BY <1>2, MatchFacts
<1> HIDE DEF rest
<1>7. rest \subseteq pending /\ rest \cap Victim(x) = {}
  BY DEF rest
<1>8. TableTypes'
  <2>1. superseded' \in SUBSET Nat
    BY <1>0, <1>1 DEF TableInv, TableTypes, Gens
  <2>2. IsFiniteSet(observed')
    BY <1>0, FS_AddElement DEF TableInv, TableTypes
  <2> QED BY <1>0, <1>1, <1>2, <1>7, <2>1, <2>2 DEF TableInv, TableTypes
<1>9. Distinct(pending')
  <2>1. SUFFICES ASSUME NEW e \in pending', NEW f \in pending', e # f
                 PROVE  /\ e.gen # f.gen
                        /\ e.cookie # f.cookie \/ (e.cookie = NoCookie /\ e.tuple # f.tuple)
    BY DEF Distinct
  <2>2. ASSUME NEW g \in rest, NEW h \in Added(x), g # h
        PROVE  /\ g.gen # h.gen
               /\ g.cookie # h.cookie \/ (h.cookie = NoCookie /\ g.tuple # h.tuple)
    <3>1. g.gen # h.gen
      BY <1>1, <1>2, <1>4, <1>7, <2>2 DEF Distinct, Agree
    <3>2. Rec(g) # x
      BY <1>2, <1>6, <2>2
    <3> QED BY <1>3, <1>5, <3>1, <3>2
  <2>3. CASE e \in rest /\ f \in rest
    BY <1>1, <1>7, <2>1, <2>3 DEF Distinct
  <2>4. CASE e \in Added(x) /\ f \in Added(x)
    BY <1>2, <2>1, <2>4
  <2>5. CASE e \in rest /\ f \in Added(x)
    BY <2>1, <2>2, <2>5
  <2>6. CASE e \in Added(x) /\ f \in rest
    BY <2>1, <2>2, <2>6
  <2> QED BY <1>0, <2>1, <2>3, <2>4, <2>5, <2>6
<1>10. Distinct(active)' /\ Agree'
  BY <1>0, <1>1, <1>2, <1>4, <1>7 DEF Distinct, Agree
<1>11. GenerationsInv'
  <2>1. next_generation <= next_generation' /\ next_generation' \in Nat
    BY <1>0, <1>1
  <2>2. ASSUME NEW e \in pending' PROVE e.gen < next_generation'
    <3>1. CASE e \in active \cup pending
      BY <1>1, <2>1, <3>1
    <3>2. CASE e \in Added(x) /\ e = NewEntry(x, next_generation)
      BY <1>0, <1>1, <1>2, <1>4, <3>2
    <3> QED BY <1>0, <1>2, <1>7, <3>1, <3>2
  <2>3. ASSUME NEW g \in retired
        PROVE  g < next_generation' /\ g \notin Gens(active) \cup Gens(pending')
    <3>1. g < next_generation /\ g \in Nat /\ g \notin Gens(active) \cup Gens(pending)
      BY DEF TableInv, GenerationsInv, TableTypes
    <3>2. ASSUME NEW e \in pending' PROVE g # e.gen
      BY <1>0, <1>1, <1>2, <1>4, <1>7, <3>1 DEF Gens
    <3> QED BY <1>1, <2>1, <3>1, <3>2 DEF Gens
  <2>4. \A e \in active : e.gen < next_generation'
    BY <1>1, <2>1
  <2> QED BY <1>0, <2>2, <2>3, <2>4 DEF GenerationsInv
<1>12. SupersededInv'
  <2>1. superseded' \subseteq Gens(active')
    BY <1>0 DEF TableInv, SupersededInv
  <2>2. ASSUME NEW e \in pending', NEW v \in Victim(x) PROVE e.gen # v.gen
    <3>1. CASE e \in rest
      BY <1>1, <1>3, <1>7, <3>1 DEF Distinct, Agree
    <3>2. CASE e \in Added(x)
      BY <1>1, <1>2, <1>3, <1>4, <3>2 DEF Distinct, Agree, Contradicts
    <3> QED BY <1>0, <3>1, <3>2
  <2>3. superseded' \cap Gens(pending') = {}
    BY <1>0, <1>2, <1>7, <2>2 DEF TableInv, SupersededInv, Gens
  <2>4. ASSUME NEW e \in active, e.gen \in superseded'
        PROVE  \E y \in observed' :
                  /\ y # Rec(e)
                  /\ y.tuple = e.tuple \/ (y.cookie = e.cookie /\ y.cookie # NoCookie)
    <3>1. CASE e.gen \in superseded
      BY <1>0, <3>1 DEF TableInv, SupersededInv
    <3>2. CASE e.gen \in Gens(Victim(x))
      <4>1. e \in Victim(x)
        BY <1>1, <1>3, <3>2 DEF Gens, Distinct, Agree
      <4> QED BY <1>0, <1>3, <4>1 DEF Contradicts
    <3> QED BY <1>0, <2>4, <3>1, <3>2
  <2> QED BY <1>0, <2>1, <2>3, <2>4 DEF SupersededInv
<1>13. MirrorInv'
  <2>1. ASSUME NEW e \in pending' PROVE Rec(e) \in observed'
    BY <1>0, <1>2, <1>7 DEF TableInv, MirrorInv
  <2>2. ASSUME ~refused', Unambiguous(observed')
        PROVE  /\ \A y \in observed' : \E e \in pending' : Rec(e) = y
               /\ \A e \in active : Rec(e) \in observed' => e \in pending'
    <3>1. ~refused /\ Unambiguous(observed) /\ Added(x) # {}
      BY <1>0, <2>2 DEF Unambiguous
    <3>2. /\ \A y \in observed : \E e \in pending : Rec(e) = y
          /\ \A e \in active : Rec(e) \in observed => e \in pending
          /\ \A e \in pending : Rec(e) \in observed
      BY <3>1 DEF TableInv, MirrorInv
    <3>3. \A e \in active \cup pending, y \in observed' :
             Rec(e) \in observed' /\ Contradicts(y, e) => FALSE
      BY <2>2 DEF Unambiguous, Contradicts, Rec
    <3>4. pending \cap Victim(x) = {}
      BY <1>0, <1>3, <3>2, <3>3
    <3>5. pending \subseteq pending'
      BY <1>0, <3>4 DEF rest
    <3>6. \A y \in observed' : \E e \in pending' : Rec(e) = y
      BY <1>0, <1>2, <3>1, <3>2, <3>5
    <3>7. ASSUME NEW e \in active, Rec(e) = x, x \notin observed PROVE e \in pending'
      <4>1. e.gen \notin superseded
        <5>1. SUFFICES ASSUME e.gen \in superseded PROVE FALSE
          OBVIOUS
        <5>2. PICK y \in observed :
                 /\ y # Rec(e)
                 /\ y.tuple = e.tuple \/ (y.cookie = e.cookie /\ y.cookie # NoCookie)
          BY <5>1 DEF TableInv, SupersededInv
        <5> QED BY <1>0, <3>3, <3>7, <5>2 DEF Contradicts
      <4>2. e.gen \notin Gens(Victim(x))
        BY <1>1, <1>3, <3>7 DEF Gens, Distinct, Agree, Contradicts
      <4>3. ~ \E f \in pending : Rec(f) = x
        BY <3>2, <3>7
      <4>4. e \in Matched(x)
        BY <3>7, <4>1, <4>2, <4>3, MatchFacts
      <4> QED BY <1>0, <1>2, <4>4
    <3> QED BY <1>0, <3>2, <3>5, <3>6, <3>7
  <2> QED BY <1>0, <2>1, <2>2 DEF MirrorInv
<1>14. IdleInv'
  BY <1>0 DEF IdleInv
<1> QED BY <1>8, <1>9, <1>10, <1>11, <1>12, <1>13, <1>14 DEF TableInv


(* The candidate is finite: its entries are records of the dump, and no two   *)
(* are the same record.                                                       *)
LEMMA CandidateIsFinite == ASSUME TableInv PROVE IsFiniteSet(pending)
<1> DEFINE f == [e \in pending |-> Rec(e)]
<1>1. f \in [pending -> observed]
  BY DEF TableInv, MirrorInv
<1>2. ASSUME NEW e \in pending, NEW g \in pending, f[e] = f[g] PROVE e = g
  <2>1. e.cookie = g.cookie /\ e.tuple = g.tuple
    BY <1>2 DEF Rec
  <2> QED BY <2>1 DEF TableInv, Distinct
<1>3. f \in Injection(pending, observed)
  <2> HIDE DEF f
  <2> QED BY <1>1, <1>2 DEF Injection, IsInjective
<1>4. IsFiniteSet(observed)
  BY DEF TableInv, TableTypes
<1> QED BY <1>3, <1>4, FS_Injection

(* A committed snapshot makes the candidate the table, and what left the      *)
(* table is not in it.                                                        *)
LEMMA CommitFacts ==
    ASSUME TableInv, Commit, snapshot = "Authoritative"
    PROVE  /\ active' = pending /\ next_generation' = next_generation
           /\ retired' \in SUBSET Nat
           /\ \A g \in retired' : g < next_generation /\ g \notin Gens(pending)
<1> DEFINE gone == Departed(active, pending, superseded)
<1>1. active' = pending
  <2>1. Current(pending, superseded) = pending
    BY DEF Current, Gens, TableInv, SupersededInv
  <2>2. active \ gone \subseteq pending
    BY DEF Departed, Gens, TableInv, Agree
  <2> QED BY <2>1, <2>2 DEF Commit, Committed
<1>2. gone \subseteq active /\ \A e \in gone : e.gen \notin Gens(pending)
  BY DEF Departed, TableInv, SupersededInv
<1>3. \A g \in Gens(gone) : g \in Nat /\ g < next_generation /\ g \notin Gens(pending)
  BY <1>2 DEF Gens, TableInv, GenerationsInv, TableTypes, Entry
<1>4. retired' = retired \cup Gens(gone) /\ next_generation' = next_generation
  BY DEF Commit
<1>5. \A g \in retired : g \in Nat /\ g < next_generation /\ g \notin Gens(pending)
  BY DEF TableInv, GenerationsInv, TableTypes
<1> QED BY <1>1, <1>3, <1>4, <1>5


LEMMA CommitPreserves == ASSUME TableInv, Commit PROVE TableInv'
<1>0. /\ snapshot' = "none" /\ pending' = {} /\ superseded' = {} /\ observed' = {}
      /\ refused' = FALSE
  BY DEF Commit, Discard
<1>1. Distinct(pending') /\ Agree' /\ IdleInv'
  BY <1>0 DEF Distinct, Agree, IdleInv
<1>2. SupersededInv' /\ MirrorInv'
  BY <1>0 DEF SupersededInv, MirrorInv, Gens
<1>3. IsFiniteSet(observed')
  BY <1>0, FS_EmptySet
<1>4. CASE snapshot = "Authoritative"
  <2>1. /\ active' = pending /\ next_generation' = next_generation /\ retired' \in SUBSET Nat
        /\ \A g \in retired' : g < next_generation /\ g \notin Gens(pending)
    BY <1>4, CommitFacts
  <2>2. TableTypes'
    BY <1>0, <1>3, <2>1, CandidateIsFinite DEF TableInv, TableTypes
  <2>3. Distinct(active')
    BY <2>1 DEF TableInv
  <2>4. GenerationsInv'
    BY <1>0, <2>1 DEF TableInv, GenerationsInv, Gens
  <2> QED BY <1>1, <1>2, <2>2, <2>3, <2>4 DEF TableInv, Distinct
<1>5. CASE snapshot # "Authoritative"
  <2>1. active' = active /\ retired' = retired /\ next_generation' = next_generation
    BY <1>5 DEF Commit, tables
  <2>2. TableTypes'
    BY <1>0, <1>3, <2>1 DEF TableInv, TableTypes
  <2>3. GenerationsInv'
    BY <1>0, <2>1 DEF TableInv, GenerationsInv, Gens
  <2> QED BY <1>1, <1>2, <2>1, <2>2, <2>3 DEF TableInv, Distinct
<1> QED BY <1>4, <1>5

LEMMA AbortPreserves == ASSUME TableInv, Abort PROVE TableInv'
<1>0. /\ snapshot' = "none" /\ pending' = {} /\ superseded' = {} /\ observed' = {}
      /\ refused' = FALSE /\ active' = active /\ retired' = retired
      /\ next_generation' = next_generation
  BY DEF Abort, Discard, tables
<1>1. Distinct(active)' /\ Distinct(pending)' /\ Agree' /\ IdleInv'
  BY <1>0 DEF TableInv, Distinct, Agree, IdleInv
<1>2. SupersededInv' /\ MirrorInv' /\ GenerationsInv'
  BY <1>0 DEF TableInv, SupersededInv, MirrorInv, GenerationsInv, Gens
<1>3. TableTypes'
  BY <1>0, FS_EmptySet DEF TableInv, TableTypes
<1> QED BY <1>1, <1>2, <1>3 DEF TableInv

LEMMA BeginPreserves ==
    ASSUME TableInv, NEW d \in {"Authoritative", "Partial", "Failed"}, Begin(d) PROVE TableInv'
  BY DEF Begin, tables, TableInv, TableTypes, Distinct, Agree, GenerationsInv, SupersededInv,
         MirrorInv, IdleInv

LEMMA ClosePreserves == ASSUME TableInv, NEW e \in active, Close(e) PROVE TableInv'
<1>0. /\ snapshot = "none" /\ pending = {} /\ superseded = {} /\ observed = {}
      /\ active' = active \ {e} /\ next_generation' = next_generation /\ snapshot' = snapshot
      /\ pending' = pending /\ superseded' = superseded /\ observed' = observed
      /\ refused' = refused /\ retired' = retired \cup {e.gen}
  BY DEF Close, TableInv, IdleInv
<1>1. e.gen \in Nat /\ e.gen < next_generation /\ e.gen \notin Gens(active')
  BY <1>0 DEF TableInv, TableTypes, Entry, GenerationsInv, Distinct, Gens
<1>2. Gens(active') \subseteq Gens(active)
  BY <1>0 DEF Gens
<1>3. GenerationsInv'
  <2>1. \A f \in active' : f.gen < next_generation
    BY <1>0 DEF TableInv, GenerationsInv
  <2>2. \A g \in retired' : g < next_generation /\ g \notin Gens(active')
    BY <1>0, <1>1, <1>2 DEF TableInv, GenerationsInv
  <2> QED BY <1>0, <2>1, <2>2 DEF GenerationsInv, Gens
<1>4. TableTypes'
  <2>1. IsFiniteSet(active')
    BY <1>0, FS_RemoveElement DEF TableInv, TableTypes
  <2> QED BY <1>0, <1>1, <2>1 DEF TableInv, TableTypes
<1>5. Distinct(active)' /\ Distinct(pending)' /\ Agree' /\ IdleInv'
  BY <1>0 DEF TableInv, Distinct, Agree, IdleInv
<1>6. SupersededInv' /\ MirrorInv'
  BY <1>0 DEF TableInv, SupersededInv, MirrorInv, Gens
<1> QED BY <1>3, <1>4, <1>5, <1>6 DEF TableInv

LEMMA TableInvariant == Spec => []TableInv
<1>1. Init => TableInv
  <2> SUFFICES ASSUME Init PROVE TableInv
    OBVIOUS
  <2>1. IsFiniteSet(active) /\ IsFiniteSet(observed)
    BY FS_EmptySet DEF Init
  <2>2. next_generation \in Nat \ {0}
    BY DEF Init
  <2>3. refused \in BOOLEAN /\ ~refused
    BY Zenon DEF Init
  <2>4. /\ active = {} /\ retired = {} /\ snapshot = "none" /\ pending = {}
        /\ superseded = {} /\ observed = {}
    BY DEF Init
  <2>5. TableTypes
    BY <2>1, <2>2, <2>3, <2>4 DEF TableTypes
  <2> QED BY <2>3, <2>4, <2>5 DEF TableInv, Distinct, Agree, GenerationsInv,
                                            SupersededInv, MirrorInv, IdleInv, Gens
<1>2. TableInv /\ [Next]_vars => TableInv'
  <2> SUFFICES ASSUME TableInv, [Next]_vars PROVE TableInv'
    OBVIOUS
  <2>1. CASE \E d \in {"Authoritative", "Partial", "Failed"} : Begin(d)
    BY <2>1, BeginPreserves
  <2>2. CASE \E x \in Record : Observe(x)
    BY <2>2, ObservePreserves
  <2>3. CASE Commit
    BY <2>3, CommitPreserves
  <2>4. CASE Abort
    BY <2>4, AbortPreserves
  <2>5. CASE \E e \in active : Close(e)
    BY <2>5, ClosePreserves
  <2>6. CASE UNCHANGED vars
    BY <2>6 DEF vars, TableInv, TableTypes, Distinct, Agree, GenerationsInv, SupersededInv,
                MirrorInv, IdleInv
  <2> QED BY <2>1, <2>2, <2>3, <2>4, <2>5, <2>6 DEF Next
<1> QED BY <1>1, <1>2, PTL DEF Spec

(* Only a committed snapshot adds to the table.                               *)
LEMMA TableGrowsByCommit ==
    ASSUME TableInv, [Next]_vars, active' # active
    PROVE  \/ Commit /\ snapshot = "Authoritative"
           \/ active' \subseteq active /\ snapshot = "none"
<1>1. CASE \E d \in {"Authoritative", "Partial", "Failed"} : Begin(d)
  BY <1>1 DEF Begin, tables
<1>2. CASE \E x \in Record : Observe(x)
  BY <1>2 DEF Observe
<1>3. CASE Commit
  BY <1>3 DEF Commit, tables
<1>4. CASE Abort
  BY <1>4 DEF Abort, tables
<1>5. CASE \E e \in active : Close(e)
  BY <1>5 DEF Close
<1>6. CASE UNCHANGED vars
  BY <1>6 DEF vars
<1> QED BY <1>1, <1>2, <1>3, <1>4, <1>5, <1>6 DEF Next

(* The index maps of the table and of the candidate stay functions, and what  *)
(* commitSnapshot() makes active never left the table before, for every       *)
(* sequence of snapshots, closes and aborts.                                  *)
THEOREM IdentitiesStayUnique == Spec => IdentitiesAreUnique
<1> DEFINE Fresh == \A e \in active' \ active :
                       e.gen < next_generation /\ e.gen \notin retired'
<1>1. TableInv => UniqueIndex
  BY DEF TableInv, Distinct, UniqueIndex
<1>2. TableInv /\ [Next]_vars => Fresh
  <2> SUFFICES ASSUME TableInv, [Next]_vars, NEW e \in active' \ active
               PROVE  e.gen < next_generation /\ e.gen \notin retired'
    OBVIOUS
  <2>1. Commit /\ snapshot = "Authoritative"
    BY TableGrowsByCommit
  <2>2. active' = pending /\ \A g \in retired' : g \notin Gens(pending)
    BY <2>1, CommitFacts
  <2>3. e.gen < next_generation /\ e.gen \in Gens(pending)
    BY <2>2 DEF TableInv, GenerationsInv, Gens
  <2> QED BY <2>2, <2>3
<1>3. TableInv /\ TableInv' /\ [Next]_vars => [UniqueIndex' /\ Fresh]_vars
  <2>1. TableInv' => UniqueIndex'
    BY DEF TableInv, Distinct, UniqueIndex
  <2> QED BY <1>2, <2>1
<1> QED BY <1>3, TableInvariant, PTL DEF Spec, IdentitiesAreUnique

(* commitSnapshot() of an authoritative dump in which no record was rejected  *)
(* makes the table the dump: sockets that are still there keep their identity *)
(* and nothing else stays.                                                    *)
THEOREM CommitsMirrorDumps == Spec => CommitMirrorsDump
<1> DEFINE Mirrors ==
        active' # active /\ snapshot = "Authoritative" /\ ~refused /\ Unambiguous(observed) =>
          /\ {[cookie |-> e.cookie, tuple |-> e.tuple] : e \in active'} = observed
          /\ \A e \in active :
                [cookie |-> e.cookie, tuple |-> e.tuple] \in observed => e \in active'
<1>1. TableInv /\ [Next]_vars => Mirrors
  <2> SUFFICES ASSUME TableInv, [Next]_vars, active' # active, snapshot = "Authoritative",
                      ~refused, Unambiguous(observed)
               PROVE  /\ {Rec(e) : e \in active'} = observed
                      /\ \A e \in active : Rec(e) \in observed => e \in active'
    BY DEF Rec
  <2>1. active' = pending
    BY TableGrowsByCommit, CommitFacts
  <2>2. /\ \A e \in pending : Rec(e) \in observed
        /\ \A x \in observed : \E e \in pending : Rec(e) = x
        /\ \A e \in active : Rec(e) \in observed => e \in pending
    BY DEF TableInv, MirrorInv
  <2> QED BY <2>1, <2>2
<1>2. TableInv /\ [Next]_vars => [Mirrors]_vars
  BY <1>1
<1> QED BY <1>2, TableInvariant, PTL DEF Spec, CommitMirrorsDump

(* observe() keeps the table and the candidate together within the configured *)
(* maximum, so that no commitSnapshot() exceeds it, for every sequence of     *)
(* snapshots, closes and aborts.                                              *)
THEOREM TableStaysBounded == Spec => []TableIsBounded
<1>1. Init => TableIsBounded
  BY FS_EmptySet, TableAssumption DEF Init, TableIsBounded
<1>2. TableInv /\ TableIsBounded /\ [Next]_vars => TableIsBounded'
  <2> SUFFICES ASSUME TableInv, TableIsBounded, [Next]_vars PROVE TableIsBounded'
    OBVIOUS
  <2> DEFINE both == active \cup pending
  <2>1. IsFiniteSet(active) /\ IsFiniteSet(pending)
    BY CandidateIsFinite DEF TableInv, TableTypes
  <2>2. IsFiniteSet(both) /\ Cardinality(both) \in Nat /\ Cardinality(both) <= MaxActive
    BY <2>1, FS_Union, FS_CardinalityType DEF TableIsBounded
  <2>3. ASSUME (active \cup pending)' \subseteq both PROVE TableIsBounded'
    <3>1. /\ Cardinality((active \cup pending)') \in Nat
          /\ Cardinality((active \cup pending)') <= Cardinality(both)
      BY <2>2, <2>3, FS_Subset, FS_CardinalityType
    <3> QED BY <2>2, <3>1, TableAssumption DEF TableIsBounded
  <2>4. ASSUME NEW x \in Record, Observe(x) PROVE TableIsBounded'
    <3> DEFINE rest == pending \ Victim(x)
    <3>1. pending' = rest \cup Added(x) /\ active' = active
      BY <2>4, ObserveFacts
    <3>2. CASE Matched(x) # {} \/ ~Room(active, rest)
      <4>1. Added(x) \subseteq both
        BY <3>2, MatchFacts DEF Added
      <4> QED BY <2>3, <3>1, <4>1
    <3>3. CASE Matched(x) = {} /\ Room(active, rest)
      <4> DEFINE n == NewEntry(x, next_generation)
      <4>1. Added(x) = {n} /\ Cardinality(active) + Cardinality(rest) < MaxActive
        BY <3>3 DEF Added, Room
      <4>2. IsFiniteSet(rest)
        BY <2>1, FS_Subset
      <4> HIDE DEF rest, n
      <4>3. /\ Cardinality(active) \in Nat /\ Cardinality(rest) \in Nat
            /\ Cardinality(active \cap rest) \in Nat
        BY <2>1, <4>2, FS_Intersection, FS_CardinalityType
      <4>4. /\ IsFiniteSet(active \cup rest)
            /\ Cardinality(active \cup rest)
                 = Cardinality(active) + Cardinality(rest) - Cardinality(active \cap rest)
        BY <2>1, <4>2, FS_Union
      <4>5. \/ Cardinality((active \cup rest) \cup {n}) = Cardinality(active \cup rest)
            \/ Cardinality((active \cup rest) \cup {n}) = Cardinality(active \cup rest) + 1
        BY <4>4, FS_AddElement
      <4>6. (active \cup pending)' = (active \cup rest) \cup {n}
        BY <3>1, <4>1
      <4>7. Cardinality((active \cup rest) \cup {n}) <= MaxActive
        BY <4>1, <4>3, <4>4, <4>5, TableAssumption
      <4> QED BY <4>6, <4>7 DEF TableIsBounded
    <3> QED BY <3>2, <3>3
  <2>5. CASE Commit
    <3>1. pending' = {} /\ (active' = active \/ active' = pending)
      BY <2>5, CommitFacts DEF Commit, Discard, tables
    <3> QED BY <2>3, <3>1
  <2>6. CASE Abort \/ (\E d \in {"Authoritative", "Partial", "Failed"} : Begin(d))
             \/ (\E e \in active : Close(e)) \/ UNCHANGED vars
    <3>1. active' \subseteq active /\ pending' \subseteq pending
      BY <2>6 DEF Abort, Begin, Close, Discard, tables, vars
    <3> QED BY <2>3, <3>1
  <2> QED BY <2>4, <2>5, <2>6 DEF Next
<1> QED BY <1>1, <1>2, TableInvariant, PTL DEF Spec

=============================================================================
