---------------------------- MODULE SocketLifecycle ----------------------------
(***************************************************************************)
(* SocketLifecycleTable of server/src/socket_tracker.cpp: the table that   *)
(* gives every TCP socket seen in a dump an identity.  A snapshot is begun,*)
(* observes one record after the other into a candidate, and is committed  *)
(* or aborted.  A record is resolved to the identity of the same cookie and*)
(* tuple, or of the same tuple when the kernel gives no cookie; whatever   *)
(* contradicts it is superseded.                                           *)
(*                                                                         *)
(* An entry is the generation, which alone tells identities apart, with    *)
(* the cookie and the tuple.  pending_seen_ holds the keys of pending_, and*)
(* the four index maps are read off the tables: UniqueIndex is what makes  *)
(* that right.                                                             *)
(***************************************************************************)
EXTENDS Integers, Sequences, FiniteSets

CONSTANTS
    Tuples, Cookies,
    NoCookie,             \* stands for an absent cookie, below every other one
    MaxActive, MaxClosed, \* SocketLifecycleConfig
    MaxGeneration         \* bound: identities given out

ASSUME TableAssumption ==
    /\ NoCookie \in Int /\ Cookies \subseteq Int /\ \A c \in Cookies : NoCookie < c
    /\ MaxActive \in Nat \ {0} /\ MaxClosed \in Nat \ {0} /\ MaxGeneration \in Nat

Record == [cookie : Cookies \cup {NoCookie}, tuple : Tuples]
Entry == [gen : Nat \ {0}, cookie : Cookies \cup {NoCookie}, tuple : Tuples]
Gens(S) == {e.gen : e \in S}

VARIABLES
    active, closed, next_generation,
    snapshot,             \* "none", or the disposition of the running snapshot
    pending, superseded,  \* the candidate
    observed, refused,    \* history: the records of the running snapshot, was one rejected
    retired               \* history: the generations that have left the table

tables == <<active, closed, next_generation, retired>>
vars == <<active, closed, next_generation, retired, snapshot, pending, superseded, observed,
          refused>>

-----------------------------------------------------------------------------
(* observe() as a function of the tables. *)

SameCookie(S, x) == {e \in S : e.cookie = x.cookie}
SameTuple(S, x) == {e \in S : e.tuple = x.tuple}
Weak(S) == {e \in S : e.cookie = NoCookie}
Current(S, sup) == {e \in S : e.gen \notin sup}

(* supersede() of the entries of S, at most one. *)
Unlisted(pend, S) == pend \ S

Superseding(act, sup, S) == sup \cup (Gens(S) \cap Gens(act))

(* The first entry in the order of the map. *)
First(S) == IF S = {} THEN {} ELSE {CHOOSE e \in S : \A f \in S : e.cookie <= f.cookie}

(* A record with a cookie: the entry of its cookie, unless the tuple differs. *)
CookieMatch(act, pend, sup, x) ==
    LET inPending == SameCookie(pend, x)
        sup1 == Superseding(act, sup, inPending \ SameTuple(inPending, x))
        inActive == Current(SameCookie(act, x), sup1)
    IN  IF SameTuple(inPending, x) # {} THEN SameTuple(inPending, x) ELSE SameTuple(inActive, x)

CookieVictims(act, pend, sup, x) ==
    LET inPending == SameCookie(pend, x)
        wrong == inPending \ SameTuple(inPending, x)
        sup1 == Superseding(act, sup, wrong)
        inActive == Current(SameCookie(act, x), sup1)
        weakPending == SameTuple(Weak(pend), x)
        weakActive == SameTuple(Weak(Current(act, sup1)), x)
    IN  IF SameTuple(inPending, x) # {} THEN {}
        ELSE IF SameTuple(inActive, x) # {} THEN wrong
        ELSE wrong \cup inActive \cup (IF weakPending # {} THEN weakPending ELSE weakActive)

(* A record without a cookie: the weak entry of its tuple; failing that, the  *)
(* entries with a cookie that had this tuple are reset.                       *)
WeakMatch(act, pend, sup, x) ==
    IF SameTuple(Weak(pend), x) # {} THEN SameTuple(Weak(pend), x)
    ELSE SameTuple(Weak(Current(act, sup)), x)

WeakVictims(act, pend, sup, x) ==
    LET inPending == First(SameTuple(pend, x) \ Weak(pend))
        sup1 == Superseding(act, sup, inPending)
    IN  inPending \cup First(SameTuple(Current(act, sup1), x) \ Weak(act))

\* Mutant: every record is a new socket.
MatchNothing(act, pend, sup, x) == {}

Match(act, pend, sup, x) ==
    IF x.cookie # NoCookie THEN CookieMatch(act, pend, sup, x) ELSE WeakMatch(act, pend, sup, x)

Victims(act, pend, sup, x) ==
    IF x.cookie # NoCookie THEN CookieVictims(act, pend, sup, x)
    ELSE IF WeakMatch(act, pend, sup, x) # {} THEN {}
    ELSE WeakVictims(act, pend, sup, x)

\* Mutant: the new sockets of the running snapshot are not counted.
RoomInTable(act, pend) == Cardinality(act) < MaxActive

Room(act, pend) == Cardinality(act) + Cardinality(pend) < MaxActive

Accepted(act, pend, sup, x) ==
    \/ Match(act, pend, sup, x) # {}
    \/ Room(act, Unlisted(pend, Victims(act, pend, sup, x)))

NewEntry(x, gen) == [gen |-> gen, cookie |-> x.cookie, tuple |-> x.tuple]

PendingAfter(act, pend, sup, x, gen) ==
    LET rest == Unlisted(pend, Victims(act, pend, sup, x))
        match == Match(act, pend, sup, x)
    IN  IF match # {} THEN rest \cup match
        ELSE IF Room(act, rest) THEN rest \cup {NewEntry(x, gen)} ELSE rest

SupersededAfter(act, pend, sup, x) == Superseding(act, sup, Victims(act, pend, sup, x))

\* Mutant: the generation is read and not advanced.
GenerationKept(act, pend, sup, x, gen) == gen

GenerationAfter(act, pend, sup, x, gen) ==
    IF Match(act, pend, sup, x) = {} /\ Accepted(act, pend, sup, x) THEN gen + 1 ELSE gen

-----------------------------------------------------------------------------
(* commitSnapshot() as a function of the tables. *)

Departed(act, pend, sup) == {e \in act : e.gen \notin Gens(pend) \/ e.gen \in sup}

Committed(act, pend, sup) == (act \ Departed(act, pend, sup)) \cup Current(pend, sup)

\* The order of SocketId.
Before(e, f) == e.cookie < f.cookie \/ (e.cookie = f.cookie /\ e.gen < f.gen)

LastOf(q, n) == IF Len(q) <= n THEN q ELSE SubSeq(q, Len(q) - n + 1, Len(q))

-----------------------------------------------------------------------------
Init ==
    /\ active = {} /\ closed = <<>> /\ next_generation = 1
    /\ snapshot = "none" /\ pending = {} /\ superseded = {} /\ observed = {} /\ refused = FALSE
    /\ retired = {}

Begin(disposition) ==
    /\ snapshot = "none" /\ snapshot' = disposition
    /\ UNCHANGED <<tables, pending, superseded, observed, refused>>

Observe(x) ==
    /\ snapshot \in {"Authoritative", "Partial"}
    /\ pending' = PendingAfter(active, pending, superseded, x, next_generation)
    /\ superseded' = SupersededAfter(active, pending, superseded, x)
    /\ next_generation' = GenerationAfter(active, pending, superseded, x, next_generation)
    /\ next_generation' <= MaxGeneration + 1
    /\ observed' = observed \cup {x}
    /\ refused' = (refused \/ ~Accepted(active, pending, superseded, x))
    /\ UNCHANGED <<active, closed, retired, snapshot>>

Discard ==
    /\ snapshot' = "none" /\ pending' = {} /\ superseded' = {}
    /\ observed' = {} /\ refused' = FALSE

(* The closed entries are remembered in the order of the map. *)
Commit ==
    /\ snapshot # "none" /\ Discard
    /\ IF snapshot # "Authoritative" THEN UNCHANGED tables
       ELSE LET gone == Departed(active, pending, superseded)
            IN  /\ active' = Committed(active, pending, superseded)
                /\ \E order \in [1 .. Cardinality(gone) -> gone] :
                      /\ \A i, j \in DOMAIN order : i < j => Before(order[i], order[j])
                      /\ closed' = LastOf(closed \o [i \in DOMAIN order |-> order[i].gen], MaxClosed)
                /\ retired' = retired \cup Gens(gone)
                /\ UNCHANGED next_generation

Abort == snapshot # "none" /\ Discard /\ UNCHANGED tables

Close(e) ==
    /\ snapshot = "none" /\ e \in active
    /\ active' = active \ {e} /\ closed' = LastOf(Append(closed, e.gen), MaxClosed)
    /\ retired' = retired \cup {e.gen}
    /\ UNCHANGED <<next_generation, snapshot, pending, superseded, observed, refused>>

Next ==
    \/ \E d \in {"Authoritative", "Partial", "Failed"} : Begin(d)
    \/ \E x \in Record : Observe(x)
    \/ Commit \/ Abort
    \/ \E e \in active : Close(e)

Spec == Init /\ [][Next]_vars

-----------------------------------------------------------------------------
(* Both index maps are functions: a cookie has one current entry, and a tuple *)
(* has one current entry without a cookie, in the table and in the candidate. *)
UniqueIndex ==
    \A S \in {active, pending} :
        \A e, f \in S : \/ e.gen = f.gen /\ e = f
                        \/ e.gen # f.gen /\ e.cookie # f.cookie
                        \/ e.gen # f.gen /\ e.cookie = NoCookie /\ e.tuple # f.tuple

(* An identity is one socket, at any time and over time: an entry that left   *)
(* the table never comes back, however long ago that was, and what becomes    *)
(* active has a generation that was given out, even if the tuple or the       *)
(* cookie was used before, and even if an earlier snapshot with it was        *)
(* aborted.                                                                   *)
IdentitiesAreUnique ==
    [][/\ UniqueIndex'
       /\ \A e \in active' \ active : e.gen < next_generation /\ e.gen \notin retired']_vars

(* The records of a dump that lists no tuple and no known cookie twice. *)
Unambiguous(S) ==
    \A x, y \in S : x # y => x.tuple # y.tuple /\ (x.cookie # y.cookie \/ x.cookie = NoCookie)

(* Unless a record was rejected, a committed snapshot mirrors the dump: the   *)
(* active sockets are the observed records, those that were active before     *)
(* keep their generation, and all others are closed.                          *)
CommitMirrorsDump ==
    [][active' # active /\ snapshot = "Authoritative" /\ ~refused /\ Unambiguous(observed) =>
          /\ {[cookie |-> e.cookie, tuple |-> e.tuple] : e \in active'} = observed
          /\ \A e \in active :
                [cookie |-> e.cookie, tuple |-> e.tuple] \in observed => e \in active']_vars

(* The table and the candidate of a running snapshot never hold more than the *)
(* configured maximum of identities together, although known sockets pass     *)
(* observe() without the test and superseded ones leave the candidate but not *)
(* the table: no sequence of snapshots, closes and aborts lets a commit       *)
(* exceed it.                                                                 *)
TableIsBounded == Cardinality(active \cup pending) <= MaxActive
=============================================================================
