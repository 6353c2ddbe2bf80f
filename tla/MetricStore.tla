------------------------------ MODULE MetricStore ------------------------------
(***************************************************************************)
(* MetricStore (server/src/metric_store.cpp): bounded series of samples,   *)
(* with four ways for a sample to leave: too old, its series over its      *)
(* limit, its series evicted, the store over its limit.  A sample is the   *)
(* time it was taken, its number and its validity; each operation holds    *)
(* mutex_ and is one step.  Producers deliver through the bus, so that a   *)
(* sample may arrive after younger ones of other series.                   *)
(***************************************************************************)
EXTENDS Integers, SequencesExt

CONSTANTS
    Keys,                      \* in the order of MetricKey, a sequence
    MaxSeries, MaxSamples, MaxTotal, MaxResults,
    MaxAge, StaleAfter,        \* max_retained_age and stale_after, in ticks
    MaxTime, MaxInserts        \* bounds: of the clock and of the samples delivered

ASSUME StoreAssumption ==
    /\ MaxSeries \in Nat \ {0} /\ MaxSamples \in Nat \ {0} /\ MaxTotal \in Nat \ {0}
    /\ MaxResults \in Nat \ {0} /\ MaxAge \in Nat /\ StaleAfter \in Nat

VARIABLES
    now,        \* monotonicNow()
    series,     \* series_: from keys to samples and last_updated
    sampleCount,\* sample_count_
    counters,   \* counters_
    accepted    \* history: how many inserts returned true

storeVars == <<now, series, sampleCount, counters, accepted>>

StoreInit ==
    /\ now = 0
    /\ series = <<>>
    /\ sampleCount = 0
    /\ counters = [evictions |-> 0, seriesEvictions |-> 0, rejected |-> 0]
    /\ accepted = 0

(* The store while an operation runs. *)
Store == [series |-> series, count |-> sampleCount, counters |-> counters]

Drop(store, key) ==
    [store EXCEPT !.series = [k \in DOMAIN store.series \ {key} |-> store.series[k]]]

(* The first n samples of a series leave; an empty series is erased. *)
PopFront(store, key, n) ==
    LET rest == SubSeq(store.series[key].samples, n + 1, Len(store.series[key].samples))
        smaller == [store EXCEPT !.count = @ - n, !.counters.evictions = @ + n]
    IN  IF rest = <<>> THEN Drop(smaller, key)
        ELSE [smaller EXCEPT !.series[key].samples = rest]

\* Mutant: the samples of an evicted series stay in the count.
DropUncounted(store, key) ==
    [Drop(store, key) EXCEPT !.counters.evictions = @ + Len(store.series[key].samples),
                             !.counters.seriesEvictions = @ + 1]

EvictSeries(store, key) ==
    [PopFront(store, key, Len(store.series[key].samples))
        EXCEPT !.counters.seriesEvictions = @ + 1]

Present(store) == LET in(key) == key \in DOMAIN store.series IN SelectSeq(Keys, in)

(* pruneExpiredLocked(), with the time of the sample that arrives. *)
pruneExpired(store, at) ==
    LET prune(s, key) ==
            LET samples == s.series[key].samples
                old == SelectInSeq(samples, LAMBDA x : at - x.at <= MaxAge)
            IN  PopFront(s, key, IF old = 0 THEN Len(samples) ELSE old - 1)
    IN  FoldLeft(prune, store, Present(store))

(* The first key, in the order of the map, with the smallest value. *)
FirstWithLeast(store, value) ==
    LET keys == Present(store)
        least == CHOOSE i \in DOMAIN keys :
                    /\ \A j \in DOMAIN keys : value[keys[i]] <= value[keys[j]]
                    /\ \A j \in 1..(i - 1) : value[keys[i]] < value[keys[j]]
    IN  keys[least]

evictOldestSeries(store) ==
    LET updated == [key \in DOMAIN store.series |-> store.series[key].updated]
    IN  EvictSeries(store, FirstWithLeast(store, updated))

evictOldestSample(store) ==
    LET first == [key \in DOMAIN store.series |-> store.series[key].samples[1].at]
    IN  PopFront(store, FirstWithLeast(store, first), 1)

RoomFor(store, key) ==
    IF key \in DOMAIN store.series THEN store
    ELSE LET roomy == IF Cardinality(DOMAIN store.series) = MaxSeries
                      THEN evictOldestSeries(store) ELSE store
         IN  [roomy EXCEPT !.series = [k \in DOMAIN @ \cup {key} |->
                IF k = key THEN [samples |-> <<>>, updated |-> 0] ELSE @[k]]]

OutOfOrder(store, key, at) ==
    LET samples == store.series[key].samples IN samples # <<>> /\ at < Last(samples).at

(* insert() of a well-formed sample: the store after it. *)
Push(store, key, sample) ==
    LET pushed == [store EXCEPT !.series[key].samples = Append(@, sample),
                                !.series[key].updated = sample.at, !.count = @ + 1]
        excess == Len(pushed.series[key].samples) - MaxSamples
        fitting == IF excess > 0 THEN PopFront(pushed, key, excess) ELSE pushed
    IN  IF fitting.count > MaxTotal THEN evictOldestSample(fitting) ELSE fitting

Inserted(store, key, sample) ==
    LET ready == RoomFor(pruneExpired(store, sample.at), key)
    IN  IF OutOfOrder(ready, key, sample.at)
        THEN [ready EXCEPT !.counters.rejected = @ + 1]
        ELSE Push(ready, key, sample)

Delivered == accepted + counters.rejected

insert(key, at, validity) ==
    LET after == Inserted(Store, key, [at |-> at, validity |-> validity])
    IN  /\ series' = after.series /\ sampleCount' = after.count /\ counters' = after.counters
        /\ accepted' = accepted + (IF after.counters.rejected = counters.rejected THEN 1 ELSE 0)
        /\ UNCHANGED now

(* A sample without identity, or whose value does not go with its validity. *)
Malformed ==
    /\ Delivered < MaxInserts
    /\ counters' = [counters EXCEPT !.rejected = @ + 1]
    /\ UNCHANGED <<now, series, sampleCount, accepted>>

Insert ==
    /\ Delivered < MaxInserts
    /\ \E key \in Range(Keys), at \in 0..now : insert(key, at, "Valid")

Elapse == now < MaxTime /\ now' = now + 1 /\ UNCHANGED <<series, sampleCount, counters, accepted>>

StoreNext == Insert \/ Malformed \/ Elapse

-----------------------------------------------------------------------------
(* The queries. *)
Retained(sample) == now - sample.at <= MaxAge

withStaleness(sample) ==
    IF sample.validity \in {"Valid", "Partial"} /\ now - sample.at > StaleAfter
    THEN [sample EXCEPT !.validity = "Stale"] ELSE sample

NoSample == [at |-> 0, validity |-> "None"]

latest(key) ==
    IF key \notin DOMAIN series \/ ~Retained(Last(series[key].samples)) THEN NoSample
    ELSE withStaleness(Last(series[key].samples))

window(key, begin, end, limit) ==
    LET inside(x) == begin <= x.at /\ x.at <= end /\ Retained(x)
        bound == IF limit = 0 \/ limit > MaxResults THEN MaxResults ELSE limit
        found == IF key \in DOMAIN series /\ begin <= end
                 THEN SelectSeq(series[key].samples, inside) ELSE <<>>
        shown == SubSeq(found, 1, IF Len(found) < bound THEN Len(found) ELSE bound)
    IN  [i \in DOMAIN shown |-> withStaleness(shown[i])]

storeSnapshot(key) ==
    IF key \in DOMAIN series
    THEN LET kept == SelectSeq(series[key].samples, Retained)
         IN  [i \in DOMAIN kept |-> withStaleness(kept[i])]
    ELSE <<>>

-----------------------------------------------------------------------------
Held(key) == Len(series[key].samples)

(* Whichever of the four ways samples leave, the counters tell what          *)
(* happened: every sample that insert() accepted is in a series or was       *)
(* counted as an eviction, sample_count_ is the number of those held, no     *)
(* limit is exceeded and no series is left empty.                            *)
NothingUnaccounted ==
    LET held == FoldLeft(+, 0, [i \in DOMAIN Present(Store) |-> Held(Present(Store)[i])])
    IN  /\ sampleCount = held /\ accepted = held + counters.evictions
        /\ held <= MaxTotal /\ Cardinality(DOMAIN series) <= MaxSeries
        /\ \A key \in DOMAIN series : Held(key) \in 1..MaxSamples

(* The queries agree, whatever order the samples came in: a series is in the *)
(* order of time, latest() is the last sample of the snapshot, and a window  *)
(* over all time begins as the snapshot does.                                *)
QueriesAgree ==
    \A key \in Range(Keys) :
        LET shown == storeSnapshot(key)
            all == window(key, 0, now, 0)
        IN  /\ \A i \in 2..Len(shown) : shown[i - 1].at <= shown[i].at
            /\ latest(key) = IF shown = <<>> THEN NoSample ELSE Last(shown)
            /\ IsPrefix(all, shown)

(* The store accounts for every sample, and its queries show the same ones.  *)
StoreIsConsistent == NothingUnaccounted /\ QueriesAgree
=============================================================================
