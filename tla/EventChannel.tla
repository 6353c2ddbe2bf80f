----------------------------- MODULE EventChannel -----------------------------
(***************************************************************************)
(* What the event bus promises its publishers and its dispatcher, without  *)
(* threads, subscribers or counters: a bounded first-in-first-out channel  *)
(* in which a replaceable event may give way to a newer one with its key,  *)
(* that takes nothing new once closed and finishes only when empty.        *)
(***************************************************************************)
EXTENDS Integers, Sequences

CONSTANTS Capacity, Keys, Replaceable, SequenceModulus

VARIABLES pending, taken, closed, finished
channelVars == <<pending, taken, closed, finished>>

ChannelInit == pending = <<>> /\ taken = <<>> /\ closed = FALSE /\ finished = FALSE

(* A sequence number above every one the channel has seen. *)
Fresh(n) ==
    /\ \A i \in DOMAIN taken : taken[i] < n
    /\ \A i \in DOMAIN pending : pending[i].seq < n

Offer(k, n) ==
    /\ ~closed /\ Fresh(n) /\ Len(pending) < Capacity
    /\ pending' = Append(pending, [key |-> k, seq |-> n])
    /\ UNCHANGED <<taken, closed, finished>>

Erase(q, i) == SubSeq(q, 1, i - 1) \o SubSeq(q, i + 1, Len(q))

Supersede(k, n, i) ==
    /\ ~closed /\ Fresh(n) /\ Len(pending) = Capacity
    /\ k \in Replaceable /\ pending[i].key = k
    /\ pending' = Append(Erase(pending, i), [key |-> k, seq |-> n])
    /\ UNCHANGED <<taken, closed, finished>>

Take ==
    /\ pending # <<>>
    /\ taken' = Append(taken, Head(pending).seq)
    /\ pending' = Tail(pending)
    /\ UNCHANGED <<closed, finished>>

Close ==
    /\ ~closed
    /\ closed' = TRUE
    /\ UNCHANGED <<pending, taken, finished>>

Finish ==
    /\ closed /\ pending = <<>> /\ ~finished
    /\ finished' = TRUE
    /\ UNCHANGED <<pending, taken, closed>>

ChannelNext ==
    \/ \E k \in Keys, n \in 1 .. (SequenceModulus - 1) :
          Offer(k, n) \/ \E i \in DOMAIN pending : Supersede(k, n, i)
    \/ Take \/ Close \/ Finish

Spec == ChannelInit /\ [][ChannelNext]_channelVars
=============================================================================
