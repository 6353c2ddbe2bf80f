------------------------------ MODULE TcpInterval ------------------------------
(***************************************************************************)
(* TcpIntervalCalculator::calculate() (server/src/socket_tracker.cpp): the *)
(* metrics of the interval between two samples of tcp_info.  A sample is   *)
(* [id, at, valid, raw] where id is [netns, cookie, generation] and raw    *)
(* maps the counters, and "gauges" for the values that are only copied, to *)
(* numbers or NoCount.                                                     *)
(***************************************************************************)
EXTENDS Integers

CONSTANTS NoCount

(* The counters with a rate; total_retrans has none. *)
Rated == {"bytes_acked", "bytes_received", "segs_out", "segs_in", "data_segs_out",
          "data_segs_in"}
Counters == Rated \cup {"total_retrans"}

Known(before, after) == before # NoCount /\ after # NoCount

\* Mutant: a counter that went back is subtracted in the wider type.
Unchecked(before, after) == (after + 64 - before) % 64

(* The delta of a counter; one that went back has none. *)
Delta(before, after) == IF after < before THEN NoCount ELSE after - before

CounterDelta(previous, current, counter) ==
    IF Known(previous.raw[counter], current.raw[counter])
    THEN Delta(previous.raw[counter], current.raw[counter]) ELSE NoCount

NoMetrics(reason) == [deltas |-> NoCount, ratio |-> NoCount, valid |-> "Unavailable",
                      reason |-> reason]

(* The metrics of two usable samples; the ratio is a pair of deltas. *)
Metrics(previous, current) ==
    LET deltas == [c \in Counters |-> CounterDelta(previous, current, c)]
        reset == \E c \in Counters :
                    /\ Known(previous.raw[c], current.raw[c])
                    /\ current.raw[c] < previous.raw[c]
        paired == deltas["data_segs_out"] # NoCount /\ deltas["total_retrans"] # NoCount
        idle == paired /\ deltas["data_segs_out"] = 0
        some == current.raw["gauges"] # NoCount \/ \E c \in Counters : deltas[c] # NoCount
        reason == IF reset THEN "CounterReset" ELSE IF idle THEN "ZeroDenominator" ELSE "None"
    IN  IF ~some
        THEN NoMetrics(IF reason = "None" THEN "FieldUnavailable" ELSE reason)
        ELSE [deltas |-> deltas,
              ratio |-> IF paired /\ ~idle
                        THEN <<deltas["total_retrans"], deltas["data_segs_out"]>> ELSE NoCount,
              valid |-> IF reason = "None" THEN "Valid" ELSE "Partial", reason |-> reason]

calculate(previous, current) ==
    IF previous.id # current.id
    THEN NoMetrics(IF /\ previous.id.netns = current.id.netns
                      /\ previous.id.cookie = current.id.cookie
                   THEN "GenerationChanged" ELSE "IdentityChanged")
    ELSE IF current.at <= previous.at THEN NoMetrics("NonIncreasingTimestamp")
    ELSE IF ~previous.valid \/ ~current.valid THEN NoMetrics("FieldUnavailable")
    ELSE Metrics(previous, current)

(* The deltas of an interval in which the kernel counted this much, on        *)
(* counters that wrap at the modulus: never more than that, and exactly that  *)
(* for a counter that went less than once around.                             *)
CountsOnly(previous, current, counted, modulus) ==
    LET result == calculate(previous, current)
    IN  result.deltas # NoCount =>
            \A c \in Counters : result.deltas[c] # NoCount =>
                /\ result.deltas[c] <= counted[c]
                /\ counted[c] < modulus => result.deltas[c] = counted[c]
=============================================================================
