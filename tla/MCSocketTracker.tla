---------------------------- MODULE MCSocketTracker ----------------------------
(* Socket 1 is an IPv6 socket without a cookie; the others use one tuple, one *)
(* after the other.  A behaviour has a table with less room than sockets, and *)
(* a topology that stays; or a roomy table, two sockets that send nothing,    *)
(* and topology changes.  Only the second can be expected to settle.          *)
EXTENDS SocketTracker

VARIABLE part

MCTuple == [s \in Sockets |-> IF s = 1 THEN "t6" ELSE "t4"]
MCCookie == [s \in Sockets |-> s - 1]

Roomy == INSTANCE SocketTracker WITH MaxActive <- 6, Busy <- {}

MCInit == Init /\ part \in {"Tight", "Roomy"}

MCNext ==
    /\ \/ part = "Tight" /\ Next /\ topology' = 0
       \/ part = "Roomy" /\ Roomy!Next /\ kernel'[3] = "new" /\ count' = count
    /\ UNCHANGED part

MCSpec ==
    /\ MCInit /\ [][MCNext]_<<vars, part>>
    /\ WF_vars(part = "Roomy" /\ Start) /\ WF_vars(part = "Roomy" /\ Roomy!Reconcile)
    /\ WF_vars(part = "Roomy" /\ Recompute)

(* Each kernel socket changes twice at most, so the kernel is quiet in the    *)
(* end: then a table with room settles on exactly the living sockets, failed  *)
(* dumps, stops and restarts notwithstanding.                                 *)
TableFollows == <>[](part = "Roomy" => ActiveAreAlive)

(* Two threads publish route contexts, and one may use an old topology: still *)
(* the last context of every active socket is in the end the current one.     *)
RoutesCatchUp == <>[](part = "Roomy" => RoutesAreCurrent)
=============================================================================
