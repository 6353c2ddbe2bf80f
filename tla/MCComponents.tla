----------------------------- MODULE MCComponents -----------------------------
(***************************************************************************)
(* The parts that run alone, in one state space: a behaviour is one of the *)
(* lifecycle table, the metric store, the V1 manager or the client library,*)
(* and leaves the others alone.  Tuples and the client's threads are       *)
(* interchangeable.                                                        *)
(***************************************************************************)
EXTENDS SocketLifecycle, MetricStore, NetworkManager, Client

VARIABLE part

MCSymmetry == Permutations(Tuples) \cup Permutations(Apps)
MCKeys == <<"rtt", "loss", "rssi">>

-----------------------------------------------------------------------------
MCRtts == {-1, 20, 150, 260}
MCSamples == {[out |-> 0, retrans |-> 0], [out |-> 5, retrans |-> 1], [out |-> 20, retrans |-> 1]}
MCTraffics == {NoTraffic, [bps |-> 9000, pps |-> 3, flows |-> 6]}
MCLists == {<<>>, <<TRUE>>, <<FALSE>>}

ManagerAtRest ==
    /\ interfaces = <<>> /\ pinging = NoList /\ analyzing = NoList /\ lastSample = NoBaseline
    /\ previous = [level |-> "UNKNOWN", score |-> 0] /\ signalled = previous

MCInit ==
    /\ Init /\ StoreInit /\ ClientInit
    /\ part \in {"Table", "Store", "Manager", "Client"}
    /\ IF part = "Manager" THEN ManagerInit ELSE ManagerAtRest

MCNext ==
    \/ part = "Table" /\ Next /\ UNCHANGED <<part, storeVars, managerVars, clientVars>>
    \/ part = "Store" /\ StoreNext /\ UNCHANGED <<part, vars, managerVars, clientVars>>
    \/ part = "Manager" /\ ManagerNext /\ UNCHANGED <<part, vars, storeVars, clientVars>>
    \/ part = "Client" /\ ClientNext /\ UNCHANGED <<part, vars, storeVars, managerVars>>
    \/ part \in {"Store", "Client"}    \* a bound; nothing to call
          /\ UNCHANGED <<part, vars, storeVars, managerVars, clientVars>>

MCSpec == MCInit /\ [][MCNext]_<<part, vars, storeVars, managerVars, clientVars>>
=============================================================================
