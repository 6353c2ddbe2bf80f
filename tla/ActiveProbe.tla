------------------------------ MODULE ActiveProbe ------------------------------
(***************************************************************************)
(* ActiveProbe (server/src/active_probe.cpp): the targets that the netlink *)
(* thread sets from each committed topology, and the rounds of the worker  *)
(* that copies the targets under mutex_, probes without it and publishes   *)
(* each result without looking at what publish() returns.                  *)
(***************************************************************************)
EXTENDS LossyBus

CONSTANTS
    NoTarget,            \* an empty std::optional<ProbeTarget>
    GatewayResults,      \* the exchanges that a gateway may have with nativeProbe()
    RemoteResults        \* and the configured remote target

VARIABLES
    targets,    \* gateway_ and remote_
    round       \* the worker: what it is about to probe, and its copies

probeVars == <<targets, round>>

ProbeInit ==
    /\ targets = [gateway |-> NoTarget, remote |-> TRUE]
    /\ round = [at |-> "Waiting", gateway |-> NoTarget, remote |-> FALSE]

validityFor(status) ==
    CASE status = "Success" -> "Valid"
      [] status \in {"TransportUnavailable", "NoTarget"} -> "Unavailable"
      [] OTHER -> "Partial"

(* nativeProbe(): an exchange is the errno of socket() and sendto(), what    *)
(* poll() came back with before the timeout (the echo, another datagram or a *)
(* failure), and whether the echo was slow.  The worker hands it a token     *)
(* that nobody can stop.                                                     *)
Failed(errno) == IF errno \in {"EACCES", "EPERM"} THEN "TransportUnavailable" ELSE "Error"

nativeProbe(exchange) ==
    IF exchange.socket # "Ok" THEN Failed(exchange.socket)
    ELSE IF exchange.sent # "Ok" THEN Failed(exchange.sent)
    ELSE LET final == SelectSeq(exchange.replies, LAMBDA r : r \in {"Echo", "PollFailed"})
         IN IF final # <<>> THEN IF Head(final) = "Echo" THEN "Success" ELSE "Error"
            ELSE IF exchange.replies # <<>> THEN "InvalidReply"
            ELSE "Timeout"

ProbeEvent(kind, target, status, high) ==
    [kind |-> kind, about |-> NoTarget,
     probe |-> [status |-> status, high |-> high, validity |-> validityFor(status),
                gateway |-> target.gateway, interface |-> target.interface, age |-> 0]]

(* The topology of a commit: [authoritative, interface, gateway], where the  *)
(* gateway is the one of the first IPv4 default route on the uplink.         *)
selectGateway(topology) ==
    IF ~topology.authoritative \/ topology.interface = NoTarget \/ topology.gateway = NoTarget
    THEN NoTarget
    ELSE [gateway |-> topology.gateway, interface |-> topology.interface]

(* Without an authoritative topology the last gateway stays the target. *)
updateTopology(topology) ==
    targets' = IF topology.authoritative
               THEN [gateway |-> selectGateway(topology),
                     remote |-> topology.interface # NoTarget]
               ELSE [targets EXCEPT !.remote = FALSE]

BeginRound ==
    /\ round.at = "Waiting"
    /\ round' = [at |-> "Gateway", gateway |-> targets.gateway, remote |-> targets.remote]
    /\ UNCHANGED <<targets, queue, dropped>>

Nowhere == [gateway |-> NoTarget, interface |-> NoTarget]

(* probeTarget(): the observation tells the target it was copied from. *)
probeTarget(kind, exists, target, exchanges) ==
    IF ~exists THEN publish(ProbeEvent(kind, Nowhere, "NoTarget", FALSE))
    ELSE \E exchange \in exchanges :
            publish(ProbeEvent(kind, target, nativeProbe(exchange), exchange.high))

ProbeGateway ==
    /\ round.at = "Gateway"
    /\ probeTarget("Gateway", round.gateway # NoTarget, round.gateway, GatewayResults)
    /\ round' = [round EXCEPT !.at = "Remote", !.gateway = NoTarget]
    /\ UNCHANGED targets

ProbeRemote ==
    /\ round.at = "Remote"
    /\ probeTarget("Remote", round.remote, Nowhere, RemoteResults)
    /\ round' = [round EXCEPT !.at = "Waiting", !.remote = FALSE]
    /\ UNCHANGED targets

ProbeStep == BeginRound \/ ProbeGateway \/ ProbeRemote
=============================================================================
