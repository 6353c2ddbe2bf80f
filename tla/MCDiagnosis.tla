------------------------------ MODULE MCDiagnosis ------------------------------
(* An instance of Diagnosis: one socket with a slow path, a change of        *)
(* gateway and the loss of the topology.                                     *)
EXTENDS Diagnosis

CONSTANTS s1, i1, g1, g2

MCSockets == <<s1>>
MCInterfaces == <<i1>>
MCSubjects == {<<"HighTcpRtt", s1>>}
MCTopologies ==
    {[authoritative |-> TRUE, interface |-> i1, gateway |-> g] : g \in {g1, g2}}
    \cup {[authoritative |-> FALSE, interface |-> None, gateway |-> None]}
Answering(slow) == [socket |-> "Ok", sent |-> "Ok", replies |-> <<"Echo">>, high |-> slow]
MCGatewayResults == {Answering(FALSE)}
MCRemoteResults == {Answering(TRUE),
                    [Answering(FALSE) EXCEPT !.replies = <<"Other", "PollFailed">>]}
MCWeakDbm == -70
MCVeryWeakDbm == -80
MCWeakRecoverDbm == -67
MCVeryWeakRecoverDbm == -77
=============================================================================
