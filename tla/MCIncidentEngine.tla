-------------------------- MODULE MCIncidentEngine --------------------------
(* A small instance of the incident engine for TLC.  A behaviour has the two  *)
(* generations of a cookie with RTT samples and room for every record; or the *)
(* third socket with intervals, routes and the uplink, and a table of two.    *)
EXTENDS IncidentEngine, TLC

CONSTANTS s1, s2, s3, cookie

VARIABLE part

\* Two generations of one cookie, and a socket whose cookie is not known.
MCCookie == s1 :> cookie @@ s2 :> cookie @@ s3 :> NoCookie
MCGeneration == s1 :> 1 @@ s2 :> 2 @@ s3 :> 1

\* One Good, one Neutral and two Bad RTTs, and a TCP_INFO without RTT.
MCRtts == {1, 2, 3, 4, Unknown}

\* A Good and a Bad interval, and the four kinds that say nothing; the Neutral verdict is
\* left to the RTTs.
MCIntervals ==
    {[ratio |-> r, segments |-> 5, reset |-> FALSE] : r \in {0, 3}} \cup
    {[ratio |-> 3, segments |-> 1, reset |-> FALSE],
     [ratio |-> 3, segments |-> Unknown, reset |-> FALSE],
     [ratio |-> 0, segments |-> 5, reset |-> TRUE],
     [ratio |-> Unknown, segments |-> 5, reset |-> FALSE]}

MCContexts ==
    {[status |-> "Available", reasons |-> {}, ifindex |-> 1],
     [status |-> "Unavailable", reasons |-> {"NoModeledRoute"}, ifindex |-> 1],
     [status |-> "Unavailable", reasons |-> {"NoModeledRoute", "TopologyDegraded"}, ifindex |-> 1],
     [status |-> "Partial", reasons |-> {"DiagIfindexConflicts"}, ifindex |-> 1],
     [status |-> "Ambiguous", reasons |-> {"DiagIfindexConflicts"}, ifindex |-> 1]}

MCUplinks ==
    {[selected |-> TRUE, validity |-> "Valid"], [selected |-> TRUE, validity |-> "Partial"],
     [selected |-> FALSE, validity |-> "Unavailable"], [selected |-> FALSE, validity |-> "Stale"]}

Tcp == INSTANCE IncidentEngine WITH
    Sockets <- {s1, s2}, RttSamples <- MCRtts, IntervalSamples <- {}, RouteContexts <- {},
    UplinkSamples <- {}, MaxTracked <- 9, MaxEvidence <- 3

MCInit == \/ part = "Tcp" /\ Tcp!Init
          \/ part = "Route" /\ Init

MCNext == \/ part = "Tcp" /\ Tcp!Next /\ UNCHANGED part
          \/ part = "Route" /\ Next /\ UNCHANGED part

MCSpec == MCInit /\ [][MCNext]_<<vars, part>>

(* The verdict on the RTT is prompt: with room for every key, an incident is  *)
(* active as soon as the last Activation decisive samples were Bad, and over  *)
(* as soon as the last Recovery ones were Good.                               *)
RttVerdictIsPrompt == part = "Tcp" => Tcp!PromptVerdict
=============================================================================
