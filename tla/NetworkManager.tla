--------------------------- MODULE NetworkManager ---------------------------
(***************************************************************************)
(* WeakNetMgr and its monitors: the RTT, TCP loss and traffic monitors     *)
(* measure on copies of the interface list, without its lock, and merge    *)
(* what they measured; the quality monitor scores the interface in use     *)
(* and announces a change.  The list itself is collected once, when the    *)
(* daemon starts, and types no interface as Wi-Fi, so the RSSI monitor     *)
(* skips all of them and their RSSI stays unmeasured.                      *)
(*                                                                         *)
(* Loss rates are in units of 0.01 %.  A score of one metric is in half    *)
(* points; the total, weighted 3:3:2:2, is in twentieths of a point.       *)
(***************************************************************************)
EXTENDS Integers, Sequences, FiniteSetsExt

CONSTANTS
    Rtts,            \* what a ping returns: milliseconds, or a negative error
    Samples,         \* [out, retrans]: counters of the interface
    Traffics,        \* [bps, pps, flows]: what the analyzer reports
    NoList, NoBaseline,
    InitialLists     \* lists of interfaces, each TRUE when it is in use

VARIABLES
    interfaces,      \* current_interfaces_
    pinging,         \* the RTT monitor's copy of the list, or NoList
    analyzing,       \* the traffic monitor's copy of the list, or NoList
    lastSample,      \* the TCP loss monitor's previous, or NoBaseline
    previous,        \* the quality monitor's previous: [level, score]
    signalled        \* what the last quality signal said

managerVars == <<interfaces, pinging, analyzing, lastSample, previous, signalled>>

NoTraffic == [bps |-> 0, pps |-> 0, flows |-> 0]
UnmeasuredRssi == -1000

ASSUME ManagerAssumption ==
    /\ Rtts \subseteq Int /\ NoBaseline \notin Samples /\ InitialLists \subseteq Seq(BOOLEAN)
    /\ \A s \in Samples : s.out \in Int /\ s.retrans \in Int
    /\ Traffics \subseteq [bps : Int, pps : Int, flows : Int]

NetInfo(inUse) == [inUse |-> inUse, rtt |-> -1, quality |-> "Unknown", up |-> TRUE, loss |-> -1,
                   rssi |-> UnmeasuredRssi, traffic |-> NoTraffic]

Points(p) == 2 * p

calculateRttScore(rtt) ==
    CASE rtt <= 0 -> Points(50)
      [] rtt \in 1 .. 50 -> Points(100)
      [] rtt \in 51 .. 100 -> Points(80)
      [] rtt \in 101 .. 200 -> Points(60)
      [] OTHER -> Max({Points(20), Points(60) - Min({rtt - 200, Points(40)})})

calculateTcpLossScore(loss) ==
    CASE loss < 0 -> Points(50)
      [] loss \in 0 .. 10 -> Points(100)
      [] loss \in 11 .. 50 -> Points(80)
      [] loss \in 51 .. 200 -> Points(60)
      [] OTHER -> Max({Points(10), Points(60) - Min({((loss - 200) * 2) \div 5, Points(50)})})

calculateRssiScore(rssi) ==
    CASE rssi = 0 -> Points(50)
      [] rssi # 0 /\ rssi >= -50 -> Points(100)
      [] rssi \in -60 .. -51 -> Points(80)
      [] rssi \in -70 .. -61 -> Points(60)
      [] OTHER -> Max({Points(10), Points(60) - Min({4 * (-70 - rssi), Points(50)})})

\* Large packets speak for the network, small ones against it.
calculateTrafficScore(t) ==
    LET size == IF t.bps = 0 \/ t.pps = 0 THEN 0
                ELSE IF t.bps > 1000 * t.pps THEN 20
                ELSE IF t.bps < 200 * t.pps THEN -20 ELSE 0
        count == IF t.flows >= 5 THEN 10 ELSE 0
    IN IF t.flows = 0 THEN Points(50) ELSE Points(Max({0, Min({100, 70 + size + count})}))

assessInterfaceQuality(net) ==
    LET total == 3 * calculateRttScore(net.rtt) + 3 * calculateTcpLossScore(net.loss)
               + 2 * calculateRssiScore(net.rssi) + 2 * calculateTrafficScore(net.traffic)
    IN [level |-> IF total >= 20 * 90 THEN "EXCELLENT" ELSE IF total >= 20 * 75 THEN "GOOD"
                  ELSE IF total >= 20 * 50 THEN "FAIR" ELSE "POOR",
        score |-> total]

\* The first interface in use, or else the first one.
ActiveInterface(list) ==
    LET inUse == {i \in DOMAIN list : list[i].inUse}
    IN list[IF inUse = {} THEN 1 ELSE Min(inUse)]

assessQuality(list) ==
    IF list = <<>> THEN [level |-> "UNKNOWN", score |-> 0]
    ELSE assessInterfaceQuality(ActiveInterface(list))

\* The score of the monitor's first `previous' is not initialised.
ManagerInit ==
    /\ \E list \in InitialLists : interfaces = [i \in DOMAIN list |-> NetInfo(list[i])]
    /\ pinging = NoList /\ analyzing = NoList /\ lastSample = NoBaseline
    /\ \E score \in {0, 2000} : previous = [level |-> "UNKNOWN", score |-> score]
    /\ signalled = [level |-> "UNKNOWN", score |-> 0]

classifyQualityFromRtt(rtt) ==
    CASE rtt < 0 -> "Bad" [] rtt \in 0 .. 50 -> "Good" [] rtt \in 51 .. 100 -> "Fair"
      [] rtt \in 101 .. 200 -> "Poor" [] OTHER -> "Bad"

\* The RTT monitor copies the list...
CopyForPing ==
    /\ pinging = NoList
    /\ pinging' = interfaces
    /\ UNCHANGED <<interfaces, analyzing, lastSample, previous, signalled>>

\* Mutant: the whole measured record is written back.
MergeWhole(current, measured) == measured
\* ...pings without the lock, and writes back the fields it owns.
MergeRtt(current, measured) ==
    [current EXCEPT !.rtt = measured.rtt, !.quality = measured.quality, !.up = measured.up]

updateRttAndState(copy, rtts) ==
    [i \in DOMAIN copy |-> [copy[i] EXCEPT !.rtt = rtts[i], !.up = rtts[i] >= 0,
                                           !.quality = classifyQualityFromRtt(rtts[i])]]

updateRttAndStateSafe ==
    /\ pinging # NoList
    /\ \E rtts \in [DOMAIN pinging -> Rtts] :
           LET measured == updateRttAndState(pinging, rtts)
           IN interfaces' = [i \in DOMAIN interfaces |-> MergeRtt(interfaces[i], measured[i])]
    /\ pinging' = NoList
    /\ UNCHANGED <<analyzing, lastSample, previous, signalled>>

\* The traffic monitor: the interface in use gets the analyzer's totals.
CopyForAnalysis ==
    /\ analyzing = NoList
    /\ analyzing' = interfaces
    /\ UNCHANGED <<interfaces, pinging, lastSample, previous, signalled>>

updateTrafficAnalysis(copy, traffic) ==
    LET inUse == {i \in DOMAIN copy : copy[i].inUse}
    IN [i \in DOMAIN copy |-> IF inUse # {} /\ i = Min(inUse)
                              THEN [copy[i] EXCEPT !.traffic = traffic] ELSE copy[i]]

\* The copy is merged back also when the analyzer does not run or throws, and
\* left it as it was.
updateTrafficAnalysisSafe ==
    /\ analyzing # NoList
    /\ \E measured \in {analyzing} \cup {updateTrafficAnalysis(analyzing, t) : t \in Traffics} :
           interfaces' = [i \in DOMAIN interfaces |->
                            [interfaces[i] EXCEPT !.traffic = measured[i].traffic]]
    /\ analyzing' = NoList
    /\ UNCHANGED <<pinging, lastSample, previous, signalled>>

\* The loss rate between two samples; fewer than ten segments, or counters
\* that went back, say nothing.
compute(prev, curr) ==
    LET sent == curr.out - prev.out
    IN IF sent < 10 \/ curr.retrans < prev.retrans THEN -1
       ELSE ((curr.retrans - prev.retrans) * 10000) \div sent

\* The TCP loss monitor samples the interface in use, if it can.
TcpLossCycle ==
    /\ \E i \in DOMAIN interfaces : interfaces[i].inUse
    /\ \E sample \in Samples :
          LET inUse == {i \in DOMAIN interfaces : interfaces[i].inUse}
              rate == IF lastSample = NoBaseline THEN -1 ELSE compute(lastSample, sample)
          IN /\ lastSample' = sample
             /\ interfaces' = IF rate < 0 THEN interfaces
                              ELSE [interfaces EXCEPT ![Min(inUse)].loss = rate]
    /\ UNCHANGED <<pinging, analyzing, previous, signalled>>

Near(a, b) == a.level = b.level /\ a.score - b.score <= 20 * 15 /\ b.score - a.score <= 20 * 15

\* Mutant: the monitor compares with its last assessment, announced or not.
CompareWithLast ==
    LET current == assessQuality(interfaces)
    IN /\ signalled' = IF Near(current, previous) THEN signalled ELSE current
       /\ previous' = current
       /\ UNCHANGED <<interfaces, pinging, analyzing, lastSample>>
\* The quality monitor: a new level, or more than 15 points from what was
\* announced last, is announced.
QualityCycle ==
    LET current == assessQuality(interfaces)
    IN /\ signalled' = IF Near(current, previous) THEN signalled ELSE current
       /\ previous' = IF Near(current, previous) THEN previous ELSE current
       /\ UNCHANGED <<interfaces, pinging, analyzing, lastSample>>

ManagerNext == \/ CopyForPing \/ updateRttAndStateSafe \/ CopyForAnalysis
               \/ updateTrafficAnalysisSafe \/ TcpLossCycle \/ QualityCycle

ManagerSpec == ManagerInit /\ [][ManagerNext]_managerVars

(***************************************************************************)
(* Properties.                                                             *)
(***************************************************************************)

\* A monitor that merges what it measured on an old copy of the list undoes
\* nothing the other monitors have stored since.
MonitorsKeepApart ==
    [][\A i \in DOMAIN interfaces :
          LET old == interfaces[i]
              new == interfaces'[i]
          IN /\ pinging = pinging' => new.rtt = old.rtt /\ new.quality = old.quality
             /\ analyzing = analyzing' => new.traffic = old.traffic
             /\ pinging # pinging' \/ analyzing # analyzing' => new.loss = old.loss]_managerVars

\* After each look at the network the last signal a client got says the level
\* it has, and a score at most 15 points off, however slowly it drifted there.
ClientsKnowQuality ==
    [][QualityCycle => Near(signalled', assessQuality(interfaces))]_managerVars
=============================================================================
