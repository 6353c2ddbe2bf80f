------------------------------ MODULE MCRuntime ------------------------------
(* The daemon's lifecycle, the ping executor and the Wi-Fi collector with its *)
(* consumer, for TLC: three machines that share no state, of which a          *)
(* behaviour runs one.                                                        *)
EXTENDS DaemonApplication, PingExecutor, WifiDiagnosis

CONSTANTS s1, i1, i2

VARIABLE part    \* the machine of this behaviour

\* Two interfaces, and a kernel that answers each question in every way that
\* leads the Wi-Fi collector somewhere else.
MCSockets == <<s1>>
MCInterfaces == <<i1, i2>>
Says(datagrams, dbm) ==
    [datagrams |-> datagrams, station |-> TRUE, signal |-> dbm, lowRate |-> FALSE]
MCAnswers == [
    Family |-> {Says(<<<<"Data", "Done">>>>, None)},
    Interface |-> {Says(<<<<"Data", "Done">>>>, None), Says(<<<<"ENODEV">>>>, None)},
    Station |-> {Says(<<<<"Data">>, <<"Done">>>>, -85), Says(<<<<"Done">>>>, None),
                 Says(<<<<"Data">>, <<"Malformed", "Done">>>>, -85)}]
MCWeakDbm == -70
MCVeryWeakDbm == -80
MCWeakRecoverDbm == -67
MCVeryWeakRecoverDbm == -77

allVars == <<part, daemonVars, pingVars, vars>>

MCInit ==
    /\ part \in {"Daemon", "Ping", "Wifi"}
    /\ DaemonInit /\ PingInit /\ Init

DaemonPart ==
    /\ part = "Daemon"
    /\ DaemonNext \/ (main.phase = "Done" /\ UNCHANGED daemonVars)
    /\ UNCHANGED <<part, pingVars, vars>>

PingPart ==
    /\ part = "Ping"
    /\ PingNext \/ (pinger.at = "Gone" /\ UNCHANGED pingVars)
    /\ UNCHANGED <<part, daemonVars, vars>>

WifiPart ==
    /\ part = "Wifi" /\ Next
    /\ UNCHANGED <<part, daemonVars, pingVars>>

MCNext == DaemonPart \/ PingPart \/ WifiPart

\* Fairness of the machines that must come to an end.
Fairness ==
    /\ WF_daemonVars(part = "Daemon" /\ MainStep) /\ WF_daemonVars(part = "Daemon" /\ SignalStep)
    /\ WF_daemonVars(part = "Daemon" /\ TellStep) /\ WF_daemonVars(part = "Daemon" /\ BusReturns)
    /\ \A w \in Workers : WF_daemonVars(part = "Daemon" /\ WorkerStep(w))
    /\ WF_pingVars(part = "Ping" /\ ExecutorStep)
    /\ WF_pingVars(part = "Ping" /\ DeadlinePasses) /\ WF_pingVars(part = "Ping" /\ AskWorker)

MCSpec == MCInit /\ [][MCNext]_allVars /\ Fairness
=============================================================================
