--------------------------- MODULE PingExecutor ---------------------------
(***************************************************************************)
(* PingExecutor: the Ping calls of the D-Bus service, a bounded queue, one *)
(* worker, and the helper process the worker runs for each call, or its    *)
(* own ping when the daemon does not know where the helper is.  The        *)
(* parent polls the helper's pipe and its exit in turn, until the helper   *)
(* has exited, the deadline has passed or the executor stops.              *)
(***************************************************************************)
EXTENDS Naturals, Sequences

CONSTANTS
    Calls,          \* the Ping method calls that arrive
    PingCapacity    \* capacity_ of the queue

VARIABLES
    call,           \* call -> what became of it
    waiting,        \* queue_: calls accepted and not yet taken
    executor,       \* [accepting, asked]: accepting_ and the stop token
    pinger,         \* [at, call, late, output, result]: the worker thread
    helper          \* [process, pipe]: the helper process and its pipe

Unpinged == "Unpinged"    \* the worker holds no call

ASSUME PingAssumption == PingCapacity \in Nat /\ Unpinged \notin Calls

pingVars == <<call, waiting, executor, pinger, helper>>

NoHelper == [process |-> "None", pipe |-> "Empty"]
AtRest == [at |-> "Waiting", call |-> Unpinged, late |-> FALSE,
           output |-> "Empty", result |-> "None"]

PingInit ==
    /\ call = [c \in Calls |-> "New"] /\ waiting = <<>>
    /\ executor = [accepting |-> TRUE, asked |-> FALSE]
    /\ pinger = AtRest /\ helper = NoHelper

submit(c) ==
    IF executor.accepting /\ Len(waiting) < PingCapacity
    THEN waiting' = Append(waiting, c) /\ call' = [call EXCEPT ![c] = "Queued"]
    ELSE call' = [call EXCEPT ![c] = "Refused"] /\ UNCHANGED waiting

\* Bad arguments, or no interface to ping from, are refused at once, and so
\* is a call that finds the queue full.
handlePing(c) ==
    /\ call[c] = "New"
    /\ \/ call' = [call EXCEPT ![c] = "Refused"] /\ UNCHANGED waiting
       \/ submit(c)
    /\ UNCHANGED <<executor, pinger, helper>>

\* The worker waits for a call...
TakeTask ==
    /\ pinger.at = "Waiting" /\ ~executor.asked /\ waiting # <<>>
    /\ pinger' = [pinger EXCEPT !.at = "Spawning", !.call = Head(waiting)]
    /\ waiting' = Tail(waiting)
    /\ UNCHANGED <<call, executor, helper>>

\* ...and leaves when it is told to stop.
Leave ==
    /\ pinger.at = "Waiting"
    /\ executor.asked \/ (~executor.accepting /\ waiting = <<>>)
    /\ pinger' = [pinger EXCEPT !.at = "Gone"]
    /\ UNCHANGED <<call, waiting, executor, helper>>

Result(r) == [pinger EXCEPT !.at = "Completing", !.result = r]

\* No pipe or no process is a failed ping.
Spawn ==
    /\ pinger.at = "Spawning"
    /\ \/ /\ helper' = [process |-> "Pinging", pipe |-> "Empty"]
          /\ pinger' = [pinger EXCEPT !.at = "Polling"]
       \/ pinger' = Result("Failed") /\ UNCHANGED helper
    /\ UNCHANGED <<call, waiting, executor>>

\* NetPing::ping returns the round-trip time, or the number of what failed.
ping == {"Value", "Failed"}

\* Without the path of a helper the worker pings by itself, deaf to stop().
PingInProcess ==
    /\ pinger.at = "Spawning"
    /\ \E r \in ping : pinger' = Result(r)
    /\ UNCHANGED <<call, waiting, executor, helper>>

KeepsWaiting == ~executor.asked /\ ~pinger.late

\* poll returns with what is in the pipe, or after 50 ms with nothing.
Poll ==
    /\ pinger.at = "Polling" /\ KeepsWaiting
    /\ pinger' = [pinger EXCEPT !.at = "Reaping",
                      !.output = IF helper.pipe = "Written" THEN "Written" ELSE @]
    /\ UNCHANGED <<call, waiting, executor, helper>>

\* waitpid: a helper that has exited is reaped, and its output is the result
\* if it exited well and something was read.
Reap ==
    /\ pinger.at = "Reaping"
    /\ IF helper.process \in {"Exited", "Crashed"}
       THEN /\ pinger' = Result(IF helper.process = "Exited" /\ pinger.output = "Written"
                                THEN "Value" ELSE "Failed")
            /\ helper' = NoHelper
       ELSE pinger' = [pinger EXCEPT !.at = "Polling"] /\ UNCHANGED helper
    /\ UNCHANGED <<call, waiting, executor>>

\* Mutant: the parent waits for the helper however long it takes.
KillOnStop ==
    /\ pinger.at = "Polling" /\ executor.asked
    /\ pinger' = Result("Stopped") /\ helper' = NoHelper
    /\ UNCHANGED <<call, waiting, executor>>

\* Mutant: the helper is killed and not waited for.
KillOnly ==
    /\ pinger.at = "Polling" /\ ~KeepsWaiting
    /\ pinger' = Result(IF executor.asked THEN "Stopped" ELSE "Late")
    /\ helper' = [helper EXCEPT !.process = "Crashed"]
    /\ UNCHANGED <<call, waiting, executor>>

\* Out of time, or stopping: kill the helper and wait for it.
KillHelper ==
    /\ pinger.at = "Polling" /\ ~KeepsWaiting
    /\ pinger' = Result(IF executor.asked THEN "Stopped" ELSE "Late")
    /\ helper' = NoHelper
    /\ UNCHANGED <<call, waiting, executor>>

\* The reply is sent unless the executor is stopping.
Complete ==
    /\ pinger.at = "Completing"
    /\ call' = [call EXCEPT ![pinger.call] = IF executor.asked THEN "Abandoned" ELSE pinger.result]
    /\ pinger' = AtRest
    /\ UNCHANGED <<waiting, executor, helper>>

\* The deadline: the timeout of the ping and a second more.
DeadlinePasses ==
    /\ pinger.at \in {"Polling", "Reaping"} /\ ~pinger.late
    /\ pinger' = [pinger EXCEPT !.late = TRUE]
    /\ UNCHANGED <<call, waiting, executor, helper>>

\* The helper prints one number and exits, or dies, or hangs.
HelperPrints ==
    /\ helper = [process |-> "Pinging", pipe |-> "Empty"]
    /\ helper' = [helper EXCEPT !.pipe = "Written"]
    /\ UNCHANGED <<call, waiting, executor, pinger>>

HelperExits ==
    /\ helper.process = "Pinging"
    /\ \/ helper.pipe = "Written" /\ helper' = [helper EXCEPT !.process = "Exited"]
       \/ helper' = [helper EXCEPT !.process = "Crashed"]
    /\ UNCHANGED <<call, waiting, executor, pinger>>

\* stop(): the queue is cleared, then the worker is told.
StopAccepting ==
    /\ executor.accepting
    /\ executor' = [executor EXCEPT !.accepting = FALSE]
    /\ call' = [c \in Calls |-> IF call[c] = "Queued" /\ c # pinger.call THEN "Abandoned" ELSE call[c]]
    /\ waiting' = <<>>
    /\ UNCHANGED <<pinger, helper>>

AskWorker ==
    /\ ~executor.accepting /\ ~executor.asked
    /\ executor' = [executor EXCEPT !.asked = TRUE]
    /\ UNCHANGED <<call, waiting, pinger, helper>>

ExecutorStep == \/ TakeTask \/ Leave \/ Spawn \/ PingInProcess \/ Poll \/ Reap \/ KillHelper
                \/ Complete
PingNext == \/ ExecutorStep \/ DeadlinePasses \/ HelperPrints \/ HelperExits
            \/ StopAccepting \/ AskWorker \/ \E c \in Calls : handlePing(c)

\* The worker runs, time passes, and a stop() that has begun goes on; the
\* helper may hang, and nobody has to call or to stop.
PingFairness ==
    WF_pingVars(ExecutorStep) /\ WF_pingVars(DeadlinePasses) /\ WF_pingVars(AskWorker)

PingSpec == PingInit /\ [][PingNext]_pingVars /\ PingFairness

(***************************************************************************)
(* Properties.                                                             *)
(***************************************************************************)

\* Calls the queue took are answered, or dropped by a stop(), however the
\* helper behaves: also when it hangs, dies, or prints and never exits.  Again
\* and again none is waiting.
PingSettles == []<>(\A c \in Calls : call[c] # "Queued")

\* Between two calls, and after stop(), no helper is running and none is left
\* as a zombie.
NoHelperLeft == pinger.at \in {"Waiting", "Spawning", "Completing", "Gone"} => helper = NoHelper
=============================================================================
