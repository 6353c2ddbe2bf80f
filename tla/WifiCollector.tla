----------------------------- MODULE WifiCollector -----------------------------
(***************************************************************************)
(* WifiCollector (server/src/wifi_collector.cpp) and the replies that      *)
(* WifiNl80211Parser reads: the worker copies its target under mutex_,     *)
(* asks the kernel three questions without it (nl80211 family, interface,  *)
(* station), and records and publishes what it learned.  The kernel is     *)
(* external: it answers in time, late or not at all, with or without the   *)
(* terminal message that the collector waits for.                          *)
(***************************************************************************)
EXTENDS Integers, SequencesExt

CONSTANTS
    NoInterface,
    Answers,     \* per question, the replies that the kernel may give
    MaxLate      \* bound: of the replies that come after the deadline

VARIABLES
    target,     \* target_ and target_generation_
    latest,     \* latest_, or NoInterface
    worker,     \* where the worker is, its copy of the target, its question
    family,     \* family_id_ is known
    inbox,      \* the Generic Netlink socket: datagrams not yet received
    late        \* how many replies came too late

wifiVars == <<target, latest, worker, family, inbox, late>>

Idle == [at |-> "Idle", interface |-> NoInterface, generation |-> 0,
         observation |-> NoInterface]

WifiInit ==
    /\ target = [interface |-> NoInterface, generation |-> 0]
    /\ latest = NoInterface
    /\ worker = Idle
    /\ family = FALSE
    /\ inbox = <<>>
    /\ late = 0

(* updateTopology() on the netlink thread. *)
updateWifiTopology(next) ==
    /\ target' = next
    /\ latest' = IF target = next THEN latest ELSE NoInterface

wifiValidityFor(capability) ==
    IF capability \in {"Available", "NotWifi", "NotAssociated", "Unsupported"}
    THEN "Partial" ELSE "Unavailable"

(* An observation; answered is what the last reply was an answer to. *)
Observation(interface, generation, capability, link, station, signal, lowRate, answered) ==
    [interface |-> interface, generation |-> generation, capability |-> capability,
     link |-> link, station |-> station, signal |-> signal, lowRate |-> lowRate,
     validity |-> wifiValidityFor(capability), answered |-> answered]

Unanswered(capability) ==
    Observation(worker.interface, worker.generation, capability, "Unknown", TRUE,
                NoInterface, FALSE, NoInterface)

Conclude(observation) == [worker EXCEPT !.at = "Publish", !.observation = observation]

-----------------------------------------------------------------------------
(* A reply is one or more datagrams, each a sequence of messages with the    *)
(* sequence number of the request.  A message is "Data", "Done", "Malformed" *)
(* (attributes that the parser of the question refuses), "Invalid" (not even *)
(* attributes) or an errno.                                                  *)

Invalid(message) == message = "Invalid"
Refused(message) == message = "Malformed"

Terminal(messages) ==
    \E i \in DOMAIN messages : messages[i] \notin {"Data", "Malformed", "Invalid"}

(* walkMessages(): data until the first message that is something else. *)
walkMessages(messages) ==
    LET others == {i \in DOMAIN messages : messages[i] # "Data"}
        first == CHOOSE i \in others : \A j \in others : i <= j
        last == messages[first]
    IN  IF others = {}
        THEN [status |-> "Malformed", data |-> messages # <<>>, error |-> "None", refused |-> FALSE]
        ELSE [status |-> CASE last = "Done" -> "Done"
                           [] Refused(last) \/ Invalid(last) -> "Malformed"
                           [] last = "ENOENT" -> "NotFound"
                           [] OTHER -> "ErrorReply",
              data |-> first > 1,
              error |-> IF last = "Done" \/ Refused(last) \/ Invalid(last) THEN "None" ELSE last,
              refused |-> Refused(last)]

(* The first two keep what an earlier message said when they refuse one. *)
parseFamilyId(reply) == walkMessages(reply.messages)

(* Data without the type of an interface, or of another one, is refused. *)
parseInterface(reply) ==
    LET named == reply.about.question = "Interface" /\ reply.about.interface = worker.interface
    IN  walkMessages([i \in DOMAIN reply.messages |->
            IF reply.messages[i] = "Data" /\ ~named THEN "Malformed" ELSE reply.messages[i]])

(* Neither the command nor the interface of a station's data is looked at. *)
parseStation(reply) ==
    LET parsed == walkMessages(reply.messages) IN [parsed EXCEPT !.data = @ /\ ~parsed.refused]

\* Mutant: a datagram is taken for the answer whatever its sequence number.
AnySequence(i) == TRUE

\* Of the datagrams in the socket, the i-th has the number of this request.  No
\* number of next_sequence_ (2^32) comes again while a datagram waits, so these
\* are the ones behind those that the requests before left unread.
MatchesSequence(i) == i > Len(inbox)

(* refresh(): copy the target; without one there is nothing to ask. *)
BeginRefresh ==
    /\ worker.at = "Idle"
    /\ LET copy == [Idle EXCEPT !.interface = target.interface,
                                !.generation = target.generation]
       IN  worker' =
            IF target.interface = NoInterface
            THEN [copy EXCEPT !.at = "Publish", !.observation =
                    Observation(NoInterface, target.generation, "NoTarget", "Unknown", TRUE,
                                NoInterface, FALSE, NoInterface)]
            ELSE [copy EXCEPT !.at = IF family THEN "Interface" ELSE "Family"]
    /\ UNCHANGED <<target, latest, family, inbox, late>>

(* What the collector concludes from the reply to its question. *)
Denied(error) == error \in {"EACCES", "EPERM"}

AfterFamily(parsed) ==
    IF parsed.data /\ parsed.status = "Done"
    THEN [worker EXCEPT !.at = "Interface"]
    ELSE Conclude(Unanswered(IF Denied(parsed.error) THEN "PermissionDenied" ELSE "Unsupported"))

AfterInterface(parsed, reply) ==
    IF ~parsed.data
    THEN Conclude(Unanswered(IF parsed.error \in {"ENODEV", "ENOENT"} THEN "NotWifi"
                             ELSE IF Denied(parsed.error) THEN "PermissionDenied" ELSE "Error"))
    ELSE IF ~reply.station
    THEN Conclude(Observation(worker.interface, worker.generation, "NotWifi", "NotWifi", FALSE,
                              NoInterface, FALSE, reply.about))
    ELSE [worker EXCEPT !.at = "Station"]

AfterStation(parsed, reply) ==
    IF parsed.status = "NotFound" \/ ~parsed.data
    THEN Conclude(
            IF parsed.status \in {"Done", "NotFound"}
            THEN Observation(worker.interface, worker.generation, "NotAssociated",
                             "NotAssociated", TRUE, NoInterface, FALSE, reply.about)
            ELSE Unanswered("Error"))
    ELSE Conclude(Observation(worker.interface, worker.generation, "Available", "Associated",
                              TRUE, reply.signal, reply.lowRate, reply.about))

Transport == IF worker.at = "Family" THEN "Unsupported" ELSE "TransportUnavailable"

(* The datagrams of the kernel's answer to the question just asked (external). *)
Answered(answer) ==
    [i \in DOMAIN answer.datagrams |->
        [messages |-> answer.datagrams[i],
         about |-> [question |-> worker.at, interface |-> worker.interface,
                    generation |-> worker.generation],
         station |-> answer.station, signal |-> answer.signal, lowRate |-> answer.lowRate]]

Asking == worker.at \in {"Family", "Interface", "Station"}

Parsed(reply) ==
    CASE worker.at = "Family" -> AfterFamily(parseFamilyId(reply))
      [] worker.at = "Interface" -> AfterInterface(parseInterface(reply), reply)
      [] OTHER -> AfterStation(parseStation(reply), reply)

(* requestAndReceive() with datagrams to read: it collects them up to the    *)
(* first with a terminal message, and gives up at one with a foreign         *)
(* sequence number, or at the deadline when none is terminal.                *)
Read(datagrams) ==
    LET ends == {i \in DOMAIN datagrams :
                    ~MatchesSequence(i) \/ Terminal(datagrams[i].messages)}
        last == CHOOSE i \in ends : \A j \in ends : i <= j
        response == FlattenSeq([i \in 1 .. last |-> datagrams[i].messages])
    IN  /\ inbox' = IF ends = {} THEN <<>> ELSE SubSeq(datagrams, last + 1, Len(datagrams))
        /\ worker' = IF ends = {} \/ ~MatchesSequence(last)
                     THEN Conclude(Unanswered(Transport))
                     ELSE Parsed([datagrams[last] EXCEPT !.messages = response])
        /\ family' = (family \/ (worker.at = "Family" /\ worker'.at = "Interface"))

Receive ==
    /\ Asking
    /\ \E answer \in Answers[worker.at] : Read(inbox \o Answered(answer))
    /\ UNCHANGED <<target, latest, late>>

(* The deadline passes before the last datagram has come; the rest may still *)
(* come, and be found by the next request.                                   *)
Timeout ==
    /\ Asking /\ inbox = <<>>
    /\ \/ UNCHANGED <<inbox, late>>
       \/ /\ late < MaxLate /\ late' = late + 1
          /\ \E answer \in Answers[worker.at] : \E n \in DOMAIN answer.datagrams :
                inbox' = SubSeq(Answered(answer), n, Len(answer.datagrams))
    /\ worker' = Conclude(Unanswered(Transport))
    /\ UNCHANGED <<target, latest, family>>

(* publish(): record() makes the observation the latest one, whatever the    *)
(* target is by now; the bus comes with the composition.                     *)
Record ==
    /\ worker.at = "Publish"
    /\ latest' = worker.observation
    /\ worker' = Idle
    /\ UNCHANGED <<target, family, inbox, late>>

QueryStep == BeginRefresh \/ Receive \/ Timeout
=============================================================================
