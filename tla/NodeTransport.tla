---------------------------- MODULE NodeTransport ----------------------------
(***************************************************************************)
(* The Node's radio loop (src-rx/main.cpp): commands and their delayed      *)
(* acknowledgment, structured operations and their response, the host, the  *)
(* pending save and the events, which share one radio and one interrupt     *)
(* flag (node_event_radio.h).                                               *)
(*                                                                         *)
(* The loop is the sequence of its services, and a service that takes the   *)
(* radio is two steps: the check of the flag, then standby and what         *)
(* follows.  A packet may arrive between any two steps.  A RadioLib call    *)
(* may fail: a failed start leaves the radio in standby, a failed standby   *)
(* leaves it as it was.  The delivery of events is reduced to its state, as *)
(* the loop sees it; NodeEventDelivery is its model.                        *)
(***************************************************************************)
EXTENDS DeviceRadio

VARIABLES
    pc,             \* the step of the loop
    preAck,         \* commandPreAck: "OFF", "RUNNING" or "DUE"
    retained,       \* structuredProcessor
    executeNext,    \* structuredAckThenExecute
    cachedNext,     \* structuredCachedResponseAfterAck
    saving,         \* persistenceRequests.pending() is a save or a reset
    armed,          \* quietMaintenanceAttemptArmed
    event           \* eventDelivery.state(), as the loop tells it apart

commandVars == <<preAck, retained, executeNext, cachedNext>>
saveVars == <<saving, armed>>
nodeVars == <<pc, phase, radioVars, owner, commandVars, saveVars, event, asking>>

Me == "NODE"
Peer == "HUB"
NodePhases == {"LISTENING", "TRANSMITTING_ACK", "TRANSMITTING_RESPONSE"}
NodeOwners == {"LISTENING", "EVENT_TX", "COMMAND_PRE_ACK", "COMMAND_ACK_TX",
               "COMMAND_RESPONSE_TX"}

(* setup() has succeeded: startListening() worked *)
NodeInit ==
    /\ pc = "PRE_ACK" /\ phase = "LISTENING" /\ owner = "LISTENING"
    /\ radio = "RX" /\ irq = FALSE /\ buffer = Nothing /\ faults = 0 /\ faulty = FALSE
    /\ preAck = "OFF" /\ retained = NoOperation
    /\ executeNext = FALSE /\ cachedNext = FALSE
    /\ saving \in BOOLEAN /\ armed = saving       \* loadSettings may ask for a save
    /\ event = "IDLE" /\ asking = FALSE

-----------------------------------------------------------------------------
(* The radio *)

(* startListening, after n failed calls; own is the owner until it works *)
StartListening(n, own) ==
    /\ phase' = "LISTENING" /\ irq' = FALSE
    /\ \/ Ends(n, "RX", FALSE) /\ owner' = "LISTENING"
       \/ Ends(n + 1, "STANDBY", TRUE) /\ owner' = own

(* The standby call before it worked or failed: the radio is as startReceive *)
(* leaves it in both cases                                                  *)
StandbyThenListen(own) == StartListening(0, own) \/ StartListening(1, own)

(* A packet has won the race with standby: the flag waits for the dispatch *)
YieldToPacket ==
    /\ \/ radio' = "STANDBY" /\ faulty' = FALSE /\ UNCHANGED faults
       \/ faults < MaxFaults /\ faults' = faults + 1 /\ faulty' = TRUE /\ UNCHANGED radio
    /\ UNCHANGED <<irq, buffer, phase, owner>>

-----------------------------------------------------------------------------
(* serviceCommandPreAck *)

PreAckPasses == pc = "PRE_ACK" /\ preAck # "DUE" /\ pc' = "DISPATCH"
                /\ UNCHANGED <<phase, radioVars, owner, commandVars, saveVars, event, asking>>

(* Mutant: what is to follow the acknowledgment is forgotten when it starts *)
PreAckTransmitsForgetting ==
    /\ pc = "PRE_ACK" /\ preAck = "DUE" /\ pc' = "DISPATCH" /\ preAck' = "OFF"
    /\ Ends(0, "TX", FALSE) /\ irq' = FALSE /\ owner' = "COMMAND_ACK_TX"
    /\ executeNext' = FALSE /\ cachedNext' = FALSE
    /\ UNCHANGED <<phase, retained, saveVars, event, asking>>

PreAckTransmits ==
    /\ pc = "PRE_ACK" /\ preAck = "DUE" /\ pc' = "DISPATCH" /\ preAck' = "OFF"
    /\ \/ /\ Ends(0, "TX", FALSE) /\ irq' = FALSE /\ owner' = "COMMAND_ACK_TX"
          /\ UNCHANGED <<phase, executeNext, cachedNext>>
       \/ /\ executeNext' = FALSE /\ cachedNext' = FALSE
          /\ StartListening(1, "COMMAND_ACK_TX")
    /\ UNCHANGED <<retained, saveVars, event, asking>>

-----------------------------------------------------------------------------
(* The dispatch of the interrupt *)

DispatchPasses == pc = "DISPATCH" /\ ~irq /\ pc' = "HOST"
                  /\ UNCHANGED <<phase, radioVars, owner, commandVars, saveVars, event, asking>>

EventTransmitted ==
    /\ pc = "DISPATCH" /\ irq /\ owner = "EVENT_TX" /\ pc' = "HOST"
    /\ event' = (IF event = "TX" THEN "WAIT" ELSE event)
    /\ StartListening(0, owner)
    /\ UNCHANGED <<commandVars, saveVars, asking>>

(* startStructuredResponse *)
StartResponse ==
    \/ /\ Ends(0, "TX", FALSE) /\ irq' = FALSE
       /\ phase' = "TRANSMITTING_RESPONSE" /\ owner' = "COMMAND_RESPONSE_TX"
    \/ StartListening(1, "COMMAND_RESPONSE_TX")

(* finishAcknowledgment, with beginStructuredResponseAfterAck *)
FinishAcknowledgment ==
    /\ pc = "DISPATCH" /\ irq /\ owner # "EVENT_TX" /\ phase = "TRANSMITTING_ACK"
    /\ pc' = "HOST"
    /\ IF executeNext \/ cachedNext
       THEN /\ retained' = (IF executeNext THEN Executed(retained, "OK") ELSE retained)
            /\ executeNext' = FALSE /\ cachedNext' = FALSE
            /\ StartResponse
            /\ UNCHANGED saveVars
       ELSE /\ \/ /\ saving' = FALSE /\ armed' = FALSE    \* persistence at the safe point
                  /\ StartListening(0, owner)
               \/ /\ armed' = FALSE /\ UNCHANGED saving   \* standby failed
                  /\ StartListening(1, owner)
            /\ UNCHANGED <<retained, executeNext, cachedNext>>
    /\ UNCHANGED <<preAck, event, asking>>

(* Mutant: the end of the response does not start receive *)
FinishResponseSilently ==
    /\ pc = "DISPATCH" /\ irq /\ owner # "EVENT_TX" /\ phase = "TRANSMITTING_RESPONSE"
    /\ pc' = "HOST" /\ phase' = "LISTENING" /\ owner' = "LISTENING"
    /\ Ends(0, "STANDBY", FALSE) /\ irq' = FALSE
    /\ UNCHANGED <<commandVars, saveVars, event, asking>>

(* finishStructuredResponse *)
FinishResponse ==
    /\ pc = "DISPATCH" /\ irq /\ owner # "EVENT_TX" /\ phase = "TRANSMITTING_RESPONSE"
    /\ pc' = "HOST" /\ StartListening(0, owner)
    /\ UNCHANGED <<commandVars, saveVars, event, asking>>

(* The flag is cleared before the packet is read *)
ReceiveBegins ==
    /\ pc = "DISPATCH" /\ irq /\ owner # "EVENT_TX" /\ phase = "LISTENING"
    /\ pc' = "HANDLE" /\ irq' = FALSE
    /\ UNCHANGED <<phase, radio, buffer, faults, faulty, owner, commandVars, saveVars,
                   event, asking>>

(* startAcknowledgment.  The flag is left as it is: a packet that came after *)
(* the dispatch has set it again.                                           *)
StartAcknowledgment ==
    \/ /\ Ends(0, "STANDBY", FALSE) /\ UNCHANGED irq
       /\ owner' = "COMMAND_PRE_ACK" /\ preAck' = "RUNNING" /\ phase' = "TRANSMITTING_ACK"
    \/ StartListening(1, owner) /\ UNCHANGED preAck

(* Mutant: a response left from before stays to be sent *)
AdmitKeepsCached(c, outcome) ==
    /\ retained' = (IF outcome = "ADMITTED" THEN Reserved(c) ELSE retained)
    /\ executeNext' = (outcome = "ADMITTED" \/ (executeNext /\ outcome # "DUPLICATE_COMPLETE"))
    /\ cachedNext' = (outcome = "DUPLICATE_COMPLETE" \/ cachedNext)

(* What admit() and its caller remember of a structured command *)
Admit(c, outcome) ==
    /\ retained' = (IF outcome = "ADMITTED" THEN Reserved(c) ELSE retained)
    /\ executeNext' = (outcome = "ADMITTED" \/ (executeNext /\ outcome # "DUPLICATE_COMPLETE"))
    /\ cachedNext' = (outcome = "DUPLICATE_COMPLETE" \/ (cachedNext /\ outcome # "ADMITTED"))

Structured(c) == c.type = "COMMAND" /\ c.op \in Operations
Unanswered == {"IGNORE", "ACTIVE_BUSY", "IGNORE_WRONG_DESTINATION",
               "IGNORE_WRONG_PACKET_TYPE", "IGNORE_WRONG_SENDER"}

(* The outcome for a decoded packet.  The duplicate tracker only chooses    *)
(* between two ways to acknowledge a TEST.                                  *)
OutcomeFor(c) == IF Structured(c) THEN Admission(c, Me, Peer, retained)
                 ELSE NodeVerdict(c, Me, Peer, Nothing)

(* handleReceivedPacket.  A packet that is answered takes the radio; after  *)
(* any other, resumeListening clears the flag.                              *)
HandleReceivedPacket ==
    /\ pc = "HANDLE" /\ pc' = "HOST"
    /\ LET unreadable == buffer.type \in {"BAD", "NOTHING"}
           outcome == IF unreadable THEN "IGNORE" ELSE OutcomeFor(buffer)
       IN  IF outcome \in Unanswered
           THEN StandbyThenListen(owner) /\ UNCHANGED commandVars
           ELSE /\ StartAcknowledgment
                /\ IF Structured(buffer) THEN Admit(buffer, outcome)
                   ELSE UNCHANGED <<retained, executeNext, cachedNext>>
    /\ UNCHANGED <<saveVars, event, asking>>

-----------------------------------------------------------------------------
(* serviceProductionHost *)

HostMayRun == ~irq /\ phase = "LISTENING" /\ asking

HostChecks ==
    /\ pc = "HOST" /\ pc' = (IF HostMayRun THEN "HOST_STANDBY" ELSE "MAINTENANCE")
    /\ UNCHANGED <<phase, radioVars, owner, commandVars, saveVars, event, asking>>

(* Standby fails or a packet won the race, and the host waits; or serviceRx *)
(* takes what the host has sent.  Receive starts, and the flag is cleared.  *)
HostServed ==
    /\ pc = "HOST_STANDBY" /\ pc' = "MAINTENANCE"
    /\ \/ irq /\ StandbyThenListen(owner) /\ UNCHANGED asking
       \/ ~irq /\ StartListening(1, owner) /\ UNCHANGED asking
       \/ ~irq /\ StartListening(0, owner) /\ asking' \in BOOLEAN
    /\ UNCHANGED <<commandVars, saveVars, event>>

-----------------------------------------------------------------------------
(* serviceQuietMaintenance *)

MaintenanceChecks ==
    /\ pc = "MAINTENANCE"
    /\ pc' = (IF saving /\ armed /\ phase = "LISTENING" /\ ~irq
              THEN "MAINTENANCE_STANDBY" ELSE "EVENTS")
    /\ UNCHANGED <<phase, radioVars, owner, commandVars, saveVars, event, asking>>

(* Mutant: the flag is not read again after standby *)
MaintenanceServedBlindly ==
    /\ pc = "MAINTENANCE_STANDBY" /\ pc' = "EVENTS"
    /\ saving' = FALSE /\ armed' = FALSE /\ StartListening(0, owner)
    /\ UNCHANGED <<commandVars, event, asking>>

MaintenanceServed ==
    /\ pc = "MAINTENANCE_STANDBY" /\ pc' = "EVENTS"
    /\ \/ irq /\ YieldToPacket /\ UNCHANGED saveVars   \* EVENT_PENDING
       \/ /\ ~irq /\ armed' = FALSE /\ UNCHANGED saving \* STANDBY_FAILED
          /\ StartListening(1, owner)
       \/ /\ ~irq /\ saving' = FALSE /\ armed' = FALSE  \* OWNED
          /\ StartListening(0, owner)
    /\ UNCHANGED <<commandVars, event, asking>>

-----------------------------------------------------------------------------
(* serviceNodeEvents *)

SynchronousWork == preAck # "OFF" \/ owner # "LISTENING" \/ phase # "LISTENING" \/ irq

EventsCheck ==
    /\ pc = "EVENTS" /\ ~(event = "OVER" /\ owner = "EVENT_TX")
    /\ pc' = (IF event \in {"READY", "OVER"} /\ ~SynchronousWork
              THEN "EVENT_STANDBY" ELSE "PRE_ACK")
    /\ UNCHANGED <<phase, radioVars, owner, commandVars, saveVars, event, asking>>

(* An event that is over while it owns the radio gives it back *)
EventReleases ==
    /\ pc = "EVENTS" /\ event = "OVER" /\ owner = "EVENT_TX" /\ pc' = "PRE_ACK"
    /\ StartListening(0, owner)
    /\ UNCHANGED <<commandVars, saveVars, event, asking>>

(* The packet wins: RECEIVED_PACKET_WON, or the reclaim waits *)
EventYields ==
    /\ pc = "EVENT_STANDBY" /\ irq /\ pc' = "PRE_ACK"
    /\ YieldToPacket
    /\ UNCHANGED <<commandVars, saveVars, event, asking>>

(* The records of an event that is over are reclaimed if standby worked *)
EventReclaimed ==
    /\ pc = "EVENT_STANDBY" /\ ~irq /\ event = "OVER" /\ pc' = "PRE_ACK"
    /\ \/ StartListening(0, owner) /\ event' = "IDLE"
       \/ StartListening(1, owner) /\ event' = "OVER"
    /\ UNCHANGED <<commandVars, saveVars, asking>>

(* The event is transmitted, unless standby or the start fails, or the      *)
(* grant finds that it is over                                              *)
EventTransmits ==
    /\ pc = "EVENT_STANDBY" /\ ~irq /\ event = "READY" /\ pc' = "PRE_ACK"
    /\ \/ /\ Ends(0, "TX", FALSE) /\ irq' = FALSE /\ owner' = "EVENT_TX" /\ event' = "TX"
          /\ UNCHANGED phase
       \/ StartListening(1, owner) /\ UNCHANGED event
       \/ StartListening(0, "EVENT_TX") /\ event' = "OVER"
       \/ StartListening(1, "EVENT_TX") /\ event' = "IDLE"
    /\ UNCHANGED <<commandVars, saveVars, asking>>

NodeLoop ==
    \/ PreAckPasses \/ PreAckTransmits
    \/ DispatchPasses \/ EventTransmitted \/ FinishAcknowledgment \/ FinishResponse
    \/ ReceiveBegins \/ HandleReceivedPacket
    \/ HostChecks \/ HostServed \/ MaintenanceChecks \/ MaintenanceServed
    \/ EventsCheck \/ EventReleases \/ EventYields \/ EventReclaimed \/ EventTransmits

-----------------------------------------------------------------------------
(* The world *)

nodeOthers == <<pc, phase, faults, faulty, owner, retained, executeNext, cachedNext>>

NodePacketArrives ==
    /\ radio = "RX" /\ buffer' \in Inbound /\ irq' = TRUE
    /\ UNCHANGED <<nodeOthers, radio, preAck, saveVars, event, asking>>

(* The end of a transmission nobody waits for is read as a packet *)
NodeTransmissionEnds ==
    /\ radio = "TX" /\ radio' = "STANDBY" /\ irq' = TRUE
    /\ buffer' \in IF owner = "EVENT_TX" \/ phase # "LISTENING" THEN {Nothing} ELSE Inbound
    /\ UNCHANGED <<nodeOthers, preAck, saveVars, event, asking>>

PreAckElapses ==
    /\ preAck = "RUNNING" /\ preAck' = "DUE"
    /\ UNCHANGED <<nodeOthers, radio, irq, buffer, saveVars, event, asking>>

(* A producer, the clock or an admission moves the event *)
EventMoves ==
    /\ event' \in IF event = "IDLE" THEN {"READY"}
                  ELSE IF event = "WAIT" THEN {"IDLE", "OVER"}
                  ELSE IF event \in {"READY", "TX"} THEN {"OVER"} ELSE {}
    /\ UNCHANGED <<nodeOthers, radio, irq, buffer, preAck, saveVars, asking>>

(* The button asks for a save or a reset *)
SaveRequested ==
    /\ ~saving /\ saving' = TRUE /\ armed' = TRUE
    /\ UNCHANGED <<nodeOthers, radio, irq, buffer, preAck, event, asking>>

NodeHostSends ==
    /\ ~asking /\ asking' = TRUE
    /\ UNCHANGED <<nodeOthers, radio, irq, buffer, preAck, saveVars, event>>

NodeNext == NodeLoop \/ NodePacketArrives \/ NodeTransmissionEnds \/ PreAckElapses
            \/ EventMoves \/ SaveRequested \/ NodeHostSends

NodeSpec == NodeInit /\ [][NodeNext]_nodeVars

-----------------------------------------------------------------------------
(* Safety *)

(* Every variable has its type. *)
NodeTypeOK ==
    /\ phase \in NodePhases /\ owner \in NodeOwners /\ radio \in Modes
    /\ preAck \in {"OFF", "RUNNING", "DUE"} /\ event \in {"IDLE", "READY", "TX", "WAIT", "OVER"}
    /\ {irq, faulty, executeNext, cachedNext, saving, armed, asking} \subseteq BOOLEAN
    /\ buffer \in Inbound \cup {Nothing} /\ faults \in 0 .. MaxFaults

(* Unless the last RadioLib call failed, the radio does what its owner says: *)
(* the Node listens when no one owns the radio, transmits for a command or   *)
(* an event that owns it, and is in standby only for the delay before an     *)
(* acknowledgment.  A service that is over leaves no one waiting.            *)
RadioFollowsOwner ==
    ~irq /\ ~faulty /\ pc # "HANDLE" =>
        /\ owner = "LISTENING" => radio = "RX"
        /\ owner \in {"EVENT_TX", "COMMAND_ACK_TX", "COMMAND_RESPONSE_TX"} => radio = "TX"
        /\ owner = "COMMAND_PRE_ACK" => preAck # "OFF"

(* What is to follow the acknowledgment exists: an operation to execute is   *)
(* reserved and not executed, and a response to repeat is complete.  So      *)
(* beginStructuredResponseAfterAck never returns without a response, which   *)
(* would leave the Node waiting for the end of an ACK that has ended.        *)
ResponseIsThere ==
    /\ executeNext => Active(retained)
    /\ cachedNext => retained.complete

(* Owner, radio and retained operation agree after every service (the       *)
(* command path, maintenance, host and events in any order).                *)
OwnersAgree == NodeTypeOK /\ RadioFollowsOwner /\ ResponseIsThere

(* A command never takes the place of an operation that is still active     *)
(* (admit), and maintenance and events yield to a packet that arrives while *)
(* they take the radio: its interrupt waits for the dispatch.               *)
NothingIsDisplaced ==
    [][/\ irq /\ (pc = "MAINTENANCE_STANDBY" \/ pc = "EVENT_STANDBY") => irq'
       /\ Active(retained) => retained'.command = retained.command]_nodeVars

-----------------------------------------------------------------------------
(* What a comment and a document say, and the code does not *)

(* The acknowledgment that is finished has been transmitted. *)
FinishedAckWasSent == [][FinishAcknowledgment => preAck = "OFF"]_nodeVars

(* An operation that is still active has an execution to come, which owns    *)
(* its response.                                                             *)
ActiveWillExecute == Active(retained) => executeNext

-----------------------------------------------------------------------------
(* Liveness.  The loop runs, the delay passes and a started transmission     *)
(* ends.  Packets may keep arriving, but not before every single pass: a     *)
(* packet is on the air for many passes of the loop.                         *)

Quiet == radio = "RX" /\ ~irq
NodeFairness ==
    /\ WF_nodeVars(NodeLoop) /\ WF_nodeVars(NodeTransmissionEnds)
    /\ WF_nodeVars(PreAckElapses)
    /\ SF_nodeVars(HostChecks /\ Quiet) /\ SF_nodeVars(HostServed /\ Quiet)
    /\ SF_nodeVars(MaintenanceChecks /\ Quiet) /\ SF_nodeVars(MaintenanceServed /\ Quiet)
NodeLiveSpec == NodeSpec /\ NodeFairness

(* An operation the Node has admitted is executed, unless a radio call      *)
(* failed (then ActiveWillExecute is the question).                         *)
OperationExecuted == Active(retained) ~> (~Active(retained) \/ faults > 0)

(* The Node comes back to receive, unless startReceive has failed, and a     *)
(* save that was asked for is attempted, however busy the radio is.          *)
ServicesComeRound ==
    /\ []<>((phase = "LISTENING" /\ radio = "RX") \/ faults > 0)
    /\ (saving /\ armed) ~> (~armed \/ faults > 0)
=============================================================================
