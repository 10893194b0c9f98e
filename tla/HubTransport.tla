---------------------------- MODULE HubTransport ----------------------------
(***************************************************************************)
(* The Hub's radio dispatcher (src-tx/main.cpp): one radio shared by the    *)
(* periodic TEST transaction, the structured operations a host asks for,    *)
(* the admission of events (hub_event_radio.h) and the restoration of       *)
(* receive when a transaction is released (hub_receive_release.h).          *)
(*                                                                         *)
(* The loop calls serviceProductionHost, then serviceHubTransport; each is  *)
(* one action, however many functions it calls.  The interrupt handler runs *)
(* between any two steps, and inside one where the code reads the flag      *)
(* again.  Every RadioLib call may fail: a failed start leaves the radio in *)
(* standby, a failed standby leaves it as it was.  What the Node sends is   *)
(* arbitrary: any packet of Inbound may arrive while the radio receives.    *)
(***************************************************************************)
EXTENDS DeviceRadio

VARIABLES
    txn,          \* transactionState
    bridge,       \* hostStack.lifecycle().remoteBridge()
    structured,   \* hostStructuredOwner
    saved,        \* hubRadioArbiter.savedOwner_
    eventAck,     \* eventAckTxActive
    prior,        \* eventAckPriorPhase
    due,          \* nextTransmitAt has passed
    turn          \* the service the loop calls next

arbiterVars == <<owner, saved, eventAck, prior>>
hubVars == <<phase, radioVars, txn, bridge, structured, arbiterVars,
             due, asking, turn>>

Hub == "HUB"
Node == "NODE"
HubPhases == {"IDLE", "TRANSMITTING", "WAITING_FOR_ACK", "WAITING_FOR_RESPONSE"}
HubOwners == {"IDLE_RECEIVE", "COMMAND_TX", "COMMAND_WAIT_ACK", "COMMAND_WAIT_RESPONSE",
              "EVENT_ACK_TX"}

(* prepareCommand *)
TestCommand == Packet("COMMAND", Hub, Node, txn.seq, "TEST", "NONE", 0)
HostCommand == Packet("COMMAND", Hub, Node, bridge.next, "PING", "NONE", 0)

(* setup() has called restoreHubReceive(IDLE), whose result it ignores *)
HubInit ==
    /\ phase = "IDLE" /\ irq = FALSE /\ buffer = Nothing
    /\ \/ radio = "RX" /\ faults = 0 /\ faulty = FALSE
       \/ MaxFaults > 0 /\ radio = "STANDBY" /\ faults = 1 /\ faulty = TRUE
    /\ txn = FirstTransaction /\ bridge = IdleBridge /\ structured = FALSE
    /\ owner = "IDLE_RECEIVE" /\ saved = "IDLE_RECEIVE"
    /\ eventAck = FALSE /\ prior = "IDLE"
    /\ due = FALSE /\ asking = FALSE /\ turn = "HOST"

-----------------------------------------------------------------------------
(* RadioLib, as the handlers use it.  A handler ends with its last call     *)
(* working or failing, the flag clear and the packet, if any, consumed; or  *)
(* with a packet that arrived while it ran.                                 *)

Works(mode) == Ends(0, mode, FALSE) /\ irq' = FALSE

(* n calls fail, the last call of the handler among them if last is TRUE *)
Fail(n, mode, last) == Ends(n, mode, last) /\ irq' = FALSE
Fails(mode) == Fail(1, mode, TRUE)
FailsOnceOrTwice == Fail(1, "RX", FALSE) \/ Fail(2, "STANDBY", TRUE)

Interrupted(mode) ==
    /\ radio = "RX" /\ radio' = mode
    /\ irq' = TRUE /\ buffer' \in Inbound
    /\ faulty' = FALSE /\ UNCHANGED faults

(* restoreHubReceive: p is the phase to restore, q the phase on entry *)
RestoreHubReceive(p, q) ==
    \/ Works("RX") /\ phase' = p
    \/ Fails("STANDBY") /\ phase' = q

(* restoreReleasedTransactionReceive, the radio being in mode m.  The flag  *)
(* is never cleared here: a packet that has set it waits for the dispatcher *)
RestoreReleased(m) ==
    /\ phase' = "IDLE"
    /\ \/ Works("RX")
       \/ Fails(m)                       \* STANDBY_FAILED
       \/ Fails("STANDBY")               \* RECEIVE_FAILED
       \/ m = "RX" /\ Interrupted("RX")  \* PENDING_IRQ
       \/ Interrupted("STANDBY")         \* PENDING_IRQ, after standby

-----------------------------------------------------------------------------
(* The end of a TEST attempt *)

(* scheduleNextTransaction *)
ScheduleNext(m) == due' = FALSE /\ RestoreReleased(m)

(* completeAndScheduleNextTransaction *)
CompleteAndSchedule(m) == txn' = Complete(txn) /\ ScheduleNext(m)

(* scheduleRetryOrNext: attemptFailed is applied to the TEST transaction    *)
(* whoever owns the radio                                                   *)
ScheduleRetryOrNext(m) == txn' = AttemptFailed(txn) /\ ScheduleNext(m)

(* startReceive or startTransmit has failed, and scheduleRetryOrNext tries  *)
(* receive                                                                  *)
FailAttempt(p) ==
    /\ txn' = AttemptFailed(txn) /\ due' = FALSE /\ phase' = p
    /\ FailsOnceOrTwice

(* startAckReceive, then the phase the caller sets *)
StartAckReceive(resetDeadline, next) ==
    \/ /\ Works("RX") /\ phase' = next
       /\ txn' = (IF resetDeadline THEN BeginWait(txn) ELSE txn)
       /\ UNCHANGED due
    \/ FailAttempt(IF next = "WAITING_FOR_RESPONSE" THEN next ELSE "IDLE")

(* continueWaitingForAck *)
ContinueWaiting ==
    IF WaitOver(txn) THEN ScheduleRetryOrNext("STANDBY")
    ELSE StartAckReceive(FALSE, "WAITING_FOR_ACK")

-----------------------------------------------------------------------------
(* Events: HubAdapter::process has decided, and the ledger has committed *)

OwnerOf(p) == IF p = "WAITING_FOR_ACK" THEN "COMMAND_WAIT_ACK"
              ELSE IF p = "WAITING_FOR_RESPONSE" THEN "COMMAND_WAIT_RESPONSE"
              ELSE "IDLE_RECEIVE"

(* startEventAdmissionAck *)
StartEventAck(p) ==
    \/ /\ Works("TX") /\ eventAck' = TRUE /\ prior' = p
       /\ owner' = "EVENT_ACK_TX" /\ saved' = OwnerOf(p) /\ UNCHANGED phase
    \/ /\ owner' = OwnerOf(p) /\ UNCHANGED <<eventAck, saved, prior>>
       /\ FailsOnceOrTwice /\ phase' = (IF radio' = "RX" THEN p ELSE phase)

(* processEventBytes, restoring receive when there is nothing to answer: a  *)
(* packet that is no event, a ledger that is not recovered or has failed    *)
ProcessEvent(packet, p) ==
    /\ \/ packet.type = "EVENT" /\ StartEventAck(p)
       \/ RestoreHubReceive(p, phase) /\ UNCHANGED arbiterVars
    /\ UNCHANGED <<txn, bridge, structured, due>>

(* Mutant: a failed restoration keeps the admission's ownership *)
FinishEventAckKeeps ==
    /\ \/ /\ Works("RX") /\ phase' = prior /\ eventAck' = FALSE /\ owner' = saved
          /\ saved' = "IDLE_RECEIVE" /\ prior' = "IDLE"
       \/ Fails("STANDBY") /\ UNCHANGED <<phase, arbiterVars>>
    /\ UNCHANGED <<txn, bridge, structured, due>>

(* finishEventAdmissionAck.  What it restores is not read again. *)
FinishEventAck ==
    /\ eventAck' = FALSE /\ owner' = saved /\ saved' = "IDLE_RECEIVE" /\ prior' = "IDLE"
    /\ RestoreHubReceive(prior, phase)
    /\ UNCHANGED <<txn, bridge, structured, due>>

-----------------------------------------------------------------------------
(* Structured operations *)

(* What an operation that is over leaves in the bridge is not read again *)
Settled(b) == IF b.active THEN b
              ELSE [IdleBridge EXCEPT !.next = b.next, !.support = b.support]

(* startHostStructuredTransmission.  A failed start leaves the phase and    *)
(* the ownership as if it had started.                                      *)
StartStructured ==
    /\ phase' = "TRANSMITTING" /\ structured' = TRUE
    /\ \/ Works("TX") /\ owner' = "COMMAND_TX"
       \/ Fails("STANDBY") /\ UNCHANGED <<owner>>
    /\ UNCHANGED <<txn, saved, eventAck, prior, due>>

(* finishHostStructuredOwnership *)
FinishStructured(m) ==
    /\ structured' = FALSE /\ owner' = "IDLE_RECEIVE"
    /\ ScheduleNext(m)
    /\ UNCHANGED <<txn, saved, eventAck, prior>>

-----------------------------------------------------------------------------
(* serviceProductionHost *)

HostMayAcquire ==
    /\ phase = "IDLE" \/ structured
    /\ asking /\ owner = "IDLE_RECEIVE" /\ ~irq       \* commandMayAcquire

HostPasses == ~HostMayAcquire /\ turn' = "TRANSPORT"
              /\ UNCHANGED <<phase, radioVars, txn, bridge, structured,
                             arbiterVars, due, asking>>

(* standby fails, or a packet has won the race with it *)
HostLosesRadio ==
    /\ HostMayAcquire
    /\ Fails(radio) \/ Interrupted("STANDBY")
    /\ UNCHANGED <<phase, txn, bridge, structured, arbiterVars, due, asking>>

(* serviceRx starts an operation on the Node *)
HostStartsOperation ==
    /\ HostMayAcquire /\ phase = "IDLE" /\ ~bridge.active /\ MayStart(bridge, "PING")
    /\ bridge' = Submitted(bridge, HostCommand)
    /\ StartStructured
    /\ asking' \in BOOLEAN

(* serviceRx answers by itself, or waits for the rest of the request *)
HostAnswered ==
    /\ HostMayAcquire
    /\ IF phase = "IDLE" THEN RestoreHubReceive("IDLE", "IDLE")
       ELSE radio' = "STANDBY" /\ UNCHANGED <<phase, irq, buffer, faults, faulty>>
    /\ asking' \in BOOLEAN
    /\ UNCHANGED <<txn, bridge, structured, arbiterVars, due>>

ServiceProductionHost ==
    /\ turn = "HOST" /\ turn' = "TRANSPORT"
    /\ \/ HostPasses \/ HostLosesRadio \/ HostStartsOperation \/ HostAnswered

-----------------------------------------------------------------------------
(* serviceHubTransport *)

EventAckDone == eventAck /\ irq /\ FinishEventAck /\ UNCHANGED asking

(* serviceRemote at the deadline: RETRANSMIT or TIMEOUT.  It is asked while *)
(* no interrupt is pending, whatever the phase is.                          *)
RemoteDeadline ==
    /\ ~eventAck /\ structured /\ ~irq /\ bridge.expired
    /\ bridge' = Settled(Serviced(bridge))
    /\ IF bridge'.active THEN StartStructured ELSE FinishStructured(radio)
    /\ UNCHANGED asking

(* processIdleInbound *)
IdleInbound ==
    /\ ~eventAck /\ phase = "IDLE" /\ irq
    /\ ProcessEvent(buffer, "IDLE")
    /\ UNCHANGED asking

MayTransmit == ~eventAck /\ phase = "IDLE" /\ ~structured /\ ~irq /\ due

(* The next TEST is due, but standby fails or a packet wins the race *)
TransmitYields ==
    /\ MayTransmit
    /\ \/ /\ FailsOnceOrTwice
          /\ phase' = "IDLE"
          /\ UNCHANGED <<txn, bridge, structured, arbiterVars, due>>
       \/ /\ radio = "RX"
          /\ \E packet \in Inbound : ProcessEvent(packet, "IDLE")
    /\ UNCHANGED asking

(* startCommandTransmission *)
StartCommand ==
    /\ MayTransmit
    /\ \/ /\ Works("TX") /\ phase' = "TRANSMITTING"
          /\ UNCHANGED <<txn, due>>
       \/ FailAttempt("IDLE")
    /\ UNCHANGED <<bridge, structured, arbiterVars, asking>>

(* handleAckTimeout *)
AckTimeout ==
    /\ ~eventAck /\ ~structured /\ ~irq /\ phase = "WAITING_FOR_ACK" /\ WaitOver(txn)
    /\ ScheduleRetryOrNext(radio)
    /\ UNCHANGED <<bridge, structured, arbiterVars, asking>>

(* Mutant: a structured command starts the TEST deadline *)
TransmittedResetting ==
    /\ ~eventAck /\ irq /\ phase = "TRANSMITTING"
    /\ owner' = (IF structured THEN "COMMAND_WAIT_ACK" ELSE owner)
    /\ StartAckReceive(TRUE, "WAITING_FOR_ACK")
    /\ UNCHANGED <<bridge, structured, saved, eventAck, prior, asking>>

(* A command has been transmitted *)
Transmitted ==
    /\ ~eventAck /\ irq /\ phase = "TRANSMITTING"
    /\ owner' = (IF structured THEN "COMMAND_WAIT_ACK" ELSE owner)
    /\ StartAckReceive(~structured, "WAITING_FOR_ACK")
    /\ UNCHANGED <<bridge, structured, saved, eventAck, prior, asking>>

Waiting == ~eventAck /\ irq /\ phase \in {"WAITING_FOR_ACK", "WAITING_FOR_RESPONSE"}
Unreadable == buffer.type \in {"BAD", "NOTHING"}

(* processAcknowledgment, by what was received *)
ReceivedNoise ==
    /\ Waiting /\ Unreadable /\ ContinueWaiting
    /\ UNCHANGED <<bridge, structured, arbiterVars, asking>>

ReceivedEvent ==
    /\ Waiting /\ buffer.type = "EVENT" /\ ProcessEvent(buffer, phase)
    /\ UNCHANGED asking

ReceivedStructured ==
    /\ Waiting /\ ~Unreadable /\ buffer.type # "EVENT" /\ structured
    /\ bridge' = Settled(Received(bridge, buffer))
    /\ IF ~bridge'.active THEN FinishStructured("RX")
       ELSE LET responding == \/ phase = "WAITING_FOR_RESPONSE"
                              \/ MatchesCommand(buffer, bridge.command)
                                 /\ buffer.body = "SUCCESS"
            IN  /\ StartAckReceive(FALSE, IF responding THEN "WAITING_FOR_RESPONSE"
                                          ELSE "WAITING_FOR_ACK")
                /\ owner' = (IF responding THEN "COMMAND_WAIT_RESPONSE" ELSE owner)
                /\ UNCHANGED <<structured, saved, eventAck, prior>>
    /\ UNCHANGED asking

ReceivedTest ==
    /\ Waiting /\ ~Unreadable /\ buffer.type # "EVENT" /\ ~structured
    /\ IF MatchesCommand(buffer, TestCommand) THEN CompleteAndSchedule("RX")
       ELSE ContinueWaiting
    /\ UNCHANGED <<bridge, structured, arbiterVars, asking>>

TransportPasses ==
    /\ \/ eventAck /\ ~irq
       \/ ~eventAck /\ structured /\ ~irq /\ ~bridge.expired
       \/ ~eventAck /\ ~structured /\ ~irq /\ phase = "IDLE" /\ ~due
       \/ ~eventAck /\ ~structured /\ ~irq /\ phase # "IDLE"
          /\ ~(phase = "WAITING_FOR_ACK" /\ WaitOver(txn))
    /\ UNCHANGED <<phase, radioVars, txn, bridge, structured, arbiterVars,
                   due, asking>>

ServiceHubTransport ==
    /\ turn = "TRANSPORT" /\ turn' = "HOST"
    /\ \/ EventAckDone \/ RemoteDeadline \/ IdleInbound \/ TransmitYields \/ StartCommand
       \/ AckTimeout \/ Transmitted \/ ReceivedNoise \/ ReceivedEvent \/ ReceivedStructured
       \/ ReceivedTest \/ TransportPasses

-----------------------------------------------------------------------------
(* The world: the Node, the clock and the host *)

hubOthers == <<phase, structured, arbiterVars, faults, faulty, turn>>

HubPacketArrives ==
    /\ radio = "RX" /\ buffer' \in Inbound /\ irq' = TRUE
    /\ UNCHANGED <<hubOthers, radio, txn, bridge, due, asking>>

(* The end of a transmission nobody waits for is read as a packet *)
HubTransmissionEnds ==
    /\ radio = "TX" /\ radio' = "STANDBY" /\ irq' = TRUE
    /\ buffer' \in IF eventAck \/ phase = "TRANSMITTING" THEN {Nothing} ELSE Inbound
    /\ UNCHANGED <<hubOthers, txn, bridge, due, asking>>

AckDeadline ==
    /\ txn.awaiting /\ ~txn.expired /\ txn' = [txn EXCEPT !.expired = TRUE]
    /\ UNCHANGED <<hubOthers, radio, irq, buffer, bridge, due, asking>>

OperationDeadline ==
    /\ bridge.active /\ ~bridge.expired /\ bridge' = [bridge EXCEPT !.expired = TRUE]
    /\ UNCHANGED <<hubOthers, radio, irq, buffer, txn, due, asking>>

IntervalPasses ==
    /\ ~due /\ due' = TRUE
    /\ UNCHANGED <<hubOthers, radio, irq, buffer, txn, bridge, asking>>

HubHostSends ==
    /\ ~asking /\ asking' = TRUE
    /\ UNCHANGED <<hubOthers, radio, irq, buffer, txn, bridge, due>>

HubLoop == ServiceProductionHost \/ ServiceHubTransport
Clock == AckDeadline \/ OperationDeadline \/ IntervalPasses
HubNext == HubLoop \/ Clock \/ HubPacketArrives \/ HubTransmissionEnds \/ HubHostSends

HubSpec == HubInit /\ [][HubNext]_hubVars

-----------------------------------------------------------------------------
(* Safety *)

(* Every variable has its type. *)
HubTypeOK ==
    /\ {phase, prior} \subseteq HubPhases /\ {owner, saved} \subseteq HubOwners
    /\ radio \in Modes /\ turn \in {"HOST", "TRANSPORT"}
    /\ {irq, faulty, structured, eventAck, due, asking} \subseteq BOOLEAN
    /\ faults \in 0 .. MaxFaults /\ buffer \in Inbound \cup {Nothing}
    /\ txn.seq \in Sequences8 /\ txn.retries \in 0 .. MaxRetries
    /\ bridge.next \in Sequences8 /\ bridge.retries \in 0 .. MaxRetries

(* Unless the last RadioLib call failed, the radio does what the phase      *)
(* says: it transmits while a command or an admission is on the air, and    *)
(* receives otherwise.  No order of host requests, events and deadlines     *)
(* leaves the Hub deaf, or waiting for a transmission it did not start.     *)
RadioFollowsPhase ==
    ~irq /\ ~faulty =>
        radio = IF eventAck \/ phase = "TRANSMITTING" THEN "TX" ELSE "RX"

(* The host's operation in flight is the one the dispatcher serves: the     *)
(* bridge is active exactly while hostStructuredOwner is set.  Otherwise    *)
(* its deadline is never looked at, or the dispatcher serves nothing and    *)
(* sends no TEST again.                                                     *)
BridgeServed == bridge.active <=> structured

(* While the host's operation owns the radio no TEST attempt is waiting, so *)
(* no TEST timeout can take the radio from it.                              *)
OneTransactionWaits == structured => ~txn.awaiting

(* Nothing received, and nothing that shares the radio, moves a deadline:   *)
(* a wait that has reached its deadline stays there until it ends.          *)
DeadlinesStay ==
    /\ txn.expired /\ txn.awaiting /\ txn'.awaiting => txn'.expired
    /\ bridge.expired /\ bridge.active /\ bridge'.active => bridge'.expired

(* A TEST or the admission of an event, once on the air, is never cut off   *)
(* by the host, a deadline or another event: it ends with the interrupt.    *)
TransmissionsEndByThemselves ==
    radio = "TX" /\ (eventAck \/ ~structured) /\ ~faulty => radio' = "TX" \/ irq'

(* The Node's RESPONSE to the operation in flight, if its payload decodes,  *)
(* ends it, whether or not its ACK was heard and whatever was received      *)
(* before.                                                                  *)
ResponseEndsOperation ==
    turn = "TRANSPORT" /\ turn' = "HOST" /\ irq /\ buffer.type = "RESPONSE"
    /\ buffer.body \notin {"BAD", "UNDEFINED"}
    /\ ~eventAck /\ faults = 0 /\ Answers(bridge, buffer) => ~bridge'.active

(* The state of the Hub agrees on who is served (startHostStructured...,    *)
(* startEventAdmissionAck, restoreHubReceive and the deadlines in any order) *)
OwnershipAgrees == HubTypeOK /\ RadioFollowsPhase /\ BridgeServed /\ OneTransactionWaits

(* Traffic on the shared radio moves no deadline, cuts no transmission      *)
(* short, and hides no RESPONSE (processAcknowledgment, processEventBytes). *)
TrafficIsHarmless ==
    [][DeadlinesStay /\ TransmissionsEndByThemselves /\ ResponseEndsOperation]_hubVars

-----------------------------------------------------------------------------
(* What comments and documents say, and the code does not *)

(* A released transaction has released its command owner. *)
OwnerReleased == phase = "IDLE" /\ ~eventAck /\ ~structured => owner = "IDLE_RECEIVE"

(* No command is transmitted again after the operation's deadline. *)
NoRetryAfterDeadline == [][bridge'.retries > bridge.retries => ~bridge.expired]_hubVars

(* The TEST sequence moves only at the end of a TEST, never while the radio *)
(* belongs to the host's operation.                                         *)
TestEndsItself == [][txn'.seq # txn.seq => ~structured]_hubVars

(* A matching ACK with an undefined status does not end the TEST. *)
UndefinedStatusIgnored ==
    [][ReceivedTest /\ buffer.body = "UNDEFINED" => txn'.seq = txn.seq]_hubVars

-----------------------------------------------------------------------------
(* Liveness.  The loop runs, the clock passes and a started transmission    *)
(* ends.  Packets may keep arriving, but not before every single pass: a    *)
(* packet is on the air for many passes of the loop.                        *)

HubFairness ==
    /\ WF_hubVars(HubLoop) /\ WF_hubVars(HubTransmissionEnds)
    /\ WF_hubVars(AckDeadline) /\ WF_hubVars(OperationDeadline)
    /\ WF_hubVars(IntervalPasses)
    /\ SF_hubVars(ServiceProductionHost /\ radio = "RX" /\ ~irq /\ ~irq')
    /\ SF_hubVars(ServiceHubTransport /\ (AckTimeout \/ RemoteDeadline))
HubLiveSpec == HubSpec /\ HubFairness

(* An operation the host has started ends, and so does the wait of a TEST   *)
(* attempt, in spite of failing radio calls, events that share the radio    *)
(* and answers that never come.                                             *)
TransactionsEnd ==
    (bridge.active ~> ~bridge.active) /\ (txn.awaiting ~> ~txn.awaiting)

(* Once the radio calls work again, the Hub comes back to receive, with no  *)
(* restart of its own: the next TEST or the next deadline brings it back.   *)
ReceivesAgain == []<>(radio = "RX")
=============================================================================
