--------------------------- MODULE WireTransaction ---------------------------
(***************************************************************************)
(* The transaction engines of the two devices, as operators on their state: *)
(* the Hub's TEST transaction and the Node's duplicate tracker              *)
(* (transaction_engine.h), the Hub's structured transaction and the Node's  *)
(* retained operation (wire_transaction_state.h), and the bridge between    *)
(* them and the host (radio_operation_bridge.h).                            *)
(*                                                                         *)
(* A packet is a record.  Its opcode is "TEST", a structured operation, or  *)
(* "UNKNOWN"; its body is a request, an acknowledgment status or a result,  *)
(* "BAD" when the bytes do not decode.  A deadline is a Boolean: whether    *)
(* the clock has reached it.  The origin of a packet is history: the        *)
(* operation it is about, which the two devices cannot see.                 *)
(***************************************************************************)
EXTENDS Naturals

CONSTANTS SequenceRange,   \* 2^8: sequences are uint8_t
          MaxRetries,      \* DEFAULT_MAX_RETRIES
          Operations       \* structured opcodes; "PING" is one of them

ASSUME WireAssumption ==
    /\ SequenceRange \in Nat /\ SequenceRange > 1
    /\ MaxRetries \in Nat
    /\ "PING" \in Operations /\ {"TEST", "UNKNOWN"} \cap Operations = {}

Sequences8 == 0 .. SequenceRange - 1

NextSequence(s) == (s + 1) % SequenceRange

Opcodes == Operations \cup {"TEST", "UNKNOWN"}

(* AckStatus; "UNDEFINED" is any other byte *)
AckStatuses == {"SUCCESS", "UNSUPPORTED_OPCODE", "MALFORMED_PACKET"}

Nothing == [type |-> "NOTHING"]
Packet(type, from, to, seq, op, body, origin) ==
    [type |-> type, from |-> from, to |-> to, seq |-> seq, op |-> op, body |-> body,
     origin |-> origin]

(* makeAcknowledgment *)
Acknowledgment(c, status) == Packet("ACK", c.to, c.from, c.seq, c.op, status, c.origin)

-----------------------------------------------------------------------------
(* HubTransactionState *)

FirstTransaction == [seq |-> 1, retries |-> 0, awaiting |-> FALSE, expired |-> FALSE]

BeginWait(t) == [t EXCEPT !.awaiting = TRUE, !.expired = FALSE]

WaitOver(t) == t.awaiting /\ t.expired

Complete(t) == [t EXCEPT !.seq = NextSequence(@), !.retries = 0, !.awaiting = FALSE,
                             !.expired = FALSE]

(* attemptFailed, and completeTransaction when no retry is left *)
AttemptFailed(t) ==
    IF t.retries < MaxRetries
    THEN [t EXCEPT !.retries = @ + 1, !.awaiting = FALSE, !.expired = FALSE]
    ELSE Complete(t)

(* evaluateHubAcknowledgment: MATCHING_ACK *)
MatchesCommand(a, c) ==
    /\ a.type = "ACK" /\ a.from = c.to /\ a.to = c.from
    /\ a.seq = c.seq /\ a.op = c.op /\ a.body # "BAD"

-----------------------------------------------------------------------------
(* HubStructuredOperationBridge with its HubStructuredTransaction.  "done"  *)
(* is what the host is told of the last operation.                          *)

IdleBridge == [active |-> FALSE, next |-> 0, command |-> Nothing, acked |-> FALSE,
               retries |-> 0, expired |-> FALSE, support |-> "UNKNOWN", done |-> Nothing]

(* mayStartStructuredOperation *)
MayStart(b, op) == b.support = "SUPPORTED" \/ (b.support = "UNKNOWN" /\ op = "PING")

(* submit of an operation on the peer, accepted *)
Submitted(b, c) ==
    [b EXCEPT !.active = TRUE, !.command = c, !.acked = FALSE, !.retries = 0,
              !.expired = FALSE, !.done = Nothing]

Outcome(class, origin) == [class |-> class, origin |-> origin]
Finished(b, outcome) ==
    [b EXCEPT !.active = FALSE, !.next = NextSequence(@), !.done = outcome]

(* Mutant: the sequence of the answer is not compared *)
AnswersAnySequence(b, p) ==
    /\ b.active /\ p.from = b.command.to /\ p.to = b.command.from /\ p.op = b.command.op

(* receive: the packet is about the active command *)
Answers(b, p) ==
    /\ b.active /\ p.from = b.command.to /\ p.to = b.command.from
    /\ p.seq = b.command.seq /\ p.op = b.command.op

(* Mutant: the acceptance starts the deadline again *)
ReceivedExtends(b, p) ==
    IF ~Answers(b, p) \/ p.body \in {"BAD", "UNDEFINED"} THEN b
    ELSE IF p.type = "ACK" THEN [b EXCEPT !.acked = TRUE, !.expired = FALSE]
    ELSE Finished(b, Outcome("OPERATION_RESULT", p.origin))

(* receive *)
Received(b, p) ==
    IF ~Answers(b, p) \/ p.body \in {"BAD", "UNDEFINED"} THEN b
    ELSE IF p.type = "ACK" /\ p.body = "SUCCESS" THEN [b EXCEPT !.acked = TRUE]
    ELSE IF p.type = "ACK"
    THEN [Finished(b, Outcome("REMOTE_REJECTED", p.origin))
             EXCEPT !.support = IF p.op = "PING" /\ p.body = "UNSUPPORTED_OPCODE"
                                THEN "UNSUPPORTED" ELSE @]
    ELSE IF p.type = "RESPONSE"
    THEN [Finished(b, Outcome("OPERATION_RESULT", p.origin))
             EXCEPT !.support = "SUPPORTED"]
    ELSE b

(* Mutant: the retries are not bounded *)
ServicedForever(b) == [b EXCEPT !.retries = IF @ < MaxRetries THEN @ + 1 ELSE @]

(* service, at the deadline: another transmission, or the end *)
Serviced(b) ==
    IF b.retries < MaxRetries THEN [b EXCEPT !.retries = @ + 1]
    ELSE Finished(b, Outcome("TIMEOUT", b.command.origin))

-----------------------------------------------------------------------------
(* NodeDuplicateTracker and evaluateNodeCommand.  The tracker is the last   *)
(* TEST command, or Nothing.                                                *)

(* Mutant: the sequence is not compared *)
SameCommandAnySequence(c, d) == d.type = "COMMAND" /\ c.from = d.from /\ c.op = d.op

(* isDuplicate: source, sequence, opcode and payload *)
SameCommand(c, d) ==
    /\ d.type = "COMMAND" /\ c.from = d.from /\ c.seq = d.seq
    /\ c.op = d.op /\ c.body = d.body

(* evaluateNodeCommand *)
NodeVerdict(c, me, peer, tracker) ==
    IF c.to # me THEN "IGNORE_WRONG_DESTINATION"
    ELSE IF c.type # "COMMAND" THEN "IGNORE_WRONG_PACKET_TYPE"
    ELSE IF c.from # peer THEN "IGNORE_WRONG_SENDER"
    ELSE IF c.op # "TEST" THEN "UNSUPPORTED_OPCODE"
    ELSE IF c.body = "BAD" THEN "MALFORMED_PACKET"
    ELSE IF SameCommand(c, tracker) THEN "DUPLICATE"
    ELSE "SUCCESS"

-----------------------------------------------------------------------------
(* NodeRetainedOperation, with the command pending in the processor *)

NoOperation == [command |-> Nothing, complete |-> FALSE, response |-> Nothing]
Active(r) == r.command # Nothing /\ ~r.complete

(* Mutant: a retransmission is not recognised once the operation is complete *)
AdmissionForgetful(c, me, peer, r) ==
    IF c.to # me \/ c.from # peer THEN "IGNORE"
    ELSE IF c.body = "BAD" THEN "MALFORMED"
    ELSE IF SameCommand(c, r.command) /\ ~r.complete THEN "DUPLICATE_PENDING"
    ELSE IF Active(r) THEN "ACTIVE_BUSY"
    ELSE "ADMITTED"

(* admitNodeCommand, for a COMMAND with a structured opcode *)
Admission(c, me, peer, r) ==
    IF c.to # me \/ c.from # peer THEN "IGNORE"
    ELSE IF c.body = "BAD" THEN "MALFORMED"
    ELSE IF SameCommand(c, r.command)
    THEN IF r.complete THEN "DUPLICATE_COMPLETE" ELSE "DUPLICATE_PENDING"
    ELSE IF Active(r) THEN "ACTIVE_BUSY"
    ELSE "ADMITTED"

Reserved(c) == [command |-> c, complete |-> FALSE, response |-> Nothing]

(* executeAdmittedOperation: the response is built and retained *)
Executed(r, result) ==
    [r EXCEPT !.complete = TRUE,
              !.response = Packet("RESPONSE", r.command.to, r.command.from,
                                  r.command.seq, r.command.op, result,
                                  r.command.origin)]
=============================================================================
