--------------------------- MODULE CommandExchange ---------------------------
(***************************************************************************)
(* Commands between the Hub and the Node: the TEST transactions and the     *)
(* structured operations of WireTransaction over a radio that loses packets *)
(* but keeps their order.  The Hub retries and gives up, either device may  *)
(* restart and forget all it knows, and the Node's acknowledgment may fail  *)
(* to start.  How the two radios are driven is left to HubTransport and     *)
(* NodeTransport.                                                           *)
(*                                                                         *)
(* Commands are numbered in history, tests and operations apart; the        *)
(* devices see only an 8-bit sequence that wraps and restarts.              *)
(***************************************************************************)
EXTENDS WireTransaction, Sequences

CONSTANTS Capacity,        \* packets on the way in one direction
          MaxCommands,     \* operations the host asks for and TEST transactions
          MaxRestarts,     \* restarts of either device
          MaxFaults        \* acknowledgments that fail to start

ASSUME ExchangeAssumption ==
    /\ Capacity \in Nat \ {0}
    /\ {MaxCommands, MaxRestarts, MaxFaults} \subseteq Nat

VARIABLES
    bridge,       \* the Hub's operation
    txn,          \* the Hub's TEST transaction
    toNode,       \* packets on the way
    toHub,
    retained,     \* the Node's operation
    tracker,      \* the Node's last TEST
    asked,        \* history: operations asked for
    tests,        \* history: TEST transactions begun
    executed,     \* history: executions of each operation
    accepted,     \* history: TESTs counted as accepted
    mistaken,     \* history: <<t, u>>: TEST t was taken for a repetition of u
    hubRestarts, nodeRestarts, faults

air == <<toNode, toHub>>
hubVars == <<bridge, txn>>
nodeVars == <<retained, tracker>>
history == <<asked, tests, executed, accepted, mistaken>>
counts == <<hubRestarts, nodeRestarts, faults>>
vars == <<hubVars, air, nodeVars, history, counts>>

Hub == "HUB"
Node == "NODE"

Init ==
    /\ bridge = IdleBridge /\ txn = FirstTransaction
    /\ toNode = <<>> /\ toHub = <<>>
    /\ retained = NoOperation /\ tracker = Nothing
    /\ asked = 0 /\ tests = 0 /\ executed = [o \in 1 .. MaxCommands |-> 0]
    /\ accepted = [t \in 1 .. MaxCommands |-> 0] /\ mistaken = {}
    /\ hubRestarts = 0 /\ nodeRestarts = 0 /\ faults = 0

(* A packet goes on the air; what does not fit is lost *)
Sent(channel, packets) ==
    LET all == channel \o packets
    IN  IF Len(all) <= Capacity THEN all ELSE SubSeq(all, 1, Capacity)

-----------------------------------------------------------------------------
(* The Hub *)

(* submit: the host starts an operation while no transaction is under way *)
Ask ==
    /\ ~bridge.active /\ ~txn.awaiting /\ asked + tests < MaxCommands
    /\ \E op \in {o \in Operations : MayStart(bridge, o)} :
         LET c == Packet("COMMAND", Hub, Node, bridge.next, op, "NONE", asked + 1)
         IN  bridge' = Submitted(bridge, c) /\ toNode' = Sent(toNode, <<c>>)
    /\ asked' = asked + 1
    /\ UNCHANGED <<txn, toHub, nodeVars, tests, executed, accepted, mistaken, counts>>

(* service, the deadline being reached *)
ServiceOperation ==
    /\ bridge.active
    /\ bridge' = Serviced(bridge)
    /\ toNode' = (IF bridge'.active THEN Sent(toNode, <<bridge.command>>) ELSE toNode)
    /\ UNCHANGED <<txn, toHub, nodeVars, history, counts>>

TestCommand(t) == Packet("COMMAND", Hub, Node, txn.seq, "TEST", "NONE", t)

(* startCommandTransmission: a first attempt, or another one *)
SendTest ==
    /\ ~bridge.active /\ ~txn.awaiting
    /\ IF txn.retries = 0 THEN asked + tests < MaxCommands /\ tests' = tests + 1
       ELSE UNCHANGED tests
    /\ txn' = BeginWait(txn) /\ toNode' = Sent(toNode, <<TestCommand(tests')>>)
    /\ UNCHANGED <<bridge, toHub, nodeVars, asked, executed, accepted, mistaken, counts>>

TestTimeout ==
    /\ txn.awaiting /\ txn' = AttemptFailed(txn)
    /\ UNCHANGED <<bridge, air, nodeVars, history, counts>>

(* processAcknowledgment, for the owner of the radio *)
HubReceives ==
    /\ toHub # <<>> /\ toHub' = Tail(toHub)
    /\ bridge' = Received(bridge, Head(toHub))
    /\ txn' = (IF txn.awaiting /\ MatchesCommand(Head(toHub), TestCommand(tests))
               THEN Complete(txn) ELSE txn)
    /\ UNCHANGED <<toNode, nodeVars, history, counts>>

HubRestarts ==
    /\ hubRestarts < MaxRestarts /\ hubRestarts' = hubRestarts + 1
    /\ bridge' = IdleBridge /\ txn' = FirstTransaction
    /\ UNCHANGED <<air, nodeVars, history, nodeRestarts, faults>>

-----------------------------------------------------------------------------
(* The Node *)

(* A TEST: evaluateNodeCommand, and its acknowledgment *)
NodeTest ==
    /\ toNode # <<>> /\ Head(toNode).op = "TEST" /\ toNode' = Tail(toNode)
    /\ LET c == Head(toNode)
           verdict == NodeVerdict(c, Node, Hub, tracker)
       IN  /\ toHub' = Sent(toHub, <<Acknowledgment(c, "SUCCESS")>>)
           /\ tracker' = c
           /\ accepted' = (IF verdict = "SUCCESS" THEN [accepted EXCEPT ![c.origin] = @ + 1]
                           ELSE accepted)
           /\ mistaken' = (IF verdict = "DUPLICATE" /\ tracker.origin # c.origin
                           THEN mistaken \cup {<<c.origin, tracker.origin>>} ELSE mistaken)
    /\ UNCHANGED <<hubVars, retained, asked, tests, executed, counts>>

(* A structured command: admission, then the acknowledgment, the execution  *)
(* and the response, with nothing received in between                       *)
NodeOperation ==
    /\ toNode # <<>> /\ Head(toNode).op # "TEST" /\ toNode' = Tail(toNode)
    /\ LET c == Head(toNode)
           outcome == Admission(c, Node, Hub, retained)
           ack == Acknowledgment(c, "SUCCESS")
       IN  \/ /\ outcome = "ADMITTED"
              /\ retained' = Executed(Reserved(c), "OK")
              /\ executed' = [executed EXCEPT ![c.origin] = @ + 1]
              /\ toHub' = Sent(toHub, <<ack, retained'.response>>)
              /\ UNCHANGED faults
           \/ /\ outcome = "ADMITTED"                \* the ACK does not start
              /\ faults < MaxFaults /\ faults' = faults + 1
              /\ retained' = Reserved(c)
              /\ UNCHANGED <<executed, toHub>>
           \/ /\ outcome = "DUPLICATE_PENDING" /\ toHub' = Sent(toHub, <<ack>>)
              /\ UNCHANGED <<retained, executed, faults>>
           \/ /\ outcome = "DUPLICATE_COMPLETE"
              /\ toHub' = Sent(toHub, <<ack, retained.response>>)
              /\ UNCHANGED <<retained, executed, faults>>
           \/ /\ outcome = "ACTIVE_BUSY"
              /\ UNCHANGED <<toHub, retained, executed, faults>>
    /\ UNCHANGED <<hubVars, tracker, asked, tests, accepted, mistaken,
                   hubRestarts, nodeRestarts>>

NodeRestarts ==
    /\ nodeRestarts < MaxRestarts /\ nodeRestarts' = nodeRestarts + 1
    /\ retained' = NoOperation /\ tracker' = Nothing
    /\ UNCHANGED <<hubVars, air, history, hubRestarts, faults>>

-----------------------------------------------------------------------------
LoseCommand ==
    /\ toNode # <<>> /\ toNode' = Tail(toNode)
    /\ UNCHANGED <<hubVars, toHub, nodeVars, history, counts>>

LoseAnswer ==
    /\ toHub # <<>> /\ toHub' = Tail(toHub)
    /\ UNCHANGED <<hubVars, toNode, nodeVars, history, counts>>

Next == \/ Ask \/ ServiceOperation \/ SendTest \/ TestTimeout \/ HubReceives \/ HubRestarts
        \/ NodeTest \/ NodeOperation \/ NodeRestarts \/ LoseCommand \/ LoseAnswer

Spec == Init /\ [][Next]_vars

-----------------------------------------------------------------------------
(* Safety *)

(* Every variable has its type. *)
ExchangeTypeOK ==
    /\ bridge.active \in BOOLEAN /\ bridge.next \in Sequences8
    /\ txn.awaiting \in BOOLEAN /\ txn.seq \in Sequences8
    /\ Len(toNode) <= Capacity /\ Len(toHub) <= Capacity
    /\ asked \in 0 .. MaxCommands /\ tests \in 0 .. MaxCommands

(* An operation is executed, and a TEST counted as accepted, at most once,  *)
(* however often its command is transmitted and whatever is lost, unless    *)
(* the Node has restarted in between (isDuplicate, evaluateNodeCommand):    *)
(* "retransmission idempotency only within volatile retention".             *)
ExecutedOnce ==
    /\ ExchangeTypeOK
    /\ \A o \in DOMAIN executed : executed[o] <= 1 + nodeRestarts
    /\ \A t \in DOMAIN accepted : accepted[t] <= 1 + nodeRestarts

(* The host is given the result of the operation it asked for, and it was   *)
(* executed.  An answer to an earlier one is taken for it only if the       *)
(* sequence has wrapped in between, or the Hub has restarted and begun      *)
(* again from zero (HubStructuredTransaction::receive).                     *)
AnswerIsForTheOperation ==
    bridge.done # Nothing =>
        /\ hubRestarts = 0 => \/ bridge.done.origin = asked
                              \/ /\ bridge.done.origin < asked
                                 /\ (asked - bridge.done.origin) % SequenceRange = 0
        /\ bridge.done.class = "OPERATION_RESULT" => executed[bridge.done.origin] >= 1

(* A TEST is taken for a repetition of another only if the sequence has     *)
(* wrapped and the Node has heard none in between, or the Hub has restarted.*)
MistakenOnlyByWrap ==
    \A m \in mistaken : hubRestarts > 0 \/ m[1] - m[2] >= SequenceRange
=============================================================================
