------------------------------ MODULE HostLink ------------------------------
(***************************************************************************)
(* The host link of a Hub: the stack of host_role_integration.h over the    *)
(* transport (host_transport.h), the operation lifecycle with its single    *)
(* retained entry (host_operation_lifecycle.h) and the event service        *)
(* (host_event_service.h), as serviceProductionHost of src-tx drives them,  *)
(* and a host that numbers its requests and repeats the last one.           *)
(*                                                                         *)
(* A frame is a record: HostFraming is about its bytes.  An operation on    *)
(* the peer is one step of the radio bridge: HubTransport is about it.  The *)
(* ledger is what HubEventLedger promises.                                  *)
(***************************************************************************)
EXTENDS Naturals, Sequences

CONSTANTS Events,        \* events the Node delivers, by admission ordinal
          MaxRequests,   \* requests of the host: the last one has this ID
          MaxWrites,     \* frames of the host, repeated requests and others included
          MaxOthers,     \* those that are not decodable requests
          Capacity       \* frames that wait in the serial buffer

ASSUME LinkAssumption ==
    /\ {MaxRequests, MaxWrites, MaxOthers, Capacity} \subseteq Nat /\ Events \subseteq Nat

None == [type |-> "NONE"]
Ids == 1 .. MaxRequests

(* A REQUEST has an ID and an operation.  Of the other frames BAD_ENVELOPE  *)
(* is rejected by the decoder but trustworthy, UNTRUSTED is damaged,        *)
(* MALFORMED is an OPERATION_REQUEST that does not decode.                  *)
Request(id, op) == [type |-> "REQUEST", id |-> id, op |-> op]
Others == {"HELLO", "BAD_HELLO", "BAD_ENVELOPE", "UNTRUSTED", "WRONG_DIRECTION", "MALFORMED"}
Response(id, class, result) ==
    [type |-> "OPERATION_RESPONSE", id |-> id, class |-> class, result |-> result]

VARIABLES usb,       \* the host has opened the port
          input,     \* Serial: frames to the device
          stack,     \* Stack: connected, transport's pending frame, lifecycle, pending
          bridge,    \* the radio bridge works on the active request
          ledger,    \* ACTIVE events, CONSUMED ones, health
          host,      \* the host: last request, event it holds, events it consumed
          history    \* per request: sent, executed, answered, and its result

linkVars == <<usb, input, stack, bridge, ledger, host, history>>

Empty == [state |-> "EMPTY", id |-> 0, op |-> << >>, response |-> None]

LinkInit ==
    /\ usb = FALSE /\ input = << >> /\ bridge = FALSE
    /\ stack = [connected |-> FALSE, tx |-> None, life |-> Empty, pending |-> FALSE]
    /\ ledger = [active |-> {}, consumed |-> {}, healthy |-> TRUE]
    /\ host = [id |-> 0, op |-> << >>, event |-> 0, consumed |-> {}, writes |-> 0, others |-> 0,
               stale |-> FALSE]
    /\ history = [id \in Ids |-> [sent |-> 0, executed |-> 0, answered |-> 0,
                                  result |-> {}]]

-----------------------------------------------------------------------------
(* The event service.  An outcome is the result class, the result and the   *)
(* ledger it leaves.                                                        *)

Outcome(class, result, l) == [class |-> class, result |-> result, ledger |-> l]
StorageFailure(l) == Outcome("EVENT_RESULT", "STORAGE_FAILURE", l)

(* poll: the oldest ACTIVE event, or a record that says there is none *)
Poll(l) ==
    IF l.active = {} THEN {Outcome("SUCCESS", 0, l)}
    ELSE {Outcome("SUCCESS", e, l) : e \in {f \in l.active : \A g \in l.active : f <= g}}

(* consume: the commit may fail, which degrades the ledger *)
ConsumeEvent(l, e) ==
    IF e \in l.consumed THEN {Outcome("SUCCESS", "OK", l)}
    ELSE IF e \notin l.active THEN {Outcome("EVENT_RESULT", "NOT_FOUND", l)}
    ELSE {Outcome("SUCCESS", "OK", [l EXCEPT !.active = @ \ {e},
                                             !.consumed = @ \cup {e}]),
          StorageFailure([l EXCEPT !.healthy = FALSE])}

(* Service.handle and the other local services, which only read here *)
HandleLocal(l, op) ==
    IF op[1] = "BAD_TARGET" THEN {Outcome("REQUEST_REJECTED", "BAD_TARGET", l)}
    ELSE IF ~l.healthy THEN {StorageFailure(l)}
    ELSE IF op[1] = "POLL" THEN Poll(l)
    ELSE ConsumeEvent(l, op[2])

-----------------------------------------------------------------------------
(* The stack *)

ObserveConnection(s, up) ==
    IF up = s.connected THEN s
    ELSE IF up THEN [s EXCEPT !.connected = TRUE]
    ELSE [s EXCEPT !.connected = FALSE, !.tx = None, !.pending = FALSE]

(* servicePendingDelivery *)
PendingDelivery(s) ==
    IF s.connected /\ s.pending /\ s.tx = None /\ s.life.state = "COMPLETED"
    THEN [s EXCEPT !.tx = s.life.response, !.pending = FALSE] ELSE s

(* acceptIdentity, complete *)
Accept(s, q) == [s EXCEPT !.life = [state |-> "ACTIVE", id |-> q.id, op |-> q.op,
                                    response |-> None]]

Complete(s, r) == [s EXCEPT !.life.state = "COMPLETED", !.life.response = r]

(* HOST_RESPONSE_READY of a request that was just read: the transport is free *)
HandOff(s, r) == [s EXCEPT !.tx = r]


(* consumeRemote of the stack, on the end of the remote operation *)
ConsumeRemote(s, r) ==
    LET done == Complete(s, r)
    IN  IF ~s.connected THEN done
        ELSE IF s.tx = None THEN HandOff(done, r)
        ELSE [done EXCEPT !.pending = TRUE]

(* submit: what the retained entry says about the request *)
Duplicate(s, q) == s.life.state # "EMPTY" /\ q.id = s.life.id

(* Mutant: a completed request that comes again is new *)
KnownWhileActive(s, q) ==
    CASE Duplicate(s, q) /\ s.life.state = "ACTIVE" -> {None}
      [] ~Duplicate(s, q) /\ s.life.state = "ACTIVE"
             -> {Response(q.id, "REQUEST_REJECTED", "BUSY")}
      [] OTHER -> {}

(* Mutant: the retained response answers any request *)
KnownAnyId(s, q) ==
    CASE s.life.state = "COMPLETED" -> {[s.life.response EXCEPT !.id = q.id]}
      [] s.life.state = "ACTIVE"
             -> {IF Duplicate(s, q) THEN None ELSE Response(q.id, "REQUEST_REJECTED", "BUSY")}
      [] OTHER -> {}

(* submit up to the acceptance: the answer to a request that is not new,    *)
(* None for an active duplicate                                             *)
Known(s, q) ==
    CASE Duplicate(s, q) /\ q.op # s.life.op
             -> {Response(q.id, "REQUEST_REJECTED", "MISMATCH")}
      [] Duplicate(s, q) /\ q.op = s.life.op
             -> {IF s.life.state = "ACTIVE" THEN None ELSE s.life.response}
      [] ~Duplicate(s, q) /\ s.life.state = "ACTIVE"
             -> {Response(q.id, "REQUEST_REJECTED", "BUSY")}
      [] OTHER -> {}

-----------------------------------------------------------------------------
(* serviceRx of one frame.  Each answer is what is left of the stack, the   *)
(* bridge, the ledger and the history.                                      *)

Left(s, b, l, h) == [stack |-> s, bridge |-> b, ledger |-> l, history |-> h]

Ran(h, id, results) == [h EXCEPT ![id].executed = @ + 1, ![id].result = @ \cup results]

ServeLocal(s, q, h) ==
    {LET r == Response(q.id, o.class, o.result)
     IN  IF o.class = "REQUEST_REJECTED" THEN Left(HandOff(s, r), bridge, o.ledger, h)
         ELSE Left(HandOff(Complete(Accept(s, q), r), r), bridge, o.ledger,
                   Ran(h, q.id, {o.result})) : o \in HandleLocal(ledger, q.op)}

(* The bridge takes the operation, or rejects one the peer does not support *)
ServeRemote(s, q, h) ==
    {Left(Accept(s, q), TRUE, ledger, Ran(h, q.id, {})),
     Left(HandOff(s, Response(q.id, "REQUEST_REJECTED", "UNSUPPORTED_OPERATION")), bridge,
          ledger, h)}

ServeRequest(s, q, h) ==
    IF Known(s, q) # {}
    THEN {Left(IF r = None THEN s ELSE HandOff(s, r), bridge, ledger, h) : r \in Known(s, q)}
    ELSE IF q.op = <<"REMOTE">> THEN ServeRemote(s, q, h)
    ELSE ServeLocal(s, q, h)

(* What a frame that is no request is answered with *)
OtherAnswer(type) ==
    CASE type = "HELLO" -> [type |-> "HELLO_RESPONSE"]
      [] type \in {"BAD_HELLO", "BAD_ENVELOPE"} -> [type |-> "PROTOCOL_ERROR"]
      [] OTHER -> None

ServiceRx(s, f, h) ==
    IF f.type = "REQUEST" THEN ServeRequest(s, f, h)
    ELSE {Left(IF OtherAnswer(f.type) = None THEN s ELSE HandOff(s, OtherAnswer(f.type)),
               bridge, ledger, h)}

-----------------------------------------------------------------------------
(* The host.  It takes a response to its last request and ignores others.   *)

Got(h, r) ==
    IF r.type # "OPERATION_RESPONSE" \/ r.id # h.id \/ r.class # "SUCCESS" THEN h
    ELSE IF h.op = <<"POLL">>
    THEN [h EXCEPT !.event = r.result, !.stale = @ \/ r.result \in h.consumed]
    ELSE IF h.op[1] = "CONSUME"
    THEN [h EXCEPT !.consumed = @ \cup {h.op[2]}, !.event = 0]
    ELSE h

Answered(h, r) ==
    IF r.type = "OPERATION_RESPONSE" THEN [h EXCEPT ![r.id].answered = @ + 1] ELSE h

(* serviceProductionHost.  "moved": the serial port takes the rest of the   *)
(* pending frame, which a host that has closed the port does not get.       *)
(* "mayRead": the radio leaves room for serviceRx.  "cut": the parser held  *)
(* a part of the next frame when it was reset.                              *)
ServiceHost ==
    \E moved, mayRead, cut \in BOOLEAN :
        LET s1 == ObserveConnection(stack, usb)
            s2 == PendingDelivery(IF moved THEN [s1 EXCEPT !.tx = None] ELSE s1)
            h == IF moved THEN Answered(history, s1.tx) ELSE history
            reads == mayRead /\ s2.connected /\ s2.tx = None /\ input # << >>
        IN  /\ moved => s1.tx # None
            /\ cut => stack.connected /\ ~usb /\ input # << >>
            /\ host' = IF moved THEN Got(host, s1.tx) ELSE host
            /\ IF reads
               THEN /\ \E left \in ServiceRx(s2, Head(input), h) :
                           /\ stack' = left.stack /\ bridge' = left.bridge
                           /\ ledger' = left.ledger /\ history' = left.history
                    /\ input' = Tail(input)
               ELSE /\ stack' = s2 /\ history' = h /\ UNCHANGED <<bridge, ledger>>
                    /\ input' = IF cut THEN <<[type |-> "UNTRUSTED"]>> \o Tail(input) ELSE input
            /\ UNCHANGED usb

(* The remote operation ends: a result, a rejection or the timeout *)
RemoteEnds ==
    /\ bridge /\ stack.life.state = "ACTIVE"
    /\ \E class \in {"OPERATION_RESULT", "RADIO_RESULT"} :
           LET r == Response(stack.life.id, class, class)
           IN  /\ stack' = ConsumeRemote(stack, r)
               /\ history' = [history EXCEPT ![r.id].result = @ \cup {r.result}]
    /\ bridge' = FALSE
    /\ UNCHANGED <<usb, input, ledger, host>>

-----------------------------------------------------------------------------
(* The world *)

HostOpens == ~usb /\ usb' = TRUE /\ UNCHANGED <<input, stack, bridge, ledger, host, history>>
HostCloses == usb /\ usb' = FALSE /\ UNCHANGED <<input, stack, bridge, ledger, host, history>>

Sends(f) ==
    /\ usb /\ Len(input) < Capacity /\ input' = Append(input, f)
    /\ host.writes < MaxWrites

HostOps(h) == {<<"REMOTE">>, <<"POLL">>, <<"BAD_TARGET">>}
                 \cup (IF h.event = 0 THEN {} ELSE {<<"CONSUME", h.event>>})

HostAsks ==
    /\ host.id < MaxRequests
    /\ \E op \in HostOps(host) :
           /\ Sends(Request(host.id + 1, op))
           /\ host' = [host EXCEPT !.id = @ + 1, !.op = op, !.writes = @ + 1]
    /\ history' = [history EXCEPT ![host.id + 1].sent = 1]
    /\ UNCHANGED <<usb, stack, bridge, ledger>>

(* The last request again, or with its ID another operation *)
HostRepeats ==
    /\ host.id > 0
    /\ \E op \in {host.op, <<"BAD_TARGET">>} : Sends(Request(host.id, op))
    /\ host' = [host EXCEPT !.writes = @ + 1]
    /\ history' = [history EXCEPT ![host.id].sent = @ + 1]
    /\ UNCHANGED <<usb, stack, bridge, ledger>>

HostSendsOther ==
    /\ host.others < MaxOthers
    /\ \E type \in Others : Sends([type |-> type])
    /\ host' = [host EXCEPT !.writes = @ + 1, !.others = @ + 1]
    /\ UNCHANGED <<usb, stack, bridge, ledger, history>>

EventArrives ==
    /\ \E e \in Events :
           /\ e \notin ledger.active \cup ledger.consumed
           /\ \A f \in Events : f < e => f \in ledger.active \cup ledger.consumed
           /\ ledger' = [ledger EXCEPT !.active = @ \cup {e}]
    /\ ledger.healthy
    /\ UNCHANGED <<usb, input, stack, bridge, host, history>>

LinkNext == ServiceHost \/ RemoteEnds \/ HostOpens \/ HostCloses \/ HostAsks \/ HostRepeats
           \/ HostSendsOther \/ EventArrives

LinkSpec == LinkInit /\ [][LinkNext]_linkVars

(* The loop runs, the serial port takes bytes from a stack that has some,   *)
(* the radio leaves room for the host, and a remote operation ends.         *)
LinkFairness ==
    /\ WF_linkVars(ServiceHost) /\ WF_linkVars(RemoteEnds)
    /\ SF_linkVars(ServiceHost /\ stack.tx # None /\ stack'.tx # stack.tx)
    /\ SF_linkVars(ServiceHost /\ Len(input') < Len(input))

-----------------------------------------------------------------------------
(* The entry that is retained is the one the radio bridge works on *)
LinkTypeOK ==
    /\ stack.life.state \in {"EMPTY", "ACTIVE", "COMPLETED"}
    /\ bridge <=> stack.life.state = "ACTIVE"
    /\ stack.life.state = "COMPLETED" => stack.life.response.id = stack.life.id

(* A delivery that waits is the one of the retained entry, and it waits     *)
(* only for a frame that is going out on this connection                    *)
PendingIsRetained ==
    stack.pending => stack.connected /\ stack.tx # None /\ stack.life.state = "COMPLETED"

(* A request of the host runs at most once, however often it is repeated    *)
(* and whatever becomes of the link in between (submit).  A delivery that   *)
(* waits can neither reach a later connection nor be taken over by a later  *)
(* request (pendingOriginalDelivery_ in observeConnection,                  *)
(* servicePendingDelivery and serviceRx).                                   *)
RequestRunsOnce ==
    /\ LinkTypeOK /\ PendingIsRetained
    /\ \A id \in Ids : history[id].executed <= 1

(* Every answer that is not a rejection is the result of running this very  *)
(* request.  The device never answers more often than it was asked, an      *)
(* answer that waited, was repeated or was cut off included.  An event the  *)
(* host has consumed is not polled again, through repeated and retained     *)
(* answers (poll, consume and submit).                                      *)
AnswersAreResults ==
    LET r == stack.tx
    IN  /\ r.type = "OPERATION_RESPONSE" /\ r.class # "REQUEST_REJECTED" =>
                history[r.id].result = {r.result}
        /\ \A id \in Ids : history[id].answered <= history[id].sent
        /\ ~host.stale


(* "A valid envelope carrying a malformed/unknown category or operation     *)
(* encoding receives REQUEST_REJECTED/MALFORMED_REQUEST".                   *)
MalformedAnswered ==
    [][input # << >> /\ Len(input') < Len(input) /\ Head(input).type = "MALFORMED"
           => stack'.tx # None]_linkVars
=============================================================================
