----------------------------- MODULE Capabilities -----------------------------
(***************************************************************************)
(* The operations a device executes for its host and for its radio peer:    *)
(* the capability registry and its dispatcher (device_capabilities.h), the  *)
(* board's handler (heltec_v4_capabilities.h), the local services of the    *)
(* host (host_operation_service.h, host_device_service.h) and the execution *)
(* of an admitted radio command (wire_operations.h,                         *)
(* radio_operation_bridge.h).                                               *)
(*                                                                         *)
(* A value has a type and its 32 bits; a record the code writes into the    *)
(* bytes of a "STRUCTURE" is the sequence beside it.  The events of the Hub *)
(* and their diagnostics are in other modules.                              *)
(***************************************************************************)
EXTENDS ScalarValues, Sequences, SequencesExt, FiniteSets, TLC

CONSTANTS Registries,     \* registries a build may have; sequences of descriptors
          Traffics,       \* sets of requests of the host and of the peer, valid or not
          OtherAnswers,   \* what a handler other than the board's may answer
          MaxEntries,     \* MAX_CAPABILITY_PAGE_ENTRIES
          MetricCount,    \* DIAGNOSTIC_METRIC_COUNT
          MetricEntries,  \* MAX_DIAGNOSTIC_PAGE_ENTRIES
          TallyLimit,   \* UINT32_MAX
          MaxOperations   \* bound: operations that are dispatched

ASSUME CapabilityAssumption ==
    /\ MaxEntries \in Nat \ {0} /\ MetricEntries \in Nat \ {0}
    /\ MetricCount \in Nat /\ TallyLimit \in Nat /\ MaxOperations \in Nat

End == 2 * HalfRange   \* CAPABILITY_PAGE_END, DIAGNOSTIC_PAGE_END: no cursor

-----------------------------------------------------------------------------
(* Values *)

Narrow == {"NORMALIZED_U16", "ENUM_U16"}
Signed == {"SIGNED_32", "FIXED_Q16_16"}
ValueTypes == Narrow \cup Signed \cup {"NONE", "BOOLEAN", "UNSIGNED_32"}

Value(type, bits) == [type |-> type, bits |-> bits]
NoValue == Value("NONE", 0)
Structure == Value("STRUCTURE", 0)

(* isValidCapabilityValue, isValidScalarValue: the bits fit the type *)
Fits(type, bits) ==
    /\ type \in ValueTypes
    /\ type = "NONE" => bits = 0
    /\ type = "BOOLEAN" => bits <= 1
    /\ type \in Narrow => bits < NarrowRange

(* signedOrderingKey *)
OrderingKey(type, bits) ==
    IF type \in Signed THEN (bits + HalfRange) % (2 * HalfRange) ELSE bits

-----------------------------------------------------------------------------
(* The registry *)

Inputs == {"DIGITAL_INPUT", "ANALOG_INPUT", "SENSOR", "POWER_MONITOR", "LOCATION_PROVIDER"}
Inert == {"SIGNAL_OUTPUT", "RELAY_OUTPUT", "LOCAL_STORAGE", "LOCAL_PROCEDURE"}

(* hasValidOperations *)
HasValidOperations(class, flags) ==
    \/ class \in Inputs /\ flags = {"DESCRIBE", "READ"}
    \/ class = "INDICATOR_OUTPUT" /\ {"DESCRIBE", "SET"} \subseteq flags
       /\ flags \subseteq {"DESCRIBE", "READ", "SET"}
    \/ class \in Inert /\ flags = {"DESCRIBE"}

(* isValidCapabilityDescriptor; "known" stands for its policies, its unit,  *)
(* its metadata and its reserved bytes                                      *)
IsValidDescriptor(d) ==
    /\ d.id # 0 /\ d.known
    /\ HasValidOperations(d.class, d.flags)
    /\ (d.flags \cap {"READ", "SET"} # {}) <=> (d.type # "NONE")
    /\ Fits(d.type, d.min) /\ Fits(d.type, d.max)
    /\ OrderingKey(d.type, d.min) <= OrderingKey(d.type, d.max)

(* isValidCapabilityRegistry *)
IsValidRegistry(r) ==
    /\ \A i \in DOMAIN r : IsValidDescriptor(r[i])
    /\ \A i, j \in DOMAIN r : i # j => r[i].id # r[j].id

(* findCapability *)
Find(r, id) == {r[i] : i \in {n \in DOMAIN r : r[n].id = id /\ id # 0}}

(* isValueWithinBounds *)
WithinBounds(d, v) ==
    /\ v.type = d.type /\ Fits(v.type, v.bits)
    /\ OrderingKey(v.type, v.bits) \in OrderingKey(v.type, d.min) .. OrderingKey(v.type, d.max)

(* Mutant: the peer is a caller like the others *)
IsAuthorizedRemote(caller) == caller # "INVALID"

(* isOperationAuthorized, of a supported operation *)
IsAuthorized(caller) == caller \in {"FIRMWARE_LOCAL", "UI_LOCAL", "TEST", "HOST_LOCAL"}

(* isOperationSafe, of a supported operation *)
IsSafe(d, op, interlock) == d.safety = "NONE" \/ interlock = "CLEAR" \/ op = "READ"

-----------------------------------------------------------------------------
(* The dispatcher.  An outcome says whether the handler was called.         *)

Result(status, value) == [status |-> status, value |-> value]
Failed(status) == Result(status, NoValue)
Denied(status) == [result |-> Failed(status), ran |-> FALSE]

HandlerStatuses == {"OK", "HARDWARE_UNAVAILABLE", "OPERATION_FAILED", "BUSY"}

(* isValidOperationResult, isHandlerOwnedStatus *)
IsValidResult(r) ==
    /\ r.status \in HandlerStatuses /\ Fits(r.value.type, r.value.bits)
    /\ r.status # "OK" => r.value = NoValue

(* Mutant: the value a handler reads is not looked at *)
CheckedTrusting(d, op, answer) ==
    IF answer.status \in HandlerStatuses THEN answer ELSE Failed("OPERATION_FAILED")

(* What the dispatcher makes of the handler's answer *)
Checked(d, op, answer) ==
    IF /\ IsValidResult(answer)
       /\ answer.status = "OK" => IF op = "READ" THEN WithinBounds(d, answer.value)
                                  ELSE answer.value = NoValue
    THEN answer ELSE Failed("OPERATION_FAILED")

Called(d, op, answer) == [result |-> Checked(d, op, answer), ran |-> TRUE]

(* dispatchCapabilityOperation *)
Dispatch(r, id, op, input, caller, interlock, answer) ==
    IF ~IsValidRegistry(r) THEN Denied("INVALID_DESCRIPTOR")
    ELSE IF Find(r, id) = {} THEN Denied("CAPABILITY_NOT_FOUND")
    ELSE LET d == CHOOSE c \in Find(r, id) : TRUE
         IN  IF op \notin d.flags THEN Denied("UNSUPPORTED_OPERATION")
             ELSE IF \/ op = "SET" /\ (input.type # d.type \/ ~Fits(input.type, input.bits))
                     \/ op # "SET" /\ input # NoValue
             THEN Denied("INVALID_VALUE_TYPE")
             ELSE IF op = "SET" /\ ~WithinBounds(d, input) THEN Denied("VALUE_OUT_OF_RANGE")
             ELSE IF ~IsAuthorized(caller) THEN Denied("UNAUTHORIZED")
             ELSE IF ~IsSafe(d, op, interlock) THEN Denied("INTERLOCK_ACTIVE")
             ELSE Called(d, op, answer)

(* processRemoteCapability: the peer's authority comes before its value *)
RemoteDispatch(r, id, op, input, interlock, answer) ==
    IF ~IsValidRegistry(r) THEN Denied("INVALID_DESCRIPTOR")
    ELSE IF Find(r, id) = {} THEN Denied("CAPABILITY_NOT_FOUND")
    ELSE LET d == CHOOSE c \in Find(r, id) : TRUE
         IN  IF op = "SET" THEN Denied("UNAUTHORIZED")
             ELSE IF op \notin d.flags THEN Denied("UNSUPPORTED_OPERATION")
             ELSE IF ~IsAuthorized("FUTURE_REMOTE") THEN Denied("UNAUTHORIZED")
             ELSE IF input # NoValue THEN Denied("INVALID_VALUE_TYPE")
             ELSE IF ~IsSafe(d, op, interlock) THEN Denied("INTERLOCK_ACTIVE")
             ELSE Called(d, op, answer)

Tallies == {"lookups", "accepted", "denials", "unsupported", "invalid", "interlocks",
             "busy", "hardware"}

SaturatingIncrement(n) == IF n < TallyLimit THEN n + 1 ELSE n

(* recordOutcome: the counters a status adds to *)
Counted(status) ==
    (IF status = "INVALID_DESCRIPTOR" THEN {} ELSE {"lookups"})
    \cup (IF status \in HandlerStatuses THEN {"accepted"} ELSE {})
    \cup (IF status = "UNSUPPORTED_OPERATION" THEN {"unsupported"} ELSE {})
    \cup (IF status \in {"INVALID_DESCRIPTOR", "INVALID_VALUE_TYPE", "VALUE_OUT_OF_RANGE"}
          THEN {"invalid"} ELSE {})
    \cup (IF status = "UNAUTHORIZED" THEN {"denials"} ELSE {})
    \cup (IF status = "INTERLOCK_ACTIVE" THEN {"interlocks"} ELSE {})
    \cup (IF status = "BUSY" THEN {"busy"} ELSE {})
    \cup (IF status \in {"HARDWARE_UNAVAILABLE", "OPERATION_FAILED"} THEN {"hardware"} ELSE {})

RecordOutcome(tally, status) ==
    [c \in Tallies |-> IF c \in Counted(status) THEN SaturatingIncrement(tally[c])
                        ELSE tally[c]]

-----------------------------------------------------------------------------
(* The board's handler *)

Indicator == 1   \* APPLICATION_INDICATOR_ID
Digital == 2     \* DIGITAL_INPUT_ID
Analog == 3      \* ANALOG_INPUT_0_ID

Board == {Indicator, Digital, Analog}

InitialProfile == [indicator |-> 0, digital |-> FALSE, active |-> 0, analog |-> FALSE, level |-> 0]

Availability(p, id) == IF id = Digital THEN p.digital ELSE IF id = Analog THEN p.analog ELSE TRUE

(* execute: what it answers *)
Execute(p, id, op) ==
    IF id = Indicator /\ op = "SET" THEN Result("OK", NoValue)
    ELSE IF op # "READ" \/ id \notin Board THEN Failed("OPERATION_FAILED")
    ELSE IF ~Availability(p, id) THEN Failed("HARDWARE_UNAVAILABLE")
    ELSE IF id = Indicator THEN Result("OK", Value("BOOLEAN", p.indicator))
    ELSE IF id = Digital THEN Result("OK", Value("BOOLEAN", p.active))
    ELSE Result("OK", Value("NORMALIZED_U16", p.level))

(* execute: what it does to the profile *)
Effect(p, id, op, input) ==
    IF id = Indicator /\ op = "SET" THEN [p EXCEPT !.indicator = IF input.bits = 1 THEN 1 ELSE 0]
    ELSE p

-----------------------------------------------------------------------------
(* The services.  A request has an operation, a target and a value; "bits"  *)
(* of its value is the cursor of a list.                                    *)

NoTarget == {"PING", "GET_DEVICE_INFO", "GET_STATUS", "GET_CAPABILITIES", "GET_DIAGNOSTICS"}
Lists == {"GET_CAPABILITIES", "GET_DIAGNOSTICS"}
Operation(op, target, value) == [op |-> op, target |-> target, value |-> value]

(* validateOperationRequest: isValidOperationTarget, isValidOperationRequestValue *)
HostAccepts(q) ==
    /\ (q.op \in NoTarget) <=> (q.target = 0)
    /\ Fits(q.value.type, q.value.bits)
    /\ \/ q.op = "RUN_PROCEDURE"
       \/ q.op = "SET_INDICATOR" /\ q.value.type = "BOOLEAN"
       \/ q.op # "SET_INDICATOR" /\ q.value = NoValue
       \/ q.op \in Lists /\ q.value.type = "UNSIGNED_32"

(* isValidRequestSchema of the radio *)
WireAccepts(q) ==
    /\ Fits(q.value.type, q.value.bits)
    /\ \/ q.op = "RUN_PROCEDURE" /\ q.target # 0
       \/ q.op = "SET_INDICATOR" /\ q.target # 0 /\ q.value.type = "BOOLEAN"
       \/ q.op \in {"DESCRIBE_CAPABILITY", "READ_CAPABILITY"} /\ q.target # 0 /\ q.value = NoValue
       \/ q.op \in NoTarget /\ q.target = 0 /\ q.value = NoValue
       \/ q.op \in Lists /\ q.target = 0 /\ q.value.type = "UNSIGNED_32"

Answer(class, status, value, record) ==
    [class |-> class, status |-> status, value |-> value, record |-> record]
Rejected(code) == Answer("REQUEST_REJECTED", code, NoValue, <<>>)
OperationResult(r) == Answer("OPERATION_RESULT", r.status, r.value, <<>>)

(* A page: the cursor of the next one, and the entries *)
Page(all, cursor, most) ==
    LET last == IF cursor + most < Len(all) THEN cursor + most ELSE Len(all)
    IN  <<IF last = Len(all) THEN End ELSE last>> \o SubSeq(all, cursor + 1, last)

List(all, value, most) ==
    IF value.bits > Len(all) THEN OperationResult(Failed("VALUE_OUT_OF_RANGE"))
    ELSE Answer("OPERATION_RESULT", "OK", Structure, Page(all, value.bits, most))

Entries(r, op) ==
    IF op = "GET_CAPABILITIES" THEN [i \in DOMAIN r |-> r[i].id]
    ELSE [i \in 1 .. MetricCount |-> i]

(* handleLocalOperation of a request that calls no handler *)
Served(r, q) ==
    IF ~HostAccepts(q) THEN Rejected("MALFORMED_REQUEST")
    ELSE IF q.op = "RUN_PROCEDURE" THEN Rejected("UNSUPPORTED_OPERATION")
    ELSE IF q.op = "PING" THEN OperationResult(Result("OK", Value("UNSIGNED_32", 0)))
    ELSE IF q.op \in {"GET_DEVICE_INFO", "GET_STATUS"} THEN OperationResult(Result("OK", Structure))
    ELSE IF q.op = "GET_DIAGNOSTICS" THEN List(Entries(r, q.op), q.value, MetricEntries)
    ELSE IF ~IsValidRegistry(r) THEN OperationResult(Failed("INVALID_DESCRIPTOR"))
    ELSE IF q.op = "GET_CAPABILITIES" THEN List(Entries(r, q.op), q.value, MaxEntries)
    ELSE IF Find(r, q.target) = {} THEN OperationResult(Failed("CAPABILITY_NOT_FOUND"))
    ELSE IF q.target \notin Board THEN OperationResult(Failed("INVALID_DESCRIPTOR"))
    ELSE OperationResult(Result("OK", Structure))

(* The host sets indicators only, whatever else a descriptor says is set *)
SetsAnother(r, q) ==
    /\ q.op = "SET_INDICATOR" /\ IsValidRegistry(r)
    /\ \E d \in Find(r, q.target) : "SET" \in d.flags /\ d.class # "INDICATOR_OUTPUT"

(* validateOperationResponse and isValidResponseSchema: what can be encoded *)
Encodes(op, a) ==
    IF a.class # "OPERATION_RESULT" \/ a.status # "OK" THEN a.value = NoValue
    ELSE IF op = "PING" THEN a.value.type = "UNSIGNED_32"
    ELSE IF op = "READ_CAPABILITY" THEN a.value.type # "NONE" /\ Fits(a.value.type, a.value.bits)
    ELSE IF op = "SET_INDICATOR" THEN a.value = NoValue
    ELSE /\ a.value.type = "STRUCTURE"
         /\ op = "GET_CAPABILITIES" =>
                Len(a.record) <= MaxEntries + 1 /\ ~Contains(Tail(a.record), 0)
         /\ op = "GET_DIAGNOSTICS" => Len(a.record) <= MetricEntries + 1
-----------------------------------------------------------------------------
(* The device *)

VARIABLES build,       \* "HOST" or "CHARACTERIZATION": no build is both
          registry,    \* the registry of this build
          traffic,     \* the requests that come in
          profile,     \* ProfileState
          tally,      \* CapabilityDiagnostics
          answer,      \* the last answer, its operation, caller and interlock
          listing,     \* the host's walk through a list: the next cursor, the entries so far
          called,      \* history: calls of the handler, saturating like the counters
          dispatches   \* bound: operations dispatched so far

capabilityVars == <<build, registry, traffic, profile, tally, answer, listing, called, dispatches>>

NoAnswer == [op |-> "PING", by |-> "NONE", interlock |-> "CLEAR"]
            @@ OperationResult(Result("OK", Value("UNSIGNED_32", 0)))
NoListing == [op |-> "NONE", next |-> 0, seen |-> <<>>]

CapabilityInit ==
    /\ build \in {"HOST", "CHARACTERIZATION"}
    /\ registry \in Registries /\ traffic \in Traffics
    /\ profile = InitialProfile
    /\ tally = [c \in Tallies |-> 0]
    /\ answer = NoAnswer
    /\ listing = NoListing
    /\ called = 0 /\ dispatches = 0

Answers(op, by, interlock, a) == answer' = [op |-> op, by |-> by, interlock |-> interlock] @@ a

(* What the handler answers: the board's, or another one *)
HandlerAnswers(p, id, op) == {Execute(p, id, op)} \cup OtherAnswers

(* The outcome of the dispatcher for what the handler answered is counted   *)
(* and answered; the board's handler, if it was called, acts on the profile *)
Perform(p, id, op, input, by, interlock, outcome, wireOp) ==
    /\ dispatches < MaxOperations /\ dispatches' = dispatches + 1
    /\ \E h \in DOMAIN outcome :
         LET o == outcome[h]
         IN  /\ tally' = RecordOutcome(tally, o.result.status)
             /\ called' = IF o.ran THEN SaturatingIncrement(called) ELSE called
             /\ profile' = IF o.ran /\ h = Execute(p, id, op) THEN Effect(p, id, op, input) ELSE p
             /\ Answers(wireOp, by, interlock, OperationResult(o.result))
    /\ UNCHANGED <<build, registry, traffic, listing>>

HandlerOperation == [READ_CAPABILITY |-> "READ", SET_INDICATOR |-> "SET"]

ServedBy(q, by, a) ==
    /\ Answers(q.op, by, "CLEAR", a)
    /\ UNCHANGED <<build, registry, traffic, profile, tally, listing, called, dispatches>>

(* A request of the host, at a point where the role lets it run *)
HostRequests(q) ==
    LET op == HandlerOperation[q.op]
        outcome == [h \in HandlerAnswers(profile, q.target, op) |->
                       Dispatch(registry, q.target, op, q.value, "HOST_LOCAL", "CLEAR", h)]
    IN  IF q.op \notin DOMAIN HandlerOperation \/ ~HostAccepts(q)
        THEN ServedBy(q, "HOST_LOCAL", Served(registry, q))
        ELSE IF SetsAnother(registry, q)
        THEN ServedBy(q, "HOST_LOCAL", OperationResult(Failed("UNSUPPORTED_OPERATION")))
        ELSE Perform(profile, q.target, op, q.value, "HOST_LOCAL", "CLEAR", outcome, q.op)

(* executeAdmittedOperation: a command the Node acknowledged *)
PeerRequests(q) ==
    LET op == HandlerOperation[q.op]
        outcome == [h \in HandlerAnswers(profile, q.target, op) |->
                       RemoteDispatch(registry, q.target, op, q.value, "CLEAR", h)]
    IN  /\ WireAccepts(q)
        /\ IF q.op \in DOMAIN HandlerOperation
           THEN Perform(profile, q.target, op, q.value, "FUTURE_REMOTE", "CLEAR", outcome, q.op)
           ELSE ServedBy(q, "FUTURE_REMOTE",
                         IF q.op = "RUN_PROCEDURE" THEN OperationResult(Failed("UNAUTHORIZED"))
                         ELSE Served(registry, q))

(* executeLocalCapabilityNow of a role *)
Local(p, id, op, input, by, interlock) ==
    LET outcome == [h \in HandlerAnswers(p, id, op) |->
                       Dispatch(registry, id, op, input, by, interlock, h)]
    IN  Perform(p, id, op, input, by, interlock, outcome,
                IF op = "READ" THEN "READ_CAPABILITY" ELSE "SET_INDICATOR")

(* performCharacterizationAction, of a build whose analog input is ready *)
Characterization ==
    LET toggled == Value("BOOLEAN", 1 - profile.indicator)
    IN  \/ \E bit \in 0 .. 1 :
             Local(profile, Indicator, "SET", Value("BOOLEAN", bit), "TEST", "CLEAR")
        \/ Local(profile, Digital, "READ", NoValue, "TEST", "CLEAR")
        \/ \E level \in {0, NarrowRange - 1} :
             Local([profile EXCEPT !.analog = TRUE, !.level = level],
                   Analog, "READ", NoValue, "TEST", "CLEAR")
        \/ Local(profile, Indicator, "SET", toggled, "FUTURE_REMOTE", "CLEAR")
        \/ Local(profile, Indicator, "SET", toggled, "TEST", "ACTIVE")

(* serviceButton: the digital input follows the debounced button once it is *)
(* armed                                                                    *)
ButtonSampled ==
    /\ \E active \in 0 .. 1 : profile' = [profile EXCEPT !.digital = TRUE, !.active = active]
    /\ UNCHANGED <<build, registry, traffic, tally, answer, listing, called, dispatches>>

(* The host reads a list, page by page: each cursor is the previous page's  *)
HostLists ==
    \E op \in Lists \cap {q.op : q \in traffic} :
      LET from == IF listing.op = op /\ listing.next # End THEN listing
                  ELSE [NoListing EXCEPT !.op = op]
          a == Served(registry, Operation(op, 0, Value("UNSIGNED_32", from.next)))
      IN  /\ Answers(op, "HOST_LOCAL", "CLEAR", a)
          /\ listing' = IF a.status # "OK" THEN NoListing
                        ELSE [from EXCEPT !.next = Head(a.record), !.seen = @ \o Tail(a.record)]
          /\ UNCHANGED <<build, registry, traffic, profile, tally, called, dispatches>>

CapabilityNext ==
    \/ build = "HOST" /\ \E q \in traffic : HostRequests(q)
    \/ build = "HOST" /\ \E q \in traffic : PeerRequests(q)
    \/ build = "HOST" /\ HostLists
    \/ build = "CHARACTERIZATION" /\ Characterization
    \/ ButtonSampled

CapabilitySpec == CapabilityInit /\ [][CapabilityNext]_capabilityVars

-----------------------------------------------------------------------------
(* The handler's own values are bits that fit and every count is bounded *)
CapabilityTypeOK ==
    /\ registry \in Registries
    /\ Fits("BOOLEAN", profile.indicator) /\ Fits("BOOLEAN", profile.active)
    /\ Fits("NORMALIZED_U16", profile.level)
    /\ tally \in [Tallies -> 0 .. TallyLimit] /\ called \in 0 .. TallyLimit
    /\ listing.next \in 0 .. Len(Entries(registry, listing.op)) \cup {End}

(* A walk through a list that reached its end has seen every entry once, in *)
(* order, however many pages that took; on the way it has a prefix          *)
EnumerationIsWhole ==
    listing.op # "NONE" =>
      listing.seen = IF listing.next = End THEN Entries(registry, listing.op)
                     ELSE SubSeq(Entries(registry, listing.op), 1, listing.next)

(* Whatever a handler answers and whatever is asked, the answer passes the  *)
(* schema its encoder checks: encodeOperationResponse and encodeResponse    *)
(* never fail, so neither a host request nor an admitted command is left    *)
(* without its response.  executeAdmittedOperation casts the local result's *)
(* code to an operation status; a command that passed the radio's schema is *)
(* never rejected by the host's, whose codes mean other things.  The pages  *)
(* of a list are together the whole list.                                   *)
EveryAnswerEncodes ==
    /\ CapabilityTypeOK /\ EnumerationIsWhole
    /\ Encodes(answer.op, answer)
    /\ answer.by = "FUTURE_REMOTE" => answer.class = "OPERATION_RESULT"

(* The indicator changes only in a SET that succeeded, of a local caller,   *)
(* and with the interlock clear where the descriptor asks for one: neither  *)
(* the radio peer nor an operation that is answered with a denial moves it. *)
(* "Accepted means the handler was invoked, including BUSY,                 *)
(* HARDWARE_UNAVAILABLE, and OPERATION_FAILED": recordOutcome sees only the *)
(* final status and still counts exactly the handler's calls, those whose   *)
(* answer the dispatcher replaced included.                                 *)
OutputChangesOnlyLocally ==
    [][/\ profile'.indicator # profile.indicator =>
            /\ answer'.op = "SET_INDICATOR" /\ answer'.status = "OK"
            /\ answer'.by # "FUTURE_REMOTE"
            /\ \A d \in Find(registry, Indicator) :
                   d.safety = "NONE" \/ answer'.interlock = "CLEAR"
       /\ tally'["accepted"] = called']_capabilityVars
=============================================================================
