----------------------------- MODULE EventCustody -----------------------------
(***************************************************************************)
(* An event on its way from the producer on the Node to the host: the       *)
(* Node's store (NodeEventStore), the radio, the Hub's ledger               *)
(* (HubEventLedger, whose names are used here without a prefix) and the     *)
(* host that consumes.  Both stores keep all their storage faults and power *)
(* losses.                                                                  *)
(*                                                                         *)
(* Of the Node's delivery (NodeEventDelivery) its choices are kept and its  *)
(* clocks are left out: an attempt may time out and an event may expire at  *)
(* any moment.  The radio loses packets, and either device may be late to   *)
(* look at the one packet its receiver holds.  The sequence of an attempt   *)
(* is left out as well: an answer to an earlier attempt of the same event   *)
(* is taken for an answer to this one, as after a reboot or a wrap.  That a *)
(* FAILED event is reclaimed before the next one is loaded is left out too. *)
(***************************************************************************)
EXTENDS HubEventLedger

CONSTANTS NodeCapacity, IdBlock, MaxId, MaxEpoch, MaxAttempts,   \* the Node's
          Lifetime,
          MaxFaults     \* bound: storage faults and losses of power

ASSUME CustodyAssumption ==
    /\ NodeCapacity \in Nat \ {0}
    /\ IdBlock \in Nat \ {0} /\ MaxId \in Nat /\ MaxId > IdBlock
    /\ MaxEpoch \in Nat \ {0} /\ MaxAttempts \in Nat /\ Lifetime \in Nat \ {0}
    /\ MaxFaults \in Nat
    /\ Epochs = 1 .. MaxEpoch /\ Ids = 1 .. MaxId

VARIABLES
    nodeCell, nodeMeta, nodeMode, nodeSlots, nodeMetadata,
    nodeNextId, nodeEndExclusive, nodePromised, nodeLastIssued,
    attempt,      \* the slot whose admission is awaited: a set of one or none
    event,        \* the event the Hub's receiver holds, likewise
    reply,        \* the admission response the Node's receiver holds, likewise
    created,      \* history: events the Node reported ENQUEUED
    abandoned,    \* history: events the Node gave up as FAILED or EXPIRED
    faults        \* bound

N == INSTANCE NodeEventStore WITH
        Capacity <- NodeCapacity, Lifetimes <- {Lifetime},
        cell <- nodeCell, meta <- nodeMeta, mode <- nodeMode, slots <- nodeSlots,
        metadata <- nodeMetadata, nextVolatileId <- nodeNextId,
        volatileEndExclusive <- nodeEndExclusive,
        promised <- nodePromised, lastIssued <- nodeLastIssued

hubVars == vars
nodeVars == <<nodeCell, nodeMeta, nodeMode, nodeSlots, nodeMetadata, nodeNextId,
              nodeEndExclusive, nodePromised, nodeLastIssued>>
air == <<event, reply>>
custodyVars == <<hubVars, nodeVars, attempt, air, created, abandoned, faults>>

CustodyInit ==
    /\ Init /\ N!Init
    /\ attempt = {} /\ event = {} /\ reply = {} /\ created = {} /\ abandoned = {}
    /\ faults = 0

(* The event a record of the Node puts on the air *)
Sent(r) == [epoch |-> r.epoch, id |-> r.id, content |-> r.content]

-----------------------------------------------------------------------------
(* The Node *)

(* A boot, or a loss of power: no attempt survives *)
NodeBoots ==
    /\ N!Recover \/ N!RecoverFails \/ N!FormatFails \/ N!FreshMetadataFails \/ N!PowerLoss
    /\ attempt' = {}
    /\ UNCHANGED <<hubVars, air, created, abandoned>>

(* A failed commit ends the delivery until the next boot *)
KeepsAttempt(after) == attempt' = IF nodeMode' = "READY" THEN after ELSE {}

(* TrackedCreationSink::create *)
Create ==
    /\ \E input \in N!Inputs :
         \/ /\ N!Enqueue(input)
            /\ created' = created \cup {Sent(N!QueuedRecord(N!NextIdentity, input))}
         \/ (N!EnqueueRecordFails(input) \/ N!EnqueueIdentityFails) /\ UNCHANGED created
    /\ KeepsAttempt(attempt)
    /\ UNCHANGED <<hubVars, air, abandoned>>

Queued(s) == nodeSlots[s].state = "QUEUED"

(* Mutant: the queue is in slot order *)
HeadBySlot(s) == Queued(s) /\ \A t \in N!Slots : Queued(t) => s <= t

(* queuedAt(0), headStillAuthoritative *)
Head(s) == Queued(s) /\ \A t \in N!Slots :
                            Queued(t) => ~N!IdentityLess(nodeSlots[t], nodeSlots[s])

(* grantTransmit and the transmission: the attempt is made durable, then    *)
(* the event goes on the air and reaches the Hub's receiver or does not     *)
Transmit(s) ==
    /\ attempt = {} /\ nodeMode = "READY" /\ Head(s)
    /\ N!ArmAttempt(s)
    /\ KeepsAttempt({s})
    /\ event' \in {event} \cup (IF nodeMode' = "READY" THEN {{Sent(nodeSlots[s])}} ELSE {})
    /\ UNCHANGED <<hubVars, reply, created, abandoned>>

(* The store's mutation that gives an event up: given up is what flash says *)
(* is no longer queued                                                      *)
Abandon(s, mutation) ==
    /\ mutation
    /\ abandoned' = abandoned \cup 
           (IF nodeCell'[s].state = "QUEUED" THEN {} ELSE {Sent(nodeSlots[s])})
    /\ KeepsAttempt(attempt \ {s})
    /\ UNCHANGED <<hubVars, event, created>>

(* failedAttempt: BACKOFF, or FAILED after the last attempt.  A permanent   *)
(* refusal is FAILED at once.                                               *)
FailedAttempt(s, permanent) ==
    IF permanent \/ nodeSlots[s].attempts >= MaxAttempts THEN Abandon(s, N!MarkFailed(s))
    ELSE attempt' = {} /\ UNCHANGED <<hubVars, nodeVars, event, created, abandoned>>

(* service: the admission times out, or an earlier boot used up the attempts *)
Timeout(s) ==
    /\ nodeMode = "READY" /\ UNCHANGED reply
    /\ \/ s \in attempt /\ FailedAttempt(s, FALSE)
       \/ /\ attempt = {} /\ Head(s) /\ nodeSlots[s].attempts >= MaxAttempts
          /\ Abandon(s, N!MarkFailed(s))

(* Policy::service, and its recover at a boot: the lifetime of an event ends *)
Expire(s) == Abandon(s, N!MarkExpired(s)) /\ UNCHANGED reply

(* reclaimTerminals, at a boot and at radio standby: one slot at a time, as *)
(* a fault or a loss of power may come between two                          *)
Reclaim(s) ==
    /\ attempt = {} /\ N!Reclaim(s) /\ UNCHANGED attempt
    /\ UNCHANGED <<hubVars, air, created, abandoned>>

(* admissionCandidate: matchesEvent, and what the status says *)
Matches(r, s) == SameIdentity(nodeSlots[s], r.event)

Answered(s, r) ==
    \/ ~Matches(r, s) /\ UNCHANGED <<hubVars, nodeVars, attempt, event, created, abandoned>>
    \/ /\ Matches(r, s) /\ r.status = "ADMITTED"
       /\ N!ReleaseQueued(s) /\ KeepsAttempt({})
       /\ UNCHANGED <<hubVars, event, created, abandoned>>
    \/ /\ Matches(r, s) /\ r.status # "ADMITTED"
       /\ FailedAttempt(s, r.status = "IDENTITY_CONTENT_MISMATCH")

ReceiveReply ==
    /\ nodeMode # "OFF" /\ reply' = {}
    /\ \E r \in reply :
         \/ nodeMode = "READY" /\ \E s \in attempt : Answered(s, r)
         \/ /\ attempt = {}
            /\ UNCHANGED <<hubVars, nodeVars, attempt, event, created, abandoned>>

-----------------------------------------------------------------------------
(* The Hub *)

(* Mutant: a ledger out of service acknowledges *)
WireStatusGenerous(result) ==
    IF result \in {"CAPACITY", "IDENTITY_CONTENT_MISMATCH"} THEN {result} ELSE {"ADMITTED"}

(* HubAdapter::process: the status that answers a result, or none *)
WireStatus(result) ==
    CASE result \in {"DURABLE_NEW_ADMISSION", "EXACT_DUPLICATE"} -> {"ADMITTED"}
      [] result \in {"CAPACITY", "IDENTITY_CONTENT_MISMATCH"} -> {result}
      [] OTHER -> {}

(* The answer goes on the air and reaches the Node's receiver or does not *)
Replies(e, result) ==
    reply' \in {reply} \cup {{[event |-> e, status |-> s]} : s \in WireStatus(result)}

(* What the Node puts on the air passes validateAdmission *)
ReceiveEvent ==
    /\ event' = {}
    /\ \E e \in event :
         \/ AdmitNew(e) /\ Replies(e, "DURABLE_NEW_ADMISSION")
         \/ AdmitDuplicate(e) /\ Replies(e, "EXACT_DUPLICATE")
         \/ \E result \in AdmissionResults \ Rejections : AdmitRefused(e, "OK", result) /\ Replies(e, result)
         \/ (AdmitExhausted(e) \/ AdmitReservationFails(e) \/ AdmitRecordFails(e))
                /\ Replies(e, "STORAGE_FAILURE")
         \/ AdmitLosesPower(e) /\ UNCHANGED reply
    /\ UNCHANGED <<nodeVars, attempt, created, abandoned>>

HubBoots ==
    /\ Recover \/ PowerLoss
    /\ event' = {} /\ UNCHANGED reply
    /\ UNCHANGED <<nodeVars, attempt, created, abandoned>>

(* CONSUME_EVENT of the host, for an event it has polled *)
HostConsumes ==
    /\ \E s \in Slots : Consume(slots[s]) \/ ConsumeFails(slots[s])
    /\ event' = IF mode' = "OFF" THEN {} ELSE event
    /\ UNCHANGED <<nodeVars, attempt, reply, created, abandoned>>

Step ==
    \/ NodeBoots \/ Create
    \/ \E s \in N!Slots : Transmit(s) \/ Timeout(s) \/ Expire(s) \/ Reclaim(s)
    \/ ReceiveReply \/ ReceiveEvent \/ HubBoots \/ HostConsumes

(* The step takes a device, or the ledger's ordinals, out of service, fails *)
(* to bring it into service, or cuts a format short; to switch a degraded   *)
(* device off is the way back                                               *)
NodeFault == nodeMode # "DEGRADED" /\ nodeMode' # "READY" /\ nodeVars' # nodeVars
HubFault == \/ mode # "DEGRADED" /\ mode' # "READY" /\ hubVars' # hubVars
            \/ ordinalReady /\ ~ordinalReady'

CustodyNext ==
    /\ Step
    /\ faults' = IF NodeFault \/ HubFault THEN faults + 1 ELSE faults
    /\ faults' <= MaxFaults

CustodySpec == CustodyInit /\ [][CustodyNext]_custodyVars

-----------------------------------------------------------------------------
(* An event the Node reported ENQUEUED is never nowhere: it is queued in    *)
(* the Node's flash, or active in the Hub's, or the host has asked to       *)
(* consume it, or the Node gave it up as FAILED or EXPIRED.  No lost or     *)
(* late packet, storage fault or loss of power on either side, between the  *)
(* admission and the release, opens a gap.                                  *)
EventIsSomewhere ==
    \A e \in created :
        \/ e \in abandoned
        \/ \E s \in N!Slots : nodeCell[s].state = "QUEUED" /\ Sent(nodeCell[s]) = e
        \/ \E s \in Slots : cell[s].state = "ACTIVE" /\ Sent(cell[s]) = e
        \/ \E p \in requested : Sent(p) = e

(* The ledger takes each event into custody once, in the order in which the *)
(* Node created them: the host meets no event twice and none out of order,  *)
(* although acknowledgments are lost, tombstones are reused and both        *)
(* devices reboot.                                                          *)
AdmittedOnceInOrder ==
    \A p, q \in ever : p # q =>
        ~SameIdentity(p, q) /\ (IncomingLater(p, q) <=> p.ordinal > q.ordinal)
===============================================================================
