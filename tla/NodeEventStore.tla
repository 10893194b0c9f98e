--------------------------- MODULE NodeEventStore ---------------------------
(***************************************************************************)
(* The Node's durable event store (node_event_store.h) with the identity    *)
(* allocator inside it (event_identity.h).  A slot is FREE, or holds a      *)
(* QUEUED event, or a FAILED or EXPIRED one that waits to be reclaimed.     *)
(* The durable record of an event counts the attempts used and the seconds  *)
(* of lifetime that remain.  Event ids come from durably reserved blocks;   *)
(* when the ids of an epoch run out the next epoch starts.                  *)
(*                                                                         *)
(* Flash is one atomic cell per slot and one for the identity metadata (the *)
(* A/B copies under each are the subject of DualCopy).  A mutation may      *)
(* succeed, fail (the cell in doubt, the store degraded until reboot) or    *)
(* lose power (the cell in doubt, the Node off).  The configured device id  *)
(* is a constant of the firmware, so the source of an identity is left out; *)
(* family, flags and body are one "content"; diagnostics are left out.      *)
(***************************************************************************)
EXTENDS Integers, DurableCell

CONSTANTS Capacity,       \* NODE_EVENT_CAPACITY
          IdBlock,        \* RESERVATION_BLOCK_SIZE
          MaxId,          \* UINT32_MAX, as the largest event id
          MaxEpoch,       \* UINT32_MAX, as the largest epoch
          MaxAttempts,    \* MAX_ATTEMPTS
          Lifetimes,      \* the lifetime budgets of the producers
          Contents,       \* the contents of the producers' events
          NoContent

ASSUME StoreAssumption ==
    /\ Capacity \in Nat \ {0}
    /\ IdBlock \in Nat \ {0}
    /\ MaxId \in Nat /\ MaxId > IdBlock
    /\ MaxEpoch \in Nat \ {0}
    /\ MaxAttempts \in Nat
    /\ Lifetimes \subseteq Nat \ {0}
    /\ NoContent \notin Contents

VARIABLES
    cell,                  \* flash: the authoritative record of each slot
    meta,                  \* flash: the authoritative identity metadata
    mode,                  \* "OFF", "READY" (healthy_) or "DEGRADED"
    slots,                 \* slots_: the records in RAM
    metadata,              \* allocator_.metadata_
    nextVolatileId,
    volatileEndExclusive,
    promised,              \* history: reported ENQUEUED, not yet given up
    lastIssued             \* history: the identity allocated last

flash == <<cell, meta>>
allocator == <<metadata, nextVolatileId, volatileEndExclusive>>
ram == <<slots, allocator>>
history == <<promised, lastIssued>>
vars == <<flash, mode, ram, history>>

Slots == 1 .. Capacity
EventEpochs == 1 .. MaxEpoch
EventIds == 1 .. MaxId
Inputs == [content : Contents, lifetime : Lifetimes]

Nothing(state) == [state |-> state, epoch |-> 0, id |-> 0, content |-> NoContent,
                   lifetime |-> 0, remaining |-> 0, attempts |-> 0]

Missing == Nothing("MISSING")
Free    == Nothing("FREE")

QueuedRecord(i, input) ==
    [state |-> "QUEUED", epoch |-> i.epoch, id |-> i.id,
     content |-> input.content, lifetime |-> input.lifetime,
     remaining |-> input.lifetime, attempts |-> 0]

Owned(r) == r.state \in {"QUEUED", "FAILED", "EXPIRED"}

Identity(r) == [epoch |-> r.epoch, id |-> r.id]

(* What the producer handed over, with the identity it was given *)
Custody(r) == [epoch |-> r.epoch, id |-> r.id, content |-> r.content,
               lifetime |-> r.lifetime]

IdentityLess(left, right) ==
    left.epoch < right.epoch \/ (left.epoch = right.epoch /\ left.id < right.id)

NoMeta == [state |-> "MISSING", epoch |-> 0, next |-> 0]
Reserved(epoch, next) == [state |-> "HELD", epoch |-> epoch, next |-> next]

NoIdentity == [epoch |-> 0, id |-> 0]

(* validHighWater: the ids on a block boundary *)
HighWaters == {h \in EventIds : \E k \in 0 .. MaxId : h = 1 + k * IdBlock}

Init == /\ cell = [s \in Slots |-> Missing] /\ meta = NoMeta
        /\ mode = "OFF"
        /\ slots = [s \in Slots |-> Missing] /\ metadata = NoMeta
        /\ nextVolatileId = 0 /\ volatileEndExclusive = 0
        /\ promised = {} /\ lastIssued = NoIdentity

(* reset: what recover starts from, and what power loss leaves *)
Reset == /\ slots' = [s \in Slots |-> Missing] /\ metadata' = NoMeta
         /\ nextVolatileId' = 0 /\ volatileEndExclusive' = 0

(* An unverified mutation: RAM keeps what it had and the store refuses to   *)
(* work until the next boot; or power is lost                               *)
OutOfService == \/ mode' = "DEGRADED" /\ UNCHANGED ram
                \/ mode' = "OFF" /\ Reset

-----------------------------------------------------------------------------
(* recover *)

(* The slots after formatting, where every copy of every slot is missing *)
BootCells == IF \A s \in Slots : cell[s] = Missing
               THEN [s \in Slots |-> Free] ELSE cell

(* rebuildIndex finds no identity twice *)
Distinct(records) ==
    \A s, t \in Slots : s # t /\ Owned(records[s]) /\ Owned(records[t]) =>
                            Identity(records[s]) # Identity(records[t])

Consistent(records) == (\A s \in Slots : Held(records[s])) /\ Distinct(records)

Vacant(records) == \A s \in Slots : records[s].state = "FREE"

(* initializeFresh: a random nonzero epoch *)
FreshMetadata == {Reserved(epoch, 1) : epoch \in EventEpochs}

Usable(m) == Held(m) /\ m.next \in HighWaters

(* The slots are formatted or loaded, then the allocator recovers: from its *)
(* metadata, or afresh if there is none and no custody depends on it        *)
Recover ==
    /\ mode = "OFF" /\ Consistent(BootCells)
    /\ cell' = BootCells /\ slots' = BootCells
    /\ \/ Usable(meta) /\ meta' = meta
       \/ ~Usable(meta) /\ Vacant(BootCells) /\ meta' \in FreshMetadata
    /\ metadata' = meta'
    /\ nextVolatileId' = meta'.next /\ volatileEndExclusive' = meta'.next
    /\ mode' = "READY"
    /\ UNCHANGED history

(* A read is unavailable, a slot of a formatted flash has no authoritative  *)
(* copy, identities collide, or custody exists without identity metadata    *)
RecoverFails ==
    /\ mode = "OFF"
    /\ mode' = "DEGRADED" /\ Reset
    /\ UNCHANGED <<flash, history>>

(* Formatting is cut short at one slot: the earlier ones are written *)
FormatFails ==
    /\ mode = "OFF" /\ \A s \in Slots : cell[s] = Missing
    /\ \E last \in Slots : \E left \in InDoubt(Missing, Free) :
           cell' = [s \in Slots |-> IF s < last THEN Free
                                    ELSE IF s = last THEN left ELSE Missing]
    /\ mode' \in {"OFF", "DEGRADED"} /\ Reset
    /\ UNCHANGED <<meta, history>>

(* Entropy fails, or the fresh metadata is cut short *)
FreshMetadataFails ==
    /\ mode = "OFF" /\ Consistent(BootCells) /\ Vacant(BootCells) /\ ~Usable(meta)
    /\ cell' = BootCells
    /\ \E fresh \in FreshMetadata : meta' \in InDoubt(meta, fresh)
    /\ mode' \in {"OFF", "DEGRADED"} /\ Reset
    /\ UNCHANGED history

-----------------------------------------------------------------------------
(* Mutant: a full queue overwrites *)
FreeSlotsOverwriting ==
    LET free == {s \in Slots : slots[s].state = "FREE"}
    IN  IF free = {} THEN Slots ELSE free

(* enqueue *)

FreeSlots == {s \in Slots : slots[s].state = "FREE"}

(* The lowest free slot, if there is one *)
FreeSlot == {s \in FreeSlots : \A t \in FreeSlots : s <= t}

EnqueueRefused(valid, result) ==
    /\ \/ mode = "DEGRADED" /\ result = "DEGRADED"
       \/ mode = "READY" /\ ~valid /\ result = "INVALID_EVENT"
       \/ mode = "READY" /\ valid /\ FreeSlots = {} /\ result = "QUEUE_FULL"
    /\ UNCHANGED vars

MustReserve == nextVolatileId = volatileEndExclusive
IdsExhausted == metadata.next > MaxId - IdBlock
EpochExhausted == IdsExhausted /\ metadata.epoch = MaxEpoch

(* Mutant: ids start again in the same epoch *)
BlockSameEpoch ==
    [epoch |-> metadata.epoch, id |-> IF IdsExhausted THEN 1 ELSE metadata.next]

(* reserveBlock: the first id of the next block, and the metadata after it *)
Block == IF IdsExhausted THEN [epoch |-> metadata.epoch + 1, id |-> 1]
                         ELSE [epoch |-> metadata.epoch, id |-> metadata.next]
AfterBlock == Reserved(Block.epoch, Block.id + IdBlock)

(* allocate: the identity it returns and the metadata it leaves *)
NextIdentity == IF MustReserve THEN Block
                ELSE [epoch |-> metadata.epoch, id |-> nextVolatileId]

MetaAfter == IF MustReserve THEN AfterBlock ELSE metadata

Allocate ==
    /\ MustReserve => ~EpochExhausted
    /\ meta' = MetaAfter /\ metadata' = MetaAfter
    /\ nextVolatileId' = NextIdentity.id + 1
    /\ volatileEndExclusive' = IF MustReserve THEN AfterBlock.next
                                              ELSE volatileEndExclusive

Enqueue(input) ==
    /\ mode = "READY"
    /\ \E target \in FreeSlot :
           LET record == QueuedRecord(NextIdentity, input)
           IN  /\ cell' = [cell EXCEPT ![target] = record]
               /\ slots' = [slots EXCEPT ![target] = record]
               /\ promised' = promised \cup {Custody(record)}
    /\ Allocate
    /\ lastIssued' = NextIdentity
    /\ UNCHANGED mode

(* No identity: the epochs are exhausted or the reservation is unverified *)
EnqueueIdentityFails ==
    /\ mode = "READY" /\ FreeSlots # {} /\ MustReserve
    /\ \/ EpochExhausted /\ mode' = "DEGRADED" /\ UNCHANGED <<meta, ram>>
       \/ ~EpochExhausted /\ meta' \in InDoubt(meta, AfterBlock) /\ OutOfService
    /\ UNCHANGED <<cell, history>>

(* The record is unverified: its identity is burned, the record may be there *)
EnqueueRecordFails(input) ==
    /\ mode = "READY"
    /\ \E target \in FreeSlot :
           \E left \in InDoubt(cell[target], QueuedRecord(NextIdentity, input)) :
               cell' = [cell EXCEPT ![target] = left]
    /\ lastIssued' = NextIdentity
    /\ \/ Allocate /\ mode' = "DEGRADED" /\ UNCHANGED slots
       \/ /\ MustReserve => ~EpochExhausted
          /\ meta' = MetaAfter /\ mode' = "OFF" /\ Reset
    /\ UNCHANGED promised

-----------------------------------------------------------------------------
(* The mutations of one record: verified, or in doubt *)

Commit(s, record) ==
    \/ /\ cell' = [cell EXCEPT ![s] = record]
       /\ slots' = [slots EXCEPT ![s] = record]
       /\ UNCHANGED <<mode, allocator>>
    \/ /\ \E left \in InDoubt(cell[s], record) : cell' = [cell EXCEPT ![s] = left]
       /\ OutOfService

InState(s, states) == mode = "READY" /\ slots[s].state \in states

(* The caller has given the event up *)
GivenUp(s) == promised' = promised \ {Custody(slots[s])}

MarkFailed(s) ==
    /\ InState(s, {"QUEUED"})
    /\ Commit(s, [slots[s] EXCEPT !.state = "FAILED"])
    /\ GivenUp(s)
    /\ UNCHANGED <<meta, lastIssued>>

MarkExpired(s) ==
    /\ InState(s, {"QUEUED"})
    /\ Commit(s, [slots[s] EXCEPT !.state = "EXPIRED"])
    /\ GivenUp(s)
    /\ UNCHANGED <<meta, lastIssued>>

ReleaseQueued(s) ==
    /\ InState(s, {"QUEUED"})
    /\ Commit(s, Free)
    /\ GivenUp(s)
    /\ UNCHANGED <<meta, lastIssued>>

Reclaim(s) ==
    /\ InState(s, {"FAILED", "EXPIRED"})
    /\ Commit(s, Free)
    /\ UNCHANGED <<meta, history>>

(* Mutant: the new value need not be smaller *)
CheckpointAny(s, seconds) ==
    /\ InState(s, {"QUEUED"})
    /\ Commit(s, [slots[s] EXCEPT !.remaining = seconds])
    /\ UNCHANGED <<meta, history>>

CheckpointRemaining(s, seconds) ==
    /\ InState(s, {"QUEUED"})
    /\ seconds # 0 /\ seconds < slots[s].remaining
    /\ Commit(s, [slots[s] EXCEPT !.remaining = seconds])
    /\ UNCHANGED <<meta, history>>

ArmAttempt(s) ==
    /\ InState(s, {"QUEUED"})
    /\ slots[s].attempts < MaxAttempts
    /\ Commit(s, [slots[s] EXCEPT !.attempts = @ + 1])
    /\ UNCHANGED <<meta, history>>

PowerLoss == /\ mode # "OFF"
             /\ mode' = "OFF" /\ Reset
             /\ UNCHANGED <<flash, history>>

-----------------------------------------------------------------------------

Next == \/ Recover \/ RecoverFails \/ FormatFails \/ FreshMetadataFails
        \/ \E input \in Inputs : Enqueue(input) \/ EnqueueRecordFails(input)
        \/ EnqueueIdentityFails
        \/ \E s \in Slots :
               \/ MarkFailed(s) \/ MarkExpired(s) \/ ReleaseQueued(s)
               \/ Reclaim(s) \/ ArmAttempt(s)
               \/ \E l \in Lifetimes : \E seconds \in 1 .. l :
                      CheckpointRemaining(s, seconds)
        \/ \E valid \in BOOLEAN :
               \E result \in {"DEGRADED", "INVALID_EVENT", "QUEUE_FULL"} :
                   EnqueueRefused(valid, result)
        \/ PowerLoss

Spec == Init /\ [][Next]_vars

-----------------------------------------------------------------------------

Records == {Missing, Nothing("INVALID"), Free} \cup
           {r \in [state : {"QUEUED", "FAILED", "EXPIRED"}, epoch : EventEpochs,
                   id : EventIds, content : Contents, lifetime : Lifetimes,
                   remaining : Nat, attempts : 0 .. MaxAttempts] :
               r.remaining \in 1 .. r.lifetime}

TypeOK ==
    /\ cell \in [Slots -> Records]
    /\ meta \in {NoMeta, [NoMeta EXCEPT !.state = "INVALID"]} \cup
                [state : {"HELD"}, epoch : EventEpochs, next : HighWaters]
    /\ mode \in {"OFF", "READY", "DEGRADED"}
    /\ slots \in [Slots -> Records]
    /\ metadata \in {NoMeta} \cup
                    [state : {"HELD"}, epoch : EventEpochs, next : HighWaters]
    /\ nextVolatileId \in 0 .. MaxId
    /\ volatileEndExclusive \in 0 .. MaxId
    /\ promised \in SUBSET [epoch : EventEpochs, id : EventIds, content : Contents,
                            lifetime : Lifetimes]
    /\ lastIssued \in {NoIdentity} \cup [epoch : EventEpochs, id : EventIds]

(* An event reported ENQUEUED is durable, queued, with the producer's       *)
(* content and under the identity it was given, until the delivery code     *)
(* gives it up: no failed commit, burned id, reboot or reuse of a slot      *)
(* loses it or changes it.                                                  *)
EnqueuedSurvives ==
    \A p \in promised :
        \E s \in Slots : cell[s].state = "QUEUED" /\ Custody(cell[s]) = p

Formatted == \A s \in Slots : Held(cell[s])

(* What recover asks of the flash: every slot has a record, no identity     *)
(* twice, and identity metadata wherever custody depends on it              *)
Serviceable == Consistent(cell) /\ (Vacant(cell) \/ Usable(meta))

(* From the step that formats the last slot on, a boot that can read the    *)
(* flash succeeds: no step, torn or failed writes included, takes a         *)
(* formatted flash to one that recover refuses with INDETERMINATE_SLOT,     *)
(* DUPLICATE_IDENTITY or IDENTITY_RECOVERY_REQUIRED.                        *)
FormattedStaysServiceable == [][Formatted \/ Formatted' => Serviceable']_vars

(* A store in service chooses slots, ids and budgets from RAM that is       *)
(* exactly what is durable                                                  *)
MirrorsFlash == mode = "READY" => slots = cell /\ metadata = meta

Becomes(s) == Owned(cell'[s]) /\ ~Owned(cell[s])

(* Every event enters the queue behind everything issued before, burned     *)
(* identities included: no identity is used twice across reboots, failed    *)
(* commits and the change of epoch, and ordering the queue by identity, as  *)
(* rebuildIndex does, is ordering it by creation.                           *)
IdentityNeverReused ==
    [][\A s \in Slots : Becomes(s) => IdentityLess(lastIssued, cell'[s])]_vars

(* While a slot holds an event, its attempts never decrease, its remaining  *)
(* lifetime never increases, its content and identity never change, and a   *)
(* terminal state is left only by freeing the slot: retry and reboot never  *)
(* restore a budget or revive an event, and no slot is reused without being *)
(* freed first.                                                             *)
BudgetNeverRestored ==
    [][\A s \in Slots : Owned(cell[s]) /\ Owned(cell'[s]) =>
           /\ Custody(cell'[s]) = Custody(cell[s])
           /\ cell'[s].attempts >= cell[s].attempts
           /\ cell'[s].remaining <= cell[s].remaining
           /\ cell'[s].state \in {cell[s].state} \cup
                  (IF cell[s].state = "QUEUED" THEN {"FAILED", "EXPIRED"}
                                               ELSE {})]_vars
=============================================================================
