--------------------------- MODULE HubEventLedger ---------------------------
(***************************************************************************)
(* The Hub's durable event ledger (hub_event_ledger.h): a fixed array of    *)
(* slots that takes custody of events sent by the Node, keeps each until    *)
(* the host has consumed it, keeps the consumed ones as tombstones that     *)
(* suppress retransmissions, and stamps every admission with an ordinal     *)
(* taken from durably reserved blocks.                                      *)
(*                                                                         *)
(* Flash is one atomic cell per slot and one for the ordinal metadata: the  *)
(* A/B copies under each cell are the subject of DualCopy.  A mutation may  *)
(* succeed, fail (the cell in doubt, the ledger degraded until reboot) or   *)
(* lose power (the cell in doubt, the Hub off).  There is one peer Node, as *)
(* in the firmware, so the source id of an identity is left out; family,    *)
(* flags, lifetime and body are one "content"; diagnostics are left out.    *)
(***************************************************************************)
EXTENDS Integers, DurableCell

CONSTANTS Capacity,       \* HUB_EVENT_CAPACITY
          OrdinalBlock,   \* ORDINAL_RESERVATION_BLOCK_SIZE
          MaxOrdinal,     \* UINT32_MAX
          Epochs, Ids,    \* the identities that arrive
          Contents,       \* the canonical contents that arrive
          NoContent

ASSUME LedgerAssumption ==
    /\ Capacity \in Nat \ {0}
    /\ OrdinalBlock \in Nat \ {0}
    /\ MaxOrdinal \in Nat /\ MaxOrdinal > OrdinalBlock
    /\ Epochs \subseteq Nat \ {0} /\ Ids \subseteq Nat \ {0}
    /\ NoContent \notin Contents

VARIABLES
    cell,                  \* flash: the authoritative record of each slot
    meta,                  \* flash: the authoritative ordinal metadata
    mode,                  \* "OFF", "READY" (ledgerHealthy_) or "DEGRADED"
    slots,                 \* slots_: the records in RAM
    metadata,              \* metadata_.nextUnreservedAdmissionOrdinal
    ordinalReady,          \* ordinalReady_
    nextVolatileOrdinal,
    volatileEndExclusive,
    promised,              \* history: custody reported to the Node
    requested,             \* history: custody the host asked to consume
    ever                   \* history: custody that has been durable

flash == <<cell, meta>>
ordinals == <<metadata, ordinalReady, nextVolatileOrdinal, volatileEndExclusive>>
ram == <<slots, ordinals>>
history == <<promised, requested, ever>>
vars == <<flash, mode, ram, history>>

Slots == 1 .. Capacity
Events == [epoch : Epochs, id : Ids, content : Contents]
Identities == [epoch : Epochs, id : Ids]

Record(state, e, ordinal) ==
    [state |-> state, epoch |-> e.epoch, id |-> e.id, content |-> e.content,
     ordinal |-> ordinal]

Nothing(state) == [state |-> state, epoch |-> 0, id |-> 0,
                   content |-> NoContent, ordinal |-> 0]

Missing == Nothing("MISSING")
Empty   == Nothing("EMPTY")

NoMeta == [state |-> "MISSING", next |-> 0]
HighWater(n) == [state |-> "HELD", next |-> n]

Owned(r) == r.state \in {"ACTIVE", "CONSUMED"}

SameIdentity(r, e) == r.epoch = e.epoch /\ r.id = e.id

SameCanonical(r, e) == SameIdentity(r, e) /\ r.content = e.content

(* incomingLater: e was created after r *)
IncomingLater(e, r) ==
    e.epoch > r.epoch \/ (e.epoch = r.epoch /\ e.id > r.id)

(* An owned record without its state: the custody it stands for *)
Custody(r) == [epoch |-> r.epoch, id |-> r.id, content |-> r.content,
               ordinal |-> r.ordinal]

Custodies == [epoch : Epochs, id : Ids, content : Contents,
              ordinal : 1 .. MaxOrdinal]

(* validHighWater: the 32-bit values on a block boundary *)
HighWaters == {h \in 1 .. MaxOrdinal :
                  \E k \in 0 .. MaxOrdinal : h = 1 + k * OrdinalBlock}

Init == /\ cell = [s \in Slots |-> Missing] /\ meta = NoMeta
        /\ mode = "OFF"
        /\ slots = [s \in Slots |-> Missing]
        /\ metadata = 0 /\ ordinalReady = FALSE
        /\ nextVolatileOrdinal = 0 /\ volatileEndExclusive = 0
        /\ promised = {} /\ requested = {} /\ ever = {}

(* reset: what recover starts from, and what power loss leaves *)
Reset == /\ slots' = [s \in Slots |-> Missing]
         /\ metadata' = 0 /\ ordinalReady' = FALSE
         /\ nextVolatileOrdinal' = 0 /\ volatileEndExclusive' = 0

-----------------------------------------------------------------------------
(* recover *)

Blank == (\A s \in Slots : cell[s] = Missing) /\ meta = NoMeta

(* validateRecoveredSlots *)
Consistent(records) ==
    /\ \A s \in Slots : Held(records[s])
    /\ \A s, t \in Slots :
           s # t /\ Owned(records[s]) /\ Owned(records[t]) =>
               /\ ~SameIdentity(records[s], records[t])
               /\ records[s].ordinal # records[t].ordinal

(* Existing custody is loaded.  Ordinals come back only if their metadata   *)
(* is readable and holds a block boundary.                                  *)
RecoverCustody ==
    /\ mode = "OFF" /\ Consistent(cell)
    /\ mode' = "READY" /\ slots' = cell
    /\ \/ /\ Held(meta) /\ meta.next \in HighWaters
          /\ metadata' = meta.next /\ ordinalReady' = TRUE
          /\ nextVolatileOrdinal' = meta.next
          /\ volatileEndExclusive' = meta.next
       \/ UNCHANGED ordinals
    /\ UNCHANGED <<flash, history>>

(* A read is unavailable, a slot has no authoritative copy in a flash that  *)
(* is not blank, or the slots contradict each other                         *)
RecoverFails ==
    /\ mode = "OFF"
    /\ mode' = "DEGRADED"
    /\ Reset
    /\ UNCHANGED <<flash, history>>

(* initializeFresh leaves both volatile bounds zero: the first admission    *)
(* reserves the first block                                                 *)
InitializeFresh ==
    /\ mode = "OFF" /\ Blank
    /\ meta' = HighWater(1)
    /\ cell' = [s \in Slots |-> Empty] /\ slots' = cell'
    /\ mode' = "READY"
    /\ metadata' = 1 /\ ordinalReady' = TRUE
    /\ UNCHANGED <<nextVolatileOrdinal, volatileEndExclusive, history>>

(* initializeFresh is cut short: the metadata, or one of the slots, is in   *)
(* doubt; what comes before it is written, what comes after is not          *)
InitializeFreshFails ==
    /\ mode = "OFF" /\ Blank
    /\ \/ meta' \in InDoubt(meta, HighWater(1)) /\ UNCHANGED cell
       \/ /\ meta' = HighWater(1)
          /\ \E last \in Slots : \E left \in InDoubt(cell[last], Empty) :
                 cell' = [s \in Slots |->
                             IF s < last THEN Empty
                             ELSE IF s = last THEN left ELSE cell[s]]
    /\ mode' \in {"OFF", "DEGRADED"}
    /\ Reset
    /\ UNCHANGED history

-----------------------------------------------------------------------------
(* admit *)

(* validateAdmission's verdicts on a frame that is not acceptable *)
Rejections == {"ROUTING_REJECTED", "UNSUPPORTED_EVENT", "MALFORMED_EVENT"}

Known(e) == {s \in Slots : Owned(slots[s]) /\ SameIdentity(slots[s], e)}

EmptySlots == {s \in Slots : slots[s].state = "EMPTY"}

(* Mutants: unconsumed custody is reclaimed; tombstones are reclaimed in    *)
(* favour of an older event                                                 *)
ReclaimableUnconsumed(e) == {s \in Slots : IncomingLater(e, slots[s])}
ReclaimableByAny(e) == {s \in Slots : slots[s].state = "CONSUMED"}

(* Tombstones an admission of e may reuse *)
Reclaimable(e) ==
    {s \in Slots : slots[s].state = "CONSUMED" /\ IncomingLater(e, slots[s])}

(* firstEmpty, else oldestReclaimable: one slot or none *)
Targets(e) ==
    IF EmptySlots # {}
      THEN {s \in EmptySlots : \A t \in EmptySlots : s <= t}
      ELSE {s \in Reclaimable(e) :
                \A t \in Reclaimable(e) : slots[s].ordinal <= slots[t].ordinal}

(* The result of an admission that needs no durable mutation *)
AdmitRefused(e, verdict, result) ==
    /\ mode # "OFF"
    /\ \/ mode = "DEGRADED" /\ result = "DEGRADED"
       \/ /\ mode = "READY" /\ verdict \in Rejections
          /\ result = verdict
       \/ /\ mode = "READY" /\ verdict = "OK"
          /\ \E s \in Known(e) :
                 /\ ~SameCanonical(slots[s], e)
                 /\ result = "IDENTITY_CONTENT_MISMATCH"
       \/ /\ mode = "READY" /\ verdict = "OK"
          /\ Known(e) = {}
          /\ \/ Targets(e) = {} /\ result = "CAPACITY"
             \/ Targets(e) # {} /\ ~ordinalReady /\ result = "STORAGE_FAILURE"
    /\ UNCHANGED vars

(* A retransmission of what is already in custody: acknowledged, not stored *)
AdmitDuplicate(e) ==
    /\ mode = "READY"
    /\ \E s \in Known(e) :
           /\ SameCanonical(slots[s], e)
           /\ promised' = promised \cup {Custody(slots[s])}
    /\ UNCHANGED <<flash, mode, ram, requested, ever>>

(* A new identity, with a slot to put it in and ordinals in service *)
Admissible(e) ==
    mode = "READY" /\ Known(e) = {} /\ Targets(e) # {} /\ ordinalReady

MustReserve == nextVolatileOrdinal = volatileEndExclusive
Exhausted == metadata > MaxOrdinal - OrdinalBlock
NextBlock == metadata + OrdinalBlock

(* allocateOrdinal's result and the durable and volatile state it leaves *)
Ordinal == IF MustReserve THEN metadata ELSE nextVolatileOrdinal
(* Mutant: the reservation is not made durable *)
MetaUnreserved == meta

MetaAfter == IF MustReserve THEN HighWater(NextBlock) ELSE meta

AllocateOrdinal ==
    /\ MustReserve => ~Exhausted
    /\ meta' = MetaAfter
    /\ metadata' = IF MustReserve THEN NextBlock ELSE metadata
    /\ volatileEndExclusive' = IF MustReserve THEN NextBlock
                                              ELSE volatileEndExclusive
    /\ nextVolatileOrdinal' = Ordinal + 1
    /\ UNCHANGED ordinalReady

(* Ordinals run out: no reservation fits below UINT32_MAX *)
AdmitExhausted(e) ==
    /\ Admissible(e) /\ MustReserve /\ Exhausted
    /\ ordinalReady' = FALSE
    /\ UNCHANGED <<flash, mode, slots, metadata, nextVolatileOrdinal,
                   volatileEndExclusive, history>>

(* The reservation cannot be verified: no admission until the next boot,    *)
(* custody stays in service                                                 *)
AdmitReservationFails(e) ==
    /\ Admissible(e) /\ MustReserve /\ ~Exhausted
    /\ meta' \in InDoubt(meta, HighWater(NextBlock))
    /\ ordinalReady' = FALSE
    /\ UNCHANGED <<cell, mode, slots, metadata, nextVolatileOrdinal,
                   volatileEndExclusive, history>>

AdmitNew(e) ==
    \E target \in Targets(e) :
        LET next == Record("ACTIVE", e, Ordinal)
        IN  /\ Admissible(e)
            /\ AllocateOrdinal
            /\ cell' = [cell EXCEPT ![target] = next]
            /\ slots' = [slots EXCEPT ![target] = next]
            /\ promised' = promised \cup {Custody(next)}
            /\ ever' = ever \cup {Custody(next)}
            /\ UNCHANGED <<mode, requested>>

(* The record cannot be verified: the ledger refuses everything until the   *)
(* next boot, although the record may be durable                            *)
AdmitRecordFails(e) ==
    \E target \in Targets(e) :
        LET next == Record("ACTIVE", e, Ordinal)
        IN  /\ Admissible(e)
            /\ AllocateOrdinal
            /\ \E left \in InDoubt(cell[target], next) :
                   /\ cell' = [cell EXCEPT ![target] = left]
                   /\ ever' = IF left = next THEN ever \cup {Custody(next)}
                                             ELSE ever
            /\ mode' = "DEGRADED"
            /\ UNCHANGED <<slots, promised, requested>>

(* Power is lost while the reservation, or after it the record, is written *)
AdmitLosesPower(e) ==
    /\ Admissible(e) /\ (MustReserve => ~Exhausted)
    /\ \/ /\ MustReserve
          /\ meta' \in InDoubt(meta, HighWater(NextBlock))
          /\ UNCHANGED <<cell, ever>>
       \/ /\ meta' = MetaAfter
          /\ \E target \in Targets(e) :
                 LET next == Record("ACTIVE", e, Ordinal)
                 IN  \E left \in InDoubt(cell[target], next) :
                        /\ cell' = [cell EXCEPT ![target] = left]
                        /\ ever' = IF left = next
                                     THEN ever \cup {Custody(next)} ELSE ever
    /\ mode' = "OFF" /\ Reset
    /\ UNCHANGED <<promised, requested>>

-----------------------------------------------------------------------------
(* consume *)

Consumable(i) == {s \in Known(i) : slots[s].state = "ACTIVE"}

(* DEGRADED, NOT_FOUND and ALREADY_CONSUMED change nothing *)
ConsumeRefused(i, result) ==
    /\ mode # "OFF"
    /\ \/ mode = "DEGRADED" /\ result = "DEGRADED"
       \/ mode = "READY" /\ Known(i) = {} /\ result = "NOT_FOUND"
       \/ /\ mode = "READY" /\ Known(i) # {} /\ Consumable(i) = {}
          /\ result = "ALREADY_CONSUMED"
    /\ UNCHANGED vars

Consumed(r) == [r EXCEPT !.state = "CONSUMED"]

Consume(i) ==
    /\ mode = "READY"
    /\ \E s \in Consumable(i) :
           /\ cell' = [cell EXCEPT ![s] = Consumed(slots[s])]
           /\ slots' = [slots EXCEPT ![s] = Consumed(slots[s])]
           /\ requested' = requested \cup {Custody(slots[s])}
    /\ UNCHANGED <<meta, mode, ordinals, promised, ever>>

(* The tombstone cannot be verified, or power is lost: ACTIVE or CONSUMED *)
ConsumeFails(i) ==
    /\ mode = "READY"
    /\ \E s \in Consumable(i) :
           /\ \E left \in InDoubt(cell[s], Consumed(slots[s])) :
                  cell' = [cell EXCEPT ![s] = left]
           /\ requested' = requested \cup {Custody(slots[s])}
    /\ \/ mode' = "DEGRADED" /\ UNCHANGED ram
       \/ mode' = "OFF" /\ Reset
    /\ UNCHANGED <<meta, promised, ever>>

PowerLoss == /\ mode # "OFF"
             /\ mode' = "OFF" /\ Reset
             /\ UNCHANGED <<flash, history>>

AdmissionResults == Rejections \cup
    {"CAPACITY", "IDENTITY_CONTENT_MISMATCH", "STORAGE_FAILURE", "DEGRADED"}

ConsumeRefusals == {"DEGRADED", "NOT_FOUND", "ALREADY_CONSUMED"}

Recover == \/ RecoverCustody \/ RecoverFails
           \/ InitializeFresh \/ InitializeFreshFails

Admit(e) == \/ \E verdict \in Rejections \cup {"OK"}, result \in AdmissionResults :
                   AdmitRefused(e, verdict, result)
            \/ AdmitDuplicate(e) \/ AdmitNew(e)
            \/ AdmitExhausted(e) \/ AdmitReservationFails(e)
            \/ AdmitRecordFails(e) \/ AdmitLosesPower(e)

Next == \/ Recover
        \/ \E e \in Events : Admit(e)
        \/ \E i \in Identities : \/ Consume(i) \/ ConsumeFails(i)
                                 \/ \E result \in ConsumeRefusals :
                                        ConsumeRefused(i, result)
        \/ PowerLoss

Spec == Init /\ [][Next]_vars

-----------------------------------------------------------------------------

Records == {Missing, Nothing("INVALID"), Empty} \cup
           [state : {"ACTIVE", "CONSUMED"}, epoch : Epochs, id : Ids,
            content : Contents, ordinal : 1 .. MaxOrdinal]

TypeOK ==
    /\ cell \in [Slots -> Records]
    /\ meta \in {NoMeta, [state |-> "INVALID", next |-> 0]} \cup
                [state : {"HELD"}, next : HighWaters]
    /\ mode \in {"OFF", "READY", "DEGRADED"}
    /\ slots \in [Slots -> Records]
    /\ metadata \in HighWaters \cup {0}
    /\ ordinalReady \in BOOLEAN
    /\ nextVolatileOrdinal \in 0 .. MaxOrdinal
    /\ volatileEndExclusive \in 0 .. MaxOrdinal
    /\ promised \in SUBSET Custodies
    /\ requested \in SUBSET Custodies
    /\ ever \in SUBSET Custodies

(* Custody reported to the Node (DURABLE_NEW_ADMISSION or EXACT_DUPLICATE)  *)
(* is durable with the same content and ordinal until the host asks to      *)
(* consume it: no torn write, failed reservation, degraded period, reboot   *)
(* or reuse of a slot loses it.                                             *)
AdmittedSurvives ==
    \A p \in promised :
        p \in requested \/ \E s \in Slots : cell[s] = Record("ACTIVE", p, p.ordinal)

Formatted == \A s \in Slots : Held(cell[s])

(* What recover asks of the flash before it admits anything *)
Serviceable == Consistent(cell) /\ Held(meta) /\ meta.next \in HighWaters

(* From the step that formats the last slot on, whatever is durable passes  *)
(* validateRecoveredSlots and the ordinal metadata is on a block boundary:  *)
(* no step, torn or failed writes included, takes a formatted flash to one  *)
(* a later boot refuses with INDETERMINATE_SLOT, DUPLICATE_IDENTITY,        *)
(* DUPLICATE_ORDINAL or ORDINAL_UNAVAILABLE.                                *)
FormattedStaysServiceable == [][Formatted \/ Formatted' => Serviceable']_vars

(* A ledger in service decides duplicates, capacity and reclamation from a  *)
(* RAM mirror that is exactly what is durable                               *)
MirrorsFlash == mode = "READY" => slots = cell

Becomes(s) == cell'[s].state = "ACTIVE" /\ cell'[s] # cell[s]

(* Every new admission is younger than everything ever admitted, so the     *)
(* host's polling order (oldestActive) is the admission order, and an       *)
(* ordinal is never issued twice, across crashes between the reservation of *)
(* a block and the records that use it                                      *)
NewestLast ==
    [][\A s \in Slots : Becomes(s) =>
           \A p \in ever : p.ordinal < cell'[s].ordinal]_vars

(* An identity already admitted is taken again as new only after a later    *)
(* one has been durable: while the Node keeps its order, a retransmission   *)
(* after a lost acknowledgment, a consumption and a reboot is still a       *)
(* duplicate, because its tombstone is not reclaimed before                 *)
ReadmittedOnlyIfSuperseded ==
    [][\A s \in Slots :
           Becomes(s) /\ (\E p \in ever : SameIdentity(p, cell'[s])) =>
               \E p \in ever : IncomingLater(p, cell'[s])]_vars
=============================================================================
