------------------------ MODULE NodeEventStoreProofs ------------------------
(***************************************************************************)
(* Proofs of the Node store's custody and identity properties, for every    *)
(* capacity, block size, width of ids and epochs, and set of events.        *)
(***************************************************************************)
EXTENDS NodeEventStore, TLAPS

(* The inductive invariant: what is durable *)
OwnedIssued ==
    \A s \in Slots : Owned(cell[s]) => ~IdentityLess(lastIssued, cell[s])

Boundary(m) == [epoch |-> m.epoch, id |-> m.next]

(* Nothing was issued without metadata, or beyond what it reserves *)
IssuedBelowMeta == IF Held(meta) THEN IdentityLess(lastIssued, Boundary(meta))
                                 ELSE lastIssued = NoIdentity

FlashInv == Distinct(cell) /\ OwnedIssued /\ IssuedBelowMeta /\ EnqueuedSurvives

(* and how RAM relates to it *)
Volatile == [epoch |-> metadata.epoch, id |-> nextVolatileId]

StoreInService ==
    mode = "READY" =>
        /\ slots = cell /\ \A s \in Slots : Held(cell[s])
        /\ metadata = meta /\ Held(meta)
        /\ volatileEndExclusive = metadata.next
        /\ nextVolatileId >= 1 /\ nextVolatileId <= volatileEndExclusive
        /\ IdentityLess(lastIssued, Volatile)

SInv == TypeOK /\ FlashInv /\ StoreInService

HeldMetas == [state : {"HELD"}, epoch : EventEpochs, next : HighWaters]
Identities == [epoch : EventEpochs, id : EventIds]

-----------------------------------------------------------------------------
(* Shapes *)

LEMMA EmptyShape ==
    /\ Missing \in Records /\ Free \in Records /\ Nothing("INVALID") \in Records
    /\ ~Owned(Missing) /\ ~Owned(Free) /\ ~Owned(Nothing("INVALID"))
    /\ ~Held(Missing) /\ Held(Free) /\ ~Held(Nothing("INVALID"))
    /\ Free.state = "FREE" /\ Missing.state = "MISSING"
  BY DEF Records, Owned, Held, Missing, Free, Nothing

LEMMA OwnedShape ==
    ASSUME NEW r \in Records, Owned(r)
    PROVE  /\ r \in [state : {"QUEUED", "FAILED", "EXPIRED"}, epoch : EventEpochs,
                     id : EventIds, content : Contents, lifetime : Lifetimes,
                     remaining : Nat, attempts : 0 .. MaxAttempts]
           /\ r.remaining \in 1 .. r.lifetime /\ r.lifetime \in Nat \ {0}
           /\ Held(r)
  <1>1. /\ r \in [state : {"QUEUED", "FAILED", "EXPIRED"}, epoch : EventEpochs,
                   id : EventIds, content : Contents, lifetime : Lifetimes,
                   remaining : Nat, attempts : 0 .. MaxAttempts]
        /\ r.remaining \in 1 .. r.lifetime
    BY DEF Records, Owned, Missing, Free, Nothing
  <1>2. r.lifetime \in Nat \ {0}
    BY <1>1, StoreAssumption, Zenon
  <1> QED
    BY <1>1, <1>2 DEF Held

LEMMA QueuedShape ==
    ASSUME NEW i \in Identities, NEW input \in Inputs
    PROVE  LET r == QueuedRecord(i, input)
           IN  /\ r \in Records /\ Owned(r) /\ Held(r) /\ r.state = "QUEUED"
               /\ r.epoch = i.epoch /\ r.id = i.id
               /\ Custody(r) \in [epoch : EventEpochs, id : EventIds, content : Contents,
                                  lifetime : Lifetimes]
  <1> DEFINE r == QueuedRecord(i, input)
  <1>1. /\ i.epoch \in EventEpochs /\ i.id \in EventIds /\ input.content \in Contents
        /\ input.lifetime \in Lifetimes
    BY DEF Identities, Inputs
  <1>2. input.lifetime \in Nat \ {0}
    BY <1>1, StoreAssumption, Zenon
  <1>3. 0 \in 0 .. MaxAttempts
    BY StoreAssumption
  <1>4. r \in [state : {"QUEUED", "FAILED", "EXPIRED"}, epoch : EventEpochs,
               id : EventIds, content : Contents, lifetime : Lifetimes,
               remaining : Nat, attempts : 0 .. MaxAttempts]
    BY <1>1, <1>2, <1>3 DEF QueuedRecord
  <1>5. r.remaining \in 1 .. r.lifetime
    BY <1>2 DEF QueuedRecord
  <1>6. r \in Records
    BY <1>4, <1>5 DEF Records
  <1> QED
    BY <1>1, <1>6 DEF QueuedRecord, Owned, Held, Custody

LEMMA OneIsHighWater == 1 \in HighWaters /\ 1 + IdBlock \in HighWaters
  <1>1. /\ 0 \in 0 .. MaxId /\ 1 \in 0 .. MaxId /\ 1 \in EventIds
        /\ 1 = 1 + 0 * IdBlock /\ 1 + IdBlock = 1 + 1 * IdBlock
        /\ 1 + IdBlock \in EventIds
    BY StoreAssumption DEF EventIds
  <1> QED
    BY <1>1 DEF HighWaters

LEMMA NextHighWater ==
    ASSUME NEW h \in HighWaters, h <= MaxId - IdBlock
    PROVE  h + IdBlock \in HighWaters
  <1>1. /\ IdBlock \in Nat /\ IdBlock > 0 /\ MaxId \in Nat
    BY StoreAssumption
  <1>2. PICK k \in 0 .. MaxId : h = 1 + k * IdBlock
    BY DEF HighWaters
  <1>3. h \in 1 .. MaxId
    BY DEF HighWaters, EventIds
  <1>4. k * IdBlock + IdBlock = (k + 1) * IdBlock /\ k * IdBlock \in Int
    BY <1>1
  <1>5. k * IdBlock >= k
    BY <1>1, k >= 0
  <1>6. k + 1 \in 0 .. MaxId
    BY <1>1, <1>2, <1>3, <1>4, <1>5
  <1>7. h + IdBlock \in EventIds /\ h + IdBlock = 1 + (k + 1) * IdBlock
    BY <1>1, <1>2, <1>3, <1>4 DEF EventIds
  <1> QED
    BY <1>6, <1>7 DEF HighWaters

-----------------------------------------------------------------------------
(* What allocate returns *)

LEMMA AllocationFacts ==
    ASSUME SInv, mode = "READY", MustReserve => ~EpochExhausted
    PROVE  /\ NextIdentity \in Identities /\ MetaAfter \in HeldMetas
           /\ IdentityLess(lastIssued, NextIdentity)
           /\ IdentityLess(NextIdentity, Boundary(MetaAfter))
           /\ NextIdentity.epoch = MetaAfter.epoch
           /\ NextIdentity.id + 1 <= MetaAfter.next
           /\ MustReserve => MetaAfter = AfterBlock
  <1>1. /\ metadata = meta /\ Held(meta)
        /\ volatileEndExclusive = metadata.next
        /\ nextVolatileId >= 1 /\ nextVolatileId <= volatileEndExclusive
        /\ IdentityLess(lastIssued, Volatile)
    BY DEF SInv, StoreInService
  <1>2. metadata \in HeldMetas
    BY <1>1 DEF SInv, TypeOK, Held, NoMeta, HeldMetas
  <1>3. /\ metadata.epoch \in 1 .. MaxEpoch /\ metadata.next \in HighWaters
        /\ metadata.next \in 1 .. MaxId
    BY <1>2 DEF HeldMetas, HighWaters, EventIds, EventEpochs
  <1>4. /\ IdBlock \in Nat \ {0} /\ MaxId \in Nat /\ MaxId > IdBlock
        /\ MaxEpoch \in Nat
    BY StoreAssumption
  <1>5. /\ nextVolatileId \in Nat /\ lastIssued.epoch \in Nat /\ lastIssued.id \in Nat
    BY <1>4 DEF SInv, TypeOK, NoIdentity, EventEpochs, EventIds
  <1>6. CASE MustReserve /\ IdsExhausted
    <2>1. metadata.epoch # MaxEpoch
      BY <1>6 DEF EpochExhausted
    <2>2. metadata.epoch + 1 \in 1 .. MaxEpoch
      BY <1>3, <1>4, <2>1
    <2>3. /\ NextIdentity = [epoch |-> metadata.epoch + 1, id |-> 1]
          /\ MetaAfter = [state |-> "HELD", epoch |-> metadata.epoch + 1,
                          next |-> 1 + IdBlock]
          /\ MetaAfter = AfterBlock
      BY <1>6 DEF NextIdentity, MetaAfter, Block, AfterBlock, Reserved
    <2>4. 1 \in EventIds
      BY <1>4 DEF EventIds
    <2>5. NextIdentity \in Identities /\ MetaAfter \in HeldMetas
      BY <2>2, <2>3, <2>4, OneIsHighWater DEF Identities, HeldMetas, EventEpochs
    <2>6. lastIssued.epoch < metadata.epoch + 1
      BY <1>1, <1>3, <1>5 DEF IdentityLess, Volatile
    <2> QED
      BY <1>4, <2>3, <2>5, <2>6 DEF IdentityLess, Boundary
  <1>7. CASE MustReserve /\ ~IdsExhausted
    <2>1. metadata.next <= MaxId - IdBlock
      BY <1>3, <1>4, <1>7 DEF IdsExhausted
    <2>2. metadata.next + IdBlock \in HighWaters
      BY <1>3, <2>1, NextHighWater
    <2>3. /\ NextIdentity = [epoch |-> metadata.epoch, id |-> metadata.next]
          /\ MetaAfter = [state |-> "HELD", epoch |-> metadata.epoch,
                          next |-> metadata.next + IdBlock]
          /\ MetaAfter = AfterBlock
      BY <1>7 DEF NextIdentity, MetaAfter, Block, AfterBlock, Reserved
    <2>4. NextIdentity \in Identities /\ MetaAfter \in HeldMetas
      BY <1>3, <2>2, <2>3 DEF Identities, HeldMetas, EventEpochs, EventIds
    <2>5. nextVolatileId = metadata.next
      BY <1>1, <1>7 DEF MustReserve
    <2>6. IdentityLess(lastIssued, NextIdentity)
      BY <1>1, <2>3, <2>5 DEF IdentityLess, Volatile
    <2> QED
      BY <1>3, <1>4, <2>3, <2>4, <2>6 DEF IdentityLess, Boundary
  <1>8. CASE ~MustReserve
    <2>1. NextIdentity = Volatile /\ MetaAfter = metadata
      BY <1>8 DEF NextIdentity, MetaAfter, Volatile
    <2>2. nextVolatileId < metadata.next /\ nextVolatileId \in EventIds
      <3>1. nextVolatileId # volatileEndExclusive
        BY <1>8 DEF MustReserve
      <3>2. nextVolatileId < metadata.next
        BY <1>1, <1>3, <1>5, <3>1
      <3> QED
        BY <1>1, <1>3, <1>4, <1>5, <3>2 DEF EventIds
    <2>3. NextIdentity \in Identities
      BY <1>3, <2>1, <2>2 DEF Volatile, Identities, EventEpochs
    <2>4. NextIdentity.epoch = metadata.epoch /\ NextIdentity.id = nextVolatileId
      BY <2>1 DEF Volatile
    <2>5. NextIdentity.id + 1 <= MetaAfter.next
      BY <1>3, <1>5, <2>1, <2>2, <2>4
    <2>6. IdentityLess(NextIdentity, Boundary(MetaAfter))
      BY <2>1, <2>2, <2>4 DEF IdentityLess, Boundary
    <2> QED
      BY <1>1, <1>2, <1>8, <2>1, <2>3, <2>4, <2>5, <2>6
  <1> QED
    BY <1>6, <1>7, <1>8

-----------------------------------------------------------------------------

LEMMA ResetState ==
    Reset => /\ slots' \in [Slots -> Records] /\ metadata' = NoMeta
             /\ nextVolatileId' \in 0 .. MaxId
             /\ volatileEndExclusive' \in 0 .. MaxId
  <1> SUFFICES ASSUME Reset
               PROVE  /\ slots' \in [Slots -> Records] /\ metadata' = NoMeta
                      /\ nextVolatileId' \in 0 .. MaxId
                      /\ volatileEndExclusive' \in 0 .. MaxId
    OBVIOUS
  <1>1. 0 \in 0 .. MaxId
    BY StoreAssumption
  <1>2. slots' \in [Slots -> Records]
    BY EmptyShape DEF Reset
  <1> QED
    BY <1>1, <1>2 DEF Reset

LEMMA OutOfServiceState ==
    ASSUME TypeOK, OutOfService
    PROVE  /\ mode' \in {"OFF", "DEGRADED"} /\ slots' \in [Slots -> Records]
           /\ metadata' \in {NoMeta} \cup HeldMetas
           /\ nextVolatileId' \in 0 .. MaxId
           /\ volatileEndExclusive' \in 0 .. MaxId
  BY ResetState DEF OutOfService, TypeOK, ram, allocator, HeldMetas

(* The durable part depends on flash and history alone *)
LEMMA FlashUnchanged == FlashInv /\ UNCHANGED <<flash, history>> => FlashInv'
  BY DEF FlashInv, Distinct, OwnedIssued, IssuedBelowMeta, EnqueuedSurvives,
         flash, history

LEMMA SInvInit == Init => SInv
  <1> SUFFICES ASSUME Init PROVE SInv
    OBVIOUS
  <1>1. 0 \in 0 .. MaxId
    BY StoreAssumption
  <1>2. TypeOK
    BY <1>1, EmptyShape DEF Init, TypeOK
  <1>3. ~Held(meta) /\ \A s \in Slots : ~Owned(cell[s])
    BY EmptyShape DEF Init, Held, NoMeta
  <1>4. FlashInv
    BY <1>3 DEF Init, FlashInv, Distinct, OwnedIssued, IssuedBelowMeta,
                EnqueuedSurvives
  <1> QED
    BY <1>2, <1>4 DEF Init, SInv, StoreInService

-----------------------------------------------------------------------------
(* Boot *)

LEMMA BootCellsKeepFlash ==
    ASSUME SInv
    PROVE  /\ BootCells \in [Slots -> Records]
           /\ \A s \in Slots : Owned(BootCells[s]) => BootCells[s] = cell[s]
           /\ \A s \in Slots : Owned(cell[s]) => BootCells[s] = cell[s]
  <1>1. CASE \A s \in Slots : cell[s] = Missing
    BY <1>1, EmptyShape DEF BootCells
  <1>2. CASE ~\A s \in Slots : cell[s] = Missing
    BY <1>2 DEF BootCells, SInv, TypeOK
  <1> QED
    BY <1>1, <1>2

(* Formatting neither adds nor removes an event, and fresh metadata is      *)
(* written only where none was                                              *)
LEMMA BootKeepsFlash ==
    ASSUME SInv, UNCHANGED history,
           cell' \in [Slots -> Records],
           \A s \in Slots : Owned(cell'[s]) => cell'[s] = cell[s],
           \A s \in Slots : Owned(cell[s]) => cell'[s] = cell[s],
           meta' \in {NoMeta, [NoMeta EXCEPT !.state = "INVALID"]} \cup HeldMetas,
           Held(meta) => meta' = meta
    PROVE  FlashInv'
  <1>1. Distinct(cell)'
    BY DEF Distinct, SInv, FlashInv, Identity
  <1>2. OwnedIssued'
    BY DEF OwnedIssued, SInv, FlashInv, history
  <1>3. EnqueuedSurvives'
    BY DEF EnqueuedSurvives, SInv, FlashInv, history, Owned
  <1>4. IssuedBelowMeta'
    <2>1. CASE Held(meta)
      BY <2>1 DEF IssuedBelowMeta, SInv, FlashInv, history, Boundary
    <2>2. CASE ~Held(meta) /\ ~Held(meta')
      BY <2>2 DEF IssuedBelowMeta, SInv, FlashInv, history
    <2>3. CASE ~Held(meta) /\ Held(meta')
      <3>1. meta' \in HeldMetas
        BY <2>3 DEF Held, NoMeta
      <3>2. meta'.epoch > 0
        BY <3>1, StoreAssumption DEF HeldMetas, EventEpochs
      <3>3. lastIssued' = NoIdentity
        BY <2>3 DEF IssuedBelowMeta, SInv, FlashInv, history
      <3> QED
        BY <2>3, <3>2, <3>3 DEF IssuedBelowMeta, IdentityLess, NoIdentity, Boundary
    <2> QED
      BY <2>1, <2>2, <2>3
  <1> QED
    BY <1>1, <1>2, <1>3, <1>4 DEF FlashInv

LEMMA FreshShape ==
    ASSUME NEW m \in FreshMetadata PROVE m \in HeldMetas /\ Held(m)
  BY OneIsHighWater DEF FreshMetadata, Reserved, HeldMetas, Held

LEMMA MetaShape ==
    ASSUME TypeOK
    PROVE  /\ meta \in {NoMeta, [NoMeta EXCEPT !.state = "INVALID"]} \cup HeldMetas
           /\ Held(meta) <=> meta \in HeldMetas
           /\ Held(meta) <=> Usable(meta)
  BY DEF TypeOK, HeldMetas, Held, NoMeta, Usable

LEMMA SInvRecover == SInv /\ Recover => SInv'
  <1> SUFFICES ASSUME SInv, Recover PROVE SInv'
    OBVIOUS
  <1>1. /\ mode = "OFF" /\ Consistent(BootCells)
        /\ cell' = BootCells /\ slots' = BootCells
        /\ \/ Usable(meta) /\ meta' = meta
           \/ ~Usable(meta) /\ meta' \in FreshMetadata
        /\ metadata' = meta'
        /\ nextVolatileId' = meta'.next /\ volatileEndExclusive' = meta'.next
        /\ mode' = "READY" /\ UNCHANGED history
    BY DEF Recover
  <1>2. meta' \in HeldMetas /\ Held(meta') /\ (Held(meta) => meta' = meta)
    BY <1>1, FreshShape, MetaShape DEF SInv
  <1>3. FlashInv' /\ cell' \in [Slots -> Records]
    BY <1>1, <1>2, BootCellsKeepFlash, BootKeepsFlash
  <1>4. meta'.next \in 1 .. MaxId /\ MaxId \in Nat
    BY <1>2, StoreAssumption DEF HeldMetas, HighWaters, EventIds
  <1>5. meta'.next \in 0 .. MaxId /\ meta'.next >= 1 /\ meta'.next <= meta'.next
    BY <1>4
  <1>6. TypeOK'
    BY <1>1, <1>2, <1>3, <1>5 DEF SInv, TypeOK, history, HeldMetas
  <1>7. IdentityLess(lastIssued', Volatile')
    BY <1>1, <1>2, <1>3 DEF FlashInv, IssuedBelowMeta, Volatile, Boundary
  <1>8. StoreInService'
    BY <1>1, <1>2, <1>5, <1>7 DEF StoreInService, Consistent
  <1> QED
    BY <1>3, <1>6, <1>8 DEF SInv

LEMMA SInvStops ==
    ASSUME SInv, Reset, mode' \in {"OFF", "DEGRADED"}, UNCHANGED <<flash, history>>
    PROVE  SInv'
  <1>1. TypeOK'
    BY ResetState DEF SInv, TypeOK, flash, history
  <1> QED
    BY <1>1, FlashUnchanged DEF SInv, StoreInService

LEMMA SInvFormatFails == SInv /\ FormatFails => SInv'
  <1> SUFFICES ASSUME SInv, FormatFails PROVE SInv'
    OBVIOUS
  <1>1. /\ \A s \in Slots : cell[s] = Missing
        /\ mode' \in {"OFF", "DEGRADED"} /\ Reset /\ UNCHANGED <<meta, history>>
    BY DEF FormatFails
  <1>2. [Missing EXCEPT !.state = "INVALID"] = Nothing("INVALID")
    BY DEF Missing, Nothing
  <1>3. PICK last \in Slots, left \in InDoubt(Missing, Free) :
            cell' = [s \in Slots |-> IF s < last THEN Free
                                     ELSE IF s = last THEN left ELSE Missing]
    BY DEF FormatFails
  <1>4. left \in {Missing, Nothing("INVALID"), Free}
    BY <1>2, <1>3, EmptyShape DEF InDoubt
  <1>5. cell' \in [Slots -> Records] /\ \A s \in Slots : ~Owned(cell'[s])
    BY <1>3, <1>4, EmptyShape
  <1>6. FlashInv'
    BY <1>1, <1>5, EmptyShape, MetaShape, BootKeepsFlash DEF SInv
  <1>7. TypeOK'
    BY <1>1, <1>5, ResetState DEF SInv, TypeOK, history
  <1> QED
    BY <1>1, <1>6, <1>7 DEF SInv, StoreInService

LEMMA SInvFreshMetadataFails == SInv /\ FreshMetadataFails => SInv'
  <1> SUFFICES ASSUME SInv, FreshMetadataFails PROVE SInv'
    OBVIOUS
  <1>1. /\ ~Usable(meta) /\ cell' = BootCells
        /\ mode' \in {"OFF", "DEGRADED"} /\ Reset /\ UNCHANGED history
    BY DEF FreshMetadataFails
  <1>2. PICK fresh \in FreshMetadata : meta' \in InDoubt(meta, fresh)
    BY DEF FreshMetadataFails
  <1>3. /\ ~Held(meta)
        /\ meta \in {NoMeta, [NoMeta EXCEPT !.state = "INVALID"]}
    BY <1>1, MetaShape DEF SInv
  <1>4. [meta EXCEPT !.state = "INVALID"] = [NoMeta EXCEPT !.state = "INVALID"]
    BY <1>3 DEF NoMeta
  <1>5. meta' \in {NoMeta, [NoMeta EXCEPT !.state = "INVALID"]} \cup HeldMetas
    BY <1>2, <1>3, <1>4, FreshShape, Zenon DEF InDoubt
  <1>6. FlashInv' /\ cell' \in [Slots -> Records]
    BY <1>1, <1>3, <1>5, BootCellsKeepFlash, BootKeepsFlash
  <1>7. TypeOK'
    BY <1>1, <1>5, <1>6, ResetState DEF SInv, TypeOK, history, HeldMetas
  <1> QED
    BY <1>1, <1>6, <1>7 DEF SInv, StoreInService

-----------------------------------------------------------------------------
(* enqueue *)

LEMMA FreeSlotFacts ==
    ASSUME SInv, mode = "READY", NEW target \in FreeSlot
    PROVE  /\ target \in Slots /\ slots = cell
           /\ cell[target].state = "FREE" /\ ~Owned(cell[target])
           /\ Held(cell[target])
  BY DEF SInv, StoreInService, FreeSlot, FreeSlots, Owned, Held

(* Verified or not, the record of a new event keeps what is durable in      *)
(* order, and its identity counts as issued either way                      *)
LEMMA EnqueueKeepsFlash ==
    ASSUME SInv, mode = "READY", MustReserve => ~EpochExhausted,
           NEW input \in Inputs, NEW target \in FreeSlot,
           NEW left \in {cell[target], QueuedRecord(NextIdentity, input)},
           cell' = [cell EXCEPT ![target] = left],
           meta' = MetaAfter, lastIssued' = NextIdentity,
           \A p \in promised' :
               \/ p \in promised
               \/ p = Custody(left) /\ left = QueuedRecord(NextIdentity, input)
    PROVE  FlashInv' /\ cell' \in [Slots -> Records] /\ meta' \in HeldMetas
  <1> DEFINE record == QueuedRecord(NextIdentity, input)
  <1>1. /\ NextIdentity \in Identities /\ MetaAfter \in HeldMetas
        /\ IdentityLess(lastIssued, NextIdentity)
        /\ IdentityLess(NextIdentity, Boundary(MetaAfter))
    BY AllocationFacts
  <1>2. /\ record \in Records /\ Owned(record) /\ record.state = "QUEUED"
        /\ record.epoch = NextIdentity.epoch /\ record.id = NextIdentity.id
    BY <1>1, QueuedShape
  <1> HIDE DEF record
  <1>3. /\ target \in Slots /\ cell[target].state = "FREE" /\ ~Owned(cell[target])
    BY FreeSlotFacts
  <1>4. cell \in [Slots -> Records] /\ lastIssued \in {NoIdentity} \cup Identities
    BY DEF SInv, TypeOK, Identities
  <1>5. left \in {cell[target], record}
    BY DEF record
  <1>6. /\ cell' \in [Slots -> Records] /\ cell'[target] = left
        /\ \A s \in Slots : s # target => cell'[s] = cell[s]
    BY <1>2, <1>3, <1>4, <1>5
  <1>7. \A s \in Slots :
            Owned(cell[s]) => /\ ~IdentityLess(lastIssued, cell[s])
                              /\ cell[s].epoch \in Nat /\ cell[s].id \in Nat
    <2>1. \A s \in Slots : Owned(cell[s]) => cell[s].epoch \in EventEpochs /\ cell[s].id \in EventIds
      BY <1>4, OwnedShape
    <2> QED
      BY <2>1, StoreAssumption DEF SInv, FlashInv, OwnedIssued, EventEpochs, EventIds
  <1>8. /\ NextIdentity.epoch \in Nat /\ NextIdentity.id \in Nat
        /\ lastIssued.epoch \in Nat /\ lastIssued.id \in Nat
    BY <1>1, <1>4, StoreAssumption DEF Identities, EventEpochs, EventIds, NoIdentity
  <1>9. \A s \in Slots : Owned(cell[s]) => IdentityLess(cell[s], NextIdentity)
    BY <1>1, <1>7, <1>8 DEF IdentityLess
  <1>10. \A s \in Slots : Owned(cell[s]) =>
             /\ Identity(cell[s]) # Identity(record)
             /\ ~IdentityLess(NextIdentity, cell[s])
    BY <1>2, <1>7, <1>8, <1>9 DEF IdentityLess, Identity
  <1>11. Distinct(cell)'
    <2> SUFFICES ASSUME NEW s \in Slots, NEW t \in Slots, s # t,
                        Owned(cell'[s]), Owned(cell'[t])
                 PROVE  Identity(cell'[s]) # Identity(cell'[t])
      BY DEF Distinct
    <2>1. CASE s # target /\ t # target
      BY <1>6, <2>1 DEF SInv, FlashInv, Distinct
    <2>2. CASE s = target
      BY <1>3, <1>5, <1>6, <1>10, <2>2
    <2>3. CASE t = target
      BY <1>3, <1>5, <1>6, <1>10, <2>3
    <2> QED
      BY <2>1, <2>2, <2>3
  <1>12. OwnedIssued'
    <2>1. ~IdentityLess(NextIdentity, record)
      BY <1>2, <1>8 DEF IdentityLess
    <2>2. \A s \in Slots : Owned(cell'[s]) => ~IdentityLess(NextIdentity, cell'[s])
      BY <1>3, <1>5, <1>6, <1>10, <2>1
    <2> QED
      BY <2>2 DEF OwnedIssued
  <1>13. IssuedBelowMeta'
    <2>1. Held(meta')
      BY <1>1 DEF HeldMetas, Held
    <2> QED
      BY <1>1, <2>1 DEF IssuedBelowMeta, Boundary
  <1>14. EnqueuedSurvives'
    <2> SUFFICES ASSUME NEW p \in promised'
                 PROVE  \E s \in Slots : cell'[s].state = "QUEUED" /\ Custody(cell'[s]) = p
      BY DEF EnqueuedSurvives
    <2>1. CASE p \in promised
      <3>1. PICK s \in Slots : cell[s].state = "QUEUED" /\ Custody(cell[s]) = p
        BY <2>1 DEF SInv, FlashInv, EnqueuedSurvives
      <3> QED
        BY <1>3, <1>6, <3>1
    <2>2. CASE p = Custody(left) /\ left = record
      BY <1>2, <1>3, <1>6, <2>2
    <2> QED
      BY <2>1, <2>2 DEF record
  <1> QED
    BY <1>1, <1>6, <1>11, <1>12, <1>13, <1>14 DEF FlashInv

(* allocate leaves RAM and flash agreeing on what is still free *)
LEMMA AllocateKeepsVolatile ==
    ASSUME SInv, mode = "READY", Allocate, lastIssued' = NextIdentity
    PROVE  /\ MustReserve => ~EpochExhausted
           /\ meta' = MetaAfter /\ metadata' = meta' /\ meta' \in HeldMetas
           /\ volatileEndExclusive' = metadata'.next
           /\ nextVolatileId' >= 1 /\ nextVolatileId' <= volatileEndExclusive'
           /\ IdentityLess(lastIssued', Volatile')
           /\ nextVolatileId' \in 0 .. MaxId /\ volatileEndExclusive' \in 0 .. MaxId
           /\ lastIssued' \in Identities
  <1>1. /\ (MustReserve => ~EpochExhausted)
        /\ meta' = MetaAfter /\ metadata' = MetaAfter
        /\ nextVolatileId' = NextIdentity.id + 1
    BY DEF Allocate
  <1>2. /\ NextIdentity \in Identities /\ MetaAfter \in HeldMetas
        /\ NextIdentity.epoch = MetaAfter.epoch
        /\ NextIdentity.id + 1 <= MetaAfter.next
        /\ MustReserve => MetaAfter = AfterBlock
    BY <1>1, AllocationFacts
  <1>3. volatileEndExclusive' = MetaAfter.next
    <2>1. CASE MustReserve
      BY <1>2, <2>1 DEF Allocate
    <2>2. CASE ~MustReserve
      BY <2>2 DEF Allocate, MetaAfter, SInv, StoreInService
    <2> QED
      BY <2>1, <2>2
  <1>4. NextIdentity.id \in Nat /\ MetaAfter.next \in 1 .. MaxId /\ MaxId \in Nat
    BY <1>2, StoreAssumption DEF Identities, HeldMetas, HighWaters, EventIds
  <1>5. Volatile' = [epoch |-> NextIdentity.epoch, id |-> NextIdentity.id + 1]
    BY <1>1, <1>2 DEF Volatile
  <1>6. IdentityLess(lastIssued', Volatile')
    BY <1>4, <1>5 DEF IdentityLess
  <1>7. /\ NextIdentity.id + 1 >= 1 /\ NextIdentity.id + 1 \in 0 .. MaxId
        /\ MetaAfter.next \in 0 .. MaxId
    BY <1>2, <1>4
  <1> QED
    BY <1>1, <1>2, <1>3, <1>6, <1>7

LEMMA SInvEnqueue ==
    ASSUME SInv, NEW input \in Inputs, Enqueue(input) PROVE SInv'
  <1> DEFINE record == QueuedRecord(NextIdentity, input)
  <1>1. PICK target \in FreeSlot :
            /\ cell' = [cell EXCEPT ![target] = record]
            /\ slots' = [slots EXCEPT ![target] = record]
            /\ promised' = promised \cup {Custody(record)}
    BY Zenon DEF Enqueue
  <1>2. /\ mode = "READY" /\ Allocate /\ lastIssued' = NextIdentity /\ mode' = mode
    BY DEF Enqueue
  <1>3. /\ MustReserve => ~EpochExhausted
        /\ meta' = MetaAfter /\ metadata' = meta' /\ meta' \in HeldMetas
        /\ volatileEndExclusive' = metadata'.next
        /\ nextVolatileId' >= 1 /\ nextVolatileId' <= volatileEndExclusive'
        /\ IdentityLess(lastIssued', Volatile')
        /\ nextVolatileId' \in 0 .. MaxId /\ volatileEndExclusive' \in 0 .. MaxId
        /\ lastIssued' \in Identities
    BY <1>2, AllocateKeepsVolatile
  <1>4. /\ Held(record)
        /\ Custody(record) \in [epoch : EventEpochs, id : EventIds, content : Contents,
                                lifetime : Lifetimes]
    BY <1>2, <1>3, QueuedShape
  <1>5. FlashInv' /\ cell' \in [Slots -> Records]
    BY <1>1, <1>2, <1>3, EnqueueKeepsFlash, Zenon
  <1> HIDE DEF record
  <1>6. slots' = cell' /\ \A s \in Slots : Held(cell'[s])
    BY <1>1, <1>2, <1>4, FreeSlotFacts DEF SInv, StoreInService, TypeOK
  <1>7. TypeOK'
    BY <1>1, <1>2, <1>3, <1>4, <1>5, <1>6 DEF SInv, TypeOK, HeldMetas, Identities
  <1>8. Held(meta')
    BY <1>3 DEF HeldMetas, Held
  <1> QED
    BY <1>3, <1>5, <1>6, <1>7, <1>8 DEF SInv, StoreInService

LEMMA SInvEnqueueRecordFails ==
    ASSUME SInv, NEW input \in Inputs, EnqueueRecordFails(input) PROVE SInv'
  <1> DEFINE record == QueuedRecord(NextIdentity, input)
  <1>1. PICK target \in FreeSlot :
            \E left \in InDoubt(cell[target], record) :
                cell' = [cell EXCEPT ![target] = left]
    BY Zenon DEF EnqueueRecordFails
  <1>2. /\ mode = "READY" /\ lastIssued' = NextIdentity /\ promised' = promised
        /\ (MustReserve => ~EpochExhausted) /\ meta' = MetaAfter
    BY DEF EnqueueRecordFails, Allocate
  <1>3. PICK left \in {cell[target], record} :
            cell' = [cell EXCEPT ![target] = left]
    BY <1>1, <1>2, FreeSlotFacts, Zenon DEF InDoubt
  <1>4. FlashInv' /\ cell' \in [Slots -> Records] /\ meta' \in HeldMetas
    BY <1>1, <1>2, <1>3, EnqueueKeepsFlash, Zenon
  <1>5. NextIdentity \in Identities
    BY <1>2, AllocationFacts
  <1>6. /\ mode' \in {"OFF", "DEGRADED"} /\ slots' \in [Slots -> Records]
        /\ metadata' \in {NoMeta} \cup HeldMetas
        /\ nextVolatileId' \in 0 .. MaxId /\ volatileEndExclusive' \in 0 .. MaxId
    <2>1. CASE Allocate /\ mode' = "DEGRADED" /\ UNCHANGED slots
      BY <1>2, <2>1, AllocateKeepsVolatile DEF SInv, TypeOK
    <2>2. CASE mode' = "OFF" /\ Reset
      BY <2>2, ResetState
    <2> QED
      BY <2>1, <2>2 DEF EnqueueRecordFails
  <1>7. TypeOK'
    BY <1>2, <1>4, <1>5, <1>6 DEF SInv, TypeOK, HeldMetas, Identities
  <1> QED
    BY <1>4, <1>6, <1>7 DEF SInv, StoreInService

LEMMA SInvEnqueueIdentityFails == SInv /\ EnqueueIdentityFails => SInv'
  <1> SUFFICES ASSUME SInv, EnqueueIdentityFails PROVE SInv'
    OBVIOUS
  <1>1. mode = "READY" /\ MustReserve /\ UNCHANGED <<cell, history>>
    BY DEF EnqueueIdentityFails
  <1>2. CASE EpochExhausted /\ mode' = "DEGRADED" /\ UNCHANGED <<meta, ram>>
    <2>1. FlashInv'
      BY <1>1, <1>2, FlashUnchanged DEF SInv, flash
    <2>2. TypeOK'
      BY <1>1, <1>2 DEF SInv, TypeOK, ram, allocator, history
    <2> QED
      BY <1>2, <2>1, <2>2 DEF SInv, StoreInService
  <1>3. CASE ~EpochExhausted /\ meta' \in InDoubt(meta, AfterBlock) /\ OutOfService
    <2>1. /\ MetaAfter = AfterBlock /\ AfterBlock \in HeldMetas
          /\ NextIdentity \in Identities
          /\ IdentityLess(lastIssued, NextIdentity)
          /\ IdentityLess(NextIdentity, Boundary(AfterBlock))
      BY <1>1, <1>3, AllocationFacts
    <2>2. Held(meta) /\ meta \in HeldMetas
      BY <1>1, MetaShape DEF SInv, StoreInService
    <2>3. meta' \in {meta, AfterBlock}
      BY <1>3, <2>2 DEF InDoubt
    <2>4. IdentityLess(lastIssued, Boundary(AfterBlock))
      <3>1. /\ lastIssued.epoch \in Nat /\ lastIssued.id \in Nat
            /\ NextIdentity.epoch \in Nat /\ NextIdentity.id \in Nat
            /\ AfterBlock.epoch \in Nat /\ AfterBlock.next \in Nat
        BY <2>1, StoreAssumption DEF SInv, TypeOK, NoIdentity, Identities,
                                     HeldMetas, HighWaters, EventEpochs, EventIds
      <3> QED
        BY <2>1, <3>1 DEF IdentityLess, Boundary
    <2>5. Held(meta') /\ meta' \in HeldMetas
      BY <2>1, <2>2, <2>3 DEF HeldMetas, Held
    <2>6. IssuedBelowMeta'
      BY <1>1, <2>2, <2>3, <2>4, <2>5
         DEF SInv, FlashInv, IssuedBelowMeta, Boundary, history
    <2>7. FlashInv'
      BY <1>1, <2>6 DEF SInv, FlashInv, Distinct, OwnedIssued, EnqueuedSurvives,
                        history
    <2>8. TypeOK' /\ mode' # "READY"
      BY <1>1, <1>3, <2>5, OutOfServiceState DEF SInv, TypeOK, HeldMetas, history
    <2> QED
      BY <2>7, <2>8 DEF SInv, StoreInService
  <1> QED
    BY <1>2, <1>3 DEF EnqueueIdentityFails

-----------------------------------------------------------------------------
(* The mutations of a queued or terminal record *)

Mutates(s) == \/ MarkFailed(s) \/ MarkExpired(s) \/ ReleaseQueued(s)
              \/ Reclaim(s) \/ ArmAttempt(s)
              \/ \E l \in Lifetimes : \E seconds \in 1 .. l :
                     CheckpointRemaining(s, seconds)

(* What a mutation may make of an owned record, besides freeing the slot *)
Advances(old, new) ==
    /\ Owned(new) /\ Custody(new) = Custody(old)
    /\ new.attempts >= old.attempts /\ new.remaining <= old.remaining
    /\ new.state \in {old.state} \cup
           (IF old.state = "QUEUED" THEN {"FAILED", "EXPIRED"} ELSE {})

LEMMA AdvanceShape ==
    ASSUME NEW r \in Records, r.state = "QUEUED",
           NEW new \in [state : {"QUEUED", "FAILED", "EXPIRED"}, epoch : {r.epoch},
                        id : {r.id}, content : {r.content},
                        lifetime : {r.lifetime}, remaining : Nat,
                        attempts : 0 .. MaxAttempts],
           new.remaining >= 1, new.remaining <= r.remaining,
           new.attempts >= r.attempts
    PROVE  new \in Records /\ Advances(r, new)
  <1>1. /\ r \in [state : {"QUEUED", "FAILED", "EXPIRED"}, epoch : EventEpochs,
                  id : EventIds, content : Contents, lifetime : Lifetimes,
                  remaining : Nat, attempts : 0 .. MaxAttempts]
        /\ r.remaining \in 1 .. r.lifetime /\ r.lifetime \in Nat
    BY OwnedShape DEF Owned
  <1>2. /\ new \in [state : {"QUEUED", "FAILED", "EXPIRED"}, epoch : EventEpochs,
                  id : EventIds, content : Contents, lifetime : Lifetimes,
                  remaining : Nat, attempts : 0 .. MaxAttempts]
        /\ new.lifetime = r.lifetime
        /\ Custody(new) = Custody(r)
    BY <1>1 DEF Custody
  <1>3. new.remaining \in 1 .. new.lifetime
    BY <1>1, <1>2
  <1>4. new \in Records
    BY <1>2, <1>3 DEF Records
  <1> QED
    BY <1>2, <1>4 DEF Advances, Owned

LEMMA Advancing ==
    ASSUME NEW r \in Records, r.state = "QUEUED"
    PROVE  /\ \A st \in {"FAILED", "EXPIRED"} :
                  /\ [r EXCEPT !.state = st] \in Records
                  /\ Advances(r, [r EXCEPT !.state = st])
           /\ r.attempts < MaxAttempts =>
                  /\ [r EXCEPT !.attempts = @ + 1] \in Records
                  /\ Advances(r, [r EXCEPT !.attempts = @ + 1])
                  /\ [r EXCEPT !.attempts = @ + 1].state = "QUEUED"
           /\ \A n \in Nat : n >= 1 /\ n < r.remaining =>
                  /\ [r EXCEPT !.remaining = n] \in Records
                  /\ Advances(r, [r EXCEPT !.remaining = n])
                  /\ [r EXCEPT !.remaining = n].state = "QUEUED"
  <1>1. /\ r \in [state : {"QUEUED", "FAILED", "EXPIRED"}, epoch : EventEpochs,
                  id : EventIds, content : Contents, lifetime : Lifetimes,
                  remaining : Nat, attempts : 0 .. MaxAttempts]
        /\ r.remaining \in 1 .. r.lifetime /\ r.lifetime \in Nat
    BY OwnedShape DEF Owned
  <1>2. MaxAttempts \in Nat
    BY StoreAssumption
  <1>3. ASSUME NEW st \in {"FAILED", "EXPIRED"}
        PROVE  /\ [r EXCEPT !.state = st] \in Records
               /\ Advances(r, [r EXCEPT !.state = st])
    <2> DEFINE new == [r EXCEPT !.state = st]
    <2>1. new \in [state : {"QUEUED", "FAILED", "EXPIRED"}, epoch : {r.epoch},
                   id : {r.id}, content : {r.content}, lifetime : {r.lifetime},
                   remaining : Nat, attempts : 0 .. MaxAttempts]
      BY <1>1
    <2>2. new.remaining = r.remaining /\ new.attempts = r.attempts
      BY <1>1
    <2>3. /\ new.remaining >= 1 /\ new.remaining <= r.remaining
          /\ new.attempts >= r.attempts
      BY <1>1, <1>2, <2>2
    <2> HIDE DEF new
    <2>4. new \in Records /\ Advances(r, new)
      BY <2>1, <2>3, AdvanceShape
    <2> QED
      BY <2>4 DEF new
  <1>4. ASSUME r.attempts < MaxAttempts
        PROVE  /\ [r EXCEPT !.attempts = @ + 1] \in Records
               /\ Advances(r, [r EXCEPT !.attempts = @ + 1])
               /\ [r EXCEPT !.attempts = @ + 1].state = "QUEUED"
    <2> DEFINE new == [r EXCEPT !.attempts = @ + 1]
    <2>1. r.attempts + 1 \in 0 .. MaxAttempts /\ r.attempts + 1 >= r.attempts
      BY <1>1, <1>2, <1>4
    <2>2. new \in [state : {"QUEUED", "FAILED", "EXPIRED"}, epoch : {r.epoch},
                   id : {r.id}, content : {r.content}, lifetime : {r.lifetime},
                   remaining : Nat, attempts : 0 .. MaxAttempts]
      BY <1>1, <2>1
    <2>3. /\ new.remaining = r.remaining /\ new.attempts = r.attempts + 1
          /\ new.state = "QUEUED"
      BY <1>1
    <2>4. /\ new.remaining >= 1 /\ new.remaining <= r.remaining
          /\ new.attempts >= r.attempts
      BY <1>1, <2>1, <2>3
    <2> HIDE DEF new
    <2>5. new \in Records /\ Advances(r, new)
      BY <2>2, <2>4, AdvanceShape
    <2> QED
      BY <2>3, <2>5 DEF new
  <1>5. ASSUME NEW n \in Nat, n >= 1, n < r.remaining
        PROVE  /\ [r EXCEPT !.remaining = n] \in Records
               /\ Advances(r, [r EXCEPT !.remaining = n])
               /\ [r EXCEPT !.remaining = n].state = "QUEUED"
    <2> DEFINE new == [r EXCEPT !.remaining = n]
    <2>1. new \in [state : {"QUEUED", "FAILED", "EXPIRED"}, epoch : {r.epoch},
                   id : {r.id}, content : {r.content}, lifetime : {r.lifetime},
                   remaining : Nat, attempts : 0 .. MaxAttempts]
      BY <1>1
    <2>2. new.remaining = n /\ new.attempts = r.attempts /\ new.state = "QUEUED"
      BY <1>1
    <2>3. /\ new.remaining >= 1 /\ new.remaining <= r.remaining
          /\ new.attempts >= r.attempts
      BY <1>1, <1>2, <1>5, <2>2
    <2> HIDE DEF new
    <2>4. new \in Records /\ Advances(r, new)
      BY <2>1, <2>3, AdvanceShape
    <2> QED
      BY <2>2, <2>4 DEF new
  <1> QED
    BY <1>3, <1>4, <1>5

LEMMA MutationFacts ==
    ASSUME SInv, NEW s \in Slots, Mutates(s)
    PROVE  /\ mode = "READY" /\ slots = cell /\ Owned(cell[s])
           /\ UNCHANGED <<meta, lastIssued>> /\ promised' \subseteq promised
           /\ \E new \in Records :
                  /\ Commit(s, new) /\ (new = Free \/ Advances(cell[s], new))
                  /\ cell[s].state = "QUEUED" /\ Custody(cell[s]) \in promised' =>
                         new.state = "QUEUED"
  <1>1. mode = "READY" /\ Owned(slots[s])
    BY Zenon DEF Mutates, MarkFailed, MarkExpired, ReleaseQueued, Reclaim, ArmAttempt,
           CheckpointRemaining, InState, Owned
  <1>2. slots = cell
    BY <1>1 DEF SInv, StoreInService
  <1>3. UNCHANGED <<meta, lastIssued>> /\ promised' \subseteq promised
    BY Zenon DEF Mutates, MarkFailed, MarkExpired, ReleaseQueued, Reclaim, ArmAttempt,
           CheckpointRemaining, GivenUp, history
  <1> DEFINE Good(new) ==
                 /\ new \in Records
                 /\ Commit(s, new) /\ (new = Free \/ Advances(cell[s], new))
                 /\ cell[s].state = "QUEUED" /\ Custody(cell[s]) \in promised' =>
                        new.state = "QUEUED"
  <1>4. cell[s] \in Records
    BY DEF SInv, TypeOK
  <1>5. CASE MarkFailed(s) \/ MarkExpired(s)
    <2>1. PICK st \in {"FAILED", "EXPIRED"} :
              /\ cell[s].state = "QUEUED" /\ Commit(s, [cell[s] EXCEPT !.state = st])
              /\ promised' = promised \ {Custody(cell[s])}
      BY <1>2, <1>5 DEF MarkFailed, MarkExpired, InState, GivenUp
    <2>2. /\ [cell[s] EXCEPT !.state = st] \in Records
          /\ Advances(cell[s], [cell[s] EXCEPT !.state = st])
      BY <1>4, <2>1, Advancing, Zenon
    <2>3. Good([cell[s] EXCEPT !.state = st])
      BY <2>1, <2>2
    <2> QED
      BY <1>1, <1>2, <1>3, <2>3
  <1>6. CASE ReleaseQueued(s)
    <2>1. Commit(s, Free) /\ promised' = promised \ {Custody(cell[s])}
      BY <1>2, <1>6 DEF ReleaseQueued, GivenUp
    <2>2. Good(Free)
      BY <2>1, EmptyShape
    <2> QED
      BY <1>1, <1>2, <1>3, <2>2
  <1>7. CASE Reclaim(s)
    <2>1. Commit(s, Free) /\ cell[s].state # "QUEUED"
      BY <1>2, <1>7 DEF Reclaim, InState
    <2>2. Good(Free)
      BY <2>1, EmptyShape
    <2> QED
      BY <1>1, <1>2, <1>3, <2>2
  <1>8. CASE ArmAttempt(s)
    <2>1. /\ cell[s].state = "QUEUED" /\ cell[s].attempts < MaxAttempts
          /\ Commit(s, [cell[s] EXCEPT !.attempts = @ + 1])
      BY <1>2, <1>8 DEF ArmAttempt, InState
    <2>2. /\ [cell[s] EXCEPT !.attempts = @ + 1] \in Records
          /\ Advances(cell[s], [cell[s] EXCEPT !.attempts = @ + 1])
          /\ [cell[s] EXCEPT !.attempts = @ + 1].state = "QUEUED"
      BY <1>4, <2>1, Advancing, Zenon
    <2>3. Good([cell[s] EXCEPT !.attempts = @ + 1])
      BY <2>1, <2>2
    <2> QED
      BY <1>1, <1>2, <1>3, <2>3, Zenon
  <1>9. ASSUME NEW l \in Lifetimes, NEW seconds \in 1 .. l,
                CheckpointRemaining(s, seconds)
         PROVE  \E new : Good(new)
    <2>1. /\ cell[s].state = "QUEUED" /\ seconds < cell[s].remaining
          /\ Commit(s, [cell[s] EXCEPT !.remaining = seconds])
      BY <1>2, <1>9 DEF CheckpointRemaining, InState
    <2>2. l \in Nat /\ seconds \in Nat /\ seconds >= 1
      <3>1. l \in Nat
        BY StoreAssumption
      <3> QED
        BY <3>1
    <2>3. /\ [cell[s] EXCEPT !.remaining = seconds] \in Records
          /\ Advances(cell[s], [cell[s] EXCEPT !.remaining = seconds])
          /\ [cell[s] EXCEPT !.remaining = seconds].state = "QUEUED"
      BY <1>4, <2>1, <2>2, Advancing, Zenon
    <2> QED
      BY <2>1, <2>3, Zenon
  <1> QED
    BY <1>1, <1>2, <1>3, <1>5, <1>6, <1>7, <1>8, <1>9, Zenon DEF Mutates

(* A commit, verified or in doubt, leaves the old record or the new one *)
LEMMA CommitFacts ==
    ASSUME SInv, NEW s \in Slots, Held(cell[s]), NEW new, Commit(s, new)
    PROVE  /\ \E left \in {cell[s], new} : cell' = [cell EXCEPT ![s] = left]
           /\ \/ /\ cell' = [cell EXCEPT ![s] = new]
                 /\ slots' = [slots EXCEPT ![s] = new]
                 /\ UNCHANGED <<mode, allocator>>
              \/ OutOfService
  BY DEF Commit, InDoubt

LEMMA SInvMutates ==
    ASSUME SInv, NEW s \in Slots, Mutates(s) PROVE SInv'
  <1>1. /\ mode = "READY" /\ slots = cell /\ Owned(cell[s])
        /\ UNCHANGED <<meta, lastIssued>> /\ promised' \subseteq promised
    BY MutationFacts
  <1>2. PICK new \in Records :
            /\ Commit(s, new) /\ (new = Free \/ Advances(cell[s], new))
            /\ cell[s].state = "QUEUED" /\ Custody(cell[s]) \in promised' =>
                   new.state = "QUEUED"
    BY MutationFacts
  <1>3. cell \in [Slots -> Records] /\ Held(cell[s])
    BY <1>1 DEF SInv, TypeOK, Owned, Held
  <1>4. PICK left \in {cell[s], new} : cell' = [cell EXCEPT ![s] = left]
    BY <1>2, <1>3, CommitFacts
  <1>5. /\ cell' \in [Slots -> Records] /\ cell'[s] = left
        /\ \A t \in Slots : t # s => cell'[t] = cell[t]
    BY <1>3, <1>4
  <1>6. Owned(left) => Custody(left) = Custody(cell[s])
    BY <1>2, <1>4, EmptyShape DEF Advances
  <1>7. \A t \in Slots : Owned(cell'[t]) =>
            /\ Owned(cell[t])
            /\ cell'[t].epoch = cell[t].epoch /\ cell'[t].id = cell[t].id
    BY <1>1, <1>5, <1>6 DEF Custody
  <1>8. Distinct(cell)'
    BY <1>7, Zenon DEF SInv, FlashInv, Distinct, Identity
  <1>9. OwnedIssued'
    BY <1>1, <1>7, Zenon DEF SInv, FlashInv, OwnedIssued, IdentityLess
  <1>10. IssuedBelowMeta'
    BY <1>1 DEF SInv, FlashInv, IssuedBelowMeta, Boundary
  <1>11. EnqueuedSurvives'
    <2> SUFFICES ASSUME NEW p \in promised'
                 PROVE  \E t \in Slots : cell'[t].state = "QUEUED" /\ Custody(cell'[t]) = p
      BY DEF EnqueuedSurvives
    <2>1. PICK t \in Slots : cell[t].state = "QUEUED" /\ Custody(cell[t]) = p
      BY <1>1 DEF SInv, FlashInv, EnqueuedSurvives
    <2>2. CASE t # s
      BY <1>5, <2>1, <2>2
    <2>3. CASE t = s
      <3>1. left.state = "QUEUED"
        BY <1>2, <1>4, <2>1, <2>3
      <3> QED
        BY <1>5, <1>6, <2>1, <2>3, <3>1 DEF Owned
    <2> QED
      BY <2>2, <2>3
  <1>12. FlashInv'
    BY <1>8, <1>9, <1>10, <1>11 DEF FlashInv
  <1>13. CASE /\ cell' = [cell EXCEPT ![s] = new]
              /\ slots' = [slots EXCEPT ![s] = new]
              /\ UNCHANGED <<mode, allocator>>
    <2>1. slots' = cell' /\ Held(new)
      BY <1>1, <1>2, <1>13, EmptyShape, Zenon DEF Advances, Owned, Held
    <2>2. \A t \in Slots : Held(cell'[t])
      BY <1>1, <1>3, <1>13, <2>1 DEF SInv, StoreInService
    <2>3. TypeOK'
      BY <1>1, <1>5, <1>13, <2>1 DEF SInv, TypeOK, allocator
    <2>4. StoreInService'
      BY <1>1, <1>13, <2>1, <2>2 DEF SInv, StoreInService, allocator, Volatile
    <2> QED
      BY <1>12, <2>3, <2>4 DEF SInv
  <1>14. CASE OutOfService
    <2>1. TypeOK' /\ mode' # "READY"
      BY <1>1, <1>5, <1>14, OutOfServiceState DEF SInv, TypeOK, HeldMetas
    <2> QED
      BY <1>12, <2>1 DEF SInv, StoreInService
  <1> QED
    BY <1>2, <1>3, <1>13, <1>14, CommitFacts

-----------------------------------------------------------------------------

LEMMA SInvNext == SInv /\ [Next]_vars => SInv'
  <1> SUFFICES ASSUME SInv, [Next]_vars PROVE SInv'
    OBVIOUS
  <1>1. CASE Recover
    BY <1>1, SInvRecover
  <1>2. CASE RecoverFails \/ PowerLoss
    BY <1>2, SInvStops DEF RecoverFails, PowerLoss
  <1>3. CASE FormatFails \/ FreshMetadataFails
    BY <1>3, SInvFormatFails, SInvFreshMetadataFails
  <1>4. ASSUME NEW input \in Inputs, Enqueue(input) \/ EnqueueRecordFails(input)
        PROVE  SInv'
    BY <1>4, SInvEnqueue, SInvEnqueueRecordFails
  <1>5. CASE EnqueueIdentityFails
    BY <1>5, SInvEnqueueIdentityFails
  <1>6. ASSUME NEW s \in Slots, Mutates(s) PROVE SInv'
    BY <1>6, SInvMutates
  <1>7. CASE UNCHANGED vars
    <2>1. UNCHANGED <<cell, meta, mode, slots, metadata, nextVolatileId,
                      volatileEndExclusive, promised, lastIssued>>
      BY <1>7 DEF vars, flash, ram, allocator, history
    <2>2. FlashInv'
      BY <2>1, FlashUnchanged DEF SInv, flash, history
    <2> QED
      BY <2>1, <2>2 DEF SInv, TypeOK, StoreInService, Volatile
  <1> QED
    BY <1>1, <1>2, <1>3, <1>4, <1>5, <1>6, <1>7 DEF Next, Mutates, EnqueueRefused

LEMMA SInvHolds == Spec => []SInv
  BY SInvInit, SInvNext, PTL DEF Spec

(* The store's flash and RAM always have their declared shape: ids stay on  *)
(* block boundaries and within their width, attempts within MAX_ATTEMPTS    *)
THEOREM StoreTypeCorrect == Spec => []TypeOK
  <1>1. SInv => TypeOK
    BY DEF SInv
  <1> QED
    BY <1>1, SInvHolds, PTL

(* enqueue: an event reported ENQUEUED stays queued, unchanged, until the   *)
(* delivery code gives it up                                                *)
THEOREM EnqueuedIsKept == Spec => []EnqueuedSurvives
  <1>1. SInv => EnqueuedSurvives
    BY DEF SInv, FlashInv
  <1> QED
    BY <1>1, SInvHolds, PTL

(* A slot with a record keeps one in every step: a mutation leaves the old  *)
(* record or the new                                                        *)
LEMMA SlotsStayHeld ==
    ASSUME SInv, [Next]_vars, Formatted
    PROVE  Formatted'
  <1>1. cell \in [Slots -> Records] /\ slots \in [Slots -> Records]
    BY DEF SInv, TypeOK
  <1>2. ASSUME NEW t \in Slots, NEW r, Held(r), cell' = [cell EXCEPT ![t] = r]
        PROVE  Formatted'
    BY <1>1, <1>2 DEF Formatted
  <1>3. ASSUME NEW t \in Slots, NEW r, Held(r),
               \E left \in InDoubt(cell[t], r) : cell' = [cell EXCEPT ![t] = left]
        PROVE  Formatted'
    BY <1>2, <1>3, Zenon DEF Formatted, InDoubt
  <1>4. CASE UNCHANGED cell
    BY <1>4 DEF Formatted
  <1>5. ~\A s \in Slots : cell[s] = Missing
    BY StoreAssumption DEF Formatted, Held, Missing, Nothing, Slots
  <1>6. BootCells = cell
    BY <1>5, Zenon DEF BootCells
  <1>7. ASSUME NEW s \in Slots, NEW r, Held(r), Commit(s, r)
        PROVE  Formatted'
    BY <1>2, <1>3, <1>7, Zenon DEF Commit
  <1>8. \A i, input : Held(QueuedRecord(i, input))
    BY DEF Held, QueuedRecord
  <1>9. ASSUME NEW input \in Inputs, Enqueue(input) \/ EnqueueRecordFails(input)
        PROVE  Formatted'
    <2>1. \A t \in FreeSlot : t \in Slots
      BY DEF FreeSlot, FreeSlots
    <2> QED
      BY <1>2, <1>3, <1>8, <1>9, <2>1, Zenon DEF Enqueue, EnqueueRecordFails
  <1>10. ASSUME NEW s \in Slots, Mutates(s)
         PROVE  Formatted'
    <2>1. Held(Free)
      BY DEF Held, Free, Nothing
    <2>2. ASSUME slots[s].state = "QUEUED"
          PROVE  /\ Held([slots[s] EXCEPT !.state = "FAILED"])
                 /\ Held([slots[s] EXCEPT !.state = "EXPIRED"])
                 /\ \A n : Held([slots[s] EXCEPT !.remaining = n])
                 /\ Held([slots[s] EXCEPT !.attempts = @ + 1])
      BY <1>1, <2>2, OwnedShape DEF Held, Owned
    <2> QED
      BY <1>7, <1>10, <2>1, <2>2, Zenon
         DEF Mutates, MarkFailed, MarkExpired, ReleaseQueued, Reclaim,
             CheckpointRemaining, ArmAttempt, InState
  <1>11. CASE Recover \/ RecoverFails \/ FormatFails \/ FreshMetadataFails
    BY <1>4, <1>5, <1>6, <1>11, Zenon
       DEF Recover, RecoverFails, FormatFails, FreshMetadataFails, flash
  <1> QED
    BY <1>4, <1>9, <1>10, <1>11, Zenon
       DEF Next, Mutates, EnqueueIdentityFails, EnqueueRefused, PowerLoss,
           vars, flash

(* recover accepts every flash the store itself has formatted, for good:    *)
(* from the last slot's format on no write leaves a slot without a record,  *)
(* an identity twice or custody without identity metadata                   *)
THEOREM StoreStaysServiceable == Spec => FormattedStaysServiceable
  <1>1. SInv /\ Formatted => Serviceable
    <2> SUFFICES ASSUME SInv, Formatted PROVE Serviceable
      OBVIOUS
    <2>1. Consistent(cell)
      BY DEF Formatted, Consistent, SInv, FlashInv
    <2>2. ASSUME ~Usable(meta) PROVE Vacant(cell)
      <3>1. lastIssued = NoIdentity
        BY <2>2, MetaShape DEF SInv, FlashInv, IssuedBelowMeta
      <3>2. \A s \in Slots : ~Owned(cell[s])
        <4> SUFFICES ASSUME NEW s \in Slots, Owned(cell[s]) PROVE FALSE
          OBVIOUS
        <4>1. cell[s].epoch \in EventEpochs
          BY OwnedShape DEF SInv, TypeOK
        <4>2. cell[s].epoch > 0
          BY <4>1, StoreAssumption DEF EventEpochs
        <4> QED
          BY <3>1, <4>2 DEF SInv, FlashInv, OwnedIssued, IdentityLess, NoIdentity
      <3>3. \A s \in Slots : cell[s] \in {Missing, Nothing("INVALID"), Free}
        BY <3>2 DEF SInv, TypeOK, Records, Owned
      <3> QED
        BY <3>3, EmptyShape DEF Vacant, Formatted
    <2> QED
      BY <2>1, <2>2 DEF Serviceable
  <1>2. SInv /\ [Next]_vars /\ Formatted => Formatted'
    BY SlotsStayHeld
  <1>3. /\ SInv /\ SInv' /\ [Next]_vars
        /\ (SInv' /\ Formatted' => Serviceable')
        => [Formatted \/ Formatted' => Serviceable']_vars
    BY <1>2, Zenon
  <1> QED
    BY <1>1, <1>3, SInvHolds, PTL DEF Spec, FormattedStaysServiceable

(* The RAM that enqueue and the mutations decide from is what is durable *)
THEOREM StoreMirrorsFlash == Spec => []MirrorsFlash
  <1>1. SInv => MirrorsFlash
    BY DEF SInv, StoreInService, MirrorsFlash
  <1> QED
    BY <1>1, SInvHolds, PTL

-----------------------------------------------------------------------------

(* How a step may change one slot of flash: only an enqueue fills a slot,   *)
(* with the identity that allocate returns, and only a mutation touches an  *)
(* owned record                                                             *)
LEMMA SlotSteps ==
    ASSUME SInv, Next, NEW s \in Slots
    PROVE  \/ cell'[s] = cell[s]
           \/ ~Owned(cell'[s])
           \/ /\ ~Owned(cell[s])
              /\ mode = "READY" /\ (MustReserve => ~EpochExhausted)
              /\ cell'[s].epoch = NextIdentity.epoch
              /\ cell'[s].id = NextIdentity.id
           \/ Advances(cell[s], cell'[s])
  <1> DEFINE Goal == \/ cell'[s] = cell[s]
                     \/ ~Owned(cell'[s])
                     \/ /\ ~Owned(cell[s])
                        /\ mode = "READY" /\ (MustReserve => ~EpochExhausted)
                        /\ cell'[s].epoch = NextIdentity.epoch
                        /\ cell'[s].id = NextIdentity.id
                     \/ Advances(cell[s], cell'[s])
  <1>1. CASE UNCHANGED cell
    BY <1>1
  <1>2. CASE Recover \/ FreshMetadataFails
    <2>1. cell' = BootCells
      BY <1>2 DEF Recover, FreshMetadataFails
    <2> QED
      BY <2>1, BootCellsKeepFlash, Zenon
  <1>3. CASE FormatFails
    <2>1. [Missing EXCEPT !.state = "INVALID"] = Nothing("INVALID")
      BY DEF Missing, Nothing
    <2>2. cell'[s] \in {Missing, Nothing("INVALID"), Free}
      BY <1>3, <2>1, EmptyShape DEF FormatFails, InDoubt
    <2> QED
      BY <2>2, EmptyShape
  <1>4. ASSUME NEW input \in Inputs, Enqueue(input) \/ EnqueueRecordFails(input)
        PROVE  Goal
    <2>1. mode = "READY" /\ (MustReserve => ~EpochExhausted)
      BY <1>4 DEF Enqueue, EnqueueRecordFails, Allocate
    <2>2. PICK target \in FreeSlot :
              \/ cell' = [cell EXCEPT ![target] = QueuedRecord(NextIdentity, input)]
              \/ \E left \in InDoubt(cell[target], QueuedRecord(NextIdentity, input)) :
                     cell' = [cell EXCEPT ![target] = left]
      BY <1>4 DEF Enqueue, EnqueueRecordFails
    <2>3. PICK left \in {cell[target], QueuedRecord(NextIdentity, input)} :
              cell' = [cell EXCEPT ![target] = left]
      BY <2>1, <2>2, FreeSlotFacts DEF InDoubt
    <2>4. target \in Slots /\ ~Owned(cell[target]) /\ cell \in [Slots -> Records]
      BY <2>1, FreeSlotFacts DEF SInv, TypeOK
    <2>5. cell'[s] = IF s = target THEN left ELSE cell[s]
      BY <2>3, <2>4
    <2> QED
      BY <2>1, <2>3, <2>4, <2>5 DEF QueuedRecord
  <1>5. ASSUME NEW t \in Slots, Mutates(t) PROVE Goal
    <2>1. PICK new \in Records :
              Commit(t, new) /\ (new = Free \/ Advances(cell[t], new))
      BY <1>5, MutationFacts
    <2>2. Held(cell[t]) /\ cell \in [Slots -> Records]
      BY <1>5, MutationFacts DEF Owned, Held, SInv, TypeOK
    <2>3. PICK left \in {cell[t], new} : cell' = [cell EXCEPT ![t] = left]
      BY <2>1, <2>2, CommitFacts
    <2>4. cell'[s] = IF s = t THEN left ELSE cell[s]
      BY <2>2, <2>3
    <2> QED
      BY <2>1, <2>3, <2>4, EmptyShape
  <1>6. CASE EnqueueIdentityFails \/ RecoverFails \/ PowerLoss
    BY <1>1, <1>6 DEF EnqueueIdentityFails, RecoverFails, PowerLoss, flash
  <1>7. CASE UNCHANGED vars
    BY <1>1, <1>7 DEF vars, flash
  <1> QED
    BY <1>2, <1>3, <1>4, <1>5, <1>6, <1>7, Zenon DEF Next, Mutates, EnqueueRefused

(* allocate: identities strictly increase over reboots, failed commits and  *)
(* epochs, so queue order is creation order                                 *)
THEOREM IdentitiesIncrease == Spec => IdentityNeverReused
  <1> DEFINE Step == \A s \in Slots : Becomes(s) => IdentityLess(lastIssued, cell'[s])
  <1>1. SInv /\ [Next]_vars => [Step]_vars
    <2> SUFFICES ASSUME SInv, Next, NEW s \in Slots, Becomes(s)
                 PROVE  IdentityLess(lastIssued, cell'[s])
      OBVIOUS
    <2>1. Owned(cell'[s]) /\ ~Owned(cell[s])
      BY DEF Becomes
    <2>2. ~Advances(cell[s], cell'[s])
      <3> SUFFICES ASSUME Advances(cell[s], cell'[s]) PROVE FALSE
        OBVIOUS
      <3>1. cell'[s].state \in {cell[s].state} \cup
                (IF cell[s].state = "QUEUED" THEN {"FAILED", "EXPIRED"} ELSE {})
        BY DEF Advances
      <3> QED
        BY <2>1, <3>1 DEF Owned
    <2>3. /\ mode = "READY" /\ (MustReserve => ~EpochExhausted)
          /\ cell'[s].epoch = NextIdentity.epoch /\ cell'[s].id = NextIdentity.id
      BY <2>1, <2>2, SlotSteps
    <2>4. IdentityLess(lastIssued, NextIdentity)
      BY <2>3, AllocationFacts
    <2> QED
      BY <2>3, <2>4 DEF IdentityLess
  <1> QED
    BY <1>1, SInvHolds, PTL DEF Spec, IdentityNeverReused

(* armAttempt, checkpointRemaining, markFailed, markExpired: budgets only   *)
(* shrink and terminal states are final                                     *)
THEOREM BudgetsShrink == Spec => BudgetNeverRestored
  <1> DEFINE Step ==
        \A s \in Slots : Owned(cell[s]) /\ Owned(cell'[s]) =>
            /\ Custody(cell'[s]) = Custody(cell[s])
            /\ cell'[s].attempts >= cell[s].attempts
            /\ cell'[s].remaining <= cell[s].remaining
            /\ cell'[s].state \in {cell[s].state} \cup
                   (IF cell[s].state = "QUEUED" THEN {"FAILED", "EXPIRED"} ELSE {})
  <1>1. SInv /\ [Next]_vars => [Step]_vars
    <2> SUFFICES ASSUME SInv, Next, NEW s \in Slots, Owned(cell[s]), Owned(cell'[s])
                 PROVE  Advances(cell[s], cell'[s])
      BY DEF Advances
    <2>1. CASE cell'[s] = cell[s]
      <3>1. cell[s].attempts \in Nat /\ cell[s].remaining \in Nat
        <4>1. cell[s] \in Records
          BY DEF SInv, TypeOK
        <4> QED
          BY <4>1, OwnedShape, StoreAssumption
      <3> QED
        BY <2>1, <3>1 DEF Advances
    <2> QED
      BY <2>1, SlotSteps
  <1> QED
    BY <1>1, SInvHolds, PTL DEF Spec, BudgetNeverRestored
-----------------------------------------------------------------------------
(* What a composition needs to know of a step of the store *)

(* allocate: the identity issued last only grows *)
LEMMA IssuedGrows ==
    ASSUME SInv, Next
    PROVE  lastIssued' = lastIssued \/ IdentityLess(lastIssued, lastIssued')
  <1>1. ASSUME NEW input \in Inputs, Enqueue(input) \/ EnqueueRecordFails(input)
        PROVE  IdentityLess(lastIssued, lastIssued')
    <2>1. /\ mode = "READY" /\ (MustReserve => ~EpochExhausted)
          /\ lastIssued' = NextIdentity
      BY <1>1 DEF Enqueue, EnqueueRecordFails, Allocate
    <2> QED
      BY <2>1, AllocationFacts
  <1>2. ASSUME NEW s \in Slots, Mutates(s) PROVE lastIssued' = lastIssued
    BY <1>2, MutationFacts
  <1> QED
    BY <1>1, <1>2
       DEF Next, Mutates, Recover, RecoverFails, FormatFails, FreshMetadataFails,
           EnqueueIdentityFails, EnqueueRefused, PowerLoss, vars, history

(* A slot owned after the step was owned before it, by the same event, or   *)
(* holds an event newer than every earlier one                              *)
LEMMA OwnedFrom ==
    ASSUME SInv, Next, NEW s \in Slots, Owned(cell'[s])
    PROVE  \/ /\ Owned(cell[s]) /\ Custody(cell'[s]) = Custody(cell[s])
              /\ cell'[s].state = "QUEUED" => cell[s].state = "QUEUED"
           \/ IdentityLess(lastIssued, cell'[s])
  <1>1. CASE cell'[s] = cell[s]
    BY <1>1, Zenon
  <1>2. CASE Advances(cell[s], cell'[s])
    BY <1>2 DEF Advances, Owned
  <1>3. CASE /\ mode = "READY" /\ (MustReserve => ~EpochExhausted)
             /\ cell'[s].epoch = NextIdentity.epoch /\ cell'[s].id = NextIdentity.id
    <2>1. IdentityLess(lastIssued, NextIdentity)
      BY <1>3, AllocationFacts
    <2> QED
      BY <1>3, <2>1 DEF IdentityLess
  <1> QED
    BY <1>1, <1>2, <1>3, SlotSteps, Zenon

(* Only markFailed, markExpired and releaseQueued take an event off the     *)
(* queue, each the one it is called for                                     *)
LEMMA QueuedStays ==
    ASSUME SInv, NEW s \in Slots, cell[s].state = "QUEUED",
           \/ Recover \/ RecoverFails \/ FormatFails \/ FreshMetadataFails \/ PowerLoss
           \/ EnqueueIdentityFails
           \/ \E input \in Inputs : Enqueue(input) \/ EnqueueRecordFails(input)
           \/ \E t \in Slots : Reclaim(t) \/ ArmAttempt(t)
    PROVE  cell'[s].state = "QUEUED" /\ Custody(cell'[s]) = Custody(cell[s])
  <1>1. Owned(cell[s]) /\ cell \in [Slots -> Records]
    BY DEF Owned, SInv, TypeOK
  <1>2. CASE Recover \/ FreshMetadataFails
    <2>1. cell' = BootCells
      BY <1>2, Zenon DEF Recover, FreshMetadataFails
    <2>2. cell[s] # Missing
      BY <1>1, EmptyShape
    <2> QED
      BY <2>1, <2>2 DEF BootCells
  <1>3. CASE RecoverFails \/ PowerLoss \/ EnqueueIdentityFails
    BY <1>3 DEF RecoverFails, PowerLoss, EnqueueIdentityFails, flash
  <1>4. CASE FormatFails
    BY <1>1, <1>4, EmptyShape DEF FormatFails
  <1>5. ASSUME NEW input \in Inputs, Enqueue(input) \/ EnqueueRecordFails(input)
        PROVE  cell'[s] = cell[s]
    <2>1. PICK target \in FreeSlot : \E left : cell' = [cell EXCEPT ![target] = left]
      BY <1>5 DEF Enqueue, EnqueueRecordFails
    <2>2. ~Owned(cell[target])
      BY <1>5, FreeSlotFacts DEF Enqueue, EnqueueRecordFails
    <2> QED
      BY <1>1, <2>1, <2>2
  <1>6. ASSUME NEW t \in Slots, Reclaim(t)
        PROVE  cell'[s] = cell[s]
    <2>1. cell[t].state # "QUEUED"
      BY <1>6, Zenon DEF Reclaim, InState, SInv, StoreInService
    <2>2. \E left : cell' = [cell EXCEPT ![t] = left]
      BY <1>6 DEF Reclaim, Commit
    <2> QED
      BY <1>1, <2>1, <2>2
  <1>7. ASSUME NEW t \in Slots, ArmAttempt(t)
        PROVE  cell'[s].state = "QUEUED" /\ Custody(cell'[s]) = Custody(cell[s])
    <2> DEFINE armed == [cell[t] EXCEPT !.attempts = @ + 1]
    <2>1. /\ slots = cell /\ cell[t].state = "QUEUED" /\ cell[t].attempts < MaxAttempts
          /\ Commit(t, armed)
      BY <1>7 DEF ArmAttempt, InState, SInv, StoreInService
    <2>2. armed.state = "QUEUED" /\ Custody(armed) = Custody(cell[t])
      BY <1>1, <2>1, Advancing, Zenon DEF Advances
    <2> HIDE DEF armed
    <2>3. PICK left \in {cell[t], armed} : cell' = [cell EXCEPT ![t] = left]
      BY <2>1, CommitFacts DEF Held
    <2> QED
      BY <1>1, <2>1, <2>2, <2>3
  <1> QED
    BY <1>2, <1>3, <1>4, <1>5, <1>6, <1>7

LEMMA GivenUpAlone ==
    ASSUME SInv, NEW s \in Slots, MarkFailed(s) \/ MarkExpired(s) \/ ReleaseQueued(s)
    PROVE  /\ mode = "READY" /\ slots = cell /\ cell[s].state = "QUEUED"
           /\ \A t \in Slots : t # s => cell'[t] = cell[t]
           /\ cell'[s].state = "QUEUED" => cell'[s] = cell[s]
  <1>1. mode = "READY" /\ slots = cell /\ cell[s].state = "QUEUED"
    BY DEF MarkFailed, MarkExpired, ReleaseQueued, InState, SInv, StoreInService
  <1>2. cell \in [Slots -> Records] /\ Held(cell[s])
    BY <1>1 DEF SInv, TypeOK, Held
  <1>3. PICK new : Commit(s, new) /\ new.state # "QUEUED"
    <2>1. \A st : [cell[s] EXCEPT !.state = st].state = st
      BY <1>1, <1>2, OwnedShape DEF Owned
    <2> QED
      BY <1>1, <2>1, EmptyShape, Zenon DEF MarkFailed, MarkExpired, ReleaseQueued
  <1>4. PICK left \in {cell[s], new} : cell' = [cell EXCEPT ![s] = left]
    BY <1>2, <1>3, CommitFacts
  <1> QED
    BY <1>1, <1>2, <1>3, <1>4
=============================================================================
