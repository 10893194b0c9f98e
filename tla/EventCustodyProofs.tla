-------------------------- MODULE EventCustodyProofs --------------------------
(***************************************************************************)
(* Proofs about the Hub's ledger, and about the path of an event from the   *)
(* Node to the host, for every capacity, block size and width on both       *)
(* sides, any set of events, and any number of faults.  The Node's store    *)
(* brings its inductive invariant with it.                                  *)
(***************************************************************************)
EXTENDS EventCustody, TLAPS

-----------------------------------------------------------------------------
(* The Hub's ledger: its custody and ordering properties *)

(* The inductive invariant: what is durable *)
RecordsUnique ==
    \A s, t \in Slots :
        s # t /\ Owned(cell[s]) /\ Owned(cell[t]) =>
            /\ ~SameIdentity(cell[s], cell[t])
            /\ cell[s].ordinal # cell[t].ordinal

CustodyRecorded == \A s \in Slots : Owned(cell[s]) => Custody(cell[s]) \in ever

TombstonesRequested ==
    \A s \in Slots : cell[s].state = "CONSUMED" => Custody(cell[s]) \in requested

MetaBeforeSlots ==
    ((\E s \in Slots : Held(cell[s])) \/ ever # {}) => Held(meta)

IssuedBelowMeta == Held(meta) => \A p \in ever : p.ordinal < meta.next

Remembered(p) == \/ \E s \in Slots : Owned(cell[s]) /\ SameIdentity(cell[s], p)
                 \/ \E q \in ever : IncomingLater(q, p)

EverRemembered == \A p \in ever : Remembered(p)

FlashInv == /\ RecordsUnique /\ CustodyRecorded /\ TombstonesRequested
            /\ MetaBeforeSlots /\ IssuedBelowMeta /\ EverRemembered
            /\ AdmittedSurvives

(* and how RAM relates to it *)
VolatileOrdinals ==
    ordinalReady =>
        /\ meta = HighWater(metadata) /\ metadata \in HighWaters
        /\ nextVolatileOrdinal <= volatileEndExclusive
        /\ volatileEndExclusive <= metadata
        /\ MustReserve \/ (volatileEndExclusive = metadata /\ nextVolatileOrdinal > 0)
        /\ \A p \in ever : p.ordinal < Ordinal

InService == mode = "READY" => slots = cell /\ \A s \in Slots : Held(cell[s])

OffIsReset == mode = "OFF" => /\ metadata = 0 /\ ordinalReady = FALSE
                              /\ nextVolatileOrdinal = 0
                              /\ volatileEndExclusive = 0

LInv == TypeOK /\ FlashInv /\ VolatileOrdinals /\ InService /\ OffIsReset

-----------------------------------------------------------------------------
(* Shapes *)

LEMMA OwnedShape ==
    ASSUME NEW r \in Records, Owned(r)
    PROVE  /\ r \in [state : {"ACTIVE", "CONSUMED"}, epoch : Epochs, id : Ids,
                     content : Contents, ordinal : 1 .. MaxOrdinal]
           /\ Custody(r) \in Custodies /\ Custody(r).ordinal = r.ordinal
           /\ r.state = "ACTIVE" => r = Record("ACTIVE", Custody(r), r.ordinal)
  BY DEF Records, Owned, Missing, Empty, Nothing, Custody, Custodies, Record

LEMMA ActiveShape ==
    ASSUME NEW e \in Events, NEW o \in 1 .. MaxOrdinal
    PROVE  LET r == Record("ACTIVE", e, o)
           IN  /\ r \in Records /\ Owned(r) /\ Held(r)
               /\ r.state = "ACTIVE" /\ r.ordinal = o
               /\ SameIdentity(r, e)
               /\ Custody(r) \in Custodies /\ Custody(r).ordinal = o
               /\ SameIdentity(Custody(r), e)
               /\ r = Record("ACTIVE", Custody(r), o)
  BY DEF Record, Records, Owned, Held, SameIdentity, Custody, Custodies, Events

LEMMA TombstoneShape ==
    ASSUME NEW r \in Records, r.state = "ACTIVE"
    PROVE  /\ Consumed(r) \in Records /\ Held(Consumed(r)) /\ Owned(Consumed(r))
           /\ Consumed(r).state = "CONSUMED"
           /\ Consumed(r).epoch = r.epoch /\ Consumed(r).id = r.id
           /\ Consumed(r).ordinal = r.ordinal
           /\ Custody(Consumed(r)) = Custody(r)
  BY OwnedShape DEF Consumed, Records, Owned, Held, Custody, Missing, Empty, Nothing

LEMMA EmptyShape == /\ Missing \in Records /\ Empty \in Records
                    /\ Nothing("INVALID") \in Records
                    /\ ~Owned(Missing) /\ ~Owned(Empty) /\ ~Owned(Nothing("INVALID"))
                    /\ ~Held(Missing) /\ Held(Empty) /\ ~Held(Nothing("INVALID"))
                    /\ Missing.state = "MISSING" /\ Empty.state = "EMPTY"
  BY DEF Records, Owned, Held, Missing, Empty, Nothing

(* A block that fits starts and ends on block boundaries *)
LEMMA NextBlockFits ==
    ASSUME metadata \in HighWaters, ~Exhausted
    PROVE  /\ NextBlock \in HighWaters
           /\ metadata < NextBlock /\ metadata + 1 <= NextBlock
           /\ NextBlock <= MaxOrdinal
           /\ metadata \in 1 .. MaxOrdinal
  <1>1. /\ OrdinalBlock \in Nat /\ OrdinalBlock > 0
        /\ MaxOrdinal \in Nat
    BY LedgerAssumption
  <1>2. PICK k \in 0 .. MaxOrdinal : metadata = 1 + k * OrdinalBlock
    BY DEF HighWaters
  <1>3. metadata \in 1 .. MaxOrdinal
    BY DEF HighWaters
  <1>4. NextBlock = metadata + OrdinalBlock /\ NextBlock <= MaxOrdinal
    BY <1>1, <1>3 DEF NextBlock, Exhausted
  <1>5. k * OrdinalBlock + OrdinalBlock = (k + 1) * OrdinalBlock
    BY <1>1
  <1>6. k * OrdinalBlock >= k
    BY <1>1, k >= 0
  <1>7. k + 1 \in 0 .. MaxOrdinal
    <2>1. k * OrdinalBlock \in Int
      BY <1>1
    <2> QED
      BY <1>1, <1>2, <1>4, <1>6, <2>1
  <1>8. NextBlock = 1 + (k + 1) * OrdinalBlock
    BY <1>1, <1>2, <1>4, <1>5
  <1>9. NextBlock \in 1 .. MaxOrdinal
    BY <1>1, <1>3, <1>4
  <1>10. \E j \in 0 .. MaxOrdinal : NextBlock = 1 + j * OrdinalBlock
    BY <1>7, <1>8
  <1>11. NextBlock \in HighWaters
    BY <1>9, <1>10 DEF HighWaters
  <1>12. metadata < NextBlock /\ metadata + 1 <= NextBlock
    BY <1>1, <1>3, <1>4
  <1> QED
    BY <1>3, <1>4, <1>11, <1>12

LEMMA OneIsHighWater == 1 \in HighWaters
  <1>1. 0 \in 0 .. MaxOrdinal /\ 1 \in 1 .. MaxOrdinal /\ 1 = 1 + 0 * OrdinalBlock
    BY LedgerAssumption
  <1> QED
    BY <1>1 DEF HighWaters

LEMMA LInvInit == Init => LInv
  <1> SUFFICES ASSUME Init PROVE LInv
    OBVIOUS
  <1>1. TypeOK
    <2>1. 0 \in 0 .. MaxOrdinal
      BY LedgerAssumption
    <2>2. /\ cell \in [Slots -> Records] /\ slots \in [Slots -> Records]
      BY EmptyShape DEF Init
    <2> QED
      BY <2>1, <2>2, Zenon DEF Init, TypeOK
  <1>2. FlashInv
    BY EmptyShape
       DEF Init, FlashInv, RecordsUnique, CustodyRecorded, TombstonesRequested,
           MetaBeforeSlots, IssuedBelowMeta, EverRemembered, AdmittedSurvives
  <1> QED
    BY <1>1, <1>2 DEF Init, LInv, VolatileOrdinals, InService, OffIsReset

-----------------------------------------------------------------------------
(* What admit relies on *)

LEMMA TargetFacts ==
    ASSUME LInv, NEW e \in Events, Admissible(e), NEW target \in Targets(e)
    PROVE  /\ target \in Slots /\ slots = cell /\ Held(cell[target])
           /\ cell[target].state \in {"EMPTY", "CONSUMED"}
           /\ cell[target].state = "CONSUMED" => IncomingLater(e, cell[target])
           /\ \A s \in Slots : Owned(cell[s]) => ~SameIdentity(cell[s], e)
  <1>1. slots = cell /\ \A s \in Slots : Held(cell[s])
    BY DEF LInv, InService, Admissible
  <1>2. target \in EmptySlots \/ target \in Reclaimable(e)
    BY DEF Targets
  <1>3. target \in Slots
    BY <1>2 DEF EmptySlots, Reclaimable
  <1>4. \A s \in Slots : Owned(cell[s]) => ~SameIdentity(cell[s], e)
    BY <1>1 DEF Admissible, Known
  <1> QED
    BY <1>1, <1>2, <1>3, <1>4 DEF EmptySlots, Reclaimable

LEMMA OrdinalFacts ==
    ASSUME LInv, ordinalReady, MustReserve => ~Exhausted
    PROVE  /\ Ordinal \in 1 .. MaxOrdinal
           /\ \A p \in ever : p.ordinal < Ordinal
           /\ Held(MetaAfter) /\ MetaAfter.next \in HighWaters
           /\ MetaAfter = HighWater(MetaAfter.next)
           /\ Ordinal + 1 <= MetaAfter.next
           /\ MetaAfter.next \in 1 .. MaxOrdinal
           /\ \A p \in ever : p.ordinal < MetaAfter.next
  <1>1. /\ meta = HighWater(metadata) /\ metadata \in HighWaters
        /\ nextVolatileOrdinal <= volatileEndExclusive
        /\ volatileEndExclusive <= metadata
        /\ MustReserve \/ (volatileEndExclusive = metadata /\ nextVolatileOrdinal > 0)
        /\ \A p \in ever : p.ordinal < Ordinal
    BY DEF LInv, VolatileOrdinals
  <1>2. /\ nextVolatileOrdinal \in 0 .. MaxOrdinal
        /\ volatileEndExclusive \in 0 .. MaxOrdinal
        /\ MaxOrdinal \in Nat /\ ever \subseteq Custodies
    BY LedgerAssumption DEF LInv, TypeOK
  <1>3. metadata \in 1 .. MaxOrdinal
    BY <1>1 DEF HighWaters
  <1>4. \A p \in ever : p.ordinal \in 1 .. MaxOrdinal
    BY <1>2 DEF Custodies
  <1>5. CASE MustReserve
    <2>1. Ordinal = metadata /\ MetaAfter = HighWater(NextBlock)
      BY <1>5 DEF Ordinal, MetaAfter
    <2>2. /\ NextBlock \in HighWaters /\ metadata + 1 <= NextBlock
          /\ NextBlock <= MaxOrdinal
      BY <1>1, <1>5, NextBlockFits
    <2>3. NextBlock \in 1 .. MaxOrdinal
      BY <2>2 DEF HighWaters
    <2>4. \A p \in ever : p.ordinal < NextBlock
      BY <1>1, <1>2, <1>3, <1>4, <2>1, <2>2, <2>3
    <2> QED
      BY <1>1, <1>3, <2>1, <2>2, <2>3, <2>4 DEF HighWater, Held
  <1>6. CASE ~MustReserve
    <2>1. Ordinal = nextVolatileOrdinal /\ MetaAfter = meta
      BY <1>6 DEF Ordinal, MetaAfter
    <2>2. nextVolatileOrdinal < metadata /\ nextVolatileOrdinal # volatileEndExclusive
      BY <1>1, <1>2, <1>3, <1>6 DEF MustReserve
    <2>3. meta.next = metadata /\ Held(meta)
      BY <1>1 DEF HighWater, Held
    <2>4. \A p \in ever : p.ordinal < metadata
      BY <1>1, <1>2, <1>3, <1>4, <2>1, <2>2
    <2>5. nextVolatileOrdinal + 1 <= metadata
      BY <1>2, <1>3, <2>2
    <2>6. nextVolatileOrdinal \in 1 .. MaxOrdinal
      BY <1>1, <1>2, <1>6
    <2>7. MetaAfter.next = metadata /\ MetaAfter = HighWater(metadata)
      BY <1>1, <2>1, <2>3
    <2> QED
      BY <1>1, <1>3, <2>1, <2>3, <2>4, <2>5, <2>6, <2>7
  <1> QED
    BY <1>5, <1>6

(* The custody an admission of e would create *)
Admission(e) == Record("ACTIVE", e, Ordinal)

(* Verified or not, writing the record of a new event keeps what is durable *)
(* in order                                                                 *)
LEMMA AdmissionKeepsFlash ==
    ASSUME LInv, NEW e \in Events, Admissible(e), NEW target \in Targets(e),
           MustReserve => ~Exhausted, meta' = MetaAfter,
           NEW left \in {cell[target], Admission(e)},
           cell' = [cell EXCEPT ![target] = left],
           ever' = IF left = Admission(e)
                     THEN ever \cup {Custody(Admission(e))} ELSE ever,
           requested' = requested,
           \/ promised' = promised
           \/ /\ left = Admission(e)
              /\ promised' = promised \cup {Custody(Admission(e))}
    PROVE  /\ FlashInv'
           /\ cell' \in [Slots -> Records] /\ ever' \subseteq Custodies
           /\ promised' \subseteq Custodies
           /\ \A s \in Slots : Held(cell[s])'
           /\ \A p \in ever' : p \in ever \/ p.ordinal = Ordinal
  <1> DEFINE next == Admission(e)
  <1>1. /\ target \in Slots /\ Held(cell[target])
        /\ cell[target].state \in {"EMPTY", "CONSUMED"}
        /\ cell[target].state = "CONSUMED" => IncomingLater(e, cell[target])
        /\ \A s \in Slots : Owned(cell[s]) => ~SameIdentity(cell[s], e)
    BY TargetFacts
  <1>2. /\ Ordinal \in 1 .. MaxOrdinal
        /\ \A p \in ever : p.ordinal < Ordinal
        /\ Held(meta') /\ Ordinal + 1 <= meta'.next
        /\ meta'.next \in 1 .. MaxOrdinal
        /\ \A p \in ever : p.ordinal < meta'.next
    BY OrdinalFacts DEF Admissible
  <1>3. /\ next \in Records /\ Owned(next) /\ Held(next)
        /\ next.state = "ACTIVE" /\ next.ordinal = Ordinal
        /\ SameIdentity(next, e)
        /\ Custody(next) \in Custodies /\ Custody(next).ordinal = Ordinal
        /\ SameIdentity(Custody(next), e)
        /\ next = Record("ACTIVE", Custody(next), Ordinal)
    BY <1>2, ActiveShape DEF Admission
  <1>4. /\ cell \in [Slots -> Records] /\ ever \subseteq Custodies
        /\ promised \subseteq Custodies /\ FlashInv
        /\ \A s \in Slots : Held(cell[s])
    BY DEF LInv, TypeOK, InService, Admissible
  <1> HIDE DEF next
  <1>5. /\ cell'[target] = left
        /\ \A s \in Slots : s # target => cell'[s] = cell[s]
        /\ cell' \in [Slots -> Records]
    BY <1>1, <1>3, <1>4 DEF next
  <1>6. ever' \subseteq Custodies /\ promised' \subseteq Custodies /\ ever \subseteq ever'
    BY <1>3, <1>4 DEF next
  <1>7. \A s \in Slots : Held(cell'[s])
    BY <1>3, <1>4, <1>5 DEF next
  <1>8. \A p \in ever' : p \in ever \/ p.ordinal = Ordinal
    BY <1>3 DEF next
  <1>9. CASE left = cell[target] /\ left # next
    <2>1. cell' = cell /\ ever' = ever /\ promised' = promised
      BY <1>4, <1>9 DEF next
    <2>2. IssuedBelowMeta' /\ MetaBeforeSlots'
      BY <1>2, <2>1 DEF IssuedBelowMeta, MetaBeforeSlots
    <2>3. EverRemembered'
      BY <1>4, <2>1, Zenon DEF FlashInv, EverRemembered, Remembered
    <2>4. RecordsUnique' /\ CustodyRecorded' /\ TombstonesRequested' /\ AdmittedSurvives'
      BY <1>4, <2>1 DEF FlashInv, RecordsUnique, CustodyRecorded,
                        TombstonesRequested, AdmittedSurvives
    <2>5. FlashInv'
      BY <2>2, <2>3, <2>4 DEF FlashInv
    <2> QED
      BY <1>5, <1>6, <1>7, <1>8, <2>5
  <1>10. CASE left = next
    <2>1. cell'[target] = next /\ ever' = ever \cup {Custody(next)}
      BY <1>5, <1>10 DEF next
    <2>2. RecordsUnique'
      <3>1. \A s \in Slots : s # target /\ Owned(cell[s]) =>
                /\ ~SameIdentity(cell[s], next) /\ ~SameIdentity(next, cell[s])
                /\ cell[s].ordinal # next.ordinal
        <4> TAKE s \in Slots
        <4> HAVE s # target /\ Owned(cell[s])
        <4>1. cell[s].ordinal \in 1 .. MaxOrdinal /\ Custody(cell[s]).ordinal = cell[s].ordinal
          BY <1>4, OwnedShape
        <4>2. Custody(cell[s]) \in ever
          BY <1>4 DEF FlashInv, CustodyRecorded
        <4>3. cell[s].ordinal < Ordinal
          BY <1>2, <4>1, <4>2
        <4>4. cell[s].ordinal # next.ordinal
          BY <1>2, <1>3, <4>1, <4>3
        <4> QED
          BY <1>1, <1>3, <4>4 DEF SameIdentity
      <3> QED
        BY <1>4, <1>5, <2>1, <3>1 DEF FlashInv, RecordsUnique
    <2>3. CustodyRecorded'
      BY <1>4, <1>5, <2>1, Zenon DEF FlashInv, CustodyRecorded
    <2>4. TombstonesRequested'
      BY <1>3, <1>4, <1>5, <2>1, Zenon DEF FlashInv, TombstonesRequested
    <2>5. MetaBeforeSlots' /\ IssuedBelowMeta'
      BY <1>2, <1>3, <2>1 DEF MetaBeforeSlots, IssuedBelowMeta
    <2>6. EverRemembered'
      <3> SUFFICES ASSUME NEW p \in ever' PROVE Remembered(p)'
        BY DEF EverRemembered
      <3>1. CASE p = Custody(next)
        BY <1>1, <1>3, <2>1, <3>1, Zenon DEF Remembered, SameIdentity
      <3>2. CASE p \in ever
        <4>1. CASE \E q \in ever : IncomingLater(q, p)
          BY <4>1, <1>6 DEF Remembered
        <4>2. CASE \E s \in Slots : Owned(cell[s]) /\ SameIdentity(cell[s], p)
          <5>1. PICK s \in Slots : Owned(cell[s]) /\ SameIdentity(cell[s], p)
            BY <4>2
          <5>2. CASE s # target
            BY <1>5, <5>1, <5>2 DEF Remembered
          <5>3. CASE s = target
            <6>1. IncomingLater(e, cell[s])
              BY <1>1, <5>1, <5>3 DEF Owned
            <6>2. IncomingLater(Custody(next), p)
              BY <1>3, <5>1, <6>1, Zenon DEF IncomingLater, SameIdentity
            <6> QED
              BY <2>1, <6>2 DEF Remembered
          <5> QED
            BY <5>2, <5>3
        <4> QED
          BY <1>4, <3>2, <4>1, <4>2, Zenon DEF FlashInv, EverRemembered, Remembered
      <3> QED
        BY <2>1, <3>1, <3>2
    <2>7. AdmittedSurvives'
      <3> SUFFICES ASSUME NEW p \in promised', p \notin requested'
                   PROVE  \E s \in Slots : cell'[s] = Record("ACTIVE", p, p.ordinal)
        BY DEF AdmittedSurvives
      <3>1. CASE p = Custody(next)
        BY <1>1, <1>3, <2>1, <3>1, Zenon
      <3>2. CASE p \in promised
        <4>1. PICK s \in Slots : cell[s] = Record("ACTIVE", p, p.ordinal)
          BY <1>4, <3>2, Zenon DEF FlashInv, AdmittedSurvives
        <4>2. s # target
          BY <1>1, <4>1 DEF Record
        <4> QED
          BY <1>5, <4>1, <4>2
      <3> QED
        BY <3>1, <3>2 DEF next
    <2>8. FlashInv'
      BY <2>2, <2>3, <2>4, <2>5, <2>6, <2>7 DEF FlashInv
    <2> QED
      BY <1>5, <1>6, <1>7, <1>8, <2>8
  <1> QED
    BY <1>9, <1>10 DEF next

(* allocateOrdinal leaves RAM and flash agreeing on what is still free *)
LEMMA AllocationKeepsOrdinals ==
    ASSUME LInv, ordinalReady, AllocateOrdinal, ever' \subseteq Custodies,
           \A p \in ever' : p \in ever \/ p.ordinal = Ordinal
    PROVE  /\ VolatileOrdinals'
           /\ metadata' \in HighWaters /\ ordinalReady'
           /\ nextVolatileOrdinal' \in 0 .. MaxOrdinal
           /\ volatileEndExclusive' \in 0 .. MaxOrdinal
           /\ meta' \in [state : {"HELD"}, next : HighWaters]
  <1>1. /\ Ordinal \in 1 .. MaxOrdinal
        /\ \A p \in ever : p.ordinal < Ordinal
        /\ MetaAfter.next \in HighWaters /\ MetaAfter = HighWater(MetaAfter.next)
        /\ Ordinal + 1 <= MetaAfter.next /\ MetaAfter.next \in 1 .. MaxOrdinal
    BY OrdinalFacts DEF AllocateOrdinal
  <1>2. /\ meta' = MetaAfter /\ nextVolatileOrdinal' = Ordinal + 1
        /\ ordinalReady' = ordinalReady
    BY DEF AllocateOrdinal
  <1>3. metadata' = MetaAfter.next /\ volatileEndExclusive' = MetaAfter.next
    <2>1. CASE MustReserve
      BY <2>1 DEF AllocateOrdinal, MetaAfter, HighWater
    <2>2. CASE ~MustReserve
      BY <2>2 DEF AllocateOrdinal, MetaAfter, HighWater, LInv, VolatileOrdinals
    <2> QED
      BY <2>1, <2>2
  <1>4. MaxOrdinal \in Nat
    BY LedgerAssumption
  <1>5. \A p \in ever' : p.ordinal \in 1 .. MaxOrdinal
    BY DEF Custodies
  <1>6. \A p \in ever' : p.ordinal < Ordinal + 1
    BY <1>1, <1>4, <1>5
  <1>7. \A p \in ever' : p.ordinal < Ordinal'
    <2>1. Ordinal' = Ordinal + 1 \/ Ordinal' = MetaAfter.next
      BY <1>2, <1>3 DEF Ordinal
    <2> QED
      BY <1>1, <1>4, <1>5, <1>6, <2>1
  <1>8. meta' = HighWater(metadata')
    BY <1>1, <1>2, <1>3
  <1>9. VolatileOrdinals'
    <2>1. /\ nextVolatileOrdinal' <= volatileEndExclusive'
          /\ volatileEndExclusive' <= metadata' /\ volatileEndExclusive' = metadata'
          /\ nextVolatileOrdinal' > 0
      BY <1>1, <1>2, <1>3, <1>4
    <2> QED
      BY <1>1, <1>3, <1>7, <1>8, <2>1, Zenon DEF VolatileOrdinals, HighWater
  <1>10. /\ nextVolatileOrdinal' \in 0 .. MaxOrdinal
         /\ volatileEndExclusive' \in 0 .. MaxOrdinal
    BY <1>1, <1>2, <1>3, <1>4
  <1>11. meta' \in [state : {"HELD"}, next : HighWaters]
    BY <1>1, <1>3, <1>8 DEF HighWater
  <1> QED
    BY <1>1, <1>2, <1>3, <1>9, <1>10, <1>11

(* Ordinals out of service, or the Hub off: nothing to show about them *)
LEMMA ResetState ==
    Reset => /\ slots' \in [Slots -> Records] /\ ~ordinalReady'
             /\ metadata' = 0 /\ ordinalReady' = FALSE
             /\ nextVolatileOrdinal' = 0 /\ volatileEndExclusive' = 0
             /\ nextVolatileOrdinal' \in 0 .. MaxOrdinal
             /\ volatileEndExclusive' \in 0 .. MaxOrdinal
             /\ VolatileOrdinals' /\ OffIsReset'
  <1> SUFFICES ASSUME Reset
               PROVE  /\ slots' \in [Slots -> Records] /\ ~ordinalReady'
                      /\ metadata' = 0 /\ ordinalReady' = FALSE
                      /\ nextVolatileOrdinal' = 0 /\ volatileEndExclusive' = 0
                      /\ nextVolatileOrdinal' \in 0 .. MaxOrdinal
                      /\ volatileEndExclusive' \in 0 .. MaxOrdinal
                      /\ VolatileOrdinals' /\ OffIsReset'
    OBVIOUS
  <1>1. 0 \in 0 .. MaxOrdinal
    BY LedgerAssumption
  <1>2. slots' \in [Slots -> Records]
    BY EmptyShape DEF Reset
  <1> QED
    BY <1>1, <1>2 DEF Reset, VolatileOrdinals, OffIsReset

(* The durable part depends on flash and history alone *)
LEMMA FlashUnchanged == FlashInv /\ UNCHANGED <<flash, history>> => FlashInv'
  BY Zenon DEF FlashInv, RecordsUnique, CustodyRecorded, TombstonesRequested,
         MetaBeforeSlots, IssuedBelowMeta, EverRemembered, Remembered,
         AdmittedSurvives, flash, history

LEMMA LInvAdmitNew ==
    ASSUME LInv, NEW e \in Events, AdmitNew(e) PROVE LInv'
  <1> DEFINE next == Admission(e)
  <1>1. PICK target \in Targets(e) :
            /\ cell' = [cell EXCEPT ![target] = next]
            /\ slots' = [slots EXCEPT ![target] = next]
    BY Zenon DEF AdmitNew, Admission
  <1>2. /\ Admissible(e) /\ AllocateOrdinal
        /\ promised' = promised \cup {Custody(next)}
        /\ ever' = ever \cup {Custody(next)}
        /\ mode' = mode /\ requested' = requested
    BY DEF AdmitNew, Admission
  <1> HIDE DEF next
  <1>3. /\ FlashInv' /\ cell' \in [Slots -> Records] /\ ever' \subseteq Custodies
        /\ promised' \subseteq Custodies
        /\ \A s \in Slots : Held(cell[s])'
        /\ \A p \in ever' : p \in ever \/ p.ordinal = Ordinal
    BY <1>1, <1>2, AdmissionKeepsFlash, Zenon DEF AllocateOrdinal, next
  <1>4. /\ VolatileOrdinals' /\ metadata' \in HighWaters /\ ordinalReady'
        /\ nextVolatileOrdinal' \in 0 .. MaxOrdinal
        /\ volatileEndExclusive' \in 0 .. MaxOrdinal
        /\ meta' \in [state : {"HELD"}, next : HighWaters]
        /\ ordinalReady' = ordinalReady
    BY <1>2, <1>3, AllocationKeepsOrdinals, Zenon DEF Admissible, AllocateOrdinal
  <1>5. slots' = cell' /\ mode' = "READY"
    BY <1>1, <1>2, TargetFacts, Zenon DEF Admissible
  <1>6. TypeOK'
    BY <1>2, <1>3, <1>4, <1>5, Zenon DEF LInv, TypeOK
  <1> QED
    BY <1>3, <1>4, <1>5, <1>6 DEF LInv, InService, OffIsReset

LEMMA LInvAdmitRecordFails ==
    ASSUME LInv, NEW e \in Events, AdmitRecordFails(e) PROVE LInv'
  <1> DEFINE next == Admission(e)
  <1>1. PICK target \in Targets(e) :
            \E left \in InDoubt(cell[target], next) :
                /\ cell' = [cell EXCEPT ![target] = left]
                /\ ever' = IF left = next THEN ever \cup {Custody(next)} ELSE ever
    BY Zenon DEF AdmitRecordFails, Admission
  <1>2. /\ Admissible(e) /\ AllocateOrdinal
        /\ promised' = promised /\ requested' = requested
        /\ mode' = "DEGRADED" /\ slots' = slots
    BY DEF AdmitRecordFails
  <1> HIDE DEF next
  <1>3. PICK left \in InDoubt(cell[target], next) :
                /\ cell' = [cell EXCEPT ![target] = left]
                /\ ever' = IF left = next THEN ever \cup {Custody(next)} ELSE ever
    BY <1>1, Zenon
  <1>4. left \in {cell[target], next}
    BY <1>2, TargetFacts DEF InDoubt
  <1>5. /\ FlashInv' /\ cell' \in [Slots -> Records] /\ ever' \subseteq Custodies
        /\ promised' \subseteq Custodies
        /\ \A p \in ever' : p \in ever \/ p.ordinal = Ordinal
    BY <1>2, <1>3, <1>4, AdmissionKeepsFlash, Zenon DEF AllocateOrdinal, next
  <1>6. /\ VolatileOrdinals' /\ metadata' \in HighWaters /\ ordinalReady'
        /\ nextVolatileOrdinal' \in 0 .. MaxOrdinal
        /\ volatileEndExclusive' \in 0 .. MaxOrdinal
        /\ meta' \in [state : {"HELD"}, next : HighWaters]
        /\ ordinalReady' = ordinalReady
    BY <1>2, <1>5, AllocationKeepsOrdinals, Zenon DEF Admissible, AllocateOrdinal
  <1>7. TypeOK'
    BY <1>2, <1>5, <1>6, Zenon DEF LInv, TypeOK
  <1> QED
    BY <1>2, <1>5, <1>6, <1>7 DEF LInv, InService, OffIsReset

(* A reservation in doubt: flash holds the old boundary or the next one *)
LEMMA ReservationInDoubt ==
    ASSUME LInv, ordinalReady, MustReserve, ~Exhausted,
           meta' \in InDoubt(meta, HighWater(NextBlock)),
           UNCHANGED <<cell, history>>
    PROVE  FlashInv' /\ meta' \in [state : {"HELD"}, next : HighWaters]
  <1>1. /\ meta = HighWater(metadata) /\ metadata \in HighWaters
        /\ \A p \in ever : p.ordinal < Ordinal
    BY DEF LInv, VolatileOrdinals
  <1>2. /\ NextBlock \in HighWaters /\ metadata < NextBlock
        /\ metadata \in 1 .. MaxOrdinal /\ NextBlock \in 1 .. MaxOrdinal
    BY <1>1, NextBlockFits, Zenon DEF HighWaters
  <1>3. meta' \in {HighWater(metadata), HighWater(NextBlock)}
    BY <1>1 DEF InDoubt, Held, HighWater
  <1>4. Ordinal = metadata
    BY DEF Ordinal
  <1>5. \A p \in ever : p.ordinal \in 1 .. MaxOrdinal
    BY Zenon DEF LInv, TypeOK, Custodies
  <1>6. MaxOrdinal \in Nat
    BY LedgerAssumption
  <1>7. \A p \in ever : p.ordinal < metadata /\ p.ordinal < NextBlock
    BY <1>1, <1>2, <1>4, <1>5, <1>6
  <1>8. Held(meta)' /\ meta'.next \in {metadata, NextBlock}
    BY <1>3 DEF Held, HighWater
  <1>9. MetaBeforeSlots' /\ IssuedBelowMeta'
    BY <1>7, <1>8, Zenon DEF MetaBeforeSlots, IssuedBelowMeta, history
  <1>10. /\ RecordsUnique' /\ CustodyRecorded' /\ TombstonesRequested'
         /\ EverRemembered' /\ AdmittedSurvives'
    BY Zenon DEF LInv, FlashInv, RecordsUnique, CustodyRecorded, TombstonesRequested,
           EverRemembered, Remembered, AdmittedSurvives, history
  <1> QED
    BY <1>1, <1>2, <1>3, <1>9, <1>10 DEF FlashInv, HighWater

LEMMA LInvAdmitReservationFails ==
    ASSUME LInv, NEW e \in Events, AdmitReservationFails(e) PROVE LInv'
  <1>1. /\ Admissible(e) /\ MustReserve /\ ~Exhausted
        /\ meta' \in InDoubt(meta, HighWater(NextBlock))
        /\ ordinalReady' = FALSE
        /\ UNCHANGED <<cell, mode, slots, metadata, nextVolatileOrdinal,
                       volatileEndExclusive, history>>
    BY DEF AdmitReservationFails
  <1>2. FlashInv' /\ meta' \in [state : {"HELD"}, next : HighWaters]
    BY <1>1, ReservationInDoubt DEF Admissible
  <1>3. TypeOK'
    BY <1>1, <1>2, Zenon DEF LInv, TypeOK, history
  <1>4. InService' /\ OffIsReset'
    BY <1>1 DEF LInv, InService, OffIsReset, Admissible
  <1> QED
    BY <1>1, <1>2, <1>3, <1>4, Zenon DEF LInv, VolatileOrdinals

LEMMA LInvAdmitLosesPower ==
    ASSUME LInv, NEW e \in Events, AdmitLosesPower(e) PROVE LInv'
  <1> DEFINE next == Admission(e)
  <1>1. /\ Admissible(e) /\ (MustReserve => ~Exhausted)
        /\ mode' = "OFF" /\ Reset
        /\ promised' = promised /\ requested' = requested
    BY Zenon DEF AdmitLosesPower
  <1>2. /\ FlashInv' /\ meta' \in [state : {"HELD"}, next : HighWaters]
        /\ cell' \in [Slots -> Records] /\ ever' \subseteq Custodies
    <2>1. CASE /\ MustReserve
               /\ meta' \in InDoubt(meta, HighWater(NextBlock))
               /\ UNCHANGED <<cell, ever>>
      <3>1. UNCHANGED <<cell, history>>
        BY <1>1, <2>1 DEF history
      <3> QED
        BY <1>1, <2>1, <3>1, ReservationInDoubt, Zenon DEF Admissible, LInv, TypeOK
    <2>2. ASSUME meta' = MetaAfter, NEW target \in Targets(e),
                 NEW left \in InDoubt(cell[target], next),
                 cell' = [cell EXCEPT ![target] = left],
                 ever' = IF left = next THEN ever \cup {Custody(next)} ELSE ever
          PROVE  /\ FlashInv' /\ meta' \in [state : {"HELD"}, next : HighWaters]
                 /\ cell' \in [Slots -> Records] /\ ever' \subseteq Custodies
      <3> HIDE DEF next
      <3>1. left \in {cell[target], next}
        BY <1>1, TargetFacts DEF InDoubt
      <3>2. FlashInv' /\ cell' \in [Slots -> Records] /\ ever' \subseteq Custodies
        BY <1>1, <2>2, <3>1, AdmissionKeepsFlash, Zenon DEF next
      <3>3. meta' \in [state : {"HELD"}, next : HighWaters]
        BY <1>1, <2>2, OrdinalFacts DEF Admissible, HighWater
      <3> QED
        BY <3>2, <3>3
    <2> QED
      BY <2>1, <2>2, Zenon DEF AdmitLosesPower, Admission
  <1>3. TypeOK'
    BY <1>1, <1>2, ResetState, Zenon DEF LInv, TypeOK
  <1> QED
    BY <1>1, <1>2, <1>3, ResetState, Zenon DEF LInv, InService

LEMMA LInvAdmitExhausted ==
    ASSUME LInv, NEW e \in Events, AdmitExhausted(e) PROVE LInv'
  BY FlashUnchanged, Zenon
     DEF LInv, AdmitExhausted, Admissible, TypeOK, VolatileOrdinals, InService,
         OffIsReset, flash, history

(* An acknowledged duplicate is a custody that is ACTIVE or was consumed *)
LEMMA LInvAdmitDuplicate ==
    ASSUME LInv, NEW e \in Events, AdmitDuplicate(e) PROVE LInv'
  <1>1. mode = "READY" /\ UNCHANGED <<flash, mode, ram, requested, ever>>
    BY DEF AdmitDuplicate
  <1>2. PICK s \in Known(e) : promised' = promised \cup {Custody(slots[s])}
    BY DEF AdmitDuplicate
  <1>3. s \in Slots /\ slots = cell /\ Owned(cell[s]) /\ cell[s] \in Records
    BY <1>1, <1>2, Zenon DEF LInv, InService, Known, TypeOK
  <1>4. /\ Custody(cell[s]) \in Custodies
        /\ cell[s].state = "ACTIVE" =>
               cell[s] = Record("ACTIVE", Custody(cell[s]), Custody(cell[s]).ordinal)
    BY <1>3, OwnedShape, Zenon
  <1>5. \/ Custody(cell[s]) \in requested
        \/ cell[s] = Record("ACTIVE", Custody(cell[s]), Custody(cell[s]).ordinal)
    BY <1>3, <1>4, Zenon DEF LInv, FlashInv, TombstonesRequested, Owned
  <1>6. AdmittedSurvives'
    <2> SUFFICES ASSUME NEW p \in promised', p \notin requested'
                 PROVE  \E t \in Slots : cell'[t] = Record("ACTIVE", p, p.ordinal)
      BY DEF AdmittedSurvives
    <2>1. CASE p = Custody(cell[s])
      BY <1>1, <1>3, <1>5, <2>1, Zenon DEF flash
    <2>2. CASE p \in promised
      BY <1>1, <2>2, Zenon DEF LInv, FlashInv, AdmittedSurvives, flash
    <2> QED
      BY <1>2, <1>3, <2>1, <2>2, Zenon
  <1>7. FlashInv'
    BY <1>1, <1>6, Zenon
       DEF LInv, FlashInv, RecordsUnique, CustodyRecorded, TombstonesRequested,
           MetaBeforeSlots, IssuedBelowMeta, EverRemembered, Remembered, flash
  <1>8. TypeOK'
    BY <1>1, <1>2, <1>3, <1>4, Zenon DEF LInv, TypeOK, flash, ram, ordinals
  <1>9. VolatileOrdinals' /\ InService' /\ OffIsReset'
    BY <1>1, Zenon DEF LInv, VolatileOrdinals, InService, OffIsReset, MustReserve,
                Ordinal, flash, ram, ordinals
  <1> QED
    BY <1>7, <1>8, <1>9 DEF LInv

(* Verified or not, a tombstone replaces the custody the host asked for *)
LEMMA ConsumeKeepsFlash ==
    ASSUME LInv, NEW s \in Slots, cell[s].state = "ACTIVE",
           NEW left \in {cell[s], Consumed(cell[s])},
           cell' = [cell EXCEPT ![s] = left],
           requested' = requested \cup {Custody(cell[s])},
           UNCHANGED <<meta, promised, ever>>
    PROVE  /\ FlashInv' /\ cell' \in [Slots -> Records]
           /\ requested' \subseteq Custodies
           /\ (\A t \in Slots : Held(cell[t])) => \A t \in Slots : Held(cell[t])'
  <1>1. /\ cell \in [Slots -> Records] /\ FlashInv /\ requested \subseteq Custodies
    BY Zenon DEF LInv, TypeOK
  <1>2. /\ Consumed(cell[s]) \in Records /\ Held(Consumed(cell[s]))
        /\ Owned(Consumed(cell[s]))
        /\ Consumed(cell[s]).state = "CONSUMED"
        /\ Consumed(cell[s]).epoch = cell[s].epoch
        /\ Consumed(cell[s]).id = cell[s].id
        /\ Consumed(cell[s]).ordinal = cell[s].ordinal
        /\ Custody(Consumed(cell[s])) = Custody(cell[s])
    BY <1>1, TombstoneShape, Zenon
  <1>3. Owned(cell[s]) /\ Held(cell[s]) /\ Custody(cell[s]) \in Custodies
    BY <1>1, OwnedShape, Zenon DEF Owned, Held
  <1>4. /\ Owned(left) /\ Held(left) /\ left \in Records
        /\ left.epoch = cell[s].epoch /\ left.id = cell[s].id
        /\ left.ordinal = cell[s].ordinal /\ Custody(left) = Custody(cell[s])
    BY <1>1, <1>2, <1>3, Zenon
  <1>5. /\ cell'[s] = left /\ \A t \in Slots : t # s => cell'[t] = cell[t]
        /\ cell' \in [Slots -> Records]
    BY <1>1, <1>4
  <1>6. \A t \in Slots : /\ Owned(cell'[t]) <=> Owned(cell[t])
                         /\ Held(cell'[t]) <=> Held(cell[t])
                         /\ cell'[t].epoch = cell[t].epoch
                         /\ cell'[t].id = cell[t].id
                         /\ cell'[t].ordinal = cell[t].ordinal
                         /\ Owned(cell[t]) => Custody(cell'[t]) = Custody(cell[t])
    BY <1>3, <1>4, <1>5, Zenon
  <1>7. RecordsUnique'
    BY <1>1, <1>6 DEF FlashInv, RecordsUnique, SameIdentity
  <1>8. CustodyRecorded' /\ MetaBeforeSlots' /\ IssuedBelowMeta'
    BY <1>1, <1>6, Zenon DEF FlashInv, CustodyRecorded, MetaBeforeSlots, IssuedBelowMeta
  <1>9. TombstonesRequested'
    BY <1>1, <1>4, <1>5, Zenon DEF FlashInv, TombstonesRequested
  <1>10. EverRemembered'
    BY <1>1, <1>6, Zenon DEF FlashInv, EverRemembered, Remembered, SameIdentity
  <1>11. AdmittedSurvives'
    <2> SUFFICES ASSUME NEW p \in promised, p \notin requested'
                 PROVE  \E t \in Slots : cell'[t] = Record("ACTIVE", p, p.ordinal)
      BY DEF AdmittedSurvives
    <2>1. PICK t \in Slots : cell[t] = Record("ACTIVE", p, p.ordinal)
      BY <1>1 DEF FlashInv, AdmittedSurvives
    <2>2. p \in Custodies
      BY Zenon DEF LInv, TypeOK
    <2>3. Custody(cell[t]) = p
      BY <2>1, <2>2 DEF Custody, Record, Custodies
    <2>4. t # s
      BY <2>3
    <2> QED
      BY <1>5, <2>1, <2>4
  <1>12. FlashInv'
    BY <1>7, <1>8, <1>9, <1>10, <1>11 DEF FlashInv
  <1> QED
    BY <1>1, <1>3, <1>5, <1>6, <1>12, Zenon

LEMMA LInvConsume ==
    ASSUME LInv, NEW i \in Identities, Consume(i) PROVE LInv'
  <1>1. mode = "READY" /\ UNCHANGED <<meta, mode, ordinals, promised, ever>>
    BY DEF Consume
  <1>2. PICK s \in Consumable(i) :
            /\ cell' = [cell EXCEPT ![s] = Consumed(slots[s])]
            /\ slots' = [slots EXCEPT ![s] = Consumed(slots[s])]
            /\ requested' = requested \cup {Custody(slots[s])}
    BY Zenon DEF Consume
  <1>3. s \in Slots /\ slots = cell /\ cell[s].state = "ACTIVE"
    BY <1>1, <1>2, Zenon DEF LInv, InService, Consumable, Known
  <1>4. /\ FlashInv' /\ cell' \in [Slots -> Records]
        /\ requested' \subseteq Custodies
        /\ (\A t \in Slots : Held(cell[t])) => \A t \in Slots : Held(cell[t])'
    BY <1>1, <1>2, <1>3, ConsumeKeepsFlash, Zenon
  <1>5. slots' = cell'
    BY <1>2, <1>3
  <1>6. TypeOK'
    BY <1>1, <1>4, <1>5, Zenon DEF LInv, TypeOK, ordinals
  <1>7. VolatileOrdinals' /\ InService' /\ OffIsReset'
    BY <1>1, <1>4, <1>5, Zenon DEF LInv, VolatileOrdinals, InService, OffIsReset,
                            MustReserve, Ordinal, ordinals
  <1> QED
    BY <1>4, <1>6, <1>7 DEF LInv

LEMMA LInvConsumeFails ==
    ASSUME LInv, NEW i \in Identities, ConsumeFails(i) PROVE LInv'
  <1>1. mode = "READY" /\ UNCHANGED <<meta, promised, ever>>
    BY Zenon DEF ConsumeFails
  <1>2. PICK s \in Consumable(i) :
            /\ \E left \in InDoubt(cell[s], Consumed(slots[s])) :
                   cell' = [cell EXCEPT ![s] = left]
            /\ requested' = requested \cup {Custody(slots[s])}
    BY Zenon DEF ConsumeFails
  <1>3. s \in Slots /\ slots = cell /\ cell[s].state = "ACTIVE"
    BY <1>1, <1>2, Zenon DEF LInv, InService, Consumable, Known
  <1>4. PICK left \in InDoubt(cell[s], Consumed(cell[s])) :
            cell' = [cell EXCEPT ![s] = left]
    BY <1>2, <1>3, Zenon
  <1>5. left \in {cell[s], Consumed(cell[s])}
    BY <1>3 DEF InDoubt, Held
  <1>6. /\ FlashInv' /\ cell' \in [Slots -> Records]
        /\ requested' \subseteq Custodies
    BY <1>1, <1>2, <1>3, <1>4, <1>5, ConsumeKeepsFlash, Zenon
  <1>7. CASE mode' = "DEGRADED" /\ UNCHANGED ram
    <2>1. TypeOK'
      BY <1>1, <1>6, <1>7, Zenon DEF LInv, TypeOK, ram, ordinals
    <2>2. VolatileOrdinals' /\ InService' /\ OffIsReset'
      BY <1>1, <1>7, Zenon DEF LInv, VolatileOrdinals, InService, OffIsReset,
                        MustReserve, Ordinal, ram, ordinals
    <2> QED
      BY <1>6, <2>1, <2>2 DEF LInv
  <1>8. CASE mode' = "OFF" /\ Reset
    <2>1. TypeOK'
      BY <1>1, <1>6, <1>8, ResetState, Zenon DEF LInv, TypeOK
    <2> QED
      BY <1>6, <1>8, <2>1, ResetState, Zenon DEF LInv, InService
  <1> QED
    BY <1>7, <1>8, Zenon DEF ConsumeFails

LEMMA LInvRecoverCustody == LInv /\ RecoverCustody => LInv'
  <1> SUFFICES ASSUME LInv, RecoverCustody PROVE LInv'
    OBVIOUS
  <1>1. /\ mode = "OFF" /\ Consistent(cell) /\ mode' = "READY" /\ slots' = cell
        /\ UNCHANGED <<flash, history>>
    BY DEF RecoverCustody
  <1>2. FlashInv' /\ cell' = cell /\ meta' = meta /\ ever' = ever
    BY <1>1, FlashUnchanged DEF LInv, flash, history
  <1>3. InService' /\ OffIsReset'
    BY <1>1, <1>2, Zenon DEF InService, OffIsReset, Consistent
  <1>4. CASE /\ Held(meta) /\ meta.next \in HighWaters
             /\ metadata' = meta.next /\ ordinalReady' = TRUE
             /\ nextVolatileOrdinal' = meta.next
             /\ volatileEndExclusive' = meta.next
    <2>1. meta.next \in 1 .. MaxOrdinal /\ MaxOrdinal \in Nat
      BY <1>4, LedgerAssumption DEF HighWaters
    <2>2. meta = HighWater(meta.next)
      BY <1>4 DEF LInv, TypeOK, HighWater, Held, NoMeta
    <2>3. \A p \in ever : p.ordinal < meta.next
      BY <1>4 DEF LInv, FlashInv, IssuedBelowMeta
    <2>4. Ordinal' = meta.next /\ MustReserve'
      BY <1>4 DEF Ordinal, MustReserve
    <2>5. VolatileOrdinals'
      BY <1>2, <1>4, <2>1, <2>2, <2>3, <2>4 DEF VolatileOrdinals, HighWater
    <2>6. meta.next \in 0 .. MaxOrdinal
      BY <2>1
    <2>7. TypeOK'
      BY <1>1, <1>4, <2>6, Zenon DEF LInv, TypeOK, flash, history
    <2> QED
      BY <1>2, <1>3, <2>5, <2>7 DEF LInv
  <1>5. CASE UNCHANGED ordinals
    <2>1. ~ordinalReady'
      BY <1>1, <1>5 DEF LInv, OffIsReset, ordinals
    <2>2. TypeOK'
      BY <1>1, <1>5, Zenon DEF LInv, TypeOK, flash, history, ordinals
    <2> QED
      BY <1>2, <1>3, <2>1, <2>2 DEF LInv, VolatileOrdinals
  <1> QED
    BY <1>4, <1>5, Zenon DEF RecoverCustody

LEMMA LInvStops ==
    ASSUME LInv, Reset, mode' \in {"OFF", "DEGRADED"}, UNCHANGED <<flash, history>>
    PROVE  LInv'
  <1>1. TypeOK'
    BY ResetState, Zenon DEF LInv, TypeOK, flash, history
  <1> QED
    BY <1>1, FlashUnchanged, ResetState DEF LInv, InService

(* Formatting touches no custody: a blank flash has never held any *)
LEMMA FormatKeepsFlash ==
    ASSUME LInv, Blank, UNCHANGED history,
           cell' \in [Slots -> {Missing, Nothing("INVALID"), Empty}],
           \/ Held(meta')
           \/ \A s \in Slots : cell'[s] = Missing
    PROVE  FlashInv' /\ cell' \in [Slots -> Records] /\ ever' = {}
  <1>1. ~Held(meta) /\ \A s \in Slots : cell[s] = Missing
    BY DEF Blank, NoMeta, Held
  <1>2. ever = {}
    BY <1>1 DEF LInv, FlashInv, MetaBeforeSlots
  <1>3. \A s \in Slots : /\ ~Owned(cell'[s]) /\ cell'[s].state # "CONSUMED"
                         /\ cell'[s] \in Records
    BY EmptyShape DEF Nothing
  <1>4. \A p \in promised : p \in requested
    <2>1. \A p : Record("ACTIVE", p, p.ordinal) # Missing
      BY Zenon DEF Record, Missing, Nothing
    <2> QED
      BY <1>1, <2>1 DEF LInv, FlashInv, AdmittedSurvives
  <1>5. MetaBeforeSlots'
    BY <1>2, EmptyShape DEF MetaBeforeSlots, history
  <1>6. RecordsUnique' /\ CustodyRecorded' /\ TombstonesRequested'
    BY <1>3 DEF RecordsUnique, CustodyRecorded, TombstonesRequested
  <1>7. IssuedBelowMeta' /\ EverRemembered' /\ AdmittedSurvives' /\ ever' = {}
    BY <1>2, <1>4 DEF IssuedBelowMeta, EverRemembered, AdmittedSurvives, history
  <1>8. cell' \in [Slots -> Records]
    BY EmptyShape
  <1> QED
    BY <1>5, <1>6, <1>7, <1>8 DEF FlashInv

LEMMA LInvInitializeFresh == LInv /\ InitializeFresh => LInv'
  <1> SUFFICES ASSUME LInv, InitializeFresh PROVE LInv'
    OBVIOUS
  <1>1. /\ mode = "OFF" /\ Blank /\ meta' = HighWater(1)
        /\ cell' = [s \in Slots |-> Empty] /\ slots' = cell'
        /\ mode' = "READY" /\ metadata' = 1 /\ ordinalReady' = TRUE
        /\ UNCHANGED <<nextVolatileOrdinal, volatileEndExclusive, history>>
    BY DEF InitializeFresh
  <1>2. nextVolatileOrdinal' = 0 /\ volatileEndExclusive' = 0
    BY <1>1 DEF LInv, OffIsReset
  <1>3. Held(meta')
    BY <1>1 DEF Held, HighWater
  <1>4. FlashInv' /\ cell' \in [Slots -> Records] /\ ever' = {}
    BY <1>1, <1>3, FormatKeepsFlash
  <1>5. TypeOK'
    BY <1>1, <1>4, OneIsHighWater, Zenon DEF LInv, TypeOK, history, HighWater
  <1>6. VolatileOrdinals'
    BY <1>1, <1>2, <1>4, OneIsHighWater DEF VolatileOrdinals, MustReserve
  <1>7. InService' /\ OffIsReset'
    BY <1>1, EmptyShape DEF InService, OffIsReset
  <1> QED
    BY <1>4, <1>5, <1>6, <1>7 DEF LInv

LEMMA LInvInitializeFreshFails == LInv /\ InitializeFreshFails => LInv'
  <1> SUFFICES ASSUME LInv, InitializeFreshFails PROVE LInv'
    OBVIOUS
  <1>1. /\ Blank /\ mode' \in {"OFF", "DEGRADED"} /\ Reset /\ UNCHANGED history
    BY DEF InitializeFreshFails
  <1>2. meta = NoMeta /\ \A s \in Slots : cell[s] = Missing
    BY <1>1 DEF Blank
  <1>3. [Missing EXCEPT !.state = "INVALID"] = Nothing("INVALID")
    BY DEF Missing, Nothing
  <1>4. /\ FlashInv' /\ cell' \in [Slots -> Records]
        /\ meta' \in {NoMeta, [state |-> "INVALID", next |-> 0]} \cup
                     [state : {"HELD"}, next : HighWaters]
    <2>1. CASE meta' \in InDoubt(meta, HighWater(1)) /\ UNCHANGED cell
      <3>1. /\ cell' \in [Slots -> {Missing, Nothing("INVALID"), Empty}]
            /\ \A s \in Slots : cell'[s] = Missing
        BY <1>2, <2>1, Zenon DEF LInv, TypeOK
      <3>2. meta' \in {NoMeta, [NoMeta EXCEPT !.state = "INVALID"], HighWater(1)}
        BY <1>2, <2>1 DEF InDoubt, Held, NoMeta
      <3>3. [NoMeta EXCEPT !.state = "INVALID"] = [state |-> "INVALID", next |-> 0]
        BY DEF NoMeta
      <3> QED
        BY <1>1, <3>1, <3>2, <3>3, FormatKeepsFlash, OneIsHighWater DEF HighWater
    <2>2. ASSUME meta' = HighWater(1), NEW last \in Slots,
                 NEW left \in InDoubt(cell[last], Empty),
                 cell' = [s \in Slots |->
                             IF s < last THEN Empty
                             ELSE IF s = last THEN left ELSE cell[s]]
          PROVE  /\ FlashInv' /\ cell' \in [Slots -> Records]
                 /\ meta' \in [state : {"HELD"}, next : HighWaters]
      <3>1. left \in {Missing, Nothing("INVALID"), Empty}
        BY <1>2, <1>3, <2>2, EmptyShape DEF InDoubt
      <3>2. cell' \in [Slots -> {Missing, Nothing("INVALID"), Empty}]
        BY <1>2, <2>2, <3>1
      <3>3. Held(meta')
        BY <2>2 DEF Held, HighWater
      <3> QED
        BY <1>1, <2>2, <3>2, <3>3, FormatKeepsFlash, OneIsHighWater, Zenon DEF HighWater
    <2> QED
      BY <2>1, <2>2, Zenon DEF InitializeFreshFails
  <1>5. TypeOK'
    BY <1>1, <1>4, ResetState, Zenon DEF LInv, TypeOK, history
  <1> QED
    BY <1>1, <1>4, <1>5, ResetState, Zenon DEF LInv, InService

-----------------------------------------------------------------------------

LEMMA LInvNext == LInv /\ [Next]_vars => LInv'
  <1> SUFFICES ASSUME LInv, [Next]_vars PROVE LInv'
    OBVIOUS
  <1>1. CASE Recover
    <2>1. CASE RecoverFails
      BY <2>1, LInvStops DEF RecoverFails
    <2> QED
      BY <1>1, <2>1, LInvRecoverCustody, LInvInitializeFresh,
         LInvInitializeFreshFails DEF Recover
  <1>2. ASSUME NEW e \in Events, Admit(e) PROVE LInv'
    <2>1. CASE UNCHANGED vars
      BY <2>1, FlashUnchanged, Zenon
         DEF vars, flash, ram, ordinals, history, LInv, TypeOK, VolatileOrdinals,
             MustReserve, Ordinal, InService, OffIsReset
    <2> QED
      BY <1>2, <2>1, LInvAdmitDuplicate, LInvAdmitNew, LInvAdmitExhausted,
         LInvAdmitReservationFails, LInvAdmitRecordFails, LInvAdmitLosesPower, Zenon
         DEF Admit, AdmitRefused
  <1>3. CASE UNCHANGED vars
    BY <1>3, FlashUnchanged, Zenon
       DEF vars, flash, ram, ordinals, history, LInv, TypeOK, VolatileOrdinals,
           MustReserve, Ordinal, InService, OffIsReset
  <1>4. ASSUME NEW i \in Identities, Consume(i) \/ ConsumeFails(i) PROVE LInv'
    BY <1>4, LInvConsume, LInvConsumeFails
  <1>5. CASE PowerLoss
    BY <1>5, LInvStops DEF PowerLoss
  <1> QED
    BY <1>1, <1>2, <1>3, <1>4, <1>5 DEF Next, ConsumeRefused

LEMMA LInvHolds == Spec => []LInv
  BY LInvInit, LInvNext, PTL DEF Spec

(* The ledger's flash and RAM always have their declared shape; ordinals    *)
(* stay on block boundaries and below the 32-bit limit                      *)
THEOREM LedgerTypeCorrect == Spec => []TypeOK
  <1>1. LInv => TypeOK
    BY DEF LInv
  <1> QED
    BY <1>1, LInvHolds, PTL

(* admit: custody acknowledged to the Node is never lost before the host    *)
(* asks to consume it                                                       *)
THEOREM CustodyIsKept == Spec => []AdmittedSurvives
  <1>1. LInv => AdmittedSurvives
    BY DEF LInv, FlashInv
  <1> QED
    BY <1>1, LInvHolds, PTL

(* A slot with a record keeps one in every step: formatting meets no such   *)
(* slot, an admission and a consumption leave the old record or the new     *)
LEMMA SlotsStayHeld ==
    ASSUME LInv, [Next]_vars, Formatted
    PROVE  Formatted'
  <1>1. cell \in [Slots -> Records] /\ slots \in [Slots -> Records]
    BY DEF LInv, TypeOK
  <1>2. ASSUME NEW t \in Slots, NEW r, Held(r), cell' = [cell EXCEPT ![t] = r]
        PROVE  Formatted'
    BY <1>1, <1>2 DEF Formatted
  <1>3. ASSUME NEW t \in Slots, NEW r, Held(r),
               \E left \in InDoubt(cell[t], r) : cell' = [cell EXCEPT ![t] = left]
        PROVE  Formatted'
    BY <1>2, <1>3, Zenon DEF Formatted, InDoubt
  <1>4. ~Blank
    BY LedgerAssumption DEF Formatted, Blank, Held, Missing, Nothing, Slots
  <1>5. \A e : Held(Record("ACTIVE", e, Ordinal))
    BY DEF Held, Record
  <1>6. \A s \in Slots : Owned(slots[s]) => Held(Consumed(slots[s]))
    BY <1>1, OwnedShape DEF Held, Consumed
  <1>7. CASE UNCHANGED cell
    BY <1>7 DEF Formatted
  <1>8. ASSUME NEW e \in Events, Admit(e) PROVE Formatted'
    <2>1. \A t \in Targets(e) : t \in Slots
      BY DEF Targets, EmptySlots, Reclaimable
    <2>2. CASE AdmitNew(e)
      BY <1>2, <1>5, <2>1, <2>2, Zenon DEF AdmitNew
    <2>3. CASE AdmitRecordFails(e)
      BY <1>3, <1>5, <2>1, <2>3, Zenon DEF AdmitRecordFails
    <2>4. CASE AdmitLosesPower(e)
      BY <1>3, <1>5, <1>7, <2>1, <2>4, Zenon DEF AdmitLosesPower
    <2> QED
      BY <1>7, <1>8, <2>2, <2>3, <2>4, Zenon
         DEF Admit, AdmitRefused, AdmitDuplicate, AdmitExhausted,
             AdmitReservationFails, vars, flash
  <1>9. ASSUME NEW i \in Identities, Consume(i) \/ ConsumeFails(i)
        PROVE  Formatted'
    <2>1. \A t \in Consumable(i) : t \in Slots /\ Owned(slots[t])
      BY DEF Consumable, Known
    <2> QED
      BY <1>2, <1>3, <1>6, <1>9, <2>1, Zenon DEF Consume, ConsumeFails
  <1>10. CASE Recover
    BY <1>4, <1>7, <1>10, Zenon
       DEF Recover, RecoverCustody, RecoverFails, InitializeFresh,
           InitializeFreshFails, flash
  <1> QED
    BY <1>7, <1>8, <1>9, <1>10, Zenon
       DEF Next, ConsumeRefused, PowerLoss, vars, flash

(* recover accepts every flash the ledger itself has formatted, for good:   *)
(* from the last slot's format on no write leaves a slot without a record,  *)
(* two records that contradict each other or unusable ordinal metadata      *)
THEOREM LedgerStaysServiceable == Spec => FormattedStaysServiceable
  <1>1. LInv /\ Formatted => Serviceable
    <2> SUFFICES ASSUME LInv, Formatted PROVE Serviceable
      OBVIOUS
    <2>1. 1 \in Slots
      BY LedgerAssumption DEF Slots
    <2>2. Held(meta)
      BY <2>1 DEF LInv, FlashInv, MetaBeforeSlots, Formatted
    <2>3. meta.next \in HighWaters
      BY <2>2 DEF LInv, TypeOK, Held, NoMeta
    <2> QED
      BY <2>2, <2>3, Zenon
         DEF LInv, FlashInv, RecordsUnique, Consistent, Serviceable, Formatted
  <1>2. LInv /\ [Next]_vars /\ Formatted => Formatted'
    BY SlotsStayHeld
  <1>3. /\ LInv /\ LInv' /\ [Next]_vars
        /\ (LInv' /\ Formatted' => Serviceable')
        => [Formatted \/ Formatted' => Serviceable']_vars
    BY <1>2, Zenon
  <1> QED
    BY <1>1, <1>3, LInvHolds, PTL DEF Spec, FormattedStaysServiceable

(* The RAM mirror admit and consume decide from is what is durable *)
THEOREM LedgerMirrorsFlash == Spec => []MirrorsFlash
  <1>1. LInv => MirrorsFlash
    BY DEF LInv, InService, MirrorsFlash
  <1> QED
    BY <1>1, LInvHolds, PTL

-----------------------------------------------------------------------------

(* A record becomes ACTIVE only by the admission of a new identity *)
LEMMA OnlyAdmissionActivates ==
    ASSUME LInv, Next, NEW s \in Slots, Becomes(s)
    PROVE  \E e \in Events : /\ Admissible(e) /\ (MustReserve => ~Exhausted)
                             /\ Targets(e) # {}
                             /\ cell'[s] = Admission(e)
  <1>1. cell' # cell /\ cell'[s].state = "ACTIVE" /\ cell \in [Slots -> Records]
    BY Zenon DEF Becomes, LInv, TypeOK
  <1>2. ASSUME NEW e \in Events, Admit(e)
        PROVE  /\ Admissible(e) /\ (MustReserve => ~Exhausted)
               /\ Targets(e) # {} /\ cell'[s] = Admission(e)
    <2>1. Admissible(e) /\ (MustReserve => ~Exhausted)
      BY <1>1, <1>2, Zenon
         DEF Admit, AdmitRefused, AdmitDuplicate, AdmitExhausted,
             AdmitReservationFails, AdmitNew, AdmitRecordFails, AdmitLosesPower,
             AllocateOrdinal, vars, flash
    <2>2. PICK target \in Targets(e) :
              \E left \in InDoubt(cell[target], Admission(e)) \cup {Admission(e)} :
                  cell' = [cell EXCEPT ![target] = left]
      BY <1>1, <1>2, Zenon
         DEF Admit, AdmitRefused, AdmitDuplicate, AdmitExhausted,
             AdmitReservationFails, AdmitNew, AdmitRecordFails, AdmitLosesPower,
             Admission, vars, flash
    <2>3. PICK left \in {cell[target], Admission(e)} :
              cell' = [cell EXCEPT ![target] = left]
      BY <2>1, <2>2, TargetFacts, Zenon DEF InDoubt
    <2> QED
      BY <1>1, <2>1, <2>3 DEF Becomes, Admissible
  <1>3. ASSUME NEW i \in Identities, Consume(i) \/ ConsumeFails(i)
        PROVE  FALSE
    <2>1. slots = cell
      BY <1>3, Zenon DEF Consume, ConsumeFails, LInv, InService
    <2>2. PICK t \in Consumable(i) :
              \E left \in InDoubt(cell[t], Consumed(cell[t])) \cup {Consumed(cell[t])} :
                  cell' = [cell EXCEPT ![t] = left]
      BY <1>3, <2>1, Zenon DEF Consume, ConsumeFails
    <2>3. t \in Slots /\ cell[t].state = "ACTIVE"
      BY <2>1, <2>2 DEF Consumable, Known
    <2>4. PICK left \in {cell[t], Consumed(cell[t])} :
              cell' = [cell EXCEPT ![t] = left]
      BY <2>2, <2>3, Zenon DEF InDoubt, Held
    <2>5. Consumed(cell[t]).state = "CONSUMED"
      BY <1>1, <2>3, TombstoneShape, Zenon
    <2> QED
      BY <1>1, <2>4, <2>5 DEF Becomes
  <1>4. CASE Recover
    <2>1. InitializeFresh \/ InitializeFreshFails
      BY <1>1, <1>4 DEF Recover, RecoverCustody, RecoverFails, flash
    <2>2. \A t \in Slots : cell[t] = Missing
      BY <2>1, Zenon DEF InitializeFresh, InitializeFreshFails, Blank
    <2>3. [Missing EXCEPT !.state = "INVALID"] = Nothing("INVALID")
      BY DEF Missing, Nothing
    <2>4. cell'[s] \in {Missing, Nothing("INVALID"), Empty}
      BY <1>1, <2>1, <2>2, <2>3, EmptyShape
         DEF InitializeFresh, InitializeFreshFails, InDoubt
    <2>5. cell'[s].state # "ACTIVE"
      BY <2>4 DEF Missing, Nothing, Empty
    <2> QED
      BY <1>1, <2>5
  <1>5. CASE PowerLoss
    BY <1>1, <1>5 DEF PowerLoss, flash
  <1>6. CASE \E i \in Identities, result \in ConsumeRefusals : ConsumeRefused(i, result)
    BY <1>1, <1>6, Zenon DEF ConsumeRefused, vars, flash
  <1> QED
    BY <1>2, <1>3, <1>4, <1>5, <1>6, Zenon DEF Next

(* Ordinals are never reused: host polling order is admission order *)
THEOREM AdmissionOrder == Spec => NewestLast
  <1> DEFINE Last == \A s \in Slots : Becomes(s) =>
                         \A p \in ever : p.ordinal < cell'[s].ordinal
  <1>1. LInv /\ [Next]_vars => [Last]_vars
    <2> SUFFICES ASSUME LInv, Next, NEW s \in Slots, Becomes(s)
                 PROVE  \A p \in ever : p.ordinal < cell'[s].ordinal
      OBVIOUS
    <2>1. PICK e \in Events : /\ Admissible(e) /\ (MustReserve => ~Exhausted)
                              /\ cell'[s] = Admission(e)
      BY OnlyAdmissionActivates
    <2>2. \A p \in ever : p.ordinal < Ordinal
      BY <2>1, OrdinalFacts DEF Admissible
    <2> QED
      <3> DEFINE r == Admission(e)
      <3>1. r.ordinal = Ordinal
        BY Zenon DEF Admission, Record
      <3>2. cell'[s] = r
        BY <2>1, Zenon
      <3> HIDE DEF r
      <3>3. cell'[s].ordinal = Ordinal
        BY <3>1, <3>2, Zenon
      <3> QED
        BY <2>2, <3>3, Zenon
  <1> QED
    BY <1>1, LInvHolds, PTL DEF Spec, NewestLast

(* Duplicate suppression outlives consumption and reboot until a later      *)
(* event of the Node has been admitted                                      *)
THEOREM DuplicatesSuppressed == Spec => ReadmittedOnlyIfSuperseded
  <1> DEFINE Anew == \A s \in Slots :
                 Becomes(s) /\ (\E p \in ever : SameIdentity(p, cell'[s])) =>
                     \E p \in ever : IncomingLater(p, cell'[s])
  <1>1. LInv /\ [Next]_vars => [Anew]_vars
    <2> SUFFICES ASSUME LInv, Next, NEW s \in Slots, Becomes(s),
                        NEW p \in ever, SameIdentity(p, cell'[s])
                 PROVE  \E q \in ever : IncomingLater(q, cell'[s])
      OBVIOUS
    <2>1. PICK e \in Events : /\ Admissible(e) /\ Targets(e) # {}
                              /\ cell'[s] = Admission(e)
      BY OnlyAdmissionActivates, Zenon
    <2>2. \A t \in Slots : Owned(cell[t]) => ~SameIdentity(cell[t], e)
      BY <2>1, TargetFacts, Zenon
    <2>3. SameIdentity(p, e)
      BY <2>1, SMTT(30) DEF SameIdentity, Admission, Record
    <2>4. PICK q \in ever : IncomingLater(q, p)
      BY <2>2, <2>3, Zenon DEF LInv, FlashInv, EverRemembered, Remembered, SameIdentity
    <2>5. IncomingLater(q, cell'[s])
      BY <2>4, Zenon DEF IncomingLater, SameIdentity
    <2> QED
      BY <2>5
  <1> QED
    BY <1>1, LInvHolds, PTL DEF Spec, ReadmittedOnlyIfSuperseded

-----------------------------------------------------------------------------
(* The Node's store, as its proofs name it *)

NP == INSTANCE NodeEventStoreProofs WITH
        Capacity <- NodeCapacity, Lifetimes <- {Lifetime},
        cell <- nodeCell, meta <- nodeMeta, mode <- nodeMode, slots <- nodeSlots,
        metadata <- nodeMetadata, nextVolatileId <- nodeNextId,
        volatileEndExclusive <- nodeEndExclusive,
        promised <- nodePromised, lastIssued <- nodeLastIssued

LEMMA NodeAssumption ==
    /\ NodeCapacity \in Nat \ {0} /\ IdBlock \in Nat \ {0}
    /\ MaxId \in Nat /\ MaxId > IdBlock /\ MaxEpoch \in Nat \ {0}
    /\ MaxAttempts \in Nat /\ {Lifetime} \subseteq Nat \ {0}
    /\ NoContent \notin Contents
  BY CustodyAssumption, LedgerAssumption, Zenon

LEMMA SameConstants ==
    /\ N!Slots = NP!Slots /\ N!Inputs = NP!Inputs
    /\ N!Free = NP!Free /\ N!Missing = NP!Missing
    /\ N!HighWaters = NP!HighWaters /\ N!FreshMetadata = NP!FreshMetadata
  BY Zenon DEF N!Slots, NP!Slots, N!Inputs, NP!Inputs, N!Free, NP!Free, N!Missing,
         NP!Missing, N!Nothing, NP!Nothing, N!HighWaters, NP!HighWaters, N!EventIds,
         NP!EventIds, N!FreshMetadata, NP!FreshMetadata, N!Reserved, NP!Reserved,
         N!EventEpochs, NP!EventEpochs

LEMMA SameInit == N!Init => NP!Init
  BY SameConstants, Zenon DEF N!Init, NP!Init, N!NoMeta, NP!NoMeta, N!NoIdentity, NP!NoIdentity

LEMMA SameBoot ==
    /\ N!Recover => NP!Recover
    /\ N!RecoverFails => NP!RecoverFails
    /\ N!FormatFails => NP!FormatFails
    /\ N!FreshMetadataFails => NP!FreshMetadataFails
    /\ N!PowerLoss => NP!PowerLoss
  <1>1. N!BootCells = NP!BootCells
    BY SameConstants DEF N!BootCells, NP!BootCells
  <1>2. /\ N!Consistent(NP!BootCells) = NP!Consistent(NP!BootCells)
        /\ N!Vacant(NP!BootCells) = NP!Vacant(NP!BootCells)
        /\ N!Usable(nodeMeta) = NP!Usable(nodeMeta)
    BY SameConstants, Zenon
       DEF N!Consistent, NP!Consistent, N!Distinct, NP!Distinct, N!Held, NP!Held,
           N!Owned, NP!Owned, N!Identity, NP!Identity, N!Vacant, NP!Vacant,
           N!Usable, NP!Usable
  <1>3. N!Reset = NP!Reset
    BY SameConstants, Zenon DEF N!Reset, NP!Reset, N!NoMeta, NP!NoMeta
  <1>4. N!Recover => NP!Recover
    BY <1>1, <1>2, SameConstants, Zenon DEF N!Recover, NP!Recover, N!history, NP!history
  <1> QED
    BY <1>1, <1>2, <1>3, <1>4, SameConstants
       DEF N!RecoverFails, NP!RecoverFails, N!FormatFails, NP!FormatFails,
           N!FreshMetadataFails, NP!FreshMetadataFails, N!PowerLoss, NP!PowerLoss,
           N!flash, NP!flash, N!history, NP!history, N!InDoubt, NP!InDoubt,
           N!Held, NP!Held

LEMMA SameEnqueue ==
    /\ \A input : N!Enqueue(input) => NP!Enqueue(input)
    /\ \A input : N!EnqueueRecordFails(input) => NP!EnqueueRecordFails(input)
    /\ N!EnqueueIdentityFails => NP!EnqueueIdentityFails
    /\ N!NextIdentity = NP!NextIdentity
  <1>1. N!FreeSlots = NP!FreeSlots /\ N!FreeSlot = NP!FreeSlot
    BY SameConstants, Zenon DEF N!FreeSlots, NP!FreeSlots, N!FreeSlot, NP!FreeSlot
  <1>2. /\ N!MustReserve = NP!MustReserve /\ N!EpochExhausted = NP!EpochExhausted
        /\ N!NextIdentity = NP!NextIdentity /\ N!MetaAfter = NP!MetaAfter
        /\ N!AfterBlock = NP!AfterBlock
    BY Zenon DEF N!MustReserve, NP!MustReserve, N!EpochExhausted, NP!EpochExhausted,
           N!IdsExhausted, NP!IdsExhausted, N!NextIdentity, NP!NextIdentity,
           N!Block, NP!Block, N!MetaAfter, NP!MetaAfter, N!AfterBlock, NP!AfterBlock,
           N!Reserved, NP!Reserved
  <1>3. N!Allocate = NP!Allocate
    BY <1>2 DEF N!Allocate, NP!Allocate
  <1>4. N!Reset = NP!Reset /\ N!OutOfService = NP!OutOfService
    BY SameConstants, Zenon DEF N!Reset, NP!Reset, N!NoMeta, NP!NoMeta, N!OutOfService,
                         NP!OutOfService, N!ram, NP!ram, N!allocator, NP!allocator
  <1>5. ASSUME NEW input, N!Enqueue(input) PROVE NP!Enqueue(input)
    BY <1>1, <1>2, <1>3, <1>5, Zenon
       DEF N!Enqueue, NP!Enqueue, N!QueuedRecord, NP!QueuedRecord, N!Custody, NP!Custody
  <1>6. ASSUME NEW input, N!EnqueueRecordFails(input) PROVE NP!EnqueueRecordFails(input)
    BY <1>1, <1>2, <1>3, <1>4, <1>6, Zenon
       DEF N!EnqueueRecordFails, NP!EnqueueRecordFails, N!QueuedRecord,
           NP!QueuedRecord, N!InDoubt, NP!InDoubt, N!Held, NP!Held
  <1>7. N!EnqueueIdentityFails => NP!EnqueueIdentityFails
    BY <1>1, <1>2, <1>4
       DEF N!EnqueueIdentityFails, NP!EnqueueIdentityFails, N!ram, NP!ram,
           N!allocator, NP!allocator, N!history, NP!history, N!InDoubt, NP!InDoubt,
           N!Held, NP!Held
  <1> QED
    BY <1>2, <1>5, <1>6, <1>7

LEMMA SameMutations ==
    \A s : /\ N!MarkFailed(s) => NP!MarkFailed(s)
           /\ N!MarkExpired(s) => NP!MarkExpired(s)
           /\ N!ReleaseQueued(s) => NP!ReleaseQueued(s)
           /\ N!Reclaim(s) => NP!Reclaim(s)
           /\ N!ArmAttempt(s) => NP!ArmAttempt(s)
  <1>1. N!OutOfService = NP!OutOfService
    BY SameConstants, Zenon DEF N!Reset, NP!Reset, N!NoMeta, NP!NoMeta, N!OutOfService,
                         NP!OutOfService, N!ram, NP!ram, N!allocator, NP!allocator
  <1>2. ASSUME NEW s, NEW r PROVE N!Commit(s, r) = NP!Commit(s, r)
    BY <1>1 DEF N!Commit, NP!Commit, N!allocator, NP!allocator, N!InDoubt, NP!InDoubt,
                N!Held, NP!Held
  <1> QED
    BY <1>2, SameConstants
       DEF N!MarkFailed, NP!MarkFailed, N!MarkExpired, NP!MarkExpired,
           N!ReleaseQueued, NP!ReleaseQueued, N!Reclaim, NP!Reclaim, N!ArmAttempt,
           NP!ArmAttempt, N!InState, NP!InState, N!GivenUp, NP!GivenUp, N!Custody,
           NP!Custody, N!history, NP!history

-----------------------------------------------------------------------------
(* The inductive invariant *)

(* What the Node still holds under the identity of e is e *)
Faithful(e) ==
    \A s \in NP!Slots :
        NP!Owned(nodeCell[s]) /\ SameIdentity(nodeCell[s], e) => Sent(nodeCell[s]) = e

(* An event that was created here *)
Genuine(e) == e \in Events /\ ~IncomingLater(e, nodeLastIssued) /\ Faithful(e)

(* An event on its way: nothing queued is older, nothing admitted younger *)
Suits(e) ==
    /\ Genuine(e)
    /\ \A s \in NP!Slots : nodeCell[s].state = "QUEUED" => ~IncomingLater(e, nodeCell[s])
    /\ \A p \in ever : ~IncomingLater(p, e)

EventSuits == (\A e, f \in event : e = f) /\ (\A e \in event : Suits(e))

(* An acknowledgment is about custody the Hub has promised *)
RepliesTrue ==
    \A r \in reply :
        /\ Genuine(r.event)
        /\ r.status = "ADMITTED" => \E p \in promised : Sent(p) = r.event

(* Nothing admitted is younger than what the Node has issued or has queued *)
AdmittedPast ==
    \A p \in ever :
        /\ ~IncomingLater(p, nodeLastIssued)
        /\ \A s \in NP!Slots :
               nodeCell[s].state = "QUEUED" => ~IncomingLater(p, nodeCell[s])

Kept(e) == \/ e \in abandoned
           \/ \E s \in NP!Slots : nodeCell[s].state = "QUEUED" /\ Sent(nodeCell[s]) = e
           \/ \E p \in promised : Sent(p) = e

CreatedKept == \A e \in created : Kept(e)

(* The order and the answers; the stores' own invariants complete it *)
AirInv == EventSuits /\ RepliesTrue /\ AdmittedPast /\ AdmittedOnceInOrder

CustodyInv == /\ LInv /\ NP!SInv /\ attempt \subseteq NP!Slots
              /\ AirInv /\ CreatedKept

-----------------------------------------------------------------------------
(* Shapes, and the order of identities *)

Numbered(r) == r.epoch \in Nat /\ r.id \in Nat

LEMMA Ordered ==
    ASSUME NEW a, NEW b, NEW c, Numbered(a), Numbered(b), Numbered(c)
    PROVE  /\ IncomingLater(a, b) /\ ~IncomingLater(c, b) => IncomingLater(a, c)
           /\ IncomingLater(a, b) /\ ~IncomingLater(a, c) => IncomingLater(c, b)
           /\ IncomingLater(a, b) => ~IncomingLater(b, a) /\ ~SameIdentity(a, b)
           /\ IncomingLater(a, b) \/ IncomingLater(b, a) \/ SameIdentity(a, b)
           /\ IncomingLater(a, b) /\ IncomingLater(b, c) => IncomingLater(a, c)
           /\ IncomingLater(a, b) /\ SameIdentity(b, c) => IncomingLater(a, c)
  BY DEF Numbered, IncomingLater, SameIdentity

LEMMA SentShape == \A r : Numbered(r) <=> Numbered(Sent(r))
  BY Zenon DEF Sent, Numbered

LEMMA SentOrder ==
    \A r, x : /\ IncomingLater(Sent(r), x) <=> IncomingLater(r, x)
              /\ IncomingLater(x, Sent(r)) <=> IncomingLater(x, r)
              /\ SameIdentity(Sent(r), x) <=> SameIdentity(r, x)
              /\ SameIdentity(x, Sent(r)) <=> SameIdentity(x, r)
  BY Zenon DEF Sent, IncomingLater, SameIdentity

LEMMA EventShape ==
    ASSUME NEW e \in Events PROVE Numbered(e) /\ Sent(e) = e
  <1>1. Numbered(e)
    BY LedgerAssumption, Zenon DEF Events, Numbered
  <1>2. Sent(e) = e
    BY Zenon DEF Events, Sent
  <1> QED
    BY <1>1, <1>2

LEMMA CustodyShape == \A p \in Custodies : Numbered(p) /\ Sent(p) \in Events
  BY LedgerAssumption, Zenon DEF Custodies, Numbered, Sent, Events

LEMMA NodeRecordShape ==
    ASSUME NP!SInv, NEW s \in NP!Slots, NP!Owned(nodeCell[s])
    PROVE  /\ Numbered(nodeCell[s]) /\ Sent(nodeCell[s]) \in Events
           /\ ~IncomingLater(nodeCell[s], nodeLastIssued)
           /\ Numbered(nodeLastIssued)
  <1>1. nodeCell[s] \in NP!Records
    BY DEF NP!SInv, NP!TypeOK
  <1>2. /\ nodeCell[s].epoch \in NP!EventEpochs /\ nodeCell[s].id \in NP!EventIds
        /\ nodeCell[s].content \in Contents
    BY <1>1, NodeAssumption, NP!OwnedShape, Zenon
  <1>3. NP!EventEpochs = Epochs /\ NP!EventIds = Ids
    BY CustodyAssumption, Zenon DEF NP!EventEpochs, NP!EventIds
  <1>4. ~NP!IdentityLess(nodeLastIssued, nodeCell[s])
    BY DEF NP!SInv, NP!FlashInv, NP!OwnedIssued
  <1>5. nodeLastIssued.epoch \in Nat /\ nodeLastIssued.id \in Nat
    BY DEF NP!SInv, NP!TypeOK, NP!NoIdentity, NP!EventEpochs, NP!EventIds
  <1> QED
    BY <1>2, <1>3, <1>4, <1>5, LedgerAssumption, Zenon
       DEF Numbered, Sent, Events, NP!IdentityLess, IncomingLater

LEMMA NodeIssuedShape == NP!SInv => Numbered(nodeLastIssued)
  BY DEF NP!SInv, NP!TypeOK, NP!NoIdentity, NP!EventEpochs, NP!EventIds, Numbered

-----------------------------------------------------------------------------
(* A step of the Node's store *)

LEMMA NodeStep ==
    ASSUME NP!SInv, NP!Next \/ UNCHANGED nodeVars
    PROVE  /\ NP!SInv'
           /\ \/ nodeLastIssued' = nodeLastIssued
              \/ IncomingLater(nodeLastIssued', nodeLastIssued)
           /\ \A s \in NP!Slots : NP!Owned(nodeCell'[s]) =>
                  \/ /\ NP!Owned(nodeCell[s]) /\ Sent(nodeCell'[s]) = Sent(nodeCell[s])
                     /\ nodeCell'[s].state = "QUEUED" => nodeCell[s].state = "QUEUED"
                  \/ IncomingLater(nodeCell'[s], nodeLastIssued)
  <1>1. CASE UNCHANGED nodeVars
    <2>1. UNCHANGED NP!vars
      BY <1>1, Zenon DEF nodeVars, NP!vars, NP!flash, NP!ram, NP!allocator, NP!history
    <2>2. NP!SInv'
      BY <2>1, NodeAssumption, NP!SInvNext, Zenon
    <2> QED
      BY <1>1, <2>2, Zenon DEF nodeVars
  <1>2. CASE NP!Next
    <2>1. NP!SInv'
      BY <1>2, NodeAssumption, NP!SInvNext, Zenon
    <2>2. \/ nodeLastIssued' = nodeLastIssued
          \/ NP!IdentityLess(nodeLastIssued, nodeLastIssued')
      BY <1>2, NodeAssumption, NP!IssuedGrows, Zenon
    <2>3. ASSUME NEW s \in NP!Slots, NP!Owned(nodeCell'[s])
          PROVE  \/ /\ NP!Owned(nodeCell[s])
                    /\ NP!Custody(nodeCell'[s]) = NP!Custody(nodeCell[s])
                    /\ nodeCell'[s].state = "QUEUED" => nodeCell[s].state = "QUEUED"
                 \/ NP!IdentityLess(nodeLastIssued, nodeCell'[s])
      BY <1>2, <2>3, NodeAssumption, NP!OwnedFrom, Zenon
    <2>4. \A a, b : NP!Custody(a) = NP!Custody(b) => Sent(a) = Sent(b)
      BY Zenon DEF NP!Custody, Sent
    <2>5. ASSUME NEW a, NEW b, Numbered(a), Numbered(b), NP!IdentityLess(a, b)
          PROVE  IncomingLater(b, a)
      BY <2>5 DEF NP!IdentityLess, IncomingLater, Numbered
    <2>6. Numbered(nodeLastIssued) /\ Numbered(nodeLastIssued')
      <3>1. Numbered(nodeLastIssued)
        BY NodeIssuedShape
      <3>2. Numbered(nodeLastIssued)'
        BY <2>1 DEF NP!SInv, NP!TypeOK, NP!NoIdentity, NP!EventEpochs, NP!EventIds, Numbered
      <3> QED
        BY <3>1, <3>2 DEF Numbered
    <2>7. ASSUME NEW s \in NP!Slots, NP!Owned(nodeCell'[s]) PROVE Numbered(nodeCell'[s])
      <3>1. nodeCell'[s] \in NP!Records
        BY <2>1, <2>7 DEF NP!SInv, NP!TypeOK
      <3>2. nodeCell'[s].epoch \in NP!EventEpochs /\ nodeCell'[s].id \in NP!EventIds
        BY <2>7, <3>1, NodeAssumption, NP!OwnedShape, Zenon
      <3> QED
        BY <3>2 DEF Numbered, NP!EventEpochs, NP!EventIds
    <2> QED
      BY <2>1, <2>2, <2>3, <2>4, <2>5, <2>6, <2>7, Zenon
  <1> QED
    BY <1>1, <1>2, Zenon

(* A node's step leaves an event that was created here what it was *)
LEMMA GenuineStays ==
    ASSUME NP!SInv, NP!Next \/ UNCHANGED nodeVars, NEW e, Genuine(e)
    PROVE  Genuine(e)'
  <1>1. NP!SInv'
    BY NodeStep, Zenon
  <1>2. Numbered(e) /\ Numbered(nodeLastIssued) /\ Numbered(nodeLastIssued)'
    <2>1. Numbered(nodeLastIssued)'
      BY <1>1 DEF NP!SInv, NP!TypeOK, NP!NoIdentity, NP!EventEpochs, NP!EventIds, Numbered
    <2> QED
      BY <2>1, NodeIssuedShape, EventShape DEF Genuine
  <1>3. ~IncomingLater(e, nodeLastIssued')
    <2>1. Numbered(nodeLastIssued')
      BY <1>2 DEF Numbered
    <2> QED
      BY <1>2, <2>1, NodeStep, Ordered, Zenon DEF Genuine
  <1>4. ASSUME NEW s \in NP!Slots, NP!Owned(nodeCell'[s]), SameIdentity(nodeCell'[s], e)
        PROVE  Sent(nodeCell'[s]) = e
    <2>1. ~IncomingLater(nodeCell'[s], nodeLastIssued)
      BY <1>4, Zenon DEF Genuine, IncomingLater, SameIdentity
    <2>2. NP!Owned(nodeCell[s]) /\ Sent(nodeCell'[s]) = Sent(nodeCell[s])
      BY <1>4, <2>1, NodeStep, Zenon
    <2>3. SameIdentity(nodeCell[s], e)
      BY <1>4, <2>2, SentOrder, Zenon
    <2> QED
      BY <2>2, <2>3, Zenon DEF Genuine, Faithful
  <1>5. Faithful(e)'
    BY <1>4, Zenon DEF Faithful, NP!Owned, SameIdentity, Sent, NP!Slots
  <1> QED
    BY <1>3, <1>5 DEF Genuine, IncomingLater

(* What is queued after a step was queued before, or is new *)
LEMMA QueuedFrom ==
    ASSUME NP!SInv, NP!Next \/ UNCHANGED nodeVars, NEW s \in NP!Slots,
           nodeCell'[s].state = "QUEUED", NEW x, Numbered(x),
           ~IncomingLater(x, nodeLastIssued),
           nodeCell[s].state = "QUEUED" => ~IncomingLater(x, nodeCell[s])
    PROVE  ~IncomingLater(x, nodeCell'[s])
  <1>1. NP!Owned(nodeCell'[s])
    BY Zenon DEF NP!Owned
  <1>2. CASE /\ Sent(nodeCell'[s]) = Sent(nodeCell[s]) /\ nodeCell[s].state = "QUEUED"
    BY <1>2, SentOrder, Zenon
  <1>3. CASE IncomingLater(nodeCell'[s], nodeLastIssued)
    <2>1. NP!SInv'
      BY NodeStep, Zenon
    <2>2. nodeCell'[s] \in NP!Records
      BY <2>1 DEF NP!SInv, NP!TypeOK
    <2>3. nodeCell'[s].epoch \in NP!EventEpochs /\ nodeCell'[s].id \in NP!EventIds
      BY <1>1, <2>2, NodeAssumption, NP!OwnedShape, Zenon
    <2>4. Numbered(nodeCell'[s]) /\ Numbered(nodeLastIssued)
      BY <2>3, NodeIssuedShape DEF Numbered, NP!EventEpochs, NP!EventIds
    <2> QED
      BY <1>3, <2>4, Ordered, Zenon
  <1> QED
    BY <1>1, <1>2, <1>3, NodeStep, Zenon

(* The order and the answers survive whatever the Node does *)
LEMMA NodeKeepsAir ==
    ASSUME LInv, NP!SInv, AirInv, NP!Next \/ UNCHANGED nodeVars, UNCHANGED hubVars,
           \A e, f \in event' : e = f, \A e \in event' : Suits(e), reply' \subseteq reply
    PROVE  NP!SInv' /\ LInv' /\ AirInv'
  <1>1. NP!SInv'
    BY NodeStep, Zenon
  <1>2. LInv' /\ promised' = promised /\ ever' = ever
    BY LInvNext DEF hubVars, vars, history
  <1>3. ever \subseteq Custodies
    BY Zenon DEF LInv, TypeOK
  <1>4. EventSuits'
    <2> SUFFICES ASSUME NEW e \in event' PROVE Suits(e)'
      BY DEF EventSuits
    <2>1. Suits(e) /\ Genuine(e)
      BY Zenon DEF Suits
    <2>2. Numbered(e) /\ ~IncomingLater(e, nodeLastIssued)
      BY <2>1, EventShape, Zenon DEF Genuine
    <2>3. ASSUME NEW s \in NP!Slots, nodeCell'[s].state = "QUEUED"
          PROVE  ~IncomingLater(e, nodeCell'[s])
      BY <2>1, <2>2, <2>3, QueuedFrom, Zenon DEF Suits
    <2>4. Genuine(e)'
      BY <2>1, GenuineStays
    <2> QED
      BY <1>2, <2>1, <2>3, <2>4, Zenon DEF Suits, IncomingLater, NP!Slots
  <1>5. RepliesTrue'
    <2> SUFFICES ASSUME NEW r \in reply'
                 PROVE  /\ Genuine(r.event)'
                        /\ r.status = "ADMITTED" => \E p \in promised' : Sent(p) = r.event
      BY Zenon DEF RepliesTrue, Sent
    <2>1. Genuine(r.event)
      BY DEF AirInv, RepliesTrue
    <2>2. Genuine(r.event)'
      BY <2>1, GenuineStays
    <2> QED
      BY <1>2, <2>2, Zenon DEF AirInv, RepliesTrue
  <1>6. AdmittedPast'
    <2> SUFFICES ASSUME NEW p \in ever
                 PROVE  /\ ~IncomingLater(p, nodeLastIssued')
                        /\ \A s \in NP!Slots : nodeCell'[s].state = "QUEUED" =>
                               ~IncomingLater(p, nodeCell'[s])
      BY <1>2, Zenon DEF AdmittedPast, IncomingLater, NP!Slots
    <2>1. Numbered(p) /\ ~IncomingLater(p, nodeLastIssued)
      BY <1>3, CustodyShape, Zenon DEF AirInv, AdmittedPast
    <2>2. Numbered(nodeLastIssued) /\ Numbered(nodeLastIssued')
      <3>1. Numbered(nodeLastIssued)'
        BY <1>1 DEF NP!SInv, NP!TypeOK, NP!NoIdentity, NP!EventEpochs, NP!EventIds, Numbered
      <3> QED
        BY <3>1, NodeIssuedShape DEF Numbered
    <2>3. ~IncomingLater(p, nodeLastIssued')
      BY <2>1, <2>2, NodeStep, Ordered, Zenon
    <2>4. ASSUME NEW s \in NP!Slots, nodeCell'[s].state = "QUEUED"
          PROVE  ~IncomingLater(p, nodeCell'[s])
      BY <2>1, <2>4, QueuedFrom, Zenon DEF AirInv, AdmittedPast
    <2> QED
      BY <2>3, <2>4, Zenon
  <1>7. AdmittedOnceInOrder'
    BY <1>2, Zenon DEF AirInv, AdmittedOnceInOrder
  <1> QED
    BY <1>1, <1>2, <1>4, <1>5, <1>6, <1>7, Zenon DEF AirInv

-----------------------------------------------------------------------------
(* A step of the Hub's ledger *)

(* What the Hub admits is younger than everything it ever admitted: it      *)
(* remembers the youngest, and would have known the event again             *)
LEMMA AdmissionIsYoungest ==
    ASSUME LInv, AirInv, NEW e \in event, Admissible(e), MustReserve => ~Exhausted,
           NEW p \in ever
    PROVE  IncomingLater(e, p) /\ p.ordinal < Ordinal
  <1>1. p.ordinal < Ordinal
    BY OrdinalFacts, Zenon DEF Admissible
  <1>2. Suits(e) /\ e \in Events /\ Numbered(e)
    BY EventShape, Zenon DEF AirInv, EventSuits, Suits, Genuine
  <1>3. Numbered(p) /\ ~IncomingLater(p, e)
    BY <1>2, CustodyShape, Zenon DEF Suits, LInv, TypeOK
  <1>4. SUFFICES ASSUME SameIdentity(p, e) PROVE FALSE
    BY <1>1, <1>2, <1>3, Ordered, Zenon
  <1>5. PICK target \in Targets(e) : TRUE
    BY DEF Admissible
  <1>6. \A s \in Slots : Owned(cell[s]) => ~SameIdentity(cell[s], e)
    BY <1>2, <1>5, TargetFacts, Zenon
  <1>7. PICK q \in ever : IncomingLater(q, p)
    BY <1>4, <1>6, Zenon DEF LInv, FlashInv, EverRemembered, Remembered, SameIdentity
  <1>8. Numbered(q) /\ ~IncomingLater(q, e)
    BY <1>2, CustodyShape, Zenon DEF Suits, LInv, TypeOK
  <1> QED
    BY <1>2, <1>3, <1>4, <1>7, <1>8, Ordered, Zenon

(* How a step of the ledger may add to what was ever admitted *)
Admits(e) ==
    /\ Admissible(e) /\ (MustReserve => ~Exhausted)
    /\ ever' = ever \cup {Custody(Admission(e))}

LEMMA HubKeepsAir ==
    ASSUME LInv, NP!SInv, AirInv, UNCHANGED nodeVars, promised \subseteq promised',
           event' \subseteq event,
           ever' = ever \/ (event' = {} /\ \E e \in event : Admits(e)),
           \A r \in reply' :
               \/ r \in reply
               \/ /\ r.event \in event
                  /\ r.status = "ADMITTED" => \E p \in promised' : Sent(p) = r.event
    PROVE  AirInv'
  <1>1. \A e : Genuine(e) => Genuine(e)'
    BY GenuineStays, Zenon
  <1>2. nodeCell' = nodeCell /\ nodeLastIssued' = nodeLastIssued
    BY Zenon DEF nodeVars
  <1>3. EventSuits'
    <2>1. CASE event' = {}
      BY <2>1, Zenon DEF EventSuits
    <2>2. CASE ever' = ever
      <3> SUFFICES ASSUME NEW e \in event' PROVE Suits(e)'
        BY Zenon DEF AirInv, EventSuits
      <3>1. Suits(e) /\ Genuine(e)'
        BY <1>1, Zenon DEF AirInv, EventSuits, Suits
      <3> QED
        BY <1>2, <2>2, <3>1, Zenon DEF Suits, IncomingLater, NP!Slots
    <2> QED
      BY <2>1, <2>2, Zenon
  <1>4. RepliesTrue'
    <2> SUFFICES ASSUME NEW r \in reply'
                 PROVE  /\ Genuine(r.event)'
                        /\ r.status = "ADMITTED" => \E p \in promised' : Sent(p) = r.event
      BY Zenon DEF RepliesTrue, Sent
    <2>1. Genuine(r.event)
      BY Zenon DEF AirInv, RepliesTrue, EventSuits, Suits
    <2>2. r.status = "ADMITTED" => \E p \in promised' : Sent(p) = r.event
      BY Zenon DEF AirInv, RepliesTrue
    <2> QED
      BY <1>1, <2>1, <2>2, Zenon
  <1>5. AdmittedPast' /\ AdmittedOnceInOrder'
    <2>1. CASE ever' = ever
      BY <1>2, <2>1, Zenon DEF AirInv, AdmittedPast, AdmittedOnceInOrder, IncomingLater, NP!Slots
    <2>2. CASE \E e \in event : Admits(e)
      <3>1. PICK e \in event : Admits(e)
        BY <2>2, Zenon
      <3> DEFINE c == Custody(Admission(e))
      <3>2. Suits(e) /\ e \in Events
        BY Zenon DEF AirInv, EventSuits, Suits, Genuine
      <3>3. /\ SameIdentity(c, e) /\ c \in Custodies /\ c.ordinal = Ordinal
            /\ Ordinal \in 1 .. MaxOrdinal
        <4>1. Ordinal \in 1 .. MaxOrdinal
          BY <3>1, OrdinalFacts, Zenon DEF Admits, Admissible
        <4> QED
          BY <3>2, <4>1, ActiveShape, Zenon DEF Admission
      <3>4. ever' = ever \cup {c} /\ ever \subseteq Custodies
        BY <3>1, Zenon DEF Admits, LInv, TypeOK
      <3>5. \A p \in ever : IncomingLater(e, p) /\ p.ordinal < Ordinal
        BY <3>1, AdmissionIsYoungest, Zenon DEF Admits
      <3> HIDE DEF c
      <3>6. \A x : IncomingLater(c, x) <=> IncomingLater(e, x)
        BY <3>3, Zenon DEF IncomingLater, SameIdentity
      <3>7. AdmittedPast'
        BY <1>2, <3>2, <3>4, <3>6, Zenon
           DEF AirInv, AdmittedPast, Suits, Genuine, IncomingLater, NP!Slots
      <3>8. ASSUME NEW p \in ever
            PROVE  /\ ~SameIdentity(p, c) /\ ~SameIdentity(c, p)
                   /\ IncomingLater(c, p) /\ ~IncomingLater(p, c)
                   /\ c.ordinal > p.ordinal /\ ~(p.ordinal > c.ordinal)
        <4>1. Numbered(p) /\ Numbered(c) /\ IncomingLater(c, p)
          BY <3>3, <3>4, <3>5, <3>6, CustodyShape, Zenon
        <4>2. p.ordinal \in Nat /\ c.ordinal \in Nat /\ p.ordinal < c.ordinal
          BY <3>3, <3>4, <3>5 DEF Custodies
        <4>3. ~IncomingLater(p, c) /\ ~SameIdentity(c, p)
          BY <4>1, Ordered, Zenon
        <4> QED
          BY <4>1, <4>2, <4>3 DEF SameIdentity
      <3>9. ASSUME NEW p \in ever', NEW q \in ever', p # q
            PROVE  ~SameIdentity(p, q) /\ (IncomingLater(p, q) <=> p.ordinal > q.ordinal)
        <4>1. CASE p \in ever /\ q \in ever
          BY <3>9, <4>1, Zenon DEF AirInv, AdmittedOnceInOrder
        <4>2. CASE p \in ever /\ q = c
          BY <3>8, <4>2, Zenon
        <4>3. CASE p = c /\ q \in ever
          BY <3>8, <4>3, Zenon
        <4> QED
          BY <3>4, <3>9, <4>1, <4>2, <4>3, Zenon
      <3>10. AdmittedOnceInOrder'
        BY <3>9, Zenon DEF AdmittedOnceInOrder
      <3> QED
        BY <3>7, <3>10, Zenon
    <2> QED
      BY <2>1, <2>2, Zenon
  <1> QED
    BY <1>3, <1>4, <1>5, Zenon DEF AirInv

-----------------------------------------------------------------------------
(* The invariant, one action at a time *)

(* Every queued event stays queued, or is accounted for *)
LEMMA CreatedStays ==
    ASSUME CreatedKept, abandoned \subseteq abandoned', promised \subseteq promised',
           \A s \in NP!Slots : nodeCell[s].state = "QUEUED" =>
               \/ /\ nodeCell'[s].state = "QUEUED"
                  /\ Sent(nodeCell'[s]) = Sent(nodeCell[s])
               \/ Sent(nodeCell[s]) \in abandoned'
               \/ \E p \in promised' : Sent(p) = Sent(nodeCell[s]),
           \A e \in created' :
               \/ e \in created
               \/ \E s \in NP!Slots :
                      nodeCell'[s].state = "QUEUED" /\ Sent(nodeCell'[s]) = e
    PROVE  CreatedKept'
  <1> SUFFICES ASSUME NEW e \in created'
               PROVE  \/ e \in abandoned'
                      \/ \E s \in NP!Slots :
                             nodeCell'[s].state = "QUEUED" /\ Sent(nodeCell'[s]) = e
                      \/ \E p \in promised' : Sent(p) = e
    BY Zenon DEF CreatedKept, Kept, Sent, NP!Slots
  <1> QED
    BY Zenon DEF CreatedKept, Kept

LEMMA NodeKeeps ==
    ASSUME CustodyInv, NP!Next \/ UNCHANGED nodeVars, UNCHANGED hubVars,
           attempt' \subseteq NP!Slots, reply' \subseteq reply,
           event' = event \/ \E e : event' = {e} /\ Suits(e),
           CreatedKept'
    PROVE  CustodyInv'
  <1>1. (\A e, f \in event' : e = f) /\ (\A e \in event' : Suits(e))
    BY Zenon DEF CustodyInv, AirInv, EventSuits
  <1>2. NP!SInv' /\ LInv' /\ AirInv'
    BY <1>1, NodeKeepsAir, Zenon DEF CustodyInv
  <1>3. (attempt \subseteq NP!Slots)'
    BY DEF NP!Slots
  <1> QED
    BY <1>2, <1>3, Zenon DEF CustodyInv

LEMMA SameHistory == UNCHANGED hubVars => promised' = promised /\ ever' = ever
  BY DEF hubVars, vars, history

(* A step of the store that gives nothing up *)
LEMMA QueueStays ==
    ASSUME CustodyInv,
           \/ NP!Recover \/ NP!RecoverFails \/ NP!FormatFails
           \/ NP!FreshMetadataFails \/ NP!PowerLoss \/ NP!EnqueueIdentityFails
           \/ \E input \in NP!Inputs : NP!Enqueue(input) \/ NP!EnqueueRecordFails(input)
           \/ \E t \in NP!Slots : NP!Reclaim(t) \/ NP!ArmAttempt(t),
           NEW s \in NP!Slots, nodeCell[s].state = "QUEUED"
    PROVE  nodeCell'[s].state = "QUEUED" /\ Sent(nodeCell'[s]) = Sent(nodeCell[s])
  <1>1. /\ nodeCell'[s].state = "QUEUED"
        /\ NP!Custody(nodeCell'[s]) = NP!Custody(nodeCell[s])
    BY NodeAssumption, NP!QueuedStays, Zenon DEF CustodyInv
  <1> QED
    BY <1>1, Zenon DEF NP!Custody, Sent

LEMMA InvNodeBoots ==
    ASSUME CustodyInv, NodeBoots PROVE CustodyInv'
  <1>1. \/ NP!Recover \/ NP!RecoverFails \/ NP!FormatFails
        \/ NP!FreshMetadataFails \/ NP!PowerLoss
    BY SameBoot DEF NodeBoots
  <1>2. NP!Next
    BY <1>1, Zenon DEF NP!Next
  <1>3. /\ attempt' = {} /\ UNCHANGED hubVars /\ event' = event /\ reply' = reply
        /\ created' = created /\ abandoned' = abandoned
    BY Zenon DEF NodeBoots, air
  <1>4. CreatedKept'
    BY <1>1, <1>3, QueueStays, SameHistory, CreatedStays, Zenon DEF CustodyInv
  <1> QED
    BY <1>2, <1>3, <1>4, NodeKeeps, Zenon

LEMMA InvCreate ==
    ASSUME CustodyInv, Create PROVE CustodyInv'
  <1>1. PICK input \in N!Inputs :
            \/ /\ N!Enqueue(input)
               /\ created' = created \cup {Sent(N!QueuedRecord(N!NextIdentity, input))}
            \/ /\ N!EnqueueRecordFails(input) \/ N!EnqueueIdentityFails
               /\ UNCHANGED created
    BY Zenon DEF Create
  <1>2. /\ input \in NP!Inputs
        /\ \/ NP!Enqueue(input) \/ NP!EnqueueRecordFails(input)
           \/ NP!EnqueueIdentityFails
    BY <1>1, SameEnqueue, SameConstants, Zenon
  <1>3. NP!Next
    BY <1>2, Zenon DEF NP!Next
  <1>4. /\ attempt' \subseteq NP!Slots /\ UNCHANGED hubVars /\ event' = event
        /\ reply' = reply /\ abandoned' = abandoned
    BY Zenon DEF Create, KeepsAttempt, air, CustodyInv
  <1>5. \A s \in NP!Slots : nodeCell[s].state = "QUEUED" =>
            nodeCell'[s].state = "QUEUED" /\ Sent(nodeCell'[s]) = Sent(nodeCell[s])
    BY <1>2, QueueStays, Zenon
  <1>6. ASSUME NEW e \in created', e \notin created
        PROVE  \E s \in NP!Slots : nodeCell'[s].state = "QUEUED" /\ Sent(nodeCell'[s]) = e
    <2> DEFINE record == NP!QueuedRecord(NP!NextIdentity, input)
    <2>1. NP!Enqueue(input) /\ e = Sent(record)
      BY <1>1, <1>6, SameEnqueue, Zenon DEF N!QueuedRecord, NP!QueuedRecord
    <2>2. PICK target \in NP!FreeSlot : nodeCell' = [nodeCell EXCEPT ![target] = record]
      BY <2>1, Zenon DEF NP!Enqueue
    <2>3. target \in NP!Slots
      BY Zenon DEF NP!FreeSlot, NP!FreeSlots
    <2>4. nodeCell'[target] = record
      BY <2>2, <2>3 DEF CustodyInv, NP!SInv, NP!TypeOK
    <2>5. record.state = "QUEUED"
      BY Zenon DEF NP!QueuedRecord
    <2> QED
      BY <2>1, <2>3, <2>4, <2>5, Zenon
  <1>7. CreatedKept'
    BY <1>4, <1>5, <1>6, SameHistory, CreatedStays, Zenon DEF CustodyInv
  <1> QED
    BY <1>3, <1>4, <1>7, NodeKeeps, Zenon

(* The head of the queue may go on the air *)
LEMMA HeadSuits ==
    ASSUME CustodyInv, nodeMode = "READY", NEW s \in NP!Slots, Head(s)
    PROVE  Suits(Sent(nodeSlots[s]))
  <1>1. NP!SInv /\ nodeSlots = nodeCell
    BY Zenon DEF CustodyInv, NP!SInv, NP!StoreInService
  <1>2. nodeCell[s].state = "QUEUED" /\ NP!Owned(nodeCell[s])
    BY <1>1, Zenon DEF Head, Queued, NP!Owned
  <1> DEFINE e == Sent(nodeCell[s])
  <1>3. /\ Numbered(nodeCell[s]) /\ e \in Events
        /\ ~IncomingLater(e, nodeLastIssued)
    BY <1>1, <1>2, NodeRecordShape, SentOrder, Zenon
  <1>4. Faithful(e)
    <2> SUFFICES ASSUME NEW t \in NP!Slots, NP!Owned(nodeCell[t]),
                        SameIdentity(nodeCell[t], e)
                 PROVE  t = s
      BY Zenon DEF Faithful
    <2>1. NP!Identity(nodeCell[t]) = NP!Identity(nodeCell[s])
      BY Zenon DEF NP!Identity, SameIdentity, Sent
    <2> QED
      BY <1>1, <1>2, <2>1, Zenon DEF NP!SInv, NP!FlashInv, NP!Distinct
  <1>5. ASSUME NEW t \in NP!Slots, nodeCell[t].state = "QUEUED"
        PROVE  ~IncomingLater(e, nodeCell[t])
    <2>1. ~N!IdentityLess(nodeCell[t], nodeCell[s])
      BY <1>1, <1>5, SameConstants, Zenon DEF Head, Queued
    <2>2. Numbered(nodeCell[t])
      BY <1>1, <1>5, NodeRecordShape, Zenon DEF NP!Owned
    <2> QED
      BY <1>3, <2>1, <2>2, Zenon DEF N!IdentityLess, IncomingLater, Sent, Numbered
  <1>6. \A p \in ever : ~IncomingLater(p, e)
    BY <1>2, SentOrder, Zenon DEF CustodyInv, AirInv, AdmittedPast
  <1> QED
    BY <1>1, <1>3, <1>4, <1>5, <1>6, Zenon DEF Suits, Genuine

LEMMA InvTransmit ==
    ASSUME CustodyInv, NEW s \in N!Slots, Transmit(s) PROVE CustodyInv'
  <1>1. s \in NP!Slots /\ NP!ArmAttempt(s)
    BY SameConstants, SameMutations, Zenon DEF Transmit
  <1>2. NP!Next
    BY <1>1, Zenon DEF NP!Next
  <1>3. /\ attempt' \subseteq NP!Slots /\ UNCHANGED hubVars /\ reply' = reply
        /\ created' = created /\ abandoned' = abandoned
    BY <1>1, Zenon DEF Transmit, KeepsAttempt
  <1>4. event' = event \/ event' = {Sent(nodeSlots[s])}
    BY Zenon DEF Transmit
  <1>5. Suits(Sent(nodeSlots[s]))
    BY <1>1, HeadSuits, Zenon DEF Transmit
  <1>6. CreatedKept'
    BY <1>1, <1>3, QueueStays, SameHistory, CreatedStays, Zenon DEF CustodyInv
  <1> QED
    BY <1>2, <1>3, <1>4, <1>5, <1>6, NodeKeeps, Zenon

LEMMA InvReclaim ==
    ASSUME CustodyInv, NEW s \in N!Slots, Reclaim(s) PROVE CustodyInv'
  <1>1. s \in NP!Slots /\ NP!Reclaim(s)
    BY SameConstants, SameMutations, Zenon DEF Reclaim
  <1>2. NP!Next
    BY <1>1, Zenon DEF NP!Next
  <1>3. /\ attempt' = attempt /\ UNCHANGED hubVars /\ reply' = reply /\ event' = event
        /\ created' = created /\ abandoned' = abandoned
    BY <1>1, Zenon DEF Reclaim, air
  <1>4. CreatedKept'
    BY <1>1, <1>3, QueueStays, SameHistory, CreatedStays, Zenon DEF CustodyInv
  <1> QED
    BY <1>2, <1>3, <1>4, NodeKeeps, Zenon DEF CustodyInv

LEMMA InvAbandon ==
    ASSUME CustodyInv, NEW s \in N!Slots, reply' \subseteq reply,
           Abandon(s, N!MarkFailed(s)) \/ Abandon(s, N!MarkExpired(s))
    PROVE  CustodyInv'
  <1>1. s \in NP!Slots /\ (NP!MarkFailed(s) \/ NP!MarkExpired(s))
    BY SameConstants, SameMutations, Zenon DEF Abandon
  <1>2. NP!Next
    BY <1>1, Zenon DEF NP!Next
  <1>3. /\ attempt' \subseteq NP!Slots /\ UNCHANGED hubVars /\ event' = event
        /\ created' = created
        /\ abandoned' = abandoned \cup
               (IF nodeCell'[s].state = "QUEUED" THEN {} ELSE {Sent(nodeSlots[s])})
    BY Zenon DEF Abandon, KeepsAttempt, CustodyInv
  <1>4. /\ nodeSlots = nodeCell
        /\ \A t \in NP!Slots : t # s => nodeCell'[t] = nodeCell[t]
        /\ nodeCell'[s].state = "QUEUED" => nodeCell'[s] = nodeCell[s]
    BY <1>1, NodeAssumption, NP!GivenUpAlone, Zenon DEF CustodyInv
  <1>5. CreatedKept'
    BY <1>3, <1>4, SameHistory, CreatedStays, Zenon DEF CustodyInv
  <1> QED
    BY <1>2, <1>3, <1>5, NodeKeeps, Zenon

(* Nothing but the attempt and the answer goes *)
LEMMA InvIdle ==
    ASSUME CustodyInv, attempt' \subseteq attempt, reply' \subseteq reply,
           UNCHANGED <<hubVars, nodeVars, event, created, abandoned>>
    PROVE  CustodyInv'
  <1>1. nodeCell' = nodeCell
    BY Zenon DEF nodeVars
  <1>2. CreatedKept'
    BY <1>1, SameHistory, CreatedStays, Zenon DEF CustodyInv
  <1> QED
    BY <1>2, NodeKeeps, Zenon DEF CustodyInv

LEMMA InvFailedAttempt ==
    ASSUME CustodyInv, NEW s \in N!Slots, reply' \subseteq reply,
           NEW permanent \in BOOLEAN, FailedAttempt(s, permanent)
    PROVE  CustodyInv'
  <1>1. CASE Abandon(s, N!MarkFailed(s))
    BY <1>1, InvAbandon, Zenon
  <1>2. CASE attempt' = {} /\ UNCHANGED <<hubVars, nodeVars, event, created, abandoned>>
    BY <1>2, InvIdle, Zenon
  <1> QED
    BY <1>1, <1>2, Zenon DEF FailedAttempt

LEMMA InvTimeout ==
    ASSUME CustodyInv, NEW s \in N!Slots, Timeout(s) PROVE CustodyInv'
  <1>1. CASE FailedAttempt(s, FALSE)
    BY <1>1, InvFailedAttempt, Zenon DEF Timeout
  <1>2. CASE Abandon(s, N!MarkFailed(s))
    BY <1>2, InvAbandon, Zenon DEF Timeout
  <1> QED
    BY <1>1, <1>2, Zenon DEF Timeout

(* An acknowledgment that matches is about the event that is released, and  *)
(* the Hub has it                                                           *)
LEMMA InvReleased ==
    ASSUME CustodyInv, NEW s \in N!Slots, NEW r \in reply, reply' = {}, Matches(r, s),
           r.status = "ADMITTED", N!ReleaseQueued(s), attempt' = {},
           UNCHANGED <<hubVars, event, created, abandoned>>
    PROVE  CustodyInv'
  <1>1. s \in NP!Slots /\ NP!ReleaseQueued(s)
    BY SameConstants, SameMutations, Zenon
  <1>2. NP!Next
    BY <1>1, Zenon DEF NP!Next
  <1>3. /\ nodeSlots = nodeCell /\ nodeCell[s].state = "QUEUED"
        /\ \A t \in NP!Slots : t # s => nodeCell'[t] = nodeCell[t]
    BY <1>1, NodeAssumption, NP!GivenUpAlone, Zenon DEF CustodyInv
  <1>4. Sent(nodeCell[s]) = r.event
    BY <1>1, <1>3, Zenon
       DEF Matches, CustodyInv, AirInv, RepliesTrue, Genuine, Faithful, NP!Owned
  <1>5. \E p \in promised : Sent(p) = Sent(nodeCell[s])
    BY <1>4, Zenon DEF CustodyInv, AirInv, RepliesTrue
  <1>6. CreatedKept'
    BY <1>3, <1>5, SameHistory, CreatedStays, Zenon DEF CustodyInv
  <1> QED
    BY <1>2, <1>6, NodeKeeps, Zenon

LEMMA InvReceiveReply ==
    ASSUME CustodyInv, ReceiveReply PROVE CustodyInv'
  <1>1. PICK r \in reply :
            \/ \E s \in attempt : Answered(s, r)
            \/ UNCHANGED <<hubVars, nodeVars, attempt, event, created, abandoned>>
    BY Zenon DEF ReceiveReply
  <1>2. reply' = {}
    BY Zenon DEF ReceiveReply
  <1>3. CASE UNCHANGED <<hubVars, nodeVars, attempt, event, created, abandoned>>
    BY <1>2, <1>3, InvIdle, Zenon
  <1>4. CASE \E s \in attempt : Answered(s, r)
    <2>1. PICK s \in N!Slots : Answered(s, r)
      BY <1>4, SameConstants, Zenon DEF CustodyInv
    <2>2. CASE UNCHANGED <<hubVars, nodeVars, attempt, event, created, abandoned>>
      BY <1>2, <2>2, InvIdle, Zenon
    <2>3. CASE /\ Matches(r, s) /\ r.status = "ADMITTED"
               /\ N!ReleaseQueued(s) /\ KeepsAttempt({})
               /\ UNCHANGED <<hubVars, event, created, abandoned>>
      BY <1>2, <2>3, InvReleased, Zenon DEF KeepsAttempt
    <2>4. CASE FailedAttempt(s, r.status = "IDENTITY_CONTENT_MISMATCH")
      BY <1>2, <2>4, InvFailedAttempt, Zenon
    <2> QED
      BY <2>1, <2>2, <2>3, <2>4, Zenon DEF Answered
  <1> QED
    BY <1>1, <1>3, <1>4, Zenon

(* A step of the Hub leaves the Node alone, and breaks no promise *)
LEMMA HubKeeps ==
    ASSUME CustodyInv, LInv', UNCHANGED <<nodeVars, attempt, created, abandoned>>,
           promised \subseteq promised', event' \subseteq event,
           ever' = ever \/ (event' = {} /\ \E e \in event : Admits(e)),
           \A r \in reply' :
               \/ r \in reply
               \/ /\ r.event \in event
                  /\ r.status = "ADMITTED" => \E p \in promised' : Sent(p) = r.event
    PROVE  CustodyInv'
  <1>1. nodeCell' = nodeCell
    BY Zenon DEF nodeVars
  <1>2. CreatedKept'
    BY <1>1, CreatedStays, Zenon DEF CustodyInv
  <1>3. AirInv'
    BY HubKeepsAir, Zenon DEF CustodyInv
  <1>4. NP!SInv'
    BY NodeStep, Zenon DEF CustodyInv
  <1>5. (attempt \subseteq NP!Slots)'
    BY Zenon DEF NP!Slots, CustodyInv
  <1> QED
    BY <1>2, <1>3, <1>4, <1>5, Zenon DEF CustodyInv

LEMMA AnswersIn ==
    ASSUME NEW e, NEW result, Replies(e, result), NEW r \in reply', r \notin reply
    PROVE  r.event = e /\ r.status \in WireStatus(result)
  BY DEF Replies

LEMMA InvHubBoots ==
    ASSUME CustodyInv, HubBoots PROVE CustodyInv'
  <1>1. LInv'
    <2>1. Next
      BY Zenon DEF HubBoots, Next
    <2> QED
      BY <2>1, LInvNext DEF CustodyInv
  <1>2. promised' = promised /\ ever' = ever
    BY Zenon DEF HubBoots, Recover, RecoverCustody, RecoverFails, InitializeFresh,
           InitializeFreshFails, PowerLoss, history
  <1> QED
    BY <1>1, <1>2, HubKeeps, Zenon DEF HubBoots

LEMMA InvHostConsumes ==
    ASSUME CustodyInv, HostConsumes PROVE CustodyInv'
  <1>1. PICK s \in Slots : Consume(slots[s]) \/ ConsumeFails(slots[s])
    BY Zenon DEF HostConsumes
  <1>2. PICK t \in Slots : Owned(slots[t]) /\ SameIdentity(slots[t], slots[s])
    BY <1>1, Zenon DEF Consume, ConsumeFails, Consumable, Known
  <1>3. PICK i \in Identities : SameIdentity(i, slots[s])
    <2>1. slots[t] \in Records
      BY Zenon DEF CustodyInv, LInv, TypeOK
    <2>2. slots[t].epoch \in Epochs /\ slots[t].id \in Ids
      BY <1>2, <2>1, OwnedShape, Zenon
    <2>3. [epoch |-> slots[t].epoch, id |-> slots[t].id] \in Identities
      BY <2>2, Zenon DEF Identities
    <2> QED
      BY <1>2, <2>3, Zenon DEF SameIdentity
  <1>4. Known(slots[s]) = Known(i)
    BY <1>3, Zenon DEF Known, SameIdentity
  <1>5. Consume(i) \/ ConsumeFails(i)
    BY <1>1, <1>4, Zenon DEF Consume, ConsumeFails, Consumable
  <1>6. LInv'
    BY <1>3, <1>5, LInvConsume, LInvConsumeFails, Zenon DEF CustodyInv
  <1>7. promised' = promised /\ ever' = ever
    BY <1>1, Zenon DEF Consume, ConsumeFails
  <1>8. event' \subseteq event
    BY Zenon DEF HostConsumes
  <1> QED
    BY <1>6, <1>7, <1>8, HubKeeps, Zenon DEF HostConsumes

LEMMA InvReceiveEvent ==
    ASSUME CustodyInv, ReceiveEvent PROVE CustodyInv'
  <1>1. PICK e \in event :
            \/ AdmitNew(e) /\ Replies(e, "DURABLE_NEW_ADMISSION")
            \/ AdmitDuplicate(e) /\ Replies(e, "EXACT_DUPLICATE")
            \/ \E result \in AdmissionResults \ Rejections :
                   AdmitRefused(e, "OK", result) /\ Replies(e, result)
            \/ /\ AdmitExhausted(e) \/ AdmitReservationFails(e) \/ AdmitRecordFails(e)
               /\ Replies(e, "STORAGE_FAILURE")
            \/ AdmitLosesPower(e) /\ UNCHANGED reply
    BY Zenon DEF ReceiveEvent
  <1>2. LInv /\ e \in Events
    BY Zenon DEF CustodyInv, AirInv, EventSuits, Suits, Genuine
  <1>3. event' = {} /\ UNCHANGED <<nodeVars, attempt, created, abandoned>>
    BY Zenon DEF ReceiveEvent
  <1>4. CASE AdmitNew(e) /\ Replies(e, "DURABLE_NEW_ADMISSION")
    <2>1. LInv'
      BY <1>2, <1>4, LInvAdmitNew, Zenon
    <2>2. Admits(e) /\ promised' = promised \cup {Custody(Admission(e))}
      BY <1>4, Zenon DEF AdmitNew, Admits, Admission, AllocateOrdinal
    <2>3. Sent(Custody(Admission(e))) = e
      <3>1. Sent(Custody(Admission(e))) = Sent(e)
        BY Zenon DEF Sent, Custody, Admission, Record
      <3> QED
        BY <1>2, <3>1, EventShape, Zenon
    <2>4. \A r \in reply' : r \in reply \/
              (r.event \in event /\ \E p \in promised' : Sent(p) = r.event)
      BY <1>4, <2>2, <2>3, AnswersIn, Zenon
    <2> QED
      BY <1>3, <2>1, <2>2, <2>4, HubKeeps, Zenon
  <1>5. CASE AdmitDuplicate(e) /\ Replies(e, "EXACT_DUPLICATE")
    <2>1. LInv'
      BY <1>2, <1>5, LInvAdmitDuplicate, Zenon
    <2>2. PICK s \in Known(e) : /\ SameCanonical(slots[s], e)
                                /\ promised' = promised \cup {Custody(slots[s])}
      BY <1>5, Zenon DEF AdmitDuplicate
    <2>3. Sent(Custody(slots[s])) = e
      <3>1. Sent(Custody(slots[s])) = Sent(e)
        BY <2>2, Zenon DEF Sent, Custody, SameCanonical, SameIdentity
      <3> QED
        BY <1>2, <3>1, EventShape, Zenon
    <2>4. \A r \in reply' : r \in reply \/
              (r.event \in event /\ \E p \in promised' : Sent(p) = r.event)
      BY <1>5, <2>2, <2>3, AnswersIn, Zenon
    <2>5. ever' = ever
      BY <1>5, Zenon DEF AdmitDuplicate
    <2> QED
      BY <1>3, <2>1, <2>2, <2>4, <2>5, HubKeeps, Zenon
  <1>6. CASE \E result \in AdmissionResults \ Rejections :
                 AdmitRefused(e, "OK", result) /\ Replies(e, result)
    <2>1. PICK result \in AdmissionResults \ Rejections :
              AdmitRefused(e, "OK", result) /\ Replies(e, result)
      BY <1>6, Zenon
    <2>2. UNCHANGED vars
      BY <2>1, Zenon DEF AdmitRefused
    <2>3. LInv' /\ promised' = promised /\ ever' = ever
      BY <1>2, <2>2, LInvNext, Zenon DEF vars, history
    <2>4. "ADMITTED" \notin WireStatus(result)
      BY DEF WireStatus, AdmissionResults, Rejections
    <2>5. \A r \in reply' : r \in reply \/ (r.event \in event /\ r.status # "ADMITTED")
      BY <2>1, <2>4, AnswersIn, Zenon
    <2> QED
      BY <1>3, <2>3, <2>5, HubKeeps, Zenon
  <1>7. CASE /\ AdmitExhausted(e) \/ AdmitReservationFails(e) \/ AdmitRecordFails(e)
             /\ Replies(e, "STORAGE_FAILURE")
    <2>1. LInv'
      BY <1>2, <1>7, LInvAdmitExhausted, LInvAdmitReservationFails, LInvAdmitRecordFails, Zenon
    <2>2. promised' = promised
      BY <1>7, Zenon DEF AdmitExhausted, AdmitReservationFails, AdmitRecordFails, history
    <2>3. ever' = ever \/ Admits(e)
      BY <1>7, Zenon DEF AdmitExhausted, AdmitReservationFails, AdmitRecordFails, history,
                  Admits, Admission, AllocateOrdinal
    <2>4. "ADMITTED" \notin WireStatus("STORAGE_FAILURE")
      BY DEF WireStatus
    <2>5. \A r \in reply' : r \in reply \/ (r.event \in event /\ r.status # "ADMITTED")
      BY <1>7, <2>4, AnswersIn, Zenon
    <2> QED
      BY <1>3, <2>1, <2>2, <2>3, <2>5, HubKeeps, Zenon
  <1>8. CASE AdmitLosesPower(e) /\ UNCHANGED reply
    <2>1. LInv'
      BY <1>2, <1>8, LInvAdmitLosesPower, Zenon
    <2>2. promised' = promised /\ (ever' = ever \/ Admits(e))
      BY <1>8, Zenon DEF AdmitLosesPower, Admits, Admission
    <2> QED
      BY <1>3, <1>8, <2>1, <2>2, HubKeeps, Zenon
  <1> QED
    BY <1>1, <1>4, <1>5, <1>6, <1>7, <1>8, Zenon

LEMMA CustodyInvNext == CustodyInv /\ [CustodyNext]_custodyVars => CustodyInv'
  <1> SUFFICES ASSUME CustodyInv, [CustodyNext]_custodyVars PROVE CustodyInv'
    OBVIOUS
  <1>1. CASE UNCHANGED custodyVars
    BY <1>1, InvIdle, Zenon DEF custodyVars, air
  <1>2. CASE Step
    <2>1. CASE \E s \in N!Slots : Transmit(s) \/ Timeout(s) \/ Expire(s) \/ Reclaim(s)
      <3>1. PICK s \in N!Slots : Transmit(s) \/ Timeout(s) \/ Expire(s) \/ Reclaim(s)
        BY <2>1, Zenon
      <3>2. CASE Expire(s)
        BY <3>2, InvAbandon, Zenon DEF Expire
      <3> QED
        BY <3>1, <3>2, InvTransmit, InvTimeout, InvReclaim, Zenon
    <2> QED
      BY <1>2, <2>1, InvNodeBoots, InvCreate, InvReceiveReply, InvReceiveEvent,
         InvHubBoots, InvHostConsumes, Zenon DEF Step
  <1> QED
    BY <1>1, <1>2, Zenon DEF CustodyNext

LEMMA CustodyInvInit == CustodyInit => CustodyInv
  <1> SUFFICES ASSUME CustodyInit PROVE CustodyInv
    OBVIOUS
  <1>1. LInv
    BY LInvInit, Zenon DEF CustodyInit
  <1>2. NP!SInv
    BY SameInit, NodeAssumption, NP!SInvInit, Zenon DEF CustodyInit
  <1>3. ever = {}
    BY Zenon DEF CustodyInit, Init
  <1> QED
    BY <1>1, <1>2, <1>3, Zenon
       DEF CustodyInit, CustodyInv, AirInv, EventSuits, RepliesTrue, AdmittedPast,
           AdmittedOnceInOrder, CreatedKept

LEMMA CustodyInvHolds == CustodySpec => []CustodyInv
  BY CustodyInvInit, CustodyInvNext, PTL DEF CustodySpec

-----------------------------------------------------------------------------
(* An event the Node reported ENQUEUED is never nowhere: queued on the      *)
(* Node, in the Hub's custody, asked for by the host, or given up as FAILED *)
(* or EXPIRED, for any number of faults, lost packets and reboots           *)
THEOREM EventNeverLost == CustodySpec => []EventIsSomewhere
  <1>1. CustodyInv => EventIsSomewhere
    <2> SUFFICES ASSUME CustodyInv, NEW e \in created, e \notin abandoned,
                        ~\E s \in N!Slots :
                            nodeCell[s].state = "QUEUED" /\ Sent(nodeCell[s]) = e
                 PROVE  \/ \E s \in Slots : cell[s].state = "ACTIVE" /\ Sent(cell[s]) = e
                        \/ \E p \in requested : Sent(p) = e
      BY Zenon DEF EventIsSomewhere
    <2>1. PICK p \in promised : Sent(p) = e
      BY SameConstants, Zenon DEF CustodyInv, CreatedKept, Kept
    <2>2. CASE p \in requested
      BY <2>1, <2>2, Zenon
    <2>3. CASE \E s \in Slots : cell[s] = Record("ACTIVE", p, p.ordinal)
      <3> DEFINE r == Record("ACTIVE", p, p.ordinal)
      <3>1. r.state = "ACTIVE" /\ r.epoch = p.epoch /\ r.id = p.id /\ r.content = p.content
        BY Zenon DEF Record
      <3>2. PICK s \in Slots : cell[s] = r
        BY <2>3, Zenon
      <3> HIDE DEF r
      <3>3. cell[s].state = "ACTIVE"
        BY <3>1, <3>2, Zenon
      <3>4. /\ cell[s].epoch = p.epoch /\ cell[s].id = p.id
            /\ cell[s].content = p.content
        BY <3>1, <3>2, Zenon
      <3>5. Sent(cell[s]) = Sent(p)
        BY <3>4, Zenon DEF Sent
      <3> QED
        BY <2>1, <3>3, <3>5, Zenon
    <2> QED
      BY <2>2, <2>3, Zenon DEF CustodyInv, LInv, FlashInv, AdmittedSurvives
  <1> QED
    BY <1>1, CustodyInvHolds, PTL

(* Each event enters the Hub's custody once, in the order of creation: a    *)
(* retransmission after a lost acknowledgment is a duplicate even when      *)
(* tombstones have been reused                                              *)
THEOREM AdmissionFollowsCreation == CustodySpec => []AdmittedOnceInOrder
  <1>1. CustodyInv => AdmittedOnceInOrder
    BY DEF CustodyInv, AirInv
  <1> QED
    BY <1>1, CustodyInvHolds, PTL
=============================================================================
