---------------------------- MODULE StorageProofs ----------------------------
(***************************************************************************)
(* Proofs about the two stores that keep a record in two copies.            *)
(*                                                                         *)
(* The event subsystem's (DualCopy): the A/B write discipline keeps exactly *)
(* one authoritative copy and implements an atomic durable cell, for every  *)
(* set of record contents and every generation width.                       *)
(*                                                                         *)
(* The settings' (DeviceSettings): a boot finds the settings last saved,    *)
(* whatever was cut or failed before, for every set of stored records and   *)
(* drafts and any number of faults, requests and power cuts.                *)
(***************************************************************************)
EXTENDS DualCopy, DeviceSettings, TLAPS

(***************************************************************************)
(* A record of the event subsystem                                          *)
(***************************************************************************)

(* The inductive invariant: a valid copy exists only together with a newest *)
(* one, one generation ahead of the other; in service the active copy is it *)
CopiesOrdered == \/ \E c \in CopySlot : Newest(copies, c)
                 \/ \A c \in CopySlot : ~Valid(copies[c])

ActiveNewest == mode = "READY" => /\ Newest(copies, activeCopy)
                                  /\ copies[activeCopy] = Encoded(record)

ViewOnlyInService == mode # "READY" => record = NoRecord

DInv == TypeOK /\ CopiesOrdered /\ ActiveNewest /\ ViewOnlyInService

-----------------------------------------------------------------------------

(* compareGenerations: a generation and its successor are ordered the right *)
(* way round, at the wrap too                                               *)
LEMMA SuccessorIsNewer ==
    ASSUME NEW g \in Generations
    PROVE  /\ NextGeneration(g) \in Generations
           /\ CompareGenerations(NextGeneration(g), g) = "LEFT_NEWER"
           /\ CompareGenerations(g, NextGeneration(g)) = "RIGHT_NEWER"
  <1>1. HalfRange \in Nat /\ HalfRange > 1
    BY HalfRangeAssumption
  <1>2. NextGeneration(g) \in Generations
    BY <1>1 DEF NextGeneration, Generations
  <1>3. NextGeneration(g) # g
    BY <1>1 DEF NextGeneration, Generations
  <1>4. Distance(NextGeneration(g), g) = 1
    BY <1>1 DEF NextGeneration, Generations, Distance
  <1>5. Distance(g, NextGeneration(g)) = 2 * HalfRange - 1
    BY <1>1 DEF NextGeneration, Generations, Distance
  <1>6. 1 < HalfRange /\ 1 # HalfRange
    BY <1>1
  <1>7. 2 * HalfRange - 1 # HalfRange /\ ~(2 * HalfRange - 1 < HalfRange)
    BY <1>1
  <1>8. CompareGenerations(NextGeneration(g), g) = "LEFT_NEWER"
    BY <1>3, <1>4, <1>6 DEF CompareGenerations
  <1>9. CompareGenerations(g, NextGeneration(g)) = "RIGHT_NEWER"
    BY <1>3, <1>5, <1>7 DEF CompareGenerations
  <1> QED
    BY <1>2, <1>8, <1>9

(* selectCopies picks the newest copy *)
LEMMA NewestIsSelected ==
    ASSUME NEW both \in [CopySlot -> Copy], NEW c \in CopySlot, Newest(both, c)
    PROVE  /\ SelectCopies(both).slot = c
           /\ SelectCopies(both).result \notin Unselected
  <1>1. CASE c = "A"
    <2>1. Valid(both["A"]) /\ Opposite(c) = "B"
      BY <1>1 DEF Newest, Opposite
    <2>2. CASE ~Valid(both["B"])
      BY <1>1, <2>1, <2>2 DEF SelectCopies, Unselected
    <2>3. CASE Valid(both["B"])
      <3>1. both["B"].generation \in Generations
        BY <2>3 DEF Valid, Copy, CopySlot, Missing, Torn
      <3>2. both["A"].generation = NextGeneration(both["B"].generation)
        BY <1>1, <2>1, <2>3 DEF Newest, Superseded
      <3>3. CompareGenerations(both["A"].generation, both["B"].generation)
              = "LEFT_NEWER"
        BY <3>1, <3>2, SuccessorIsNewer
      <3> QED
        BY <1>1, <2>1, <2>3, <3>3 DEF SelectCopies, Unselected
    <2> QED
      BY <2>2, <2>3
  <1>2. CASE c = "B"
    <2>1. Valid(both["B"]) /\ Opposite(c) = "A"
      BY <1>2 DEF Newest, Opposite
    <2>2. CASE ~Valid(both["A"])
      BY <1>2, <2>1, <2>2 DEF SelectCopies, Unselected
    <2>3. CASE Valid(both["A"])
      <3>1. both["A"].generation \in Generations
        BY <2>3 DEF Valid, Copy, CopySlot, Missing, Torn
      <3>2. both["B"].generation = NextGeneration(both["A"].generation)
        BY <1>2, <2>1, <2>3 DEF Newest, Superseded
      <3>3. CompareGenerations(both["A"].generation, both["B"].generation)
              = "RIGHT_NEWER"
        BY <3>1, <3>2, SuccessorIsNewer
      <3> QED
        BY <1>2, <2>1, <2>3, <3>3 DEF SelectCopies, Unselected
    <2> QED
      BY <2>2, <2>3
  <1> QED
    BY <1>1, <1>2 DEF CopySlot

-----------------------------------------------------------------------------

LEMMA DInvInit == Init => DInv
  <1> SUFFICES ASSUME Init PROVE DInv
    OBVIOUS
  <1>1. TypeOK
    BY HalfRangeAssumption
       DEF Init, TypeOK, Copy, NoRecord, Generations, CopySlot
  <1>2. CopiesOrdered
    BY DEF Init, CopiesOrdered, Valid, Missing, CopySlot
  <1> QED
    BY <1>1, <1>2 DEF Init, DInv, ActiveNewest, ViewOnlyInService

(* What a boot selects is the newest copy *)
LEMMA SelectedIsNewest ==
    ASSUME TypeOK, CopiesOrdered, Selection.result \notin Unselected
    PROVE  Selection.slot \in CopySlot /\ Newest(copies, Selection.slot)
  <1>1. CASE \E c \in CopySlot : Newest(copies, c)
    BY <1>1, NewestIsSelected DEF TypeOK, Selection
  <1>2. CASE \A c \in CopySlot : ~Valid(copies[c])
    <2>1. ~Valid(copies["A"]) /\ ~Valid(copies["B"])
      BY <1>2 DEF CopySlot
    <2>2. Selection.result = "BOTH_INVALID"
      BY <2>1 DEF Selection, SelectCopies
    <2> QED
      BY <2>2 DEF Unselected
  <1> QED
    BY <1>1, <1>2 DEF CopiesOrdered

(* Whatever an unverified write leaves in the inactive copy, a newest copy  *)
(* remains                                                                  *)
LEMMA LandingKeepsOrder ==
    ASSUME DInv, mode = "READY", NEW v \in Values,
           NEW left \in Landing(Target, NextRecord(v)),
           copies' = [copies EXCEPT ![Target] = left]
    PROVE  /\ copies' \in [CopySlot -> Copy]
           /\ CopiesOrdered'
           /\ left = Encoded(NextRecord(v)) => Newest(copies', Target)
           /\ left # Encoded(NextRecord(v)) => Newest(copies', activeCopy)
  <1>1. /\ activeCopy \in CopySlot /\ Target \in CopySlot
        /\ Target # activeCopy
        /\ Opposite(activeCopy) = Target /\ Opposite(Target) = activeCopy
    BY DEF DInv, TypeOK, Target, Opposite, CopySlot
  <1>2. /\ copies[activeCopy] = Encoded(record)
        /\ Newest(copies, activeCopy)
    BY DEF DInv, ActiveNewest
  <1>3. record.generation \in Generations
    BY DEF DInv, TypeOK
  <1>4. NextGeneration(record.generation) \in Generations
    BY <1>3, SuccessorIsNewer
  <1>5. Encoded(NextRecord(v)) \in Copy /\ Torn \in Copy
    BY <1>4 DEF Encoded, NextRecord, Copy
  <1>6. copies \in [CopySlot -> Copy]
    BY DEF DInv, TypeOK
  <1>7. left \in Copy
    BY <1>1, <1>5, <1>6 DEF Landing
  <1>8. copies' \in [CopySlot -> Copy]
    BY <1>6, <1>7, <1>1
  <1>9. copies'[Target] = left /\ copies'[activeCopy] = Encoded(record)
    BY <1>1, <1>2, <1>6
  <1>10. ASSUME left = Encoded(NextRecord(v))
         PROVE  Newest(copies', Target)
    BY <1>1, <1>9, <1>10
       DEF Newest, Superseded, Valid, Encoded, NextRecord
  <1>11. ASSUME left # Encoded(NextRecord(v))
         PROVE  Newest(copies', activeCopy)
    <2>1. left = copies[Target] \/ left = Torn
      BY <1>11 DEF Landing
    <2>2. CASE left = Torn
      BY <2>2, <1>1, <1>2, <1>9 DEF Newest, Superseded, Valid, Torn, Encoded
    <2>3. CASE left = copies[Target]
      BY <2>3, <1>1, <1>2, <1>9 DEF Newest, Superseded
    <2> QED
      BY <2>1, <2>2, <2>3
  <1>12. CopiesOrdered'
    BY <1>1, <1>10, <1>11 DEF CopiesOrdered
  <1> QED
    BY <1>8, <1>10, <1>11, <1>12

-----------------------------------------------------------------------------

LEMMA ForgetType == Forget => /\ record' = NoRecord
                              /\ record' \in [generation : Generations,
                                              value : Values \cup {NoValue}]
                              /\ activeCopy' \in CopySlot
  BY HalfRangeAssumption DEF Forget, NoRecord, Generations, CopySlot

LEMMA DInvRecoverSelected == DInv /\ RecoverSelected => DInv'
  <1> SUFFICES ASSUME DInv, RecoverSelected PROVE DInv'
    OBVIOUS
  <1> DEFINE c == Selection.slot
  <1>1. c \in CopySlot /\ Newest(copies, c)
    BY SelectedIsNewest DEF DInv, RecoverSelected, Selection
  <1>2. copies[c] \in [status : {"OK"}, generation : Generations, value : Values]
    BY <1>1 DEF DInv, TypeOK, Copy, Newest, Valid, Missing, Torn
  <1>3. /\ record' = [generation |-> copies[c].generation,
                      value |-> copies[c].value]
        /\ activeCopy' = c /\ mode' = "READY" /\ copies' = copies
    BY DEF RecoverSelected, Selection
  <1> HIDE DEF c
  <1>4. Encoded(record)' = copies[c]
    BY <1>2, <1>3 DEF Encoded
  <1>5. TypeOK'
    BY <1>1, <1>2, <1>3 DEF DInv, TypeOK
  <1>6. CopiesOrdered'
    BY <1>3 DEF DInv, CopiesOrdered
  <1> QED
    BY <1>1, <1>3, <1>4, <1>5, <1>6
       DEF DInv, ActiveNewest, ViewOnlyInService

LEMMA DInvCommitInitial == DInv /\ CommitInitial => DInv'
  <1> SUFFICES ASSUME DInv, CommitInitial PROVE DInv'
    OBVIOUS
  <1>1. 1 \in Generations
    BY HalfRangeAssumption DEF Generations
  <1>2. /\ InitialRecord \in [generation : Generations, value : Values]
        /\ Encoded(InitialRecord) \in Copy
    BY <1>1, InitialAssumption DEF InitialRecord, Encoded, Copy
  <1>3. copies \in [CopySlot -> Copy] /\ "A" \in CopySlot /\ "B" \in CopySlot
    BY DEF DInv, TypeOK, CopySlot
  <1>4. /\ copies'["A"] = Encoded(InitialRecord) /\ copies'["B"] = Missing
        /\ copies' \in [CopySlot -> Copy]
        /\ record' = InitialRecord /\ activeCopy' = "A" /\ mode' = "READY"
    BY <1>2, <1>3 DEF CommitInitial, BothMissing
  <1>5. Newest(copies', "A")
    BY <1>4 DEF Newest, Superseded, Valid, Encoded, Missing, Opposite
  <1>6. TypeOK'
    BY <1>2, <1>3, <1>4 DEF TypeOK
  <1>7. Encoded(record)' = Encoded(InitialRecord)
    BY <1>4 DEF Encoded
  <1> QED
    BY <1>3, <1>4, <1>5, <1>6, <1>7
       DEF DInv, CopiesOrdered, ActiveNewest, ViewOnlyInService

LEMMA DInvCommitInitialFails == DInv /\ CommitInitialFails => DInv'
  <1> SUFFICES ASSUME DInv, CommitInitialFails PROVE DInv'
    OBVIOUS
  <1>1. 1 \in Generations
    BY HalfRangeAssumption DEF Generations
  <1>2. Encoded(InitialRecord) \in Copy /\ Torn \in Copy /\ Missing \in Copy
    BY <1>1, InitialAssumption DEF InitialRecord, Encoded, Copy
  <1>3. copies \in [CopySlot -> Copy] /\ "A" \in CopySlot /\ "B" \in CopySlot
    BY DEF DInv, TypeOK, CopySlot
  <1>4. PICK left \in Landing("A", InitialRecord) :
             copies' = [copies EXCEPT !["A"] = left]
    BY Zenon DEF CommitInitialFails
  <1>5. left \in {Missing, Torn, Encoded(InitialRecord)}
    BY <1>3 DEF Landing, CommitInitialFails, BothMissing
  <1>6. /\ copies'["A"] = left /\ copies'["B"] = Missing
        /\ copies' \in [CopySlot -> Copy]
    BY <1>2, <1>3, <1>4, <1>5 DEF CommitInitialFails, BothMissing
  <1>7. CopiesOrdered'
    <2>1. CASE left = Encoded(InitialRecord)
      <3>1. Newest(copies', "A")
        BY <2>1, <1>6 DEF Newest, Superseded, Valid, Encoded, Missing, Opposite
      <3> QED
        BY <3>1, <1>3 DEF CopiesOrdered
    <2>2. CASE left \in {Missing, Torn}
      BY <2>2, <1>6 DEF CopiesOrdered, Valid, Missing, Torn, CopySlot
    <2> QED
      BY <1>5, <2>1, <2>2
  <1>8. TypeOK'
    BY <1>6, ForgetType DEF TypeOK, CommitInitialFails
  <1> QED
    BY <1>7, <1>8, ForgetType
       DEF DInv, ActiveNewest, ViewOnlyInService, CommitInitialFails

LEMMA DInvCommitMutation ==
    ASSUME DInv, NEW v \in Values, CommitMutation(v)
    PROVE  DInv'
  <1> DEFINE next == NextRecord(v)
  <1>1. /\ mode = "READY" /\ mode' = "READY"
        /\ copies' = [copies EXCEPT ![Target] = Encoded(next)]
        /\ record' = next /\ activeCopy' = Target
    BY DEF CommitMutation
  <1>2. Encoded(next) \in Landing(Target, next)
    BY DEF Landing
  <1>3. copies' \in [CopySlot -> Copy] /\ CopiesOrdered' /\ Newest(copies', Target)
    BY <1>1, <1>2, LandingKeepsOrder, Zenon
  <1>4. Target \in CopySlot
    BY DEF Target, Opposite, CopySlot
  <1>5. next \in [generation : Generations, value : Values]
    BY SuccessorIsNewer DEF DInv, TypeOK, NextRecord
  <1>6. TypeOK'
    BY <1>1, <1>3, <1>4, <1>5 DEF TypeOK
  <1>7. copies'[Target] = Encoded(next)
    BY <1>1, <1>4 DEF DInv, TypeOK
  <1>8. Encoded(record)' = Encoded(next)
    BY <1>1 DEF Encoded
  <1> HIDE DEF next
  <1> QED
    BY <1>1, <1>3, <1>6, <1>7, <1>8 DEF DInv, ActiveNewest, ViewOnlyInService

LEMMA DInvCommitMutationFails ==
    ASSUME DInv, NEW v \in Values, CommitMutationFails(v)
    PROVE  DInv'
  <1>1. PICK left \in Landing(Target, NextRecord(v)) :
             copies' = [copies EXCEPT ![Target] = left]
    BY Zenon DEF CommitMutationFails
  <1>2. copies' \in [CopySlot -> Copy] /\ CopiesOrdered'
    BY <1>1, LandingKeepsOrder, Zenon DEF CommitMutationFails
  <1>3. TypeOK'
    BY <1>2, ForgetType DEF TypeOK, CommitMutationFails
  <1> QED
    BY <1>2, <1>3, ForgetType
       DEF DInv, ActiveNewest, ViewOnlyInService, CommitMutationFails

LEMMA DInvNext == DInv /\ [Next]_vars => DInv'
  <1> SUFFICES ASSUME DInv, [Next]_vars PROVE DInv'
    OBVIOUS
  <1>1. CASE RecoverSelected
    BY <1>1, DInvRecoverSelected
  <1>2. CASE RecoverFails \/ PowerLoss
    BY <1>2, ForgetType
       DEF RecoverFails, PowerLoss, DInv, TypeOK, CopiesOrdered, ActiveNewest,
           ViewOnlyInService
  <1>3. CASE CommitInitial
    BY <1>3, DInvCommitInitial
  <1>4. CASE CommitInitialFails
    BY <1>4, DInvCommitInitialFails
  <1>5. ASSUME NEW v \in Values, CommitMutation(v)
        PROVE  DInv'
    BY <1>5, DInvCommitMutation
  <1>6. ASSUME NEW v \in Values, CommitMutationFails(v)
        PROVE  DInv'
    BY <1>6, DInvCommitMutationFails
  <1>7. CASE UNCHANGED vars
    BY <1>7 DEF vars, DInv, TypeOK, CopiesOrdered, ActiveNewest,
                ViewOnlyInService
  <1> QED
    BY <1>1, <1>2, <1>3, <1>4, <1>5, <1>6, <1>7 DEF Next

LEMMA DInvHolds == Spec => []DInv
  BY DInvInit, DInvNext, PTL DEF Spec

(* Every reachable flash and RAM state has its declared shape *)
THEOREM TypeCorrect == Spec => []TypeOK
  <1>1. DInv => TypeOK
    BY DEF DInv
  <1> QED
    BY <1>1, DInvHolds, PTL

(* A valid copy is enough for recover, and only a valid copy is *)
LEMMA RecoverableIsValid ==
    ASSUME DInv
    PROVE  Recoverable <=> \E c \in CopySlot : Valid(copies[c])
  <1>1. ASSUME Recoverable PROVE \E c \in CopySlot : Valid(copies[c])
    BY <1>1, SelectedIsNewest DEF DInv, Recoverable, Newest
  <1>2. ASSUME \E c \in CopySlot : Valid(copies[c]) PROVE Recoverable
    BY <1>2, NewestIsSelected
       DEF DInv, TypeOK, CopiesOrdered, Recoverable, Selection
  <1> QED
    BY <1>1, <1>2

LEMMA StepKeepsRecord == DInv /\ DInv' /\ [Next]_vars => (Recoverable => Recoverable')
  <1> SUFFICES ASSUME DInv, DInv', [Next]_vars, Recoverable PROVE Recoverable'
    OBVIOUS
  <1>1. \E c \in CopySlot : Valid(copies[c])
    BY RecoverableIsValid
  <1>2. ~BothMissing
    BY <1>1 DEF BothMissing, Valid, Missing
  <1>3. ASSUME \E c \in CopySlot : Newest(copies', c) PROVE Recoverable'
    BY <1>3, NewestIsSelected DEF DInv, TypeOK, Recoverable, Selection
  <1>4. CASE UNCHANGED copies
    BY <1>4 DEF Recoverable, Selection
  <1>5. ASSUME NEW v \in Values, CommitMutation(v)
        PROVE  Recoverable'
    BY <1>3, <1>5 DEF CommitMutation, DInv, ActiveNewest, TypeOK
  <1>6. ASSUME NEW v \in Values, CommitMutationFails(v)
        PROVE  Recoverable'
    <2>1. PICK left \in Landing(Target, NextRecord(v)) :
               copies' = [copies EXCEPT ![Target] = left]
      BY <1>6, Zenon DEF CommitMutationFails
    <2>2. Newest(copies', Target) \/ Newest(copies', activeCopy)
      BY <1>6, <2>1, LandingKeepsOrder, Zenon DEF CommitMutationFails
    <2>3. Target \in CopySlot /\ activeCopy \in CopySlot
      BY DEF DInv, TypeOK, Target, Opposite, CopySlot
    <2> QED
      BY <1>3, <2>2, <2>3
  <1> QED
    BY <1>2, <1>4, <1>5, <1>6
       DEF Next, RecoverSelected, RecoverFails, CommitInitial,
           CommitInitialFails, PowerLoss, vars

(* Once a record is committed recover finds an authoritative copy of it,    *)
(* whatever writes are torn, fail or lose power from then on                *)
THEOREM RecordNeverLost == Spec => AlwaysRecoverable
  <1>1. DInv /\ DInv' /\ [Next]_vars => [Recoverable => Recoverable']_vars
    BY StepKeepsRecord
  <1> QED
    BY <1>1, DInvHolds, PTL DEF Spec, AlwaysRecoverable

(* commitMutation never writes over the copy a reboot would select *)
THEOREM ViewMatchesFlash == Spec => []ViewIsAuthoritative
  <1>1. DInv => ViewIsAuthoritative
    BY NewestIsSelected
       DEF DInv, TypeOK, ActiveNewest, ViewIsAuthoritative, Selection
  <1> QED
    BY <1>1, DInvHolds, PTL

-----------------------------------------------------------------------------

HeldCell(v) == [state |-> "HELD", value |-> v]

(* Only one copy is the newest *)
LEMMA NewestIsUnique ==
    ASSUME NEW both \in [CopySlot -> Copy], NEW c \in CopySlot, Newest(both, c)
    PROVE  c = CHOOSE d \in CopySlot : Newest(both, d)
  <1> DEFINE d == CHOOSE x \in CopySlot : Newest(both, x)
  <1>1. d \in CopySlot /\ Newest(both, d)
    OBVIOUS
  <1> HIDE DEF d
  <1>2. SelectCopies(both).slot = d
    BY <1>1, NewestIsSelected
  <1>3. SelectCopies(both).slot = c
    BY NewestIsSelected
  <1>4. c = d
    BY <1>2, <1>3
  <1> QED
    BY <1>4 DEF d

(* The abstract cell shows the newest copy, and nothing when none is valid *)
LEMMA AbstractNewest ==
    ASSUME TypeOK, NEW c \in CopySlot, Newest(copies, c)
    PROVE  AbstractCell = HeldCell(copies[c].value)
  BY NewestIsUnique, Zenon DEF TypeOK, AbstractCell, HeldCell

LEMMA AbstractNewestNext ==
    ASSUME TypeOK', NEW c \in CopySlot, Newest(copies', c)
    PROVE  AbstractCell' = HeldCell(copies'[c].value)
  <1>1. copies' \in [CopySlot -> Copy]
    BY DEF TypeOK
  <1>2. c = CHOOSE d \in CopySlot : Newest(copies', d)
    BY <1>1, NewestIsUnique
  <1> QED
    BY <1>2, Zenon DEF AbstractCell, HeldCell

LEMMA AbstractBlank == ASSUME BothMissing PROVE AbstractCell = Cell!Blank
  BY DEF BothMissing, AbstractCell, Newest, Valid, Missing, CopySlot,
         Cell!Blank

LEMMA InitRefines == Init => Cell!CellInit
  <1> SUFFICES ASSUME Init PROVE Cell!CellInit
    OBVIOUS
  <1>1. BothMissing
    BY DEF Init, BothMissing
  <1> QED
    BY <1>1, AbstractBlank DEF Init, NoRecord, Cell!CellInit

LEMMA LoadRefines == DInv /\ DInv' /\ RecoverSelected => Cell!Load
  <1> SUFFICES ASSUME DInv, RecoverSelected PROVE Cell!Load
    OBVIOUS
  <1>1. AbstractCell = HeldCell(copies[Selection.slot].value)
    BY SelectedIsNewest, AbstractNewest DEF DInv, RecoverSelected, Selection
  <1>2. record'.value = copies[Selection.slot].value
    BY DEF RecoverSelected, Selection
  <1>3. AbstractCell' = AbstractCell
    BY Zenon DEF RecoverSelected, AbstractCell, BothMissing
  <1> QED
    BY <1>1, <1>2, <1>3
       DEF RecoverSelected, HeldCell, Cell!Load, Cell!Held

LEMMA FormatRefines == DInv /\ DInv' /\ CommitInitial => Cell!Format
  <1> SUFFICES ASSUME DInv, DInv', CommitInitial PROVE Cell!Format
    OBVIOUS
  <1>1. AbstractCell = Cell!Blank
    BY AbstractBlank DEF CommitInitial
  <1>2. mode' = "READY" /\ record' = InitialRecord
    BY DEF CommitInitial
  <1>3. Newest(copies', activeCopy') /\ copies'[activeCopy'] = Encoded(record')
    BY <1>2 DEF DInv, ActiveNewest, Encoded
  <1>4. AbstractCell' = HeldCell(Initial)
    BY <1>2, <1>3, AbstractNewestNext
       DEF DInv, TypeOK, Encoded, InitialRecord
  <1> QED
    BY <1>1, <1>2, <1>4
       DEF CommitInitial, InitialRecord, HeldCell, Cell!Format, Cell!Holding

LEMMA FormatFailsRefines ==
    DInv /\ DInv' /\ CommitInitialFails => Cell!FormatFails
  <1> SUFFICES ASSUME DInv, DInv', CommitInitialFails PROVE Cell!FormatFails
    OBVIOUS
  <1>1. AbstractCell = Cell!Blank
    BY AbstractBlank DEF CommitInitialFails
  <1>2. PICK left \in Landing("A", InitialRecord) :
             copies' = [copies EXCEPT !["A"] = left]
    BY Zenon DEF CommitInitialFails
  <1>3. /\ left \in {Missing, Torn, Encoded(InitialRecord)}
        /\ copies'["A"] = left /\ copies'["B"] = Missing
    BY <1>2 DEF Landing, CommitInitialFails, BothMissing, DInv, TypeOK, CopySlot
  <1>4. AbstractCell' \in {Cell!Blank,
                           [Cell!Blank EXCEPT !.state = "INVALID"],
                           Cell!Holding(Initial)}
    <2>1. CASE left = Missing
      BY <2>1, <1>3
         DEF AbstractCell, Newest, Valid, Missing, CopySlot, BothMissing,
             Cell!Blank
    <2>2. CASE left = Torn
      <3>1. ~Valid(copies'["A"]) /\ ~Valid(copies'["B"])
        BY <2>2, <1>3 DEF Valid, Torn, Missing
      <3>2. ~\E c \in CopySlot : Newest(copies', c)
        BY <3>1 DEF Newest, CopySlot
      <3>3. ~BothMissing'
        BY <2>2, <1>3 DEF BothMissing, Torn, Missing, CopySlot
      <3>4. AbstractCell' = [state |-> "INVALID", value |-> NoValue]
        BY <3>2, <3>3 DEF AbstractCell
      <3> QED
        BY <3>4 DEF Cell!Blank
    <2>3. CASE left = Encoded(InitialRecord)
      <3>1. Newest(copies', "A")
        BY <2>3, <1>3 DEF Newest, Superseded, Valid, Encoded, Missing, Opposite
      <3>2. AbstractCell' = HeldCell(Initial)
        BY <2>3, <1>3, <3>1, AbstractNewestNext
           DEF DInv, CopySlot, Encoded, InitialRecord
      <3> QED
        BY <3>2 DEF HeldCell, Cell!Holding
    <2> QED
      BY <1>3, <2>1, <2>2, <2>3
  <1>5. AbstractCell' \in Cell!InDoubt(AbstractCell, Cell!Holding(Initial))
    BY <1>1, <1>4 DEF Cell!InDoubt, Cell!Held, Cell!Blank
  <1>6. record'.value = record.value
    BY ForgetType DEF DInv, ViewOnlyInService, CommitInitialFails
  <1> QED
    BY <1>1, <1>5, <1>6 DEF CommitInitialFails, Cell!FormatFails

LEMMA PutRefines ==
    ASSUME DInv, DInv', NEW v \in Values, CommitMutation(v)
    PROVE  Cell!Put(v)
  <1>1. mode = "READY" /\ mode' = mode /\ record' = NextRecord(v)
    BY DEF CommitMutation
  <1>2. Newest(copies', activeCopy') /\ copies'[activeCopy'] = Encoded(record')
    BY <1>1 DEF DInv, ActiveNewest, Encoded
  <1>3. AbstractCell' = HeldCell(v)
    BY <1>1, <1>2, AbstractNewestNext DEF DInv, TypeOK, Encoded, NextRecord
  <1> QED
    BY <1>1, <1>3 DEF NextRecord, HeldCell, Cell!Put, Cell!Holding

LEMMA PutFailsRefines ==
    ASSUME DInv, DInv', NEW v \in Values, CommitMutationFails(v)
    PROVE  Cell!PutFails(v)
  <1>1. PICK left \in Landing(Target, NextRecord(v)) :
             copies' = [copies EXCEPT ![Target] = left]
    BY Zenon DEF CommitMutationFails
  <1>2. /\ mode = "READY" /\ mode' \in {"OFF", "DEGRADED"}
        /\ record'.value = NoValue
    BY DEF CommitMutationFails, Forget, NoRecord
  <1>3. /\ left = Encoded(NextRecord(v)) => Newest(copies', Target)
        /\ left # Encoded(NextRecord(v)) => Newest(copies', activeCopy)
    BY <1>1, <1>2, LandingKeepsOrder, Zenon
  <1>4. /\ activeCopy \in CopySlot /\ Target \in CopySlot
        /\ Target # activeCopy
    BY DEF DInv, TypeOK, Target, Opposite, CopySlot
  <1>5. /\ copies'[Target] = left
        /\ copies'[activeCopy] = copies[activeCopy]
    BY <1>1, <1>4 DEF DInv, TypeOK
  <1>6. AbstractCell = HeldCell(copies[activeCopy].value)
    BY <1>2, <1>4, AbstractNewest DEF DInv, ActiveNewest
  <1>7. AbstractCell' \in {AbstractCell, Cell!Holding(v)}
    <2>1. CASE left = Encoded(NextRecord(v))
      BY <2>1, <1>3, <1>4, <1>5, AbstractNewestNext
         DEF DInv, Encoded, NextRecord, HeldCell, Cell!Holding
    <2>2. CASE left # Encoded(NextRecord(v))
      BY <2>2, <1>3, <1>4, <1>5, <1>6, AbstractNewestNext, Zenon DEF DInv
    <2> QED
      BY <2>1, <2>2
  <1>8. AbstractCell' \in Cell!InDoubt(AbstractCell, Cell!Holding(v))
    BY <1>6, <1>7 DEF Cell!InDoubt, Cell!Held, HeldCell
  <1> QED
    BY <1>2, <1>8 DEF Cell!PutFails

LEMMA StepRefines == DInv /\ DInv' /\ [Next]_vars => [Cell!CellNext]_Cell!cellVars
  <1> SUFFICES ASSUME DInv, DInv', [Next]_vars
               PROVE  [Cell!CellNext]_Cell!cellVars
    OBVIOUS
  <1>1. CASE RecoverSelected
    BY <1>1, LoadRefines DEF Cell!CellNext
  <1>2. CASE RecoverFails
    <2>1. AbstractCell' = AbstractCell
      BY <1>2 DEF RecoverFails, AbstractCell, BothMissing
    <2>2. record'.value = record.value
      BY <1>2, ForgetType DEF RecoverFails, DInv, ViewOnlyInService
    <2>3. Cell!LoadFails
      BY <1>2, <2>1, <2>2 DEF RecoverFails, Cell!LoadFails
    <2> QED
      BY <2>3 DEF Cell!CellNext
  <1>3. CASE CommitInitial
    BY <1>3, FormatRefines DEF Cell!CellNext
  <1>4. CASE CommitInitialFails
    BY <1>4, FormatFailsRefines DEF Cell!CellNext
  <1>5. ASSUME NEW v \in Values, CommitMutation(v)
        PROVE  [Cell!CellNext]_Cell!cellVars
    BY <1>5, PutRefines DEF Cell!CellNext
  <1>6. ASSUME NEW v \in Values, CommitMutationFails(v)
        PROVE  [Cell!CellNext]_Cell!cellVars
    BY <1>6, PutFailsRefines DEF Cell!CellNext
  <1>7. CASE PowerLoss
    <2>1. AbstractCell' = AbstractCell
      BY <1>7 DEF PowerLoss, AbstractCell, BothMissing
    <2>2. Cell!Stop
      BY <1>7, <2>1 DEF PowerLoss, Forget, NoRecord, Cell!Stop
    <2> QED
      BY <2>2 DEF Cell!CellNext
  <1>8. CASE UNCHANGED vars
    BY <1>8 DEF vars, AbstractCell, BothMissing, Cell!cellVars
  <1> QED
    BY <1>1, <1>2, <1>3, <1>4, <1>5, <1>6, <1>7, <1>8 DEF Next

(* The A/B copies with their read-back and re-selection implement an atomic *)
(* durable cell, so the stores above may be modelled over such cells        *)
THEOREM DualCopyImplementsAtomicCell == Spec => ImplementsAtomicCell
  <1>1. Spec => Cell!CellInit
    BY InitRefines DEF Spec
  <1>2. Spec => [][Cell!CellNext]_Cell!cellVars
    BY DInvHolds, StepRefines, PTL DEF Spec
  <1> QED
    BY <1>1, <1>2 DEF ImplementsAtomicCell, Cell!CellSpec

(***************************************************************************)
(* The settings: what a boot finds in the slots, whatever happened before.  *)
(***************************************************************************)

(* What can run: stored settings and drafts, repaired *)
Runnable == {ValidateAndRepair(s) : s \in Stored \cup Drafts}

SlotRecord == [status : {"RECORD"}, generation : Generations, settings : Stored \cup Runnable]

SlotContents == {MissingSlot, Corrupt, Unsupported} \cup SlotRecord

Managers == [settings : Runnable, generation : Generations, active : CopySlot \cup {"NONE"},
             repair : BOOLEAN, unsupported : SUBSET CopySlot]

SettingsTypes ==
    /\ slots \in [CopySlot -> SlotContents] /\ marker \in BOOLEAN
    /\ manager \in Managers /\ current \in Runnable
    /\ queue \in [pending : {"NONE", "REPAIR", "SAVE", "RESET"}, draft : Drafts]
    /\ status \in Statuses
    /\ pc \in {"OFF", "IDLE", "REMOVE_A", "REMOVE_B", "WRITE_DEFAULTS", "REMOVE_MARKER"}
    /\ committed \in Runnable /\ attempted \in SUBSET Runnable
    /\ repairs \in Nat /\ blind \in BOOLEAN

(* A reset runs under its marker, and has done what comes before its step *)
ResetProgress ==
    /\ pc \notin {"OFF", "IDLE"} => marker
    /\ pc \in {"REMOVE_B", "WRITE_DEFAULTS"} => slots["A"] = MissingSlot
    /\ pc = "WRITE_DEFAULTS" => slots["B"] = MissingSlot
    /\ pc = "REMOVE_MARKER" => slots = Canonical

ManagerShape ==
    /\ manager.active = "NONE" => manager.generation = 0
    /\ manager.active \notin manager.unsupported

(* A repair is queued by the load of a boot only *)
RepairedOnce ==
    /\ repairs <= 1 /\ (repairs = 1 => queue.pending # "REPAIR")
    /\ pc = "OFF" => repairs = 0 /\ queue = EmptyQueue(Defaults)
    /\ pc \notin {"OFF", "IDLE"} => queue.pending # "REPAIR"

OtherSchemas(both) == {s \in CopySlot : both[s] = Unsupported}

(* The record of slot s stands against what the other slot holds *)
Prevails(both, s) ==
    Usable(both[Opposite(s)]) =>
        \/ both[Opposite(s)] = both[s] /\ s = "A"
        \/ GenerationIsNewer(both[s].generation, both[Opposite(s)].generation)

(* A record that a save wrote before it failed *)
Unfinished(r, m, tried) ==
    Usable(r) /\ r.generation = NextGeneration(m.generation) /\ r.settings \in tried

(* m is what load makes of slot s *)
TakenFrom(both, s, m) ==
    /\ Usable(both[s])
    /\ m.active = s /\ m.generation = both[s].generation
    /\ m.settings = ValidateAndRepair(both[s].settings)
    /\ m.unsupported = OtherSchemas(both)

(* The manager uses a slot; the other one is older, or a failed save's *)
InUse(both, m, saved, tried) ==
    /\ m.active # "NONE" /\ TakenFrom(both, m.active, m) /\ m.settings = saved
    /\ Prevails(both, m.active) \/ Unfinished(both[Opposite(m.active)], m, tried)

(* The manager found no record; slot A may hold a failed save's *)
NoneInUse(both, m, saved, tried) ==
    /\ m.active = "NONE" /\ m.settings = Defaults /\ saved = Defaults
    /\ m.unsupported = OtherSchemas(both)
    /\ ~Usable(both["B"])
    /\ Usable(both["A"]) => Unfinished(both["A"], m, tried)

(* The marker went, but the call that removed it failed: the manager counts *)
(* on from its old generation, past that of the canonical record            *)
ResetUnnoticed(both, m, tried) ==
    /\ m.active # "NONE" /\ Defaults \in tried
    /\ GenerationIsNewer(NextGeneration(m.generation), 1)
    /\ m.active = "A" => both["A"] = Record(1, Defaults)
    /\ m.active = "B" => both["B"] = MissingSlot
    /\ LET other == both[Opposite(m.active)]
       IN  \/ other \in {MissingSlot, Corrupt}
           \/ m.active = "B" /\ other = Record(1, Defaults)
           \/ Unfinished(other, m, tried)

InStep(both, m, saved, tried) ==
    \/ InUse(both, m, saved, tried)
    \/ NoneInUse(both, m, saved, tried)
    \/ ResetUnnoticed(both, m, tried)

BootIsSafe(both, saved, tried) ==
    LoadSlots(both).manager.settings \in {saved} \cup tried

SlotsInStep ==
    ~marker /\ ~blind =>
        /\ pc = "OFF" => BootIsSafe(slots, committed, attempted)
        /\ pc = "IDLE" => InStep(slots, manager, committed, attempted)

SettingsInv == SettingsTypes /\ ResetProgress /\ ManagerShape /\ RepairedOnce /\ SlotsInStep

-----------------------------------------------------------------------------

(* generationIsNewer: a successor is newer, also at the wrap, and of two    *)
(* generations at most one is newer                                         *)
LEMMA NewerSuccessor ==
    ASSUME NEW g \in Generations
    PROVE  /\ NextGeneration(g) \in Generations /\ NextGeneration(g) # g
           /\ GenerationIsNewer(NextGeneration(g), g)
  <1>1. HalfRange \in Nat /\ HalfRange > 1
    BY HalfRangeAssumption
  <1>2. NextGeneration(g) \in Generations /\ NextGeneration(g) # g
    BY <1>1 DEF NextGeneration, Generations
  <1>3. Distance(NextGeneration(g), g) = 1
    BY <1>1 DEF NextGeneration, Generations, Distance
  <1> QED
    BY <1>1, <1>2, <1>3 DEF GenerationIsNewer

LEMMA NewerOneWay ==
    ASSUME NEW g \in Generations, NEW h \in Generations, GenerationIsNewer(g, h)
    PROVE  g # h /\ ~GenerationIsNewer(h, g)
  <1>1. HalfRange \in Nat /\ HalfRange > 1
    BY HalfRangeAssumption
  <1> QED
    BY <1>1 DEF GenerationIsNewer, Distance, Generations

(* isValid holds of what validateAndRepair returns, which it leaves alone *)
LEMMA Repaired ==
    ASSUME NEW s
    PROVE  /\ IsValid(ValidateAndRepair(s))
           /\ ValidateAndRepair(ValidateAndRepair(s)) = ValidateAndRepair(s)
  <1>1. IsValidTimeout(Defaults.timeout) /\ IsValidContrast(Defaults.contrast)
    BY DEF IsValidTimeout, IsValidContrast, Defaults
  <1>2. /\ IsValidTimeout(ValidateAndRepair(s).timeout)
        /\ IsValidContrast(ValidateAndRepair(s).contrast)
    BY <1>1 DEF ValidateAndRepair
  <1> QED
    BY <1>2, Zenon DEF ValidateAndRepair, IsValid

LEMMA RunnableFacts ==
    /\ Defaults \in Runnable /\ Defaults \in Drafts
    /\ \A s \in Runnable : IsValid(s) /\ ValidateAndRepair(s) = s
    /\ \A s \in Stored \cup Drafts \cup Runnable : ValidateAndRepair(s) \in Runnable
  <1>1. \A s \in Runnable : IsValid(s) /\ ValidateAndRepair(s) = s
    BY Repaired DEF Runnable
  <1>2. Defaults \in Drafts
    BY SettingsAssumption
  <1>3. ValidateAndRepair(Defaults) = Defaults
    BY DEF ValidateAndRepair, Defaults
  <1>4. Defaults \in Runnable
    BY <1>2, <1>3 DEF Runnable
  <1>5. \A s \in Stored \cup Drafts \cup Runnable : ValidateAndRepair(s) \in Runnable
    BY <1>1 DEF Runnable
  <1> QED
    BY <1>1, <1>2, <1>4, <1>5

-----------------------------------------------------------------------------
(* load *)

LEMMA SlotForms ==
    ASSUME NEW both \in [CopySlot -> SlotContents], NEW s \in CopySlot
    PROVE  /\ Opposite(s) \in CopySlot /\ Opposite(Opposite(s)) = s /\ Opposite(s) # s
           /\ Usable(both[s]) => both[s] \in SlotRecord
           /\ ~Usable(both[s]) => both[s] \in {MissingSlot, Corrupt, Unsupported}
           /\ ~Usable(MissingSlot) /\ ~Usable(Corrupt) /\ ~Usable(Unsupported)
           /\ MissingSlot # Corrupt /\ MissingSlot # Unsupported /\ Corrupt # Unsupported
  <1>1. Opposite(s) \in CopySlot /\ Opposite(Opposite(s)) = s /\ Opposite(s) # s
    BY DEF Opposite, CopySlot
  <1>2. /\ MissingSlot.status = "MISSING" /\ Corrupt.status = "CORRUPT"
        /\ Unsupported.status = "UNSUPPORTED"
    BY DEF MissingSlot, Corrupt, Unsupported
  <1>3. \A r \in SlotRecord : r.status = "RECORD"
    BY DEF SlotRecord
  <1>4. both[s] \in SlotContents
    OBVIOUS
  <1> QED
    BY <1>1, <1>2, <1>3, <1>4 DEF Usable, SlotContents

(* applySelected *)
LEMMA Applied ==
    ASSUME NEW m \in Managers, NEW s \in CopySlot, NEW r \in SlotRecord,
           NEW fallback \in BOOLEAN
    PROVE  LET l == ApplySelected(m, s, r, fallback)
           IN  /\ l.manager \in Managers /\ l.result \in Statuses
               /\ l.manager.active = s /\ l.manager.generation = r.generation
               /\ l.manager.settings = ValidateAndRepair(r.settings)
               /\ l.manager.unsupported = m.unsupported
  <1>1. r.generation \in Generations /\ r.settings \in Stored \cup Runnable
    BY DEF SlotRecord
  <1>2. ValidateAndRepair(r.settings) \in Runnable
    BY <1>1, RunnableFacts
  <1>3. (~IsValid(r.settings) \/ fallback) \in BOOLEAN
    OBVIOUS
  <1> QED
    BY <1>1, <1>2, <1>3, Zenon DEF ApplySelected, Loaded, Managers, Statuses

LEMMA FreshManagers ==
    ASSUME NEW both \in [CopySlot -> SlotContents], NEW repair \in BOOLEAN
    PROVE  LET m == [FreshManager EXCEPT !.unsupported = OtherSchemas(both)]
               n == [m EXCEPT !.repair = repair]
           IN  /\ FreshManager \in Managers /\ m \in Managers /\ n \in Managers
               /\ m.unsupported = OtherSchemas(both)
               /\ \A x \in {m, n} : /\ x.unsupported = OtherSchemas(both) /\ x.active = "NONE"
                                     /\ x.generation = 0 /\ x.settings = Defaults
  <1>1. 0 \in Generations
    BY HalfRangeAssumption DEF Generations
  <1>2. OtherSchemas(both) \in SUBSET CopySlot
    BY DEF OtherSchemas
  <1> QED
    BY <1>1, <1>2, RunnableFacts, Zenon DEF FreshManager, Managers

(* What load finds depends on the records only *)
LEMMA LoadPrevailing ==
    ASSUME NEW both \in [CopySlot -> SlotContents], NEW s \in CopySlot,
           Usable(both[s]), Prevails(both, s)
    PROVE  /\ LoadSlots(both).manager \in Managers /\ LoadSlots(both).result \in Statuses
           /\ TakenFrom(both, s, LoadSlots(both).manager)
  <1> DEFINE m == [FreshManager EXCEPT !.unsupported = OtherSchemas(both)]
             l(f) == ApplySelected(m, s, both[s], f)
  <1>1. m \in Managers /\ m.unsupported = OtherSchemas(both)
    BY FreshManagers, Zenon
  <1>2. both[s] \in SlotRecord
    BY SlotForms
  <1>3. \A f \in BOOLEAN : /\ l(f).manager \in Managers /\ l(f).result \in Statuses
                           /\ TakenFrom(both, s, l(f).manager)
    <2> HIDE DEF m
    <2> TAKE f \in BOOLEAN
    <2>1. /\ l(f).manager \in Managers /\ l(f).result \in Statuses
          /\ l(f).manager.active = s /\ l(f).manager.generation = both[s].generation
          /\ l(f).manager.settings = ValidateAndRepair(both[s].settings)
          /\ l(f).manager.unsupported = m.unsupported
      BY <1>1, <1>2, Applied
    <2> QED
      BY <1>1, <2>1, Zenon DEF TakenFrom
  <1>4. LoadSlots(both) \in {l(TRUE), l(FALSE)}
    <2> HIDE DEF m
    <2>1. m = [FreshManager EXCEPT !.unsupported = {x \in CopySlot : both[x] = Unsupported}]
      BY DEF m, OtherSchemas
    <2>2. CASE s = "A"
      <3>1. CASE Usable(both["B"])
        <4>1. both["B"] \in SlotRecord
          BY <3>1, SlotForms DEF CopySlot
        <4>2. both["A"].generation \in Generations /\ both["B"].generation \in Generations
          BY <1>2, <2>2, <4>1 DEF SlotRecord
        <4>3. \/ both["B"] = both["A"]
              \/ GenerationIsNewer(both["A"].generation, both["B"].generation)
          BY <2>2, <3>1 DEF Prevails, Opposite
        <4>4. GenerationIsNewer(both["A"].generation, both["B"].generation)
                => both["A"].generation # both["B"].generation
          BY <4>2, NewerOneWay
        <4> QED
          BY <2>1, <2>2, <3>1, <4>3, <4>4, Zenon DEF LoadSlots
      <3>2. CASE ~Usable(both["B"])
        BY <2>1, <2>2, <3>2, Zenon DEF LoadSlots, Opposite
      <3> QED
        BY <3>1, <3>2, Zenon
    <2>3. CASE s = "B"
      <3>1. CASE Usable(both["A"])
        <4>1. both["A"] \in SlotRecord
          BY <3>1, SlotForms DEF CopySlot
        <4>2. both["A"].generation \in Generations /\ both["B"].generation \in Generations
          BY <1>2, <2>3, <4>1 DEF SlotRecord
        <4>3. GenerationIsNewer(both["B"].generation, both["A"].generation)
          BY <2>3, <3>1 DEF Prevails, Opposite
        <4>4. /\ both["A"].generation # both["B"].generation
              /\ ~GenerationIsNewer(both["A"].generation, both["B"].generation)
          BY <4>2, <4>3, NewerOneWay
        <4> QED
          BY <2>1, <2>3, <3>1, <4>3, <4>4 DEF LoadSlots
      <3>2. CASE ~Usable(both["A"])
        BY <2>1, <2>3, <3>2, Zenon DEF LoadSlots, Opposite
      <3> QED
        BY <3>1, <3>2, Zenon
    <2> QED
      BY <2>2, <2>3, Zenon DEF CopySlot
  <1> QED
    BY <1>3, <1>4, Zenon

(* Without a record, or with two that cannot be ordered, the defaults run *)
LEMMA LoadDefaults ==
    ASSUME NEW both \in [CopySlot -> SlotContents],
           \A s \in CopySlot : ~(Usable(both[s]) /\ Prevails(both, s))
    PROVE  /\ LoadSlots(both).manager \in Managers /\ LoadSlots(both).result \in Statuses
           /\ LoadSlots(both).manager.active = "NONE"
           /\ LoadSlots(both).manager.generation = 0
           /\ LoadSlots(both).manager.settings = Defaults
           /\ LoadSlots(both).manager.unsupported = OtherSchemas(both)
           /\ \/ \A s \in CopySlot : ~Usable(both[s])
              \/ Ambiguous(both)
  <1> DEFINE m == [FreshManager EXCEPT !.unsupported = OtherSchemas(both)]
             n(r) == [m EXCEPT !.repair = r]
             l(x, result) == Loaded(x, result)
  <1>1. \A r \in BOOLEAN : \A x \in {m, n(r)} :
            /\ x \in Managers /\ x.unsupported = OtherSchemas(both) /\ x.active = "NONE"
            /\ x.generation = 0 /\ x.settings = Defaults
    BY FreshManagers, ZenonT(30)
  <1>2. /\ \E x \in {m, n(TRUE), n(FALSE)}, r \in Statuses : LoadSlots(both) = Loaded(x, r)
        /\ \/ \A s \in CopySlot : ~Usable(both[s])
           \/ \A s \in CopySlot : Usable(both[s])
    <2> HIDE DEF m
    <2>1. m = [FreshManager EXCEPT !.unsupported = {x \in CopySlot : both[x] = Unsupported}]
      BY DEF m, OtherSchemas
    <2>2. Usable(both["A"]) <=> Usable(both["B"])
      BY DEF Prevails, Opposite, CopySlot
    <2>3. CASE Usable(both["A"]) /\ Usable(both["B"])
      <3>1. /\ both["A"] # both["B"]
            /\ ~GenerationIsNewer(both["A"].generation, both["B"].generation)
            /\ ~GenerationIsNewer(both["B"].generation, both["A"].generation)
        BY <2>3 DEF Prevails, Opposite, CopySlot
      <3>2. LoadSlots(both) = Loaded(n(TRUE), "DEFAULTED")
        BY <2>1, <2>3, <3>1 DEF LoadSlots
      <3> QED
        BY <2>3, <3>2 DEF Statuses, CopySlot
    <2>4. CASE ~Usable(both["A"]) /\ ~Usable(both["B"])
      <3>1. \/ LoadSlots(both) = Loaded(m, "UNSUPPORTED")
            \/ LoadSlots(both) = Loaded(n(Corrupt \in {both["A"], both["B"]}), "DEFAULTED")
        BY <2>1, <2>4 DEF LoadSlots
      <3>2. (Corrupt \in {both["A"], both["B"]}) \in BOOLEAN
        OBVIOUS
      <3>3. n(Corrupt \in {both["A"], both["B"]}) \in {n(TRUE), n(FALSE)}
        BY <3>2, Zenon
      <3> QED
        BY <2>4, <3>1, <3>3 DEF Statuses, CopySlot
    <2> QED
      BY <2>2, <2>3, <2>4, Zenon
  <1>3. PICK x \in {m, n(TRUE), n(FALSE)}, r \in Statuses : LoadSlots(both) = Loaded(x, r)
    BY <1>2
  <1>4. LoadSlots(both).manager = x /\ LoadSlots(both).result = r
    BY <1>3 DEF Loaded
  <1>5. /\ x \in Managers /\ x.unsupported = OtherSchemas(both) /\ x.active = "NONE"
        /\ x.generation = 0 /\ x.settings = Defaults
    BY <1>1, Zenon
  <1> QED
    BY <1>2, <1>3, <1>4, <1>5 DEF Ambiguous

(* Every boot that can read and order the slots is in step with them *)
LEMMA LoadInStep ==
    ASSUME NEW both \in [CopySlot -> SlotContents]
    PROVE  LET m == LoadSlots(both).manager
           IN  /\ m \in Managers /\ LoadSlots(both).result \in Statuses
               /\ m.active = "NONE" => m.generation = 0
               /\ m.active \notin m.unsupported
               /\ ~Ambiguous(both) => InStep(both, m, m.settings, {})
  <1>1. CASE \E s \in CopySlot : Usable(both[s]) /\ Prevails(both, s)
    <2>1. PICK s \in CopySlot : Usable(both[s]) /\ Prevails(both, s)
      BY <1>1
    <2>2. /\ LoadSlots(both).manager \in Managers /\ LoadSlots(both).result \in Statuses
          /\ TakenFrom(both, s, LoadSlots(both).manager)
      BY <2>1, LoadPrevailing
    <2>3. s # "NONE"
      BY DEF CopySlot
    <2>4. s \notin OtherSchemas(both)
      BY <2>1, SlotForms DEF OtherSchemas
    <2> QED
      BY <2>1, <2>2, <2>3, <2>4, Zenon DEF TakenFrom, InUse, InStep
  <1>2. CASE ~ \E s \in CopySlot : Usable(both[s]) /\ Prevails(both, s)
    <2>1. /\ LoadSlots(both).manager \in Managers /\ LoadSlots(both).result \in Statuses
          /\ LoadSlots(both).manager.active = "NONE"
          /\ LoadSlots(both).manager.generation = 0
          /\ LoadSlots(both).manager.settings = Defaults
          /\ LoadSlots(both).manager.unsupported = OtherSchemas(both)
          /\ \/ \A s \in CopySlot : ~Usable(both[s])
             \/ Ambiguous(both)
      BY <1>2, LoadDefaults, Zenon
    <2>2. "NONE" \notin OtherSchemas(both)
      BY DEF OtherSchemas, CopySlot
    <2> QED
      BY <2>1, <2>2, Zenon DEF NoneInUse, InStep, CopySlot
  <1> QED
    BY <1>1, <1>2, Zenon

LEMMA BootOfStep ==
    ASSUME NEW both \in [CopySlot -> SlotContents], NEW m \in Managers,
           NEW saved \in Runnable, NEW tried \in SUBSET Runnable,
           m.active = "NONE" => m.generation = 0,
           InStep(both, m, saved, tried)
    PROVE  BootIsSafe(both, saved, tried)
  <1>1. ASSUME NEW s \in CopySlot, Usable(both[s]), Prevails(both, s),
               ValidateAndRepair(both[s].settings) \in {saved} \cup tried
        PROVE  BootIsSafe(both, saved, tried)
    <2>1. TakenFrom(both, s, LoadSlots(both).manager)
      BY <1>1, LoadPrevailing, Zenon
    <2> QED
      BY <1>1, <2>1, Zenon DEF TakenFrom, BootIsSafe
  <1>2. ASSUME \A s \in CopySlot : ~Usable(both[s]), Defaults \in {saved} \cup tried
        PROVE  BootIsSafe(both, saved, tried)
    <2>1. LoadSlots(both).manager.settings = Defaults
      BY <1>2, LoadDefaults, Zenon
    <2> QED
      BY <1>2, <2>1 DEF BootIsSafe
  <1>3. m.generation \in Generations /\ m.active \in CopySlot \cup {"NONE"}
    BY DEF Managers
  <1>4. /\ NextGeneration(m.generation) \in Generations
        /\ GenerationIsNewer(NextGeneration(m.generation), m.generation)
    BY <1>3, NewerSuccessor
  <1>5. \A x \in tried : ValidateAndRepair(x) = x
    BY RunnableFacts
  <1>6. CASE InUse(both, m, saved, tried)
    <2>1. m.active \in CopySlot
      BY <1>3, <1>6 DEF InUse
    <2>2. CASE Prevails(both, m.active)
      BY <1>1, <1>6, <2>1, <2>2, Zenon DEF InUse, TakenFrom
    <2>3. CASE Unfinished(both[Opposite(m.active)], m, tried)
      <3>1. /\ Opposite(m.active) \in CopySlot
            /\ Opposite(Opposite(m.active)) = m.active
        BY <2>1 DEF Opposite, CopySlot
      <3>2. Prevails(both, Opposite(m.active))
        BY <1>4, <1>6, <2>3, <3>1, Zenon DEF Prevails, Unfinished, InUse, TakenFrom
      <3> QED
        BY <1>1, <1>5, <2>3, <3>1, <3>2 DEF Unfinished
    <2> QED
      BY <1>6, <2>2, <2>3 DEF InUse
  <1>7. CASE NoneInUse(both, m, saved, tried)
    <2>1. CASE Usable(both["A"])
      <3>1. Prevails(both, "A")
        BY <1>7 DEF NoneInUse, Prevails, Opposite
      <3>2. both["A"].settings \in tried
        BY <1>7, <2>1, Zenon DEF NoneInUse, Unfinished
      <3> QED
        BY <1>1, <1>5, <2>1, <3>1, <3>2 DEF CopySlot
    <2>2. CASE ~Usable(both["A"])
      BY <1>2, <1>7, <2>2 DEF NoneInUse, CopySlot
    <2> QED
      BY <2>1, <2>2
  <1>8. CASE ResetUnnoticed(both, m, tried)
    <2> DEFINE other == both[Opposite(m.active)]
    <2>1. /\ m.active \in CopySlot /\ Opposite(m.active) \in CopySlot
          /\ Opposite(Opposite(m.active)) = m.active
      BY <1>3, <1>8 DEF ResetUnnoticed, Opposite, CopySlot
    <2>2. /\ Record(1, Defaults).generation = 1 /\ Record(1, Defaults).settings = Defaults
          /\ Usable(Record(1, Defaults))
      BY DEF Record, Usable
    <2>3. ~Usable(MissingSlot) /\ ~Usable(Corrupt)
      BY SlotForms, <2>1, Zenon
    <2>4. CASE Unfinished(other, m, tried)
      <3>1. Usable(both[m.active]) => both[m.active].generation = 1
        BY <1>8, <2>1, <2>2, <2>3 DEF ResetUnnoticed, CopySlot
      <3>2. Prevails(both, Opposite(m.active))
        BY <1>8, <2>1, <2>4, <3>1, Zenon DEF Prevails, Unfinished, ResetUnnoticed
      <3> QED
        BY <1>1, <1>5, <2>1, <2>4, <3>2 DEF Unfinished
    <2>5. CASE m.active = "A" /\ other \in {MissingSlot, Corrupt}
      <3>1. both["A"] = Record(1, Defaults) /\ Prevails(both, "A")
        BY <1>8, <2>3, <2>5 DEF ResetUnnoticed, Prevails
      <3> QED
        BY <1>1, <1>5, <1>8, <2>2, <3>1 DEF CopySlot, ResetUnnoticed
    <2>6. CASE m.active = "B" /\ other \in {MissingSlot, Corrupt}
      <3>1. \A s \in CopySlot : ~Usable(both[s])
        BY <1>8, <2>3, <2>6 DEF ResetUnnoticed, CopySlot, Opposite
      <3> QED
        BY <1>2, <1>8, <3>1 DEF ResetUnnoticed
    <2>7. CASE m.active = "B" /\ other = Record(1, Defaults)
      <3>1. both["A"] = Record(1, Defaults) /\ Prevails(both, "A")
        BY <1>8, <2>3, <2>7 DEF ResetUnnoticed, Prevails, Opposite
      <3> QED
        BY <1>1, <1>5, <1>8, <2>2, <3>1 DEF CopySlot, ResetUnnoticed
    <2> QED
      BY <1>8, <2>1, <2>4, <2>5, <2>6, <2>7 DEF ResetUnnoticed, CopySlot
  <1> QED
    BY <1>6, <1>7, <1>8 DEF InStep

-----------------------------------------------------------------------------
(* save *)

(* save goes as far as its write of the record r, with the settings c *)
Writes(m, c, r) ==
    /\ SaveTarget(m) \notin m.unsupported
    /\ m.active = "NONE" => m.unsupported = {}
    /\ r = Record(NextGeneration(m.generation), c)

LEMMA WrittenRecord ==
    ASSUME NEW m \in Managers, NEW c \in Runnable, NEW r, Writes(m, c, r)
    PROVE  /\ r \in SlotRecord /\ Usable(r) /\ r.settings = c
           /\ r.generation = NextGeneration(m.generation)
           /\ r # Unsupported /\ Corrupt # Unsupported /\ ~Usable(Corrupt)
           /\ SaveTarget(m) \in CopySlot
  <1>1. m.generation \in Generations /\ m.active \in CopySlot \cup {"NONE"}
    BY DEF Managers
  <1>2. NextGeneration(m.generation) \in Generations
    BY <1>1, NewerSuccessor
  <1>3. r.status = "RECORD" /\ r \in SlotRecord
    BY <1>2, Zenon DEF Writes, Record, SlotRecord
  <1>4. Unsupported.status = "UNSUPPORTED" /\ Corrupt.status = "CORRUPT"
    BY DEF Unsupported, Corrupt
  <1>5. SaveTarget(m) \in CopySlot
    BY <1>1 DEF SaveTarget, Opposite, CopySlot
  <1> QED
    BY <1>3, <1>4, <1>5, Zenon DEF Writes, Record, Usable

(* The write that was verified: its record is newer than the other slot's *)
LEMMA SaveVerified ==
    ASSUME NEW both \in [CopySlot -> SlotContents], NEW m \in Managers,
           NEW saved \in Runnable, NEW tried \in SUBSET Runnable,
           NEW c \in Runnable, NEW r, Writes(m, c, r),
           m.active = "NONE" => m.generation = 0, m.active \notin m.unsupported,
           InStep(both, m, saved, tried)
    PROVE  InUse([both EXCEPT ![SaveTarget(m)] = r], Saved(m, c), c, {})
  <1> DEFINE t == SaveTarget(m)
             next == [both EXCEPT ![t] = r]
             n == Saved(m, c)
  <1>1. /\ r \in SlotRecord /\ Usable(r) /\ r.settings = c
        /\ r.generation = NextGeneration(m.generation)
        /\ r # Unsupported /\ t \in CopySlot
    BY WrittenRecord, Zenon
  <1>2. /\ n.active = t /\ n.generation = NextGeneration(m.generation)
        /\ n.settings = c /\ n.unsupported = m.unsupported
    BY DEF Saved, Managers
  <1>3. /\ next[t] = r /\ next[Opposite(t)] = both[Opposite(t)]
        /\ Opposite(t) \in CopySlot /\ t # "NONE"
    BY <1>1, Zenon DEF Opposite, CopySlot
  <1>4. ValidateAndRepair(c) = c
    BY RunnableFacts, Zenon
  <1>5. m.generation \in Generations /\ m.active \in CopySlot \cup {"NONE"}
        /\ m.unsupported \subseteq CopySlot
    BY DEF Managers
  <1>6. GenerationIsNewer(NextGeneration(m.generation), m.generation)
    BY <1>5, NewerSuccessor, Zenon
  <1> HIDE DEF next, n
  <1>7. OtherSchemas(next) = m.unsupported /\ Prevails(next, t)
    <2>1. CASE InUse(both, m, saved, tried)
      <3>1. /\ m.active \in CopySlot /\ t = Opposite(m.active) /\ Opposite(t) = m.active
            /\ CopySlot = {t, m.active}
        BY <1>5, <2>1, Zenon DEF InUse, SaveTarget, Opposite, CopySlot
      <3>2. both[m.active].generation = m.generation /\ m.unsupported = OtherSchemas(both)
        BY <2>1, Zenon DEF InUse, TakenFrom
      <3>3. Prevails(next, t)
        BY <1>1, <1>3, <1>6, <3>1, <3>2, Zenon DEF Prevails
      <3>4. both[t] # Unsupported
        BY <1>1, <3>2, Zenon DEF Writes, OtherSchemas
      <3>5. OtherSchemas(next) = OtherSchemas(both)
        BY <1>1, <1>3, <3>1, <3>4, Zenon DEF OtherSchemas
      <3> QED
        BY <3>2, <3>3, <3>5, Zenon
    <2>2. CASE NoneInUse(both, m, saved, tried)
      <3>1. t = "A" /\ Opposite(t) = "B" /\ m.unsupported = {}
        BY <2>2, Zenon DEF NoneInUse, SaveTarget, Opposite, Writes
      <3>2. Prevails(next, t)
        BY <1>3, <2>2, <3>1, Zenon DEF Prevails, NoneInUse
      <3>3. OtherSchemas(both) = {}
        BY <2>2, <3>1, Zenon DEF NoneInUse
      <3>4. both["B"] # Unsupported
        BY <3>3, Zenon DEF OtherSchemas, CopySlot
      <3>5. OtherSchemas(next) = {}
        BY <1>1, <1>3, <3>1, <3>4, Zenon DEF OtherSchemas, CopySlot
      <3> QED
        BY <3>1, <3>2, <3>5, Zenon
    <2>3. CASE ResetUnnoticed(both, m, tried)
      <3>1. /\ m.active \in CopySlot /\ t = Opposite(m.active) /\ Opposite(t) = m.active
            /\ CopySlot = {t, m.active}
        BY <1>5, <2>3, Zenon DEF ResetUnnoticed, SaveTarget, Opposite, CopySlot
      <3>2. m.unsupported = {}
        BY <1>5, <3>1, Zenon DEF Writes
      <3>3. /\ Usable(both[m.active]) => both[m.active].generation = 1
            /\ both[m.active] # Unsupported
        <4>1. /\ MissingSlot.status = "MISSING" /\ Unsupported.status = "UNSUPPORTED"
              /\ Record(1, Defaults).status = "RECORD" /\ Record(1, Defaults).generation = 1
          BY Zenon DEF MissingSlot, Unsupported, Record
        <4>2. both[m.active] \in {Record(1, Defaults), MissingSlot}
          BY <2>3, <3>1, Zenon DEF ResetUnnoticed, CopySlot
        <4> QED
          BY <4>1, <4>2, Zenon DEF Usable
      <3>4. GenerationIsNewer(NextGeneration(m.generation), 1)
        BY <2>3, Zenon DEF ResetUnnoticed
      <3>5. Prevails(next, t)
        BY <1>1, <1>3, <3>1, <3>3, <3>4, Zenon DEF Prevails
      <3>6. OtherSchemas(next) = {}
        BY <1>1, <1>3, <3>1, <3>3, Zenon DEF OtherSchemas
      <3> QED
        BY <3>2, <3>5, <3>6, Zenon
    <2> QED
      BY <2>1, <2>2, <2>3, Zenon DEF InStep
  <1>8. TakenFrom(next, t, n)
    BY <1>1, <1>2, <1>3, <1>4, <1>7, Zenon DEF TakenFrom
  <1>9. InUse(next, n, c, {})
    BY <1>2, <1>3, <1>7, <1>8, Zenon DEF InUse
  <1> QED
    BY <1>9, Zenon DEF next, n

(* The write that was not: whatever it left, the manager is in step *)
LEMMA SaveLeft ==
    ASSUME NEW both \in [CopySlot -> SlotContents], NEW m \in Managers,
           NEW saved \in Runnable, NEW tried \in SUBSET Runnable,
           NEW c \in Runnable, NEW r, Writes(m, c, r),
           NEW left \in {both[SaveTarget(m)], Corrupt, r},
           InStep(both, m, saved, tried)
    PROVE  InStep([both EXCEPT ![SaveTarget(m)] = left], m, saved, tried \cup {c})
  <1> DEFINE t == SaveTarget(m)
             next == [both EXCEPT ![t] = left]
  <1>1. /\ r \in SlotRecord /\ Usable(r) /\ r.settings = c
        /\ r.generation = NextGeneration(m.generation)
        /\ r # Unsupported /\ Corrupt # Unsupported /\ ~Usable(Corrupt) /\ t \in CopySlot
    BY WrittenRecord
  <1>2. /\ next[t] = left /\ next[Opposite(t)] = both[Opposite(t)]
        /\ Opposite(t) \in CopySlot
    BY <1>1 DEF Opposite, CopySlot
  <1>3. m.active \in CopySlot \cup {"NONE"}
    BY DEF Managers
  <1>4. \A x : Unfinished(x, m, tried) => Unfinished(x, m, tried \cup {c})
    BY DEF Unfinished
  <1>5. Unfinished(r, m, tried \cup {c})
    BY <1>1 DEF Unfinished
  <1> HIDE DEF next
  <1>6. CASE InUse(both, m, saved, tried)
    <2>1. /\ m.active \in CopySlot /\ t = Opposite(m.active) /\ Opposite(t) = m.active
          /\ CopySlot = {t, m.active} /\ m.active # "NONE"
      BY <1>3, <1>6, Zenon DEF InUse, SaveTarget, Opposite, CopySlot
    <2>2. next[m.active] = both[m.active]
      BY <1>2, <2>1, Zenon
    <2>3. both[t] # Unsupported /\ left # Unsupported
      BY <1>1, <1>6, Zenon DEF Writes, OtherSchemas, InUse, TakenFrom
    <2>4. OtherSchemas(next) = OtherSchemas(both)
      BY <1>1, <1>2, <2>1, <2>2, <2>3, Zenon DEF OtherSchemas
    <2>5. TakenFrom(next, m.active, m)
      BY <1>6, <2>2, <2>4, Zenon DEF InUse, TakenFrom
    <2>6. Prevails(next, m.active) \/ Unfinished(next[Opposite(m.active)], m, tried \cup {c})
      <3>1. CASE left = r
        BY <1>2, <1>5, <2>1, <3>1, Zenon
      <3>2. CASE left = Corrupt
        BY <1>1, <1>2, <2>1, <3>2, Zenon DEF Prevails
      <3>3. CASE left = both[t]
        BY <1>2, <1>4, <1>6, <2>1, <2>2, <3>3, Zenon DEF Prevails, InUse
      <3> QED
        BY <3>1, <3>2, <3>3
    <2> QED
      BY <1>6, <2>1, <2>5, <2>6, Zenon DEF InUse, InStep, next
  <1>7. CASE NoneInUse(both, m, saved, tried)
    <2>1. t = "A" /\ Opposite(t) = "B" /\ m.unsupported = {}
      BY <1>7, Zenon DEF NoneInUse, SaveTarget, Opposite, Writes
    <2>2. both["A"] # Unsupported /\ both["B"] # Unsupported
      BY <1>7, <2>1, Zenon DEF NoneInUse, OtherSchemas, CopySlot
    <2>3. OtherSchemas(next) = {}
      BY <1>1, <1>2, <2>1, <2>2, Zenon DEF OtherSchemas, CopySlot
    <2>4. Usable(next["A"]) => Unfinished(next["A"], m, tried \cup {c})
      BY <1>1, <1>2, <1>4, <1>5, <1>7, <2>1, Zenon DEF NoneInUse
    <2>5. ~Usable(next["B"])
      BY <1>2, <1>7, <2>1, Zenon DEF NoneInUse
    <2> QED
      BY <1>7, <2>1, <2>3, <2>4, <2>5, Zenon DEF NoneInUse, InStep, next
  <1>8. CASE ResetUnnoticed(both, m, tried)
    <2>1. /\ m.active \in CopySlot /\ t = Opposite(m.active) /\ Opposite(t) = m.active
          /\ CopySlot = {t, m.active} /\ m.active # "NONE"
      BY <1>3, <1>8 DEF ResetUnnoticed, SaveTarget, Opposite, CopySlot
    <2>2. next[m.active] = both[m.active] /\ next[Opposite(m.active)] = left
      BY <1>2, <2>1, Zenon
    <2>3. \/ left \in {MissingSlot, Corrupt}
          \/ m.active = "B" /\ left = Record(1, Defaults)
          \/ Unfinished(left, m, tried \cup {c})
      BY <1>4, <1>5, <1>8, <2>1, Zenon DEF ResetUnnoticed
    <2>4. ResetUnnoticed(next, m, tried \cup {c})
      BY <1>8, <2>1, <2>2, <2>3, Zenon DEF ResetUnnoticed
    <2> QED
      BY <2>4 DEF InStep, next
  <1> QED
    BY <1>6, <1>7, <1>8, Zenon DEF InStep

-----------------------------------------------------------------------------
(* Every step keeps the invariant *)

LEMMA SettingsInvInit == SettingsInit => SettingsInv
  <1> SUFFICES ASSUME SettingsInit PROVE SettingsInv
    OBVIOUS
  <1>1. slots \in [CopySlot -> SlotContents]
    <2> DEFINE firsts == {Record(g, old) : g \in FirstGenerations, old \in Stored}
    <2>1. PICK a \in {MissingSlot, Unsupported} \cup firsts,
               b \in {MissingSlot, Unsupported} :
              slots = [s \in CopySlot |-> IF s = "A" THEN a ELSE b]
      <3>1. slots \in {[s \in CopySlot |-> IF s = "A" THEN a ELSE b] :
                         a \in {MissingSlot, Unsupported} \cup firsts,
                         b \in {MissingSlot, Unsupported}}
        BY SMTT(30) DEF SettingsInit
      <3> HIDE DEF firsts
      <3> QED
        BY <3>1
    <2>2. b \in SlotContents
      BY DEF SlotContents
    <2>3. ASSUME a \in firsts PROVE a \in SlotContents
      <3>1. PICK g \in FirstGenerations, old \in Stored : a = Record(g, old)
        BY <2>3
      <3>2. g \in Generations
        BY SettingsAssumption
      <3>3. a \in SlotRecord
        BY <3>1, <3>2 DEF Record, SlotRecord
      <3> QED
        BY <3>3 DEF SlotContents
    <2> HIDE DEF firsts
    <2>4. a \in SlotContents
      BY <2>3 DEF SlotContents
    <2> QED
      BY <2>1, <2>2, <2>4
  <1>2. LoadSlots(slots).manager \in Managers
    BY <1>1, LoadInStep, Zenon
  <1>3. committed \in Runnable
    BY <1>2 DEF SettingsInit, Managers
  <1>4. FreshManager \in Managers
    BY <1>1, FreshManagers, Zenon
  <1>5. EmptyQueue(Defaults) \in [pending : {"NONE", "REPAIR", "SAVE", "RESET"}, draft : Drafts]
    BY RunnableFacts DEF EmptyQueue
  <1>6. SettingsTypes
    BY <1>1, <1>3, <1>4, <1>5, RunnableFacts, Zenon DEF SettingsInit, SettingsTypes, Statuses
  <1>7. ResetProgress /\ ManagerShape /\ RepairedOnce
    BY DEF SettingsInit, ResetProgress, ManagerShape, RepairedOnce, FreshManager
  <1>8. SlotsInStep
    BY Zenon DEF SettingsInit, SlotsInStep, BootIsSafe
  <1> QED
    BY <1>6, <1>7, <1>8 DEF SettingsInv

LEMMA InvUserAsks == SettingsInv /\ UserAsks => SettingsInv'
  <1> SUFFICES ASSUME SettingsInv, UserAsks PROVE SettingsInv'
    OBVIOUS
  <1> USE DEF SettingsInv
  <1>1. /\ queue' \in [pending : {"NONE", "REPAIR", "SAVE", "RESET"}, draft : Drafts]
        /\ queue'.pending # "REPAIR"
    BY RunnableFacts DEF UserAsks, QueueSave, QueueReset, SettingsTypes
  <1>2. SettingsTypes'
    BY <1>1, Zenon DEF SettingsTypes, UserAsks
  <1>3. ResetProgress' /\ ManagerShape'
    BY Zenon DEF UserAsks, ResetProgress, ManagerShape
  <1>4. RepairedOnce'
    BY <1>1 DEF UserAsks, RepairedOnce
  <1>5. SlotsInStep'
    BY DEF UserAsks, SlotsInStep
  <1> QED
    BY <1>2, <1>3, <1>4, <1>5

LEMMA InvLoad == SettingsInv /\ Load => SettingsInv'
  <1> SUFFICES ASSUME SettingsInv, Load PROVE SettingsInv'
    OBVIOUS
  <1> USE DEF SettingsInv
  <1>1. PICK m : m = LoadSlots(slots).manager
    OBVIOUS
  <1>2. /\ m \in Managers /\ LoadSlots(slots).result \in Statuses
        /\ m.active = "NONE" => m.generation = 0
        /\ m.active \notin m.unsupported
        /\ ~Ambiguous(slots) => InStep(slots, m, m.settings, {})
    BY <1>1, LoadInStep, Zenon DEF SettingsTypes
  <1>3. /\ manager' = m /\ current' = m.settings /\ status' = LoadSlots(slots).result
        /\ queue' = IF m.repair THEN QueueAutomaticRepair(queue, Defaults) ELSE queue
        /\ pc' = "IDLE" /\ committed' = m.settings /\ attempted' = {}
        /\ blind' = Ambiguous(slots)
        /\ UNCHANGED <<slots, marker, repairs>>
    BY <1>1 DEF Load, Apply
  <1>4. m.settings \in Runnable
    BY <1>2 DEF Managers
  <1>5. queue' \in [pending : {"NONE", "REPAIR", "SAVE", "RESET"}, draft : Drafts]
    BY <1>3, RunnableFacts, Zenon DEF QueueAutomaticRepair, SettingsTypes
  <1>6. Ambiguous(slots) \in BOOLEAN
    BY DEF Ambiguous
  <1>7. SettingsTypes'
    BY <1>2, <1>3, <1>4, <1>5, <1>6, Zenon DEF SettingsTypes
  <1>8. ResetProgress' /\ ManagerShape'
    BY <1>2, <1>3, Zenon DEF ResetProgress, ManagerShape
  <1>9. RepairedOnce'
    <2>1. pc = "OFF"
      BY Zenon DEF Load
    <2>2. repairs' = 0
      BY <1>3, <2>1, Zenon DEF RepairedOnce
    <2> QED
      BY <1>3, <2>2 DEF RepairedOnce
  <1>10. SlotsInStep'
    BY <1>2, <1>3, Zenon DEF SlotsInStep
  <1> QED
    BY <1>7, <1>8, <1>9, <1>10

LEMMA InvLoadFails == SettingsInv /\ LoadFails => SettingsInv'
  <1> SUFFICES ASSUME SettingsInv, LoadFails PROVE SettingsInv'
    OBVIOUS
  <1> USE DEF SettingsInv
  <1>1. /\ manager' = FreshManager /\ current' = Defaults
        /\ status' \in {"RESET_FAILED", "UNAVAILABLE"} /\ queue' = queue
        /\ pc' = "IDLE" /\ blind' = TRUE
        /\ UNCHANGED <<slots, marker, committed, attempted, repairs>>
    BY Zenon DEF LoadFails, Apply, FreshManager
  <1>2. FreshManager \in Managers
    BY FreshManagers, Zenon DEF SettingsTypes
  <1>3. SettingsTypes'
    BY <1>1, <1>2, RunnableFacts DEF SettingsTypes, Statuses
  <1>4. ResetProgress' /\ ManagerShape'
    BY <1>1, Zenon DEF ResetProgress, ManagerShape, FreshManager
  <1>5. RepairedOnce'
    BY <1>1 DEF RepairedOnce
  <1>6. SlotsInStep'
    BY <1>1 DEF SlotsInStep
  <1> QED
    BY <1>3, <1>4, <1>5, <1>6

LEMMA InvLoadResumesReset == SettingsInv /\ LoadResumesReset => SettingsInv'
  <1> SUFFICES ASSUME SettingsInv, LoadResumesReset PROVE SettingsInv'
    OBVIOUS
  <1> USE DEF SettingsInv
  <1>1. FreshManager \in Managers
    BY FreshManagers, Zenon DEF SettingsTypes
  <1>2. SettingsTypes'
    BY <1>1, RunnableFacts DEF SettingsTypes, LoadResumesReset
  <1>3. ResetProgress' /\ ManagerShape' /\ RepairedOnce'
    BY DEF LoadResumesReset, ResetProgress, ManagerShape, RepairedOnce, FreshManager, EmptyQueue
  <1>4. SlotsInStep'
    BY DEF LoadResumesReset, SlotsInStep
  <1> QED
    BY <1>2, <1>3, <1>4

(* The end of a request leaves the queue empty *)
LEMMA ServedTypes ==
    ASSUME SettingsTypes, RepairedOnce, NEW m \in Managers, NEW result \in Statuses,
           Served(m, result),
           repairs' = IF queue.pending = "REPAIR" THEN repairs + 1 ELSE repairs
    PROVE  /\ manager' \in Managers /\ current' \in Runnable /\ status' \in Statuses
           /\ queue' \in [pending : {"NONE", "REPAIR", "SAVE", "RESET"}, draft : Drafts]
           /\ pc' = "IDLE" /\ repairs' \in Nat /\ RepairedOnce'
  <1>1. m.settings \in Runnable
    BY DEF Managers
  <1>2. queue' = [pending |-> "NONE", draft |-> Defaults] /\ pc' = "IDLE"
    BY DEF Served, EmptyQueue
  <1>3. repairs' \in Nat /\ repairs' <= 1
    BY DEF RepairedOnce, SettingsTypes
  <1>4. RepairedOnce'
    BY <1>2, <1>3 DEF RepairedOnce
  <1>5. queue' \in [pending : {"NONE", "REPAIR", "SAVE", "RESET"}, draft : Drafts]
    BY <1>2, RunnableFacts
  <1>6. manager' \in Managers /\ current' \in Runnable /\ status' \in Statuses
    BY <1>1 DEF Served, SettingsTypes
  <1> QED
    BY <1>2, <1>3, <1>4, <1>5, <1>6, Zenon

LEMMA InvSaveReturnsEarly == SettingsInv /\ SaveReturnsEarly => SettingsInv'
  <1> SUFFICES ASSUME SettingsInv, SaveReturnsEarly PROVE SettingsInv'
    OBVIOUS
  <1> USE DEF SettingsInv
  <1>1. PICK result : result = SaveAnswer(manager, Candidate)
    OBVIOUS
  <1>2. /\ result \in Statuses /\ Served(manager, result) /\ pc = "IDLE"
        /\ repairs' = IF queue.pending = "REPAIR" THEN repairs + 1 ELSE repairs
        /\ UNCHANGED <<slots, marker, committed, attempted, blind>>
    BY <1>1, Zenon DEF SaveReturnsEarly, SaveAsked, Statuses
  <1>3. manager' = manager
    BY <1>2 DEF Served
  <1>4. /\ manager' \in Managers /\ current' \in Runnable /\ status' \in Statuses
        /\ queue' \in [pending : {"NONE", "REPAIR", "SAVE", "RESET"}, draft : Drafts]
        /\ pc' = "IDLE" /\ repairs' \in Nat /\ RepairedOnce'
    BY <1>2, ServedTypes, Zenon DEF SettingsTypes
  <1>5. SettingsTypes'
    BY <1>2, <1>4 DEF SettingsTypes
  <1>6. ResetProgress' /\ ManagerShape'
    BY <1>2, <1>3, <1>4, Zenon DEF ResetProgress, ManagerShape
  <1>7. SlotsInStep'
    BY <1>2, <1>3, <1>4 DEF SlotsInStep
  <1> QED
    BY <1>4, <1>5, <1>6, <1>7

(* What save found when it writes *)
LEMMA SaveReady ==
    ASSUME SettingsInv, SaveAnswer(manager, Candidate) = "WRITE"
    PROVE  Candidate \in Runnable /\ Writes(manager, Candidate, NewRecord)
  <1>1. Candidate \in Runnable
    BY RunnableFacts DEF Candidate, SettingsInv, SettingsTypes
  <1>2. Writes(manager, Candidate, NewRecord)
    BY Zenon DEF SaveAnswer, Writes, NewRecord
  <1> QED
    BY <1>1, <1>2

LEMMA SavedManager ==
    ASSUME NEW m \in Managers, NEW c \in Runnable, SaveTarget(m) \notin m.unsupported
    PROVE  /\ Saved(m, c) \in Managers
           /\ Saved(m, c).active \in CopySlot
           /\ Saved(m, c).active \notin Saved(m, c).unsupported
  <1>1. m.generation \in Generations /\ m.active \in CopySlot \cup {"NONE"}
    BY DEF Managers
  <1>2. NextGeneration(m.generation) \in Generations
    BY <1>1, NewerSuccessor, Zenon
  <1>3. SaveTarget(m) \in CopySlot
    BY <1>1, Zenon DEF SaveTarget, Opposite, CopySlot
  <1> QED
    BY <1>2, <1>3, Zenon DEF Saved, Managers

LEMMA InvSaveWrites == SettingsInv /\ SaveWrites => SettingsInv'
  <1> SUFFICES ASSUME SettingsInv, SaveWrites PROVE SettingsInv'
    OBVIOUS
  <1> USE DEF SettingsInv
  <1>1. PICK c, r : c = Candidate /\ r = NewRecord
    OBVIOUS
  <1>2. c \in Runnable /\ Writes(manager, c, r)
    BY <1>1, SaveReady DEF SaveWrites, SaveAsked
  <1>3. PICK n : n = Saved(manager, c)
    OBVIOUS
  <1>4. /\ Served(n, "SAVED") /\ pc = "IDLE"
        /\ repairs' = IF queue.pending = "REPAIR" THEN repairs + 1 ELSE repairs
        /\ slots' = [slots EXCEPT ![SaveTarget(manager)] = r]
        /\ committed' = c /\ attempted' = {} /\ UNCHANGED <<marker, blind>>
    BY <1>1, <1>3 DEF SaveWrites, SaveAsked
  <1>5. n \in Managers /\ n.active \in CopySlot /\ n.active \notin n.unsupported
    BY <1>2, <1>3, SavedManager, Zenon DEF SettingsTypes, Writes
  <1>6. manager' = n
    BY <1>4 DEF Served
  <1>7. /\ manager' \in Managers /\ current' \in Runnable /\ status' \in Statuses
        /\ queue' \in [pending : {"NONE", "REPAIR", "SAVE", "RESET"}, draft : Drafts]
        /\ pc' = "IDLE" /\ repairs' \in Nat /\ RepairedOnce'
    BY <1>4, <1>5, ServedTypes, Zenon DEF Statuses
  <1>8. r \in SlotContents
    BY <1>2, WrittenRecord DEF SlotContents, SettingsTypes
  <1>9. SettingsTypes'
    BY <1>2, <1>4, <1>7, <1>8, Zenon DEF SettingsTypes
  <1>10. ResetProgress' /\ ManagerShape'
    BY <1>4, <1>5, <1>6, <1>7, Zenon DEF ResetProgress, ManagerShape, CopySlot
  <1>11. InStep(slots, manager, committed, attempted)
            => InUse(slots', n, c, {})
    BY <1>2, <1>3, <1>4, SaveVerified, Zenon DEF SettingsTypes, ManagerShape
  <1>12. SlotsInStep'
    BY <1>4, <1>6, <1>7, <1>11, Zenon DEF SlotsInStep, InStep
  <1> QED
    BY <1>7, <1>9, <1>10, <1>12

LEMMA InvSaveFails == SettingsInv /\ SaveFails => SettingsInv'
  <1> SUFFICES ASSUME SettingsInv, SaveFails PROVE SettingsInv'
    OBVIOUS
  <1> USE DEF SettingsInv
  <1>1. PICK c, r : c = Candidate /\ r = NewRecord
    OBVIOUS
  <1>2. c \in Runnable /\ Writes(manager, c, r)
    BY <1>1, SaveReady, Zenon DEF SaveFails, SaveAsked
  <1>3. /\ Served(manager, "SAVE_FAILED") /\ pc = "IDLE"
        /\ repairs' = IF queue.pending = "REPAIR" THEN repairs + 1 ELSE repairs
        /\ attempted' = attempted \cup {c} /\ UNCHANGED <<marker, blind, committed>>
    BY <1>1 DEF SaveFails, SaveAsked
  <1>4. PICK left \in {slots[SaveTarget(manager)], Corrupt, r} :
            slots' = [slots EXCEPT ![SaveTarget(manager)] = left]
    BY <1>1, Zenon DEF SaveFails, Leaves
  <1>5. manager' = manager
    BY <1>3 DEF Served
  <1>6. /\ manager' \in Managers /\ current' \in Runnable /\ status' \in Statuses
        /\ queue' \in [pending : {"NONE", "REPAIR", "SAVE", "RESET"}, draft : Drafts]
        /\ pc' = "IDLE" /\ repairs' \in Nat /\ RepairedOnce'
    BY <1>3, ServedTypes, Zenon DEF Statuses, SettingsTypes
  <1>7. left \in SlotContents
    BY <1>2, WrittenRecord DEF SlotContents, SettingsTypes
  <1>8. SettingsTypes'
    BY <1>2, <1>3, <1>4, <1>6, <1>7, Zenon DEF SettingsTypes
  <1>9. ResetProgress' /\ ManagerShape'
    BY <1>3, <1>5, <1>6, Zenon DEF ResetProgress, ManagerShape
  <1>10. InStep(slots, manager, committed, attempted)
            => InStep(slots', manager, committed, attempted \cup {c})
    BY <1>2, <1>4, SaveLeft, Zenon DEF SettingsTypes
  <1>11. SlotsInStep'
    BY <1>3, <1>5, <1>6, <1>10, Zenon DEF SlotsInStep
  <1> QED
    BY <1>6, <1>8, <1>9, <1>11

(* A reset that stops leaves the manager as it was *)
LEMMA StoppedTypes ==
    ASSUME SettingsInv, ResetStops, queue.pending # "REPAIR", repairs' = repairs
    PROVE  /\ manager' = manager /\ current' \in Runnable /\ status' \in Statuses
           /\ queue' \in [pending : {"NONE", "REPAIR", "SAVE", "RESET"}, draft : Drafts]
           /\ pc' = "IDLE" /\ repairs' \in Nat /\ RepairedOnce'
  <1> USE DEF SettingsInv
  <1>1. PICK result \in {"RESET_FAILED", "UNAVAILABLE"} : Served(manager, result)
    BY DEF ResetStops
  <1>2. result \in Statuses
    BY DEF Statuses
  <1>3. repairs' = IF queue.pending = "REPAIR" THEN repairs + 1 ELSE repairs
    OBVIOUS
  <1>4. manager \in Managers
    BY DEF SettingsTypes
  <1>5. manager' = manager
    BY <1>1 DEF Served
  <1>6. /\ current' \in Runnable /\ status' \in Statuses
        /\ queue' \in [pending : {"NONE", "REPAIR", "SAVE", "RESET"}, draft : Drafts]
        /\ pc' = "IDLE" /\ repairs' \in Nat /\ RepairedOnce'
    BY <1>1, <1>2, <1>3, <1>4, ServedTypes
  <1> QED
    BY <1>5, <1>6

LEMMA InvMarkerWritten == SettingsInv /\ MarkerWritten => SettingsInv'
  <1> SUFFICES ASSUME SettingsInv, MarkerWritten PROVE SettingsInv'
    OBVIOUS
  <1> USE DEF SettingsInv
  <1>1. SettingsTypes'
    BY Zenon DEF SettingsTypes, MarkerWritten
  <1>2. ResetProgress' /\ ManagerShape' /\ RepairedOnce'
    BY Zenon DEF MarkerWritten, ResetProgress, ManagerShape, RepairedOnce
  <1>3. SlotsInStep'
    BY DEF MarkerWritten, SlotsInStep
  <1> QED
    BY <1>1, <1>2, <1>3

LEMMA InvMarkerFails == SettingsInv /\ MarkerFails => SettingsInv'
  <1> SUFFICES ASSUME SettingsInv, MarkerFails PROVE SettingsInv'
    OBVIOUS
  <1> USE DEF SettingsInv
  <1>1. /\ manager' = manager /\ current' \in Runnable /\ status' \in Statuses
        /\ queue' \in [pending : {"NONE", "REPAIR", "SAVE", "RESET"}, draft : Drafts]
        /\ pc' = "IDLE" /\ repairs' \in Nat /\ RepairedOnce'
    BY StoppedTypes DEF MarkerFails
  <1>2. SettingsTypes'
    BY <1>1, Zenon DEF SettingsTypes, MarkerFails
  <1>3. ResetProgress' /\ ManagerShape'
    BY <1>1, Zenon DEF MarkerFails, ResetProgress, ManagerShape
  <1>4. SlotsInStep'
    <2>1. /\ pc = "IDLE" /\ marker' \in {marker, TRUE}
          /\ UNCHANGED <<slots, committed, attempted, blind>>
      BY Zenon DEF MarkerFails
    <2>2. ~marker' => ~marker
      BY <2>1, Zenon
    <2> QED
      BY <1>1, <2>1, <2>2 DEF SlotsInStep
  <1> QED
    BY <1>1, <1>2, <1>3, <1>4

LEMMA CanonicalSlots ==
    /\ Record(1, Defaults) \in SlotContents /\ Canonical \in [CopySlot -> SlotContents]
    /\ Canonical["A"] = Record(1, Defaults) /\ Canonical["B"] = MissingSlot
  <1>1. 1 \in Generations
    BY HalfRangeAssumption DEF Generations
  <1>2. Record(1, Defaults) \in SlotContents
    BY <1>1, RunnableFacts, Zenon DEF Record, SlotContents, SlotRecord
  <1> QED
    BY <1>2 DEF Canonical, CopySlot, SlotContents

LEMMA InvRemoveSlot ==
    ASSUME SettingsInv, NEW slot \in CopySlot, NEW here, NEW next,
           RemoveSlot(slot, here, next),
           \/ slot = "A" /\ here = "REMOVE_A" /\ next = "REMOVE_B"
           \/ slot = "B" /\ here = "REMOVE_B" /\ next = "WRITE_DEFAULTS"
    PROVE  SettingsInv'
  <1> USE DEF SettingsInv
  <1>1. /\ marker = TRUE /\ marker' = TRUE /\ queue.pending # "REPAIR"
        /\ UNCHANGED <<committed, attempted, repairs, blind>>
    BY Zenon DEF RemoveSlot, ResetProgress, RepairedOnce, SettingsTypes
  <1>2. MissingSlot \in SlotContents
    BY DEF SlotContents
  <1>3. slots' \in [CopySlot -> SlotContents]
    BY <1>2, Zenon DEF RemoveSlot, SettingsTypes
  <1>4. SlotsInStep'
    BY <1>1, Zenon DEF SlotsInStep
  <1>5. CASE slots' = [slots EXCEPT ![slot] = MissingSlot] /\ pc' = next
             /\ UNCHANGED <<manager, current, queue, status, faults>>
    <2>1. SettingsTypes'
      BY <1>1, <1>3, <1>5, Zenon DEF SettingsTypes
    <2>2. slots'["A"] = MissingSlot /\ (slot = "B" => slots'["B"] = MissingSlot)
      BY <1>5, Zenon DEF RemoveSlot, ResetProgress, SettingsTypes, CopySlot
    <2>3. ResetProgress'
      BY <1>1, <1>5, <2>2, Zenon DEF ResetProgress
    <2>4. ManagerShape' /\ RepairedOnce'
      BY <1>1, <1>5, Zenon DEF ManagerShape, RepairedOnce
    <2> QED
      BY <1>4, <2>1, <2>3, <2>4
  <1>6. CASE ResetStops
    <2>1. /\ manager' = manager /\ current' \in Runnable /\ status' \in Statuses
          /\ queue' \in [pending : {"NONE", "REPAIR", "SAVE", "RESET"}, draft : Drafts]
          /\ pc' = "IDLE" /\ repairs' \in Nat /\ RepairedOnce'
      BY <1>1, <1>6, StoppedTypes
    <2>2. SettingsTypes'
      BY <1>1, <1>3, <2>1, Zenon DEF SettingsTypes
    <2>3. ResetProgress' /\ ManagerShape'
      BY <1>1, <2>1, Zenon DEF ResetProgress, ManagerShape
    <2> QED
      BY <1>4, <2>1, <2>2, <2>3
  <1> QED
    BY <1>5, <1>6, Zenon DEF RemoveSlot

LEMMA InvWriteDefaults == SettingsInv /\ WriteDefaults => SettingsInv'
  <1> SUFFICES ASSUME SettingsInv, WriteDefaults PROVE SettingsInv'
    OBVIOUS
  <1> USE DEF SettingsInv
  <1>1. /\ marker = TRUE /\ marker' = TRUE /\ queue.pending # "REPAIR"
        /\ UNCHANGED <<committed, attempted, repairs, blind>>
    BY Zenon DEF WriteDefaults, ResetProgress, RepairedOnce, SettingsTypes
  <1>2. slots' \in [CopySlot -> SlotContents]
    BY CanonicalSlots, Zenon DEF WriteDefaults, SettingsTypes, Leaves, SlotContents
  <1>3. SlotsInStep'
    BY <1>1 DEF SlotsInStep
  <1>4. CASE slots' = [slots EXCEPT !["A"] = Record(1, Defaults)] /\ pc' = "REMOVE_MARKER"
             /\ UNCHANGED <<manager, current, queue, status, faults>>
    <2>1. SettingsTypes'
      BY <1>1, <1>2, <1>4 DEF SettingsTypes
    <2>2. slots["B"] = MissingSlot
      BY DEF WriteDefaults, ResetProgress
    <2>3. slots' = Canonical
      BY <1>4, <2>2, Zenon DEF Canonical, SettingsTypes, CopySlot
    <2>4. ResetProgress'
      BY <1>1, <1>4, <2>3 DEF ResetProgress
    <2>5. ManagerShape' /\ RepairedOnce'
      BY <1>1, <1>4, Zenon DEF ManagerShape, RepairedOnce
    <2> QED
      BY <1>3, <2>1, <2>4, <2>5
  <1>5. CASE ResetStops
    <2>1. /\ manager' = manager /\ current' \in Runnable /\ status' \in Statuses
          /\ queue' \in [pending : {"NONE", "REPAIR", "SAVE", "RESET"}, draft : Drafts]
          /\ pc' = "IDLE" /\ repairs' \in Nat /\ RepairedOnce'
      BY <1>1, <1>5, StoppedTypes
    <2>2. SettingsTypes'
      BY <1>1, <1>2, <2>1, Zenon DEF SettingsTypes
    <2>3. ResetProgress' /\ ManagerShape'
      BY <1>1, <2>1, Zenon DEF ResetProgress, ManagerShape
    <2> QED
      BY <1>3, <2>1, <2>2, <2>3
  <1> QED
    BY <1>4, <1>5, Zenon DEF WriteDefaults

LEMMA InvRemoveMarker == SettingsInv /\ RemoveMarker => SettingsInv'
  <1> SUFFICES ASSUME SettingsInv, RemoveMarker PROVE SettingsInv'
    OBVIOUS
  <1> USE DEF SettingsInv
  <1>1. /\ slots = Canonical /\ queue.pending # "REPAIR" /\ pc = "REMOVE_MARKER"
        /\ UNCHANGED <<slots, repairs>>
    BY Zenon DEF RemoveMarker, ResetProgress, RepairedOnce
  <1>2. CASE /\ marker' = FALSE /\ Served(ResetManager, "RESET_COMPLETED")
             /\ committed' = Defaults /\ attempted' = {} /\ blind' = FALSE
    <2>1. /\ ResetManager \in Managers /\ ResetManager.active = "A"
          /\ ResetManager.generation = 1 /\ ResetManager.settings = Defaults
          /\ ResetManager.unsupported = {}
      <3>1. 1 \in Generations
        BY HalfRangeAssumption DEF Generations
      <3> QED
        BY <3>1, RunnableFacts, Zenon DEF ResetManager, FreshManager, Managers, CopySlot
    <2>2. repairs' = IF queue.pending = "REPAIR" THEN repairs + 1 ELSE repairs
      BY <1>1
    <2>3. /\ manager' \in Managers /\ current' \in Runnable /\ status' \in Statuses
          /\ queue' \in [pending : {"NONE", "REPAIR", "SAVE", "RESET"}, draft : Drafts]
          /\ pc' = "IDLE" /\ repairs' \in Nat /\ RepairedOnce'
      BY <1>2, <2>1, <2>2, ServedTypes, Zenon DEF Statuses
    <2>4. manager' = ResetManager
      BY <1>2 DEF Served
    <2>5. SettingsTypes'
      BY <1>1, <1>2, <2>3, RunnableFacts, Zenon DEF SettingsTypes
    <2>6. ResetProgress' /\ ManagerShape'
      BY <1>2, <2>1, <2>3, <2>4, Zenon DEF ResetProgress, ManagerShape
    <2>7. InUse(Canonical, ResetManager, Defaults, {})
      <3>1. /\ Record(1, Defaults).generation = 1 /\ Record(1, Defaults).settings = Defaults
            /\ Record(1, Defaults).status = "RECORD" /\ MissingSlot.status = "MISSING"
            /\ Unsupported.status = "UNSUPPORTED"
        BY Zenon DEF Record, MissingSlot, Unsupported
      <3>2. OtherSchemas(Canonical) = {}
        BY <3>1, CanonicalSlots DEF OtherSchemas, CopySlot
      <3>3. Prevails(Canonical, "A")
        BY <3>1, CanonicalSlots DEF Prevails, Opposite, Usable
      <3>4. ValidateAndRepair(Defaults) = Defaults
        BY RunnableFacts
      <3>5. TakenFrom(Canonical, "A", ResetManager)
        BY <2>1, <3>1, <3>2, <3>4, CanonicalSlots, Zenon DEF TakenFrom, Usable
      <3> QED
        BY <2>1, <3>3, <3>5, Zenon DEF InUse
    <2>8. SlotsInStep'
      BY <1>1, <1>2, <2>3, <2>4, <2>7, Zenon DEF SlotsInStep, InStep
    <2> QED
      BY <2>3, <2>5, <2>6, <2>8
  <1>3. CASE /\ marker' \in BOOLEAN /\ ResetStops
             /\ attempted' = attempted \cup {Defaults}
             /\ blind' = (blind \/ (~marker' /\ OutOfStep))
             /\ UNCHANGED committed
    <2>1. /\ manager' = manager /\ current' \in Runnable /\ status' \in Statuses
          /\ queue' \in [pending : {"NONE", "REPAIR", "SAVE", "RESET"}, draft : Drafts]
          /\ pc' = "IDLE" /\ repairs' \in Nat /\ RepairedOnce'
      BY <1>1, <1>3, StoppedTypes
    <2>2. blind' \in BOOLEAN
      BY <1>3
    <2>3. SettingsTypes'
      BY <1>1, <1>3, <2>1, <2>2, RunnableFacts, Zenon DEF SettingsTypes
    <2>4. ResetProgress' /\ ManagerShape'
      BY <2>1, Zenon DEF ResetProgress, ManagerShape
    <2>5. ASSUME ~marker', ~blind'
          PROVE  ResetUnnoticed(slots', manager', attempted')
      <3>1. GenerationIsNewer(NextGeneration(manager.generation), 1)
        BY <1>3, <2>5, Zenon DEF OutOfStep
      <3>2. manager.active \in CopySlot
        <4>1. ASSUME manager.generation = 0 PROVE FALSE
          <5>1. 1 \in Generations /\ NextGeneration(manager.generation) = 1
            BY <4>1, HalfRangeAssumption DEF NextGeneration, Generations
          <5> QED
            BY <3>1, <5>1, NewerOneWay
        <4> QED
          BY <4>1 DEF ManagerShape, SettingsTypes, Managers
      <3>3. /\ slots'["A"] = Record(1, Defaults) /\ slots'["B"] = MissingSlot
        BY <1>1, CanonicalSlots
      <3>4. \/ manager.active = "A" /\ Opposite(manager.active) = "B"
            \/ manager.active = "B" /\ Opposite(manager.active) = "A"
        BY <3>2 DEF CopySlot, Opposite
      <3>5. Defaults \in attempted'
        BY <1>3
      <3> QED
        BY <2>1, <3>1, <3>3, <3>4, <3>5, Zenon DEF ResetUnnoticed
    <2>6. SlotsInStep'
      BY <2>1, <2>5, Zenon DEF SlotsInStep, InStep
    <2> QED
      BY <2>1, <2>3, <2>4, <2>6
  <1> QED
    BY <1>2, <1>3, Zenon DEF RemoveMarker

LEMMA InvPowerCut == SettingsInv /\ PowerCut => SettingsInv'
  <1> SUFFICES ASSUME SettingsInv, PowerCut PROVE SettingsInv'
    OBVIOUS
  <1> USE DEF SettingsInv
  <1>1. /\ pc # "OFF" /\ pc' = "OFF" /\ manager' = FreshManager /\ current' = Defaults
        /\ queue' = EmptyQueue(Defaults) /\ status' = "NOT_SUPPLIED" /\ repairs' = 0
        /\ marker' = marker /\ UNCHANGED <<committed, blind>>
    BY Zenon DEF PowerCut, Off
  <1>2. /\ FreshManager \in Managers
        /\ queue' \in [pending : {"NONE", "REPAIR", "SAVE", "RESET"}, draft : Drafts]
        /\ status' \in Statuses
    <2>1. Defaults \in Drafts
      BY SettingsAssumption
    <2>2. queue' \in [pending : {"NONE", "REPAIR", "SAVE", "RESET"}, draft : Drafts]
      BY <1>1, <2>1 DEF EmptyQueue
    <2>3. status' \in Statuses
      BY <1>1 DEF Statuses
    <2>4. slots \in [CopySlot -> SlotContents] /\ FALSE \in BOOLEAN
      BY DEF SettingsTypes
    <2>5. FreshManager \in Managers
      BY <2>4, FreshManagers, Zenon
    <2> QED
      BY <2>2, <2>3, <2>5
  <1>3. ResetProgress' /\ ManagerShape' /\ RepairedOnce'
    <2>1. pc' = "OFF"
      BY <1>1
    <2>2. ResetProgress'
      BY <2>1 DEF ResetProgress
    <2>3. ManagerShape'
      BY <1>1, Zenon DEF ManagerShape, FreshManager
    <2>4. RepairedOnce'
      BY <1>1 DEF RepairedOnce
    <2> QED
      BY <2>2, <2>3, <2>4
  <1>4. ASSUME slots' \in [CopySlot -> SlotContents], attempted' \in SUBSET Runnable
        PROVE  SettingsTypes'
    BY <1>1, <1>2, <1>4, RunnableFacts, Zenon DEF SettingsTypes
  <1>5. ASSUME slots' \in [CopySlot -> SlotContents], attempted' \in SUBSET Runnable,
               ~marker /\ ~blind => InStep(slots', manager, committed, attempted')
        PROVE  SlotsInStep'
    <2>1. ~marker /\ ~blind => BootIsSafe(slots', committed, attempted')
      BY <1>5, BootOfStep, Zenon DEF SettingsTypes, ManagerShape
    <2> QED
      BY <1>1, <2>1 DEF SlotsInStep
  <1>6. ~marker => pc = "IDLE"
    BY <1>1, Zenon DEF ResetProgress, SettingsTypes
  <1>7. ~marker /\ ~blind => InStep(slots, manager, committed, attempted)
    BY <1>6 DEF SlotsInStep
  <1>8. CASE UNCHANGED <<slots, marker, attempted>>
    <2>1. slots' \in [CopySlot -> SlotContents] /\ attempted' \in SUBSET Runnable
      BY <1>8 DEF SettingsTypes
    <2>2. SlotsInStep'
      BY <1>5, <1>7, <1>8, <2>1
    <2> QED
      BY <1>3, <1>4, <2>1, <2>2
  <1>9. CASE /\ SaveAnswer(manager, Candidate) = "WRITE"
             /\ Leaves(SaveTarget(manager), NewRecord)
             /\ attempted' = attempted \cup {Candidate}
    <2>1. PICK c, r : c = Candidate /\ r = NewRecord
      OBVIOUS
    <2>2. c \in Runnable /\ Writes(manager, c, r)
      BY <1>9, <2>1, SaveReady
    <2>3. PICK left \in {slots[SaveTarget(manager)], Corrupt, r} :
              slots' = [slots EXCEPT ![SaveTarget(manager)] = left]
      BY <1>9, <2>1, Zenon DEF Leaves
    <2>4. left \in SlotContents
      BY <2>2, WrittenRecord DEF SlotContents, SettingsTypes
    <2>5. slots' \in [CopySlot -> SlotContents] /\ attempted' \in SUBSET Runnable
      BY <1>9, <2>1, <2>2, <2>3, <2>4, Zenon DEF SettingsTypes
    <2>6. InStep(slots, manager, committed, attempted)
            => InStep(slots', manager, committed, attempted \cup {c})
      BY <2>2, <2>3, SaveLeft, Zenon DEF SettingsTypes
    <2>7. SlotsInStep'
      BY <1>5, <1>7, <1>9, <2>1, <2>5, <2>6, Zenon
    <2> QED
      BY <1>3, <1>4, <2>5, <2>7
  <1>10. CASE pc = "WRITE_DEFAULTS" /\ Leaves("A", Record(1, Defaults))
              /\ UNCHANGED <<marker, attempted>>
    <2>1. slots' \in [CopySlot -> SlotContents] /\ attempted' \in SUBSET Runnable
      BY <1>10, CanonicalSlots, Zenon DEF SettingsTypes, Leaves, SlotContents
    <2>2. SlotsInStep'
      BY <1>1, <1>6, <1>10 DEF SlotsInStep
    <2> QED
      BY <1>3, <1>4, <2>1, <2>2
  <1> QED
    BY <1>8, <1>9, <1>10, Zenon DEF PowerCut

LEMMA SettingsInvNext == SettingsInv /\ [SettingsNext]_settingsVars => SettingsInv'
  <1> SUFFICES ASSUME SettingsInv, [SettingsNext]_settingsVars PROVE SettingsInv'
    OBVIOUS
  <1>1. CASE UserAsks
    BY <1>1, InvUserAsks
  <1>2. CASE Load \/ LoadFails \/ LoadResumesReset
    BY <1>2, InvLoad, InvLoadFails, InvLoadResumesReset
  <1>3. CASE SaveReturnsEarly \/ SaveWrites \/ SaveFails
    BY <1>3, InvSaveReturnsEarly, InvSaveWrites, InvSaveFails
  <1>4. CASE MarkerWritten \/ MarkerFails
    BY <1>4, InvMarkerWritten, InvMarkerFails
  <1>5. CASE ResetStep
    <2>1. CASE RemoveSlot("A", "REMOVE_A", "REMOVE_B")
      BY <2>1, InvRemoveSlot DEF CopySlot
    <2>2. CASE RemoveSlot("B", "REMOVE_B", "WRITE_DEFAULTS")
      BY <2>2, InvRemoveSlot DEF CopySlot
    <2>3. CASE WriteDefaults \/ RemoveMarker
      BY <2>3, InvWriteDefaults, InvRemoveMarker
    <2> QED
      BY <1>5, <2>1, <2>2, <2>3 DEF ResetStep
  <1>6. CASE PowerCut
    BY <1>6, InvPowerCut
  <1>7. CASE UNCHANGED settingsVars
    BY <1>7, Zenon DEF settingsVars, SettingsInv, SettingsTypes, ResetProgress, ManagerShape,
                RepairedOnce, SlotsInStep
  <1> QED
    BY <1>1, <1>2, <1>3, <1>4, <1>5, <1>6, <1>7 DEF SettingsNext

LEMMA SettingsInvHolds == SettingsSpec => []SettingsInv
  BY SettingsInvInit, SettingsInvNext, PTL DEF SettingsSpec

(* Whenever the power is cut, the next boot that can read the slots gives   *)
(* the settings last saved, those of a save that was not finished, or the   *)
(* defaults of a reset: for every width of the generations, every stored    *)
(* record, any number of faults, requests and cuts (save, load,             *)
(* factoryReset).                                                           *)
THEOREM SettingsSurvivePowerCuts == SettingsSpec => []PowerCutIsSafe
  <1>1. SettingsInv => PowerCutIsSafe
    <2> SUFFICES ASSUME SettingsInv, ~blind, ~marker
                 PROVE  BootIsSafe(slots, committed, attempted)
      BY DEF PowerCutIsSafe, BootIsSafe
    <2> USE DEF SettingsInv
    <2>1. pc \in {"OFF", "IDLE"}
      BY DEF ResetProgress
    <2>2. CASE pc = "IDLE"
      BY <2>2, BootOfStep, Zenon DEF SlotsInStep, SettingsTypes, ManagerShape
    <2> QED
      BY <2>1, <2>2 DEF SlotsInStep
  <1> QED
    BY <1>1, SettingsInvHolds, PTL

(* While every store call succeeds the manager knows the slots: which is in *)
(* use, its generation and settings, and which hold another schema          *)
THEOREM ManagerKnowsTheSlots == SettingsSpec => []ViewIsFlash
  <1>1. SettingsInv => ViewIsFlash
    <2> SUFFICES ASSUME SettingsInv PROVE ViewIsFlash
      OBVIOUS
    <2> USE DEF SettingsInv
    <2>1. SettingsTypeOK
      <3>1. ASSUME NEW s \in CopySlot
            PROVE  \/ slots[s] \in {MissingSlot, Corrupt, Unsupported}
                   \/ Usable(slots[s]) /\ slots[s].generation \in Generations
        BY SlotForms, Zenon DEF SettingsTypes, SlotRecord
      <3>2. IsValid(manager.settings) /\ IsValid(current) /\ IsValid(queue.draft)
        BY RunnableFacts, SettingsAssumption, Zenon DEF SettingsTypes, Managers
      <3> QED
        BY <3>1, <3>2, Zenon DEF SettingsTypeOK, SettingsTypes, Managers
    <2>2. repairs <= 1
      BY DEF RepairedOnce
    <2>3. ASSUME pc = "IDLE", ~marker, attempted = {}, ~blind
          PROVE  LoadSlots(slots).manager
                   = [manager EXCEPT !.repair = LoadSlots(slots).manager.repair]
      <3>1. PICK m : m = LoadSlots(slots).manager
        OBVIOUS
      <3>2. m \in Managers /\ manager \in Managers
        BY <3>1, LoadInStep, Zenon DEF SettingsTypes
      <3>3. /\ m.settings = manager.settings /\ m.generation = manager.generation
            /\ m.active = manager.active /\ m.unsupported = manager.unsupported
        <4>1. CASE InUse(slots, manager, committed, {})
          <5>1. manager.active \in CopySlot
            BY <3>2, <4>1 DEF InUse, Managers
          <5>2. Prevails(slots, manager.active) /\ TakenFrom(slots, manager.active, manager)
            BY <4>1 DEF InUse, Unfinished
          <5>3. TakenFrom(slots, manager.active, m)
            BY <3>1, <5>1, <5>2, LoadPrevailing, Zenon DEF TakenFrom, SettingsTypes
          <5> QED
            BY <5>2, <5>3, Zenon DEF TakenFrom
        <4>2. CASE NoneInUse(slots, manager, committed, {})
          <5>1. \A s \in CopySlot : ~Usable(slots[s])
            BY <4>2 DEF NoneInUse, Unfinished, CopySlot
          <5>2. /\ m.active = "NONE" /\ m.generation = 0 /\ m.settings = Defaults
                /\ m.unsupported = OtherSchemas(slots)
            BY <3>1, <5>1, LoadDefaults, Zenon DEF SettingsTypes
          <5> QED
            BY <4>2, <5>2, Zenon DEF NoneInUse, ManagerShape
        <4>3. ~ResetUnnoticed(slots, manager, {})
          BY DEF ResetUnnoticed
        <4> QED
          BY <2>3, <4>1, <4>2, <4>3, Zenon DEF SlotsInStep, InStep
      <3> QED
        BY <3>1, <3>2, <3>3 DEF Managers
    <2> QED
      BY <2>1, <2>2, <2>3 DEF ViewIsFlash
  <1> QED
    BY <1>1, SettingsInvHolds, PTL

(* The reset marker goes only when the canonical record stands alone, and   *)
(* neither save nor the automatic repair writes over a record of another    *)
(* schema (completeVerifiedReset, save)                                     *)
THEOREM ResetsAreWhole == SettingsSpec => ResetIsWhole
  <1> DEFINE Whole == /\ marker /\ ~marker' => slots = Canonical
                      /\ \A s \in CopySlot :
                             slots[s] = Unsupported /\ slots'[s] # Unsupported
                                 => marker \/ blind
  <1>1. SettingsInv /\ [SettingsNext]_settingsVars => [Whole]_settingsVars
    <2> SUFFICES ASSUME SettingsInv, SettingsNext PROVE Whole
      BY Zenon
    <2> USE DEF SettingsInv
    <2>1. CASE UserAsks \/ Load \/ LoadFails \/ LoadResumesReset \/ SaveReturnsEarly
      BY <2>1, SMTT(20) DEF UserAsks, Load, LoadFails, LoadResumesReset, SaveReturnsEarly
    <2>2. ASSUME SaveAnswer(manager, Candidate) = "WRITE", marker' = marker, pc = "IDLE",
                 NEW left, slots' = [slots EXCEPT ![SaveTarget(manager)] = left]
          PROVE  Whole
      <3>1. Writes(manager, Candidate, NewRecord)
        BY <2>2, SaveReady
      <3>2. SUFFICES ASSUME NEW s \in CopySlot, slots[s] = Unsupported,
                            slots'[s] # Unsupported, ~marker, ~blind
                     PROVE  FALSE
        BY <2>2
      <3>3. s = SaveTarget(manager)
        BY <2>2, <3>2, Zenon DEF SettingsTypes
      <3>4. s \in OtherSchemas(slots)
        BY <3>2, Zenon DEF OtherSchemas
      <3>5. OtherSchemas(slots) # manager.unsupported
        BY <3>1, <3>3, <3>4, Zenon DEF Writes
      <3>6. ResetUnnoticed(slots, manager, attempted)
        BY <2>2, <3>2, <3>5, Zenon DEF SlotsInStep, InStep, InUse, NoneInUse, TakenFrom
      <3>7. s = Opposite(manager.active)
        BY <3>3, <3>6, Zenon DEF SaveTarget, ResetUnnoticed
      <3>8. /\ MissingSlot.status = "MISSING" /\ Unsupported.status = "UNSUPPORTED"
            /\ Record(1, Defaults).status = "RECORD" /\ Corrupt.status = "CORRUPT"
        BY Zenon DEF MissingSlot, Unsupported, Record, Corrupt
      <3> QED
        BY <3>2, <3>6, <3>7, <3>8, Zenon DEF ResetUnnoticed, Unfinished, Usable
    <2>3. CASE SaveWrites
      BY <2>2, <2>3, Zenon DEF SaveWrites, SaveAsked
    <2>4. CASE SaveFails
      BY <2>2, <2>4, Zenon DEF SaveFails, SaveAsked, Leaves
    <2>5. CASE MarkerWritten \/ MarkerFails
      <3>1. slots' = slots /\ marker' \in {marker, TRUE}
        BY <2>5, Zenon DEF MarkerWritten, MarkerFails
      <3>2. marker => marker'
        BY <3>1, Zenon
      <3> QED
        BY <3>1, <3>2
    <2>6. CASE ResetStep
      <3>1. marker
        BY <2>6, Zenon DEF ResetStep, RemoveSlot, WriteDefaults, RemoveMarker, ResetProgress
      <3>2. CASE RemoveMarker
        BY <3>1, <3>2 DEF RemoveMarker, ResetProgress
      <3>3. CASE ~RemoveMarker
        BY <2>6, <3>1, <3>3, Zenon DEF ResetStep, RemoveSlot, WriteDefaults
      <3> QED
        BY <3>2, <3>3, Zenon
    <2>7. CASE PowerCut
      <3>1. marker' = marker
        BY <2>7, Zenon DEF PowerCut
      <3>2. CASE slots' = slots
        BY <3>1, <3>2
      <3>3. CASE marker
        BY <3>1, <3>3
      <3>4. CASE slots' # slots /\ ~marker
        <4>1. pc # "WRITE_DEFAULTS"
          BY <3>4 DEF ResetProgress
        <4>2. /\ SaveAnswer(manager, Candidate) = "WRITE" /\ pc = "IDLE"
              /\ Leaves(SaveTarget(manager), NewRecord)
          BY <2>7, <3>4, <4>1, Zenon DEF PowerCut
        <4> QED
          BY <2>2, <3>1, <4>2, Zenon DEF Leaves
      <3> QED
        BY <3>2, <3>3, <3>4
    <2> QED
      BY <2>1, <2>3, <2>4, <2>5, <2>6, <2>7, Zenon DEF SettingsNext
  <1> QED
    BY <1>1, SettingsInvHolds, PTL DEF SettingsSpec, ResetIsWhole
=============================================================================
