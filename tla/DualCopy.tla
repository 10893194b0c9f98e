------------------------------ MODULE DualCopy ------------------------------
(***************************************************************************)
(* The write discipline of the event subsystem's durable records: write the *)
(* inactive copy with the next generation, commit, read it back, compare    *)
(* the bytes, select again over both copies, and only then move the RAM     *)
(* view.  Modelled here for one slot of the Node's event store; the Hub's   *)
(* slots and its ordinal metadata take the same steps.  The identity        *)
(* metadata takes all of them but the second selection                      *)
(* (event_identity.h:256-312), which ViewIsAuthoritative makes redundant:   *)
(* a copy written with the next generation is always the one selected.      *)
(*                                                                         *)
(* Storage faults are nondeterministic: a write may be cut short by power   *)
(* loss or report an error, and then leaves the old copy, a torn one or the *)
(* new one; a read may be unavailable.  The fault is always noticed, because *)
(* success needs the written bytes read back.                               *)
(***************************************************************************)
EXTENDS EventStorage

CONSTANTS Values,      \* record contents, generation aside
          Initial,     \* the contents of the canonical FREE record
          NoValue      \* no contents

ASSUME InitialAssumption == Initial \in Values /\ NoValue \notin Values

VARIABLES copies,      \* flash: the two copies of the record
          mode,        \* "OFF", "READY" (healthy_) or "DEGRADED"
          record,      \* slots_[slot].record: [generation, value]
          activeCopy   \* slots_[slot].activeCopy

vars == <<copies, mode, record, activeCopy>>

Missing == [status |-> "MISSING", generation |-> 0, value |-> NoValue]
Torn    == [status |-> "INVALID", generation |-> 0, value |-> NoValue]
Encoded(r) == [status |-> "OK", generation |-> r.generation, value |-> r.value]

NoRecord == [generation |-> 0, value |-> NoValue]

Copy == {Missing, Torn} \cup
        [status : {"OK"}, generation : Generations, value : Values]

TypeOK ==
    /\ copies \in [CopySlot -> Copy]
    /\ mode \in {"OFF", "READY", "DEGRADED"}
    /\ record \in [generation : Generations, value : Values \cup {NoValue}]
    /\ activeCopy \in CopySlot

Init == /\ copies = [c \in CopySlot |-> Missing]
        /\ mode = "OFF" /\ record = NoRecord /\ activeCopy = "A"

(* RAM after power loss, and while the store is out of service *)
Forget == record' = NoRecord /\ activeCopy' = "A"

(* What one write leaves in the target copy when it is not verified *)
Landing(target, r) == {copies[target], Torn, Encoded(r)}

-----------------------------------------------------------------------------

BothMissing == \A c \in CopySlot : copies[c] = Missing

(* recover over a slot with an authoritative copy *)
RecoverSelected ==
    LET selection == SelectCopies(copies)
        chosen    == copies[selection.slot]
    IN  /\ mode = "OFF"
        /\ selection.result \notin Unselected
        /\ record' = [generation |-> chosen.generation, value |-> chosen.value]
        /\ activeCopy' = selection.slot
        /\ mode' = "READY"
        /\ UNCHANGED copies

(* recover fails: a read is unavailable, both copies are invalid but not    *)
(* both missing, or the generations conflict                                *)
RecoverFails ==
    /\ mode = "OFF"
    /\ mode' = "DEGRADED"
    /\ Forget
    /\ UNCHANGED copies

InitialRecord == [generation |-> 1, value |-> Initial]

(* commitInitialFree: the first boot writes copy A *)
CommitInitial ==
    /\ mode = "OFF" /\ BothMissing
    /\ copies' = [copies EXCEPT !["A"] = Encoded(InitialRecord)]
    /\ record' = InitialRecord /\ activeCopy' = "A" /\ mode' = "READY"

CommitInitialFails ==
    /\ mode = "OFF" /\ BothMissing
    /\ \E left \in Landing("A", InitialRecord) :
           copies' = [copies EXCEPT !["A"] = left]
    /\ mode' \in {"OFF", "DEGRADED"}
    /\ Forget

-----------------------------------------------------------------------------

NextRecord(v) == [generation |-> NextGeneration(record.generation), value |-> v]

Target == Opposite(activeCopy)

(* commitMutation's last check: both copies re-read, the target selected *)
Authoritative(both, target, r) ==
    LET selection == SelectCopies(both)
    IN  /\ selection.result \notin {"EQUAL_DISAGREEMENT", "GENERATION_AMBIGUOUS"}
        /\ selection.slot = target
        /\ both[selection.slot].generation = r.generation

(* commitMutation: written, committed, read back and authoritative *)
CommitMutation(v) ==
    LET next    == NextRecord(v)
        written == [copies EXCEPT ![Target] = Encoded(next)]
    IN  /\ mode = "READY"
        /\ Authoritative(written, Target, next)
        /\ copies' = written
        /\ record' = next /\ activeCopy' = Target
        /\ UNCHANGED mode

(* commitMutation fails or loses power on the way; the store is out of      *)
(* service until the next boot.  (RAM keeps the old record while degraded;  *)
(* every operation refuses to use it.)                                      *)
CommitMutationFails(v) ==
    /\ mode = "READY"
    /\ \E left \in Landing(Target, NextRecord(v)) :
           copies' = [copies EXCEPT ![Target] = left]
    /\ mode' \in {"OFF", "DEGRADED"}
    /\ Forget

PowerLoss == /\ mode # "OFF"
             /\ mode' = "OFF"
             /\ Forget
             /\ UNCHANGED copies

Next == \/ RecoverSelected \/ RecoverFails
        \/ CommitInitial \/ CommitInitialFails
        \/ \E v \in Values : CommitMutation(v) \/ CommitMutationFails(v)
        \/ PowerLoss

Spec == Init /\ [][Next]_vars

-----------------------------------------------------------------------------

Selection == SelectCopies(copies)

(* A boot that can read the flash finds an authoritative copy *)
Recoverable == Selection.result \notin Unselected

(* Once a record has been committed, every later boot that can read the     *)
(* flash finds an authoritative copy: no step (a torn write, a failed       *)
(* verification, a power loss) takes the flash from a pair recover accepts  *)
(* to one it rejects, two invalid copies, a generation tie with different   *)
(* bytes, or an ambiguous pair.                                             *)
AlwaysRecoverable == [][Recoverable => Recoverable']_vars

(* While the store is in service its RAM record and active copy are what a  *)
(* reboot would select, so a mutation always overwrites the copy that is    *)
(* not authoritative, across the wrap of the 32-bit generation.             *)
ViewIsAuthoritative ==
    mode = "READY" =>
        /\ Selection.result \notin Unselected
        /\ Selection.slot = activeCopy
        /\ copies[activeCopy] = Encoded(record)

(* The copy last written whole, told by the order of writing alone and not  *)
(* by the comparison the code selects with: it is valid, and the other copy *)
(* is invalid or of the generation before                                   *)
Superseded(other, newest) ==
    \/ ~Valid(other)
    \/ newest.generation = NextGeneration(other.generation)

Newest(both, c) == /\ Valid(both[c])
                   /\ Superseded(both[Opposite(c)], both[c])

(* The refinement mapping: the copy last written whole is the atomic cell *)
AbstractCell ==
    IF \E c \in CopySlot : Newest(copies, c)
      THEN LET newest == CHOOSE c \in CopySlot : Newest(copies, c)
           IN  [state |-> "HELD", value |-> copies[newest].value]
      ELSE [state |-> IF BothMissing THEN "MISSING" ELSE "INVALID",
            value |-> NoValue]

Cell == INSTANCE AtomicCell WITH cell <- AbstractCell, view <- record.value

(* The A/B discipline implements one atomic durable cell: writes are all or *)
(* nothing, a failed write is old or new, and a boot serves the copy last   *)
(* written whole, whichever side of the wrap its generation is on           *)
ImplementsAtomicCell == Cell!CellSpec
=============================================================================
