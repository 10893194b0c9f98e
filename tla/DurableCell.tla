----------------------------- MODULE DurableCell -----------------------------
(***************************************************************************)
(* One durable record as the stores above the A/B copies see it: a single   *)
(* cell that a mutation replaces, or leaves alone, and never damages once   *)
(* it has been written.  Every cell value is a record with a "state" field; *)
(* "MISSING" and "INVALID" stand for a cell with no authoritative copy.     *)
(* AtomicCell states this promise as a specification and DualCopy           *)
(* implements it.                                                           *)
(***************************************************************************)

(* The cell has an authoritative copy *)
Held(cell) == cell.state \notin {"MISSING", "INVALID"}

(* Mutant: the only record is overwritten in place *)
InDoubtInPlace(old, new) == {old, [old EXCEPT !.state = "INVALID"], new}

(* What is durable when a write is cut short or cannot be verified: the old *)
(* record or the new one, and a torn copy only where there was none to keep *)
InDoubt(old, new) ==
    IF Held(old) THEN {old, new}
                 ELSE {old, [old EXCEPT !.state = "INVALID"], new}
=============================================================================
