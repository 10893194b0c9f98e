---------------------------- MODULE EventStorage ----------------------------
(***************************************************************************)
(* The pure part of the event storage library (event_store.h): a durable   *)
(* record is kept as two copies, A and B, each stamped with a 32-bit        *)
(* generation.  These operators order generations and choose the            *)
(* authoritative copy.                                                      *)
(*                                                                         *)
(* A copy is a record with a status.  "MISSING" is an absent NVS key.       *)
(* "INVALID" is a key whose bytes the record codec rejects (torn write, bad *)
(* CRC, wrong length).  "OK" is a copy that decodes.  The encoded bytes are *)
(* abstracted to the pair generation, value: two valid copies have equal    *)
(* bytes exactly when both agree.                                           *)
(***************************************************************************)
EXTENDS Integers

CONSTANT HalfRange      \* 2^31: generations are uint32_t

ASSUME HalfRangeAssumption == HalfRange \in Nat /\ HalfRange > 1

Generations == 0 .. (2 * HalfRange - 1)

(* generation + 1U, wrapping to zero *)
NextGeneration(g) == IF g = 2 * HalfRange - 1 THEN 0 ELSE g + 1

(* The uint32_t difference left - right *)
Distance(left, right) ==
    IF left >= right THEN left - right ELSE left - right + 2 * HalfRange

(* Mutant: generations compared as plain numbers, blind to the wrap *)
CompareGenerationsPlain(left, right) ==
    IF left = right THEN "EQUAL"
    ELSE IF left > right THEN "LEFT_NEWER" ELSE "RIGHT_NEWER"

CompareGenerations(left, right) ==
    IF left = right THEN "EQUAL"
    ELSE IF Distance(left, right) = HalfRange THEN "AMBIGUOUS"
    ELSE IF Distance(left, right) < HalfRange THEN "LEFT_NEWER"
    ELSE "RIGHT_NEWER"

CopySlot == {"A", "B"}

Opposite(copy) == IF copy = "A" THEN "B" ELSE "A"

Valid(copy) == copy.status = "OK"

(***************************************************************************)
(* selectCopies: which copy is authoritative, and why.  As in the code the  *)
(* selected slot stays A when nothing is selected.                          *)
(***************************************************************************)
SelectCopies(copies) ==
    LET a == copies["A"]
        b == copies["B"]
        order == CompareGenerations(a.generation, b.generation)
        chosen(result, slot) == [result |-> result, slot |-> slot]
    IN  IF ~Valid(a) /\ ~Valid(b) THEN chosen("BOTH_INVALID", "A")
        ELSE IF ~Valid(b) THEN chosen("ONLY_A_VALID", "A")
        ELSE IF ~Valid(a) THEN chosen("ONLY_B_VALID", "B")
        ELSE IF order = "EQUAL"
               THEN IF a.value = b.value THEN chosen("EQUAL_IDENTICAL", "A")
                                         ELSE chosen("EQUAL_DISAGREEMENT", "A")
        ELSE IF order = "AMBIGUOUS" THEN chosen("GENERATION_AMBIGUOUS", "A")
        ELSE IF order = "LEFT_NEWER" THEN chosen("NEWEST_A", "A")
        ELSE chosen("NEWEST_B", "B")

(* The selections that name no authoritative copy *)
Unselected == {"BOTH_INVALID", "EQUAL_DISAGREEMENT", "GENERATION_AMBIGUOUS"}
=============================================================================
