---------------------------- MODULE ScalarValues ----------------------------
(* The bits of a value: those of a uint32_t, of which the 16-bit types use  *)
(* the lower half                                                           *)
EXTENDS Naturals

CONSTANTS HalfRange,     \* 2^31
          NarrowRange    \* 2^16

ASSUME ScalarAssumption == HalfRange \in Nat \ {0} /\ NarrowRange \in 2 .. HalfRange

Words == 0 .. 2 * HalfRange - 1
=============================================================================
