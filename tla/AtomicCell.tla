----------------------------- MODULE AtomicCell -----------------------------
(***************************************************************************)
(* What a dual-copy record promises its store: an atomic durable cell with  *)
(* a RAM view of it.  A verified mutation changes both.  A mutation that    *)
(* fails or loses power leaves the old or the new value durable, takes the  *)
(* store out of service until the next boot and leaves the view behind.     *)
(* Recovery loads exactly what is durable.                                  *)
(***************************************************************************)
EXTENDS DurableCell

CONSTANTS Values,      \* the record contents a store may hold
          Initial,     \* the contents the first boot writes
          NoValue      \* the contents of a cell that holds nothing

VARIABLES cell,        \* the durable contents: [state, value]
          view,        \* the contents RAM believes, when mode = "READY"
          mode         \* "OFF", "READY" or "DEGRADED"

cellVars == <<cell, view, mode>>

Holding(v) == [state |-> "HELD", value |-> v]

Blank == [state |-> "MISSING", value |-> NoValue]

CellInit == cell = Blank /\ view = NoValue /\ mode = "OFF"

(* A boot that finds a durable value serves it *)
Load == /\ mode = "OFF" /\ Held(cell)
        /\ mode' = "READY" /\ view' = cell.value
        /\ UNCHANGED cell

(* A boot that cannot read the cell, or finds it damaged, serves nothing *)
LoadFails == /\ mode = "OFF"
             /\ mode' = "DEGRADED"
             /\ UNCHANGED <<cell, view>>

(* The first boot formats a blank cell *)
Format == /\ mode = "OFF" /\ cell = Blank
          /\ cell' = Holding(Initial) /\ view' = Initial /\ mode' = "READY"

FormatFails == /\ mode = "OFF" /\ cell = Blank
               /\ cell' \in InDoubt(cell, Holding(Initial))
               /\ mode' \in {"OFF", "DEGRADED"}
               /\ UNCHANGED view

Put(v) == /\ mode = "READY"
          /\ cell' = Holding(v) /\ view' = v
          /\ UNCHANGED mode

PutFails(v) == /\ mode = "READY"
               /\ cell' \in InDoubt(cell, Holding(v))
               /\ mode' \in {"OFF", "DEGRADED"}
               /\ view' = NoValue

Stop == /\ mode # "OFF"
        /\ mode' = "OFF" /\ view' = NoValue
        /\ UNCHANGED cell

CellNext == \/ Load \/ LoadFails \/ Format \/ FormatFails \/ Stop
            \/ \E v \in Values : Put(v) \/ PutFails(v)

CellSpec == CellInit /\ [][CellNext]_cellVars
=============================================================================
