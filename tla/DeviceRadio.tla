----------------------------- MODULE DeviceRadio -----------------------------
(***************************************************************************)
(* The radio of one device, as the loop of either firmware drives it        *)
(* (src-tx/main.cpp, src-rx/main.cpp): RadioLib, the interrupt flag that     *)
(* setRadioFlag sets, the phase of RuntimeState and the owner an arbiter     *)
(* keeps.  HubTransport and NodeTransport are the two loops.                *)
(*                                                                         *)
(* A RadioLib call may fail: a failed start leaves the radio in standby, a  *)
(* failed standby leaves it as it was.  What the other device sends is      *)
(* arbitrary: any packet of Inbound may arrive while the radio receives.    *)
(***************************************************************************)
EXTENDS WireTransaction

CONSTANTS Inbound,      \* packets that may arrive
          MaxFaults     \* RadioLib calls that fail in one behaviour

ASSUME RadioAssumption == MaxFaults \in Nat

VARIABLES
    phase,        \* runtimeState.phase()
    radio,        \* what the radio does: "RX", "TX" or "STANDBY"
    irq,          \* operationDone
    buffer,       \* the packet readData() would return
    faults,       \* RadioLib calls that have failed
    faulty,       \* the last of the RadioLib calls failed
    owner,        \* the arbiter's owner_
    asking        \* Serial.available() > 0

radioVars == <<radio, irq, buffer, faults, faulty>>

Modes == {"RX", "TX", "STANDBY"}

(* A handler ends after n failed calls, the last call among them if last is *)
(* TRUE, with the packet, if any, consumed                                  *)
Ends(n, mode, last) ==
    /\ faults + n <= MaxFaults /\ faults' = faults + n /\ faulty' = last
    /\ radio' = mode /\ buffer' = Nothing
=============================================================================
