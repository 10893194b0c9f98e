----------------------------- MODULE MCStorage -----------------------------
(* The two stores that keep a record in two copies, for TLC: one record of  *)
(* the event subsystem (DualCopy) and the settings (DeviceSettings).  A      *)
(* behaviour is one of a single store, so that their states add up.          *)
(* Generations have three bits and wrap within a few commits.  The settings *)
(* have the default and two other drafts, and stored records with a field   *)
(* out of range.                                                            *)
EXTENDS DualCopy, DeviceSettings

VARIABLE part

MCDrafts == {Defaults, [timeout |-> 60, contrast |-> 207], [timeout |-> 60, contrast |-> 16]}
MCStored == {[timeout |-> 0, contrast |-> 207], [timeout |-> 60, contrast |-> 15]}

MCInit ==
    /\ part \in {"RECORD", "SETTINGS"}
    /\ Init /\ SettingsInit
    /\ part = "RECORD" => slots = [s \in CopySlot |-> MissingSlot]

MCNext ==
    \/ part = "RECORD" /\ Next /\ UNCHANGED <<part, settingsVars>>
    \/ part = "SETTINGS" /\ SettingsNext /\ UNCHANGED <<part, vars>>

MCSpec == MCInit /\ [][MCNext]_<<part, vars, settingsVars>>
=============================================================================
