--------------------------- MODULE DeviceSettings ---------------------------
(***************************************************************************)
(* The settings of a device: the two-slot record store and its factory      *)
(* reset (device_settings.h), the queue of persistence requests             *)
(* (settings_integration.h), and the services of both roles that load,      *)
(* save and reset at a safe point.                                          *)
(*                                                                         *)
(* The manager runs to the end of an operation before anything else of the  *)
(* program does; only a power cut comes in between.  A step is one write or *)
(* removal with the read that verifies it.  A store call may fail: it says  *)
(* so, and leaves the old contents, the new ones or, for a slot, a record   *)
(* that does not decode.                                                    *)
(*                                                                         *)
(* Two of the six fields stand for all: the contrast is repaired like the   *)
(* screen, and the flags have no invalid value.                             *)
(***************************************************************************)
EXTENDS EventStorage, RequestQueue

CONSTANTS Drafts,        \* settings the editor can produce
          Stored,        \* settings an earlier firmware may have stored
          FirstGenerations,  \* the generations of such a record
          MaxFaults,     \* store calls that fail
          MaxRequests,   \* requests of the user, over all boots
          MaxCuts        \* power cuts

VARIABLES slots,         \* cfg_a and cfg_b
          marker,        \* rst_pend
          manager,       \* SettingsManager
          current,       \* currentSettings
          queue,         \* persistenceRequests: [pending, draft]
          status,        \* configurationState.status
          pc,            \* the next store call of the running operation
          faults, requests, cuts,
          committed,     \* history: the settings last saved, reset or loaded
          attempted,     \* history: settings written since, without success
          repairs,       \* history: automatic repairs of this boot
          blind          \* history: the last load could not read the slots or order
                         \* their records, or the manager is OutOfStep with them

settingsVars == <<slots, marker, manager, current, queue, status, pc, faults, requests, cuts,
          committed, attempted, repairs, blind>>

-----------------------------------------------------------------------------
(* Settings *)

IsValidTimeout(t)  == t = 0 \/ t \in 5 .. 600
IsValidContrast(c) == c >= 16
IsValid(s) == IsValidTimeout(s.timeout) /\ IsValidContrast(s.contrast)

Defaults == [timeout |-> 30, contrast |-> 207]

ValidateAndRepair(s) ==
    [timeout  |-> IF IsValidTimeout(s.timeout) THEN s.timeout ELSE Defaults.timeout,
     contrast |-> IF IsValidContrast(s.contrast) THEN s.contrast ELSE Defaults.contrast]

ASSUME SettingsAssumption ==
    /\ \A s \in Drafts : IsValid(s)
    /\ Defaults \in Drafts /\ FirstGenerations \subseteq Generations
    /\ {MaxFaults, MaxRequests, MaxCuts} \subseteq Nat

-----------------------------------------------------------------------------
(* The record store *)

MissingSlot == [status |-> "MISSING"]
Corrupt     == [status |-> "CORRUPT"]
Unsupported == [status |-> "UNSUPPORTED"]
Record(g, s) == [status |-> "RECORD", generation |-> g, settings |-> s]

(* readAndClassify: decodeRecordWithRepair accepts the record *)
Usable(slot) == slot.status = "RECORD"

GenerationIsNewer(candidate, reference) ==
    Distance(candidate, reference) \in 1 .. HalfRange - 1

(* resetRuntimeState *)
FreshManager == [settings |-> Defaults, generation |-> 0, active |-> "NONE",
                 repair |-> FALSE, unsupported |-> {}]

Loaded(m, result) == [manager |-> m, result |-> result]

ApplySelected(m, slot, selected, fallback) ==
    LET repaired == ~IsValid(selected.settings)
    IN  Loaded([m EXCEPT !.settings = ValidateAndRepair(selected.settings),
                         !.generation = selected.generation, !.active = slot,
                         !.repair = repaired \/ fallback],
               IF repaired THEN "REPAIRED" ELSE IF fallback THEN "FALLBACK" ELSE "LOADED")

(* Mutant: the greater number is the newer record *)
LoadSlotsGreatest(both) ==
    LET a == both["A"]
        b == both["B"]
        m == [FreshManager EXCEPT
                 !.unsupported = {s \in CopySlot : both[s] = Unsupported}]
    IN  IF Usable(a) /\ Usable(b)
        THEN LET s == IF a.generation > b.generation THEN "A" ELSE "B"
             IN  ApplySelected(m, s, both[s], FALSE)
        ELSE IF Usable(a) \/ Usable(b)
        THEN LET s == IF Usable(a) THEN "A" ELSE "B"
             IN  ApplySelected(m, s, both[s], both[Opposite(s)] = Corrupt)
        ELSE IF m.unsupported # {} THEN Loaded(m, "UNSUPPORTED")
        ELSE Loaded([m EXCEPT !.repair = Corrupt \in {a, b}], "DEFAULTED")

(* load, from the point where both slots have been read *)
LoadSlots(both) ==
    LET a == both["A"]
        b == both["B"]
        m == [FreshManager EXCEPT
                 !.unsupported = {s \in CopySlot : both[s] = Unsupported}]
        ambiguous == Loaded([m EXCEPT !.repair = TRUE], "DEFAULTED")
    IN  IF Usable(a) /\ Usable(b)
        THEN IF a.generation = b.generation
             THEN IF a = b THEN ApplySelected(m, "A", a, FALSE) ELSE ambiguous
             ELSE IF GenerationIsNewer(a.generation, b.generation)
             THEN ApplySelected(m, "A", a, FALSE)
             ELSE IF GenerationIsNewer(b.generation, a.generation)
             THEN ApplySelected(m, "B", b, FALSE)
             ELSE ambiguous
        ELSE IF Usable(a) \/ Usable(b)
        THEN LET s == IF Usable(a) THEN "A" ELSE "B"
             IN  ApplySelected(m, s, both[s], both[Opposite(s)] = Corrupt)
        ELSE IF m.unsupported # {} THEN Loaded(m, "UNSUPPORTED")
        ELSE Loaded([m EXCEPT !.repair = Corrupt \in {a, b}], "DEFAULTED")

(* Two records, and no newest: load uses the defaults, and save writes slot *)
(* A from generation 1 whatever slot B holds                                *)
Ambiguous(both) ==
    (\A s \in CopySlot : Usable(both[s])) /\ LoadSlots(both).manager.active = "NONE"

Canonical == [s \in CopySlot |-> IF s = "A" THEN Record(1, Defaults) ELSE MissingSlot]

SettingsInit ==
    /\ slots \in {[s \in CopySlot |-> IF s = "A" THEN a ELSE b] :
                     a \in {MissingSlot, Unsupported} \cup
                          {Record(g, old) : g \in FirstGenerations, old \in Stored},
                     b \in {MissingSlot, Unsupported}}
    /\ marker = FALSE /\ manager = FreshManager /\ current = Defaults
    /\ queue = EmptyQueue(Defaults) /\ status = "NOT_SUPPLIED"
    /\ pc = "OFF" /\ faults = 0 /\ requests = 0 /\ cuts = 0
    /\ committed = LoadSlots(slots).manager.settings /\ attempted = {}
    /\ repairs = 0 /\ blind = FALSE

Fault == faults < MaxFaults /\ faults' = faults + 1

-----------------------------------------------------------------------------
(* queueEditorAction, for what the editor asks *)
UserAsks ==
    /\ pc = "IDLE" /\ requests < MaxRequests
    /\ requests' = requests + 1
    /\ \/ \E draft \in Drafts : queue' = QueueSave(queue, draft)
       \/ queue' = QueueReset(queue, Defaults)
    /\ UNCHANGED <<slots, marker, manager, current, status, pc, faults, cuts, committed,
                   attempted, repairs, blind>>

-----------------------------------------------------------------------------
(* loadSettings *)

(* The settings run, and a repair is queued, once load has an answer *)
Apply(m, result) ==
    /\ manager' = m /\ current' = m.settings /\ status' = result
    /\ queue' = IF m.repair THEN QueueAutomaticRepair(queue, Defaults) ELSE queue
    /\ pc' = "IDLE"

Load ==
    /\ pc = "OFF" /\ ~marker
    /\ Apply(LoadSlots(slots).manager, LoadSlots(slots).result)
    /\ committed' = LoadSlots(slots).manager.settings /\ attempted' = {}
    /\ blind' = Ambiguous(slots)
    /\ UNCHANGED <<slots, marker, faults, requests, cuts, repairs>>

(* The marker or a slot cannot be read *)
LoadFails ==
    /\ pc = "OFF" /\ Fault /\ blind' = TRUE
    /\ \E result \in {"RESET_FAILED", "UNAVAILABLE"} : Apply(FreshManager, result)
    /\ UNCHANGED <<slots, marker, requests, cuts, committed, attempted, repairs>>

(* recoverPendingReset *)
LoadResumesReset ==
    /\ pc = "OFF" /\ marker
    /\ pc' = "REMOVE_A" /\ manager' = FreshManager /\ current' = Defaults
    /\ UNCHANGED <<slots, marker, queue, status, faults, requests, cuts, committed,
                   attempted, repairs, blind>>

-----------------------------------------------------------------------------
(* servicePersistence of the Hub, servicePendingPersistence of the Node:    *)
(* the request is cleared whatever the result                               *)

Served(m, result) ==
    /\ manager' = m /\ status' = result /\ queue' = EmptyQueue(Defaults) /\ pc' = "IDLE"
    /\ current' = IF result \in {"SAVED", "RESET_COMPLETED"} THEN m.settings ELSE current

Candidate == ValidateAndRepair(IF queue.pending = "SAVE" THEN queue.draft ELSE current)

SaveTarget(m) == IF m.active = "NONE" THEN "A" ELSE Opposite(m.active)

(* save, up to the write *)
SaveAnswer(m, s) ==
    IF m.active = "NONE" /\ m.unsupported # {} THEN "UNSUPPORTED"
    ELSE IF s = m.settings /\ ~m.repair THEN "UNCHANGED"
    ELSE IF SaveTarget(m) \in m.unsupported THEN "UNSUPPORTED"
    ELSE "WRITE"

SaveAsked(answers) ==
    /\ pc = "IDLE" /\ queue.pending \in {"SAVE", "REPAIR"}
    /\ SaveAnswer(manager, Candidate) \in answers
    /\ repairs' = IF queue.pending = "REPAIR" THEN repairs + 1 ELSE repairs

SaveReturnsEarly ==
    /\ SaveAsked({"UNSUPPORTED", "UNCHANGED"})
    /\ Served(manager, SaveAnswer(manager, Candidate))
    /\ UNCHANGED <<slots, marker, faults, requests, cuts, committed, attempted, blind>>

(* Mutant: the slot in use stays the old one *)
SavedKeepsSlot(m, s) == [m EXCEPT !.settings = s, !.generation = NextGeneration(@),
                                  !.repair = FALSE]

Saved(m, s) == [m EXCEPT !.settings = s, !.generation = NextGeneration(@),
                         !.active = SaveTarget(m), !.repair = FALSE]

NewRecord == Record(NextGeneration(manager.generation), Candidate)

(* save: the write, and the read that verifies it *)
SaveWrites ==
    /\ SaveAsked({"WRITE"})
    /\ slots' = [slots EXCEPT ![SaveTarget(manager)] = NewRecord]
    /\ Served(Saved(manager, Candidate), "SAVED")
    /\ committed' = Candidate /\ attempted' = {}
    /\ UNCHANGED <<marker, faults, requests, cuts, blind>>

(* What a slot holds after a write that was not verified *)
Leaves(slot, r) ==
    \E left \in {slots[slot], Corrupt, r} : slots' = [slots EXCEPT ![slot] = left]

SaveFails ==
    /\ SaveAsked({"WRITE"}) /\ Fault
    /\ Leaves(SaveTarget(manager), NewRecord)
    /\ Served(manager, "SAVE_FAILED")
    /\ attempted' = attempted \cup {Candidate}
    /\ UNCHANGED <<marker, requests, cuts, committed, blind>>

-----------------------------------------------------------------------------
(* factoryReset, and completeVerifiedReset which a pending marker resumes   *)

ResetStops ==
    \E result \in IF queue.pending = "RESET" THEN {"RESET_FAILED"}
                  ELSE {"RESET_FAILED", "UNAVAILABLE"} : Served(manager, result)

MarkerWritten ==
    /\ pc = "IDLE" /\ queue.pending = "RESET"
    /\ marker' = TRUE /\ pc' = "REMOVE_A"
    /\ UNCHANGED <<slots, manager, current, queue, status, faults, requests, cuts,
                   committed, attempted, repairs, blind>>

MarkerFails ==
    /\ pc = "IDLE" /\ queue.pending = "RESET" /\ Fault
    /\ marker' \in {marker, TRUE}
    /\ ResetStops
    /\ UNCHANGED <<slots, requests, cuts, committed, attempted, repairs, blind>>

(* removeAndVerifySlot *)
RemoveSlot(slot, here, next) ==
    /\ pc = here
    /\ \/ /\ slots' = [slots EXCEPT ![slot] = MissingSlot]
          /\ pc' = next
          /\ UNCHANGED <<manager, current, queue, status, faults>>
       \/ /\ Fault
          /\ slots' \in {slots, [slots EXCEPT ![slot] = MissingSlot]}
          /\ ResetStops
    /\ UNCHANGED <<marker, requests, cuts, committed, attempted, repairs, blind>>

WriteDefaults ==
    /\ pc = "WRITE_DEFAULTS"
    /\ \/ /\ slots' = [slots EXCEPT !["A"] = Record(1, Defaults)]
          /\ pc' = "REMOVE_MARKER"
          /\ UNCHANGED <<manager, current, queue, status, faults>>
       \/ /\ Fault
          /\ Leaves("A", Record(1, Defaults))
          /\ ResetStops
    /\ UNCHANGED <<marker, requests, cuts, committed, attempted, repairs, blind>>

ResetManager == [FreshManager EXCEPT !.generation = 1, !.active = "A"]

(* A manager that was not told of its reset counts on from its old          *)
(* generation; past half the range that is older than the canonical record  *)
OutOfStep == ~GenerationIsNewer(NextGeneration(manager.generation), 1)

RemoveMarker ==
    /\ pc = "REMOVE_MARKER"
    /\ \/ /\ marker' = FALSE
          /\ Served(ResetManager, "RESET_COMPLETED")
          /\ committed' = Defaults /\ attempted' = {} /\ blind' = FALSE
          /\ UNCHANGED faults
       \/ /\ Fault
          /\ marker' \in BOOLEAN
          /\ ResetStops
          /\ attempted' = attempted \cup {Defaults}
          /\ blind' = (blind \/ (~marker' /\ OutOfStep))
          /\ UNCHANGED committed
    /\ UNCHANGED <<slots, requests, cuts, repairs>>

(* Mutant: the marker goes before the defaults are written *)
ResetStepEarly ==
    \/ RemoveSlot("A", "REMOVE_A", "REMOVE_B") \/ RemoveSlot("B", "REMOVE_B", "REMOVE_MARKER")
    \/ RemoveMarker

ResetStep ==
    \/ RemoveSlot("A", "REMOVE_A", "REMOVE_B") \/ RemoveSlot("B", "REMOVE_B", "WRITE_DEFAULTS")
    \/ WriteDefaults \/ RemoveMarker

-----------------------------------------------------------------------------

Off ==
    /\ cuts < MaxCuts /\ cuts' = cuts + 1 /\ pc' = "OFF"
    /\ manager' = FreshManager /\ current' = Defaults /\ queue' = EmptyQueue(Defaults)
    /\ status' = "NOT_SUPPLIED" /\ repairs' = 0

(* The power is cut between two store calls, or within one *)
PowerCut ==
    /\ pc # "OFF" /\ Off
    /\ \/ UNCHANGED <<slots, marker, attempted>>
       \/ /\ pc = "IDLE" /\ queue.pending \in {"SAVE", "REPAIR"}
          /\ SaveAnswer(manager, Candidate) = "WRITE"
          /\ Leaves(SaveTarget(manager), NewRecord)
          /\ attempted' = attempted \cup {Candidate}
          /\ UNCHANGED marker
       \/ /\ pc = "WRITE_DEFAULTS"
          /\ Leaves("A", Record(1, Defaults))
          /\ UNCHANGED <<marker, attempted>>
    /\ UNCHANGED <<faults, requests, committed, blind>>

SettingsNext ==
    \/ UserAsks
    \/ Load \/ LoadFails \/ LoadResumesReset
    \/ SaveReturnsEarly \/ SaveWrites \/ SaveFails
    \/ MarkerWritten \/ MarkerFails \/ ResetStep
    \/ PowerCut

SettingsSpec == SettingsInit /\ [][SettingsNext]_settingsVars

-----------------------------------------------------------------------------

Statuses == {"NOT_SUPPLIED", "LOADED", "FALLBACK", "REPAIRED", "DEFAULTED", "UNSUPPORTED",
             "UNAVAILABLE", "SAVED", "UNCHANGED", "SAVE_FAILED", "RESET_COMPLETED",
             "RESET_FAILED"}

(* The state has its shape; RAM never holds an invalid field *)
SettingsTypeOK ==
    /\ \A s \in CopySlot :
           \/ slots[s] \in {MissingSlot, Corrupt, Unsupported}
           \/ Usable(slots[s]) /\ slots[s].generation \in Generations
    /\ marker \in BOOLEAN
    /\ IsValid(manager.settings) /\ manager.generation \in Generations
    /\ manager.active \in CopySlot \cup {"NONE"} /\ manager.unsupported \subseteq CopySlot
    /\ IsValid(current) /\ IsValid(queue.draft)
    /\ queue.pending \in {"NONE", "REPAIR", "SAVE", "RESET"} /\ status \in Statuses
    /\ pc \in {"OFF", "IDLE", "REMOVE_A", "REMOVE_B", "WRITE_DEFAULTS", "REMOVE_MARKER"}

(* Whenever the power is cut, the next boot gives the settings last saved,  *)
(* settings whose save was not finished, or the defaults of a reset that    *)
(* was begun: save writes the slot not in use, and load takes the newest.   *)
(* A save after a load that could not read, or not order, the slots is      *)
(* BlindSaveIsSafe's question.                                              *)
PowerCutIsSafe ==
    \/ blind \/ marker
    \/ LoadSlots(slots).manager.settings \in {committed} \cup attempted

(* What the manager believes of the slots (which is in use, its settings    *)
(* and generation, which hold another schema) is what a boot would find, as *)
(* long as no store call failed: save relies on it to choose.  No field in  *)
(* RAM is out of range, and a repair is written once a boot.                *)
ViewIsFlash ==
    /\ SettingsTypeOK /\ repairs <= 1
    /\ pc = "IDLE" /\ ~marker /\ attempted = {} /\ ~blind
           => LoadSlots(slots).manager = [manager EXCEPT !.repair = LoadSlots(slots).manager.repair]

(* The reset marker goes only when the canonical record stands alone: a     *)
(* reset cut at any point is resumed from the beginning.  Nothing else      *)
(* removes a record of another schema: neither save nor the automatic       *)
(* repair writes over it.                                                   *)
ResetIsWhole ==
    [][/\ marker /\ ~marker' => slots = Canonical
       /\ \A s \in CopySlot :
              slots[s] = Unsupported /\ slots'[s] # Unsupported => marker \/ blind]_settingsVars

-----------------------------------------------------------------------------
(* What a document says, and the code does not *)

(* "Every reboot must yield exactly the prior complete settings, the         *)
(* verified new complete settings, or defaults after committed reset intent" *)
(* also when the slots could not be read at the load before a save           *)
BlindSaveIsSafe ==
    marker \/ LoadSlots(slots).manager.settings \in {committed} \cup attempted

(* "Valid unknown schema | Volatile defaults | Preserve data" likewise       *)
UnsupportedKept ==
    [][\A s \in CopySlot : slots[s] = Unsupported /\ slots'[s] # Unsupported => marker]_settingsVars

(* A save that failed leaves the settings that run to be loaded again:      *)
(* "A failed commit leaves the previous slot authoritative and the draft    *)
(* unsaved" (V0.4.0_IMPLEMENTATION_BRIEF.md)                                *)
FailedSaveIsForgotten ==
    pc = "IDLE" /\ status = "SAVE_FAILED" /\ ~marker
        => LoadSlots(slots).manager.settings = current
=============================================================================
