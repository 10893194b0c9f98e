------------------------------ MODULE DeviceUi ------------------------------
(***************************************************************************)
(* The user interface of a device: the controller of the screens, of the    *)
(* display and of the settings editor (device_ui.h), the producer of button *)
(* events (event_producers.h), and the services of the loop that drive them *)
(* (serviceButton, the persistence service, serviceUi).                     *)
(*                                                                         *)
(* The button is the one Gestures promises.  A time is a Boolean of the     *)
(* controller record: whether the interval has passed.  A render runs to    *)
(* its end within serviceUi, so that no other step sees renderPending_.     *)
(* The draft is that of the editor; outside it, where nothing reads it, it  *)
(* is the current settings.                                                 *)
(***************************************************************************)
EXTENDS Gestures, RequestQueue, Naturals, Functions

CONSTANTS Screens,       \* the screens in the order of nextScreen; HOME is first
          ProducerScreens,  \* those of isButtonProducerScreen
          LiveScreens,   \* those of isLiveScreen
          Fields,        \* the editable settings, in the order of the editor
          Presets,       \* the values of each, ascending
          Defaults       \* the default settings

EditorItems == Fields \o <<"SAVE", "CANCEL", "FACTORY_RESET">>
Settings == {s \in [Range(Fields) -> UNION {Range(Presets[f]) : f \in Range(Fields)}] :
                 \A f \in Range(Fields) : s[f] \in Range(Presets[f])}

ASSUME UiAssumption ==
    /\ Screens \in Seq(Range(Screens)) \ {<< >>} /\ Screens[1] = "HOME"
    /\ ProducerScreens \subseteq Range(Screens) \ {"HOME"}
    /\ Fields \in Seq(Range(Fields)) /\ {"DISPLAY_TIMEOUT", "DEFAULT_SCREEN"} \subseteq Range(Fields)
    /\ \A f \in Range(Fields) : Presets[f] \in Seq(Nat) \ {<< >>}
    /\ Range(Presets["DEFAULT_SCREEN"]) \subseteq DOMAIN Screens
    /\ Defaults \in Settings

VARIABLES ui,            \* Controller
          producer,      \* ButtonProducer
          ready,         \* eventSubsystemReady
          queue,         \* persistenceRequests
          pc,            \* the service of the loop that comes next
          lit,           \* the panel: displayOn and displayOff of the renderer
          fresh,         \* the panel: it shows what the controller holds
          gesture        \* history: what the gesture has done

uiVars == <<held, events, ui, producer, ready, queue, pc, lit, fresh, gesture>>

(* What renderCurrentPresentation puts on the panel *)
Content(u) ==
    IF u.editor THEN <<"EDITOR", u.item, u.draft, u.draft # u.current, u.armed>>
    ELSE <<"SCREEN", u.screen>>

Controller ==
    [screen |-> "HOME", awake |-> TRUE, onPending |-> FALSE, dirty |-> TRUE,
     suppress |-> FALSE, wokeLong |-> FALSE, editor |-> FALSE, item |-> EditorItems[1],
     armed |-> FALSE, current |-> Defaults, draft |-> Defaults, action |-> "NONE",
     idle |-> FALSE, late |-> FALSE, recent |-> FALSE]

Producer == [eligible |-> FALSE, suppressed |-> FALSE, manual |-> FALSE, long |-> FALSE,
             veryLong |-> FALSE, made |-> << >>, told |-> FALSE]

NoGesture == [woke |-> FALSE, before |-> FALSE, armed |-> FALSE, entered |-> FALSE,
              acted |-> FALSE, made |-> << >>]

UiInit ==
    /\ GestureInit
    /\ ui = Controller /\ producer = Producer /\ queue = EmptyQueue(Defaults)
    /\ pc = "BUTTON" /\ ready = TRUE
    /\ lit = TRUE /\ fresh = FALSE /\ gesture = NoGesture

-----------------------------------------------------------------------------
(* The editor *)

NextIn(order, x) ==
    LET i == CHOOSE j \in DOMAIN order : order[j] = x
    IN  order[(i % Len(order)) + 1]

(* advanceSelectedSetting: nextPreset, a toggled flag or the next screen *)
NextPreset(v, presets) ==
    LET greater == {i \in DOMAIN presets : presets[i] > v}
        first == CHOOSE i \in greater : \A j \in greater : i <= j
    IN  presets[IF greater = {} THEN 1 ELSE first]

Disarm(u) == [u EXCEPT !.armed = FALSE, !.late = FALSE]

EnterEditor(u) ==
    [Disarm(u) EXCEPT !.editor = TRUE, !.draft = u.current, !.item = EditorItems[1],
                      !.idle = FALSE, !.dirty = TRUE]

ExitEditor(u, retain) ==
    [Disarm(u) EXCEPT !.editor = FALSE, !.item = EditorItems[1],
                      !.draft = IF retain THEN @ ELSE u.current, !.dirty = TRUE]

ActivateEditorItem(u) ==
    IF u.item = "SAVE" THEN ExitEditor([u EXCEPT !.action = "SAVE"], TRUE)
    ELSE IF u.item = "CANCEL" THEN ExitEditor(u, FALSE)
    ELSE IF u.item = "FACTORY_RESET"
    THEN IF u.armed /\ ~u.late THEN ExitEditor([u EXCEPT !.action = "RESET"], FALSE)
         ELSE [u EXCEPT !.armed = TRUE, !.late = FALSE, !.dirty = TRUE]
    ELSE LET advanced == [u.draft EXCEPT ![u.item] = NextPreset(@, Presets[u.item])]
         IN  [Disarm(u) EXCEPT !.dirty = TRUE, !.draft = advanced]

(* Mutant: the next item leaves the reset armed *)
HandleEditorArmed(u, e) ==
    CASE e = "PRESS"       -> [u EXCEPT !.idle = FALSE]
      [] e = "SHORT_PRESS" -> [u EXCEPT !.item = NextIn(EditorItems, @), !.idle = FALSE,
                                        !.dirty = TRUE]
      [] e = "LONG_PRESS"  -> ActivateEditorItem([u EXCEPT !.idle = FALSE])
      [] OTHER             -> u

HandleEditor(u, e) ==
    CASE e = "PRESS"       -> [u EXCEPT !.idle = FALSE]
      [] e = "SHORT_PRESS" -> [Disarm(u) EXCEPT !.item = NextIn(EditorItems, @),
                                                !.idle = FALSE, !.dirty = TRUE]
      [] e = "LONG_PRESS"  -> ActivateEditorItem([u EXCEPT !.idle = FALSE])
      [] OTHER             -> u

-----------------------------------------------------------------------------
(* Controller.handle *)

HandleSuppressed(u, e) ==
    CASE e \in {"LONG_PRESS", "VERY_LONG_PRESS"} -> [u EXCEPT !.wokeLong = TRUE]
      [] e = "SHORT_PRESS"                       -> [u EXCEPT !.suppress = FALSE]
      [] e = "RELEASE" /\ u.wokeLong             -> [u EXCEPT !.suppress = FALSE]
      [] OTHER                                   -> u

(* Mutant: a new screen is not marked for rendering *)
NavigateSilently(u, screen) == [u EXCEPT !.screen = screen, !.idle = FALSE]

Navigate(u, screen) ==
    [u EXCEPT !.screen = screen, !.idle = FALSE, !.dirty = (@ \/ screen # u.screen)]

Handle(u, e) ==
    IF ~u.awake
    THEN IF e = "PRESS"
         THEN [u EXCEPT !.awake = TRUE, !.onPending = TRUE, !.suppress = TRUE,
                        !.wokeLong = FALSE, !.idle = FALSE, !.dirty = TRUE]
         ELSE u
    ELSE IF u.suppress THEN HandleSuppressed(u, e)
    ELSE IF u.editor THEN HandleEditor(u, e)
    ELSE CASE e = "PRESS"           -> [u EXCEPT !.idle = FALSE]
           [] e = "SHORT_PRESS"     -> Navigate(u, NextIn(Screens, u.screen))
           [] e = "LONG_PRESS"      -> Navigate(u, "HOME")
           [] e = "VERY_LONG_PRESS" -> EnterEditor(u)
           [] OTHER                 -> u

-----------------------------------------------------------------------------
(* ButtonProducer.observe.  "made" collects the events a sample asks the    *)
(* store to create; "told" is a suppressed gesture, recorded for the        *)
(* diagnostics.                                                             *)

ObservePress(p, u) ==
    LET eligible == u.awake /\ ~u.editor
    IN  [p EXCEPT !.eligible = eligible /\ u.screen \in ProducerScreens,
                  !.suppressed = ~eligible /\ u.screen \in ProducerScreens,
                  !.manual = eligible /\ u.screen = "HOME",
                  !.long = FALSE, !.veryLong = FALSE]

ObserveShort(p) ==
    [p EXCEPT !.made = IF p.eligible THEN Append(@, "BUTTON") ELSE @,
              !.told = ~p.eligible /\ p.suppressed,
              !.eligible = FALSE, !.suppressed = FALSE, !.manual = FALSE]

ObserveLong(p) == [p EXCEPT !.long = @ \/ p.manual]

ObserveRelease(p) ==
    [p EXCEPT !.made = IF p.manual /\ p.long /\ ~p.veryLong
                       THEN Append(@, "MANUAL_CHECK_IN") ELSE @,
              !.eligible = @ /\ ~p.long, !.suppressed = FALSE, !.manual = FALSE,
              !.long = FALSE, !.veryLong = FALSE]

Observe(p, e, u) ==
    CASE e = "PRESS"           -> ObservePress(p, u)
      [] e = "SHORT_PRESS"     -> ObserveShort(p)
      [] e = "LONG_PRESS"      -> ObserveLong(p)
      [] e = "VERY_LONG_PRESS" -> [p EXCEPT !.veryLong = TRUE, !.manual = FALSE]
      [] OTHER                 -> ObserveRelease(p)

-----------------------------------------------------------------------------
(* The services of the loop *)

(* The events of a sample are handled in order; there are at most two *)
InTurn(Op(_, _), x, sample) ==
    IF sample = << >> THEN x
    ELSE IF Len(sample) = 1 THEN Op(x, sample[1]) ELSE Op(Op(x, sample[1]), sample[2])

(* The producer's part of serviceButton.  It is skipped once a creation     *)
(* failed on the storage, until the next boot.                              *)
Observed ==
    IF ready THEN InTurn(LAMBDA p, e : Observe(p, e, ui), producer, events') ELSE producer

(* queueEditorAction *)
QueueEditorAction(u) ==
    queue' = CASE u.action = "SAVE"  -> QueueSave(queue, u.draft)
               [] u.action = "RESET" -> QueueReset(queue, Defaults)
               [] OTHER              -> queue

(* What the gesture has done, this sample included *)
Remember(u, made) ==
    gesture' =
        LET g == IF events' = <<"PRESS">>
                 THEN [NoGesture EXCEPT !.woke = ~ui.awake, !.before = gesture.armed]
                 ELSE gesture
        IN  [g EXCEPT !.made = @ \o made,
                      !.entered = @ \/ (u.editor /\ ~ui.editor),
                      !.armed = @ \/ (u.armed /\ "LONG_PRESS" \in Range(events')),
                      !.acted = @ \/ u.action # "NONE"]

ServiceButton ==
    /\ pc = "BUTTON" /\ pc' = "PERSIST"
    /\ GestureNext
    /\ LET out == Observed
           u == InTurn(Handle, [ui EXCEPT !.dirty = @ \/ out.made # << >> \/ out.told],
                       events')
       IN  /\ producer' = [out EXCEPT !.made = << >>, !.told = FALSE]
           /\ ready' \in IF out.made = << >> THEN {ready} ELSE {ready, FALSE}
           /\ QueueEditorAction(u) /\ Remember(u, out.made)
           /\ ui' = [u EXCEPT !.action = "NONE", !.draft = IF u.editor THEN @ ELSE u.current]
    /\ fresh' = (fresh /\ Content(ui') = Content(ui))
    /\ UNCHANGED lit

(* applyCurrentSettings *)
ApplyCurrentSettings(u, s, applyDefaultScreen) ==
    [u EXCEPT !.current = s, !.draft = IF u.editor THEN @ ELSE s, !.idle = FALSE,
              !.dirty = TRUE,
              !.screen = IF applyDefaultScreen THEN Screens[s["DEFAULT_SCREEN"]] ELSE @]

(* The radio and host services run here: they may change what is shown, and *)
(* they may reach a safe point for the pending request, which then succeeds *)
(* or fails.                                                                *)
ServicePersistence ==
    /\ pc = "PERSIST" /\ pc' = "UI"
    /\ \/ ui' \in {ui, [ui EXCEPT !.dirty = TRUE]} /\ UNCHANGED queue
       \/ /\ queue.pending # "NONE" /\ queue' = EmptyQueue(Defaults)
          /\ ui' \in {[ui EXCEPT !.dirty = TRUE],
                      ApplyCurrentSettings(ui, queue.draft, queue.pending = "RESET")}
    /\ fresh' = (fresh /\ Content(ui') = Content(ui))
    /\ events' = << >>
    /\ gesture' = IF held = "UP" THEN [NoGesture EXCEPT !.armed = gesture.armed] ELSE gesture
    /\ UNCHANGED <<held, producer, ready, lit>>

-----------------------------------------------------------------------------
(* Controller.update, and what serviceUi does with its answer *)

Sleep(u) == [u EXCEPT !.awake = FALSE, !.onPending = FALSE, !.idle = FALSE]

(* Mutant: the editor has no timeout *)
TimedOutOutside(u) ==
    u.awake /\ u.idle /\ ~u.editor /\ u.current["DISPLAY_TIMEOUT"] # 0

TimedOut(u) == u.awake /\ u.idle /\ u.current["DISPLAY_TIMEOUT"] # 0

(* The reset that was not confirmed, and a live screen whose interval passed *)
Refresh(u) ==
    LET v == IF u.editor /\ u.armed /\ u.late
             THEN [Disarm(u) EXCEPT !.dirty = TRUE] ELSE u
    IN  {v, [v EXCEPT !.dirty = @ \/ (~v.editor /\ v.screen \in LiveScreens)]}

(* DISPLAY_ON, RENDER, both or NONE; renderCurrentPresentation ends with    *)
(* recordRendered                                                           *)
Draw(u) ==
    /\ lit' = (lit \/ u.onPending)
    /\ IF u.dirty /\ ~u.recent
       THEN fresh' = TRUE /\ ui' = [u EXCEPT !.onPending = FALSE, !.dirty = FALSE,
                                                   !.recent = TRUE]
       ELSE ui' = [u EXCEPT !.onPending = FALSE] /\ fresh' = (fresh /\ Content(u) = Content(ui))

Update ==
    IF TimedOut(ui)
    THEN /\ ui' = Sleep(IF ui.editor THEN ExitEditor(ui, FALSE) ELSE ui)
         /\ lit' = FALSE /\ fresh' = FALSE
    ELSE IF ui.awake THEN \E u \in Refresh(ui) : Draw(u)
    ELSE UNCHANGED <<ui, lit, fresh>>

(* serviceUi waits while the radio transmits or has a packet *)
SkipUi == pc = "UI" /\ pc' = "BUTTON" /\ UNCHANGED <<held, events, ui, producer, ready, queue,
                                                   lit, fresh, gesture>>
ServiceUi ==
    /\ pc = "UI" /\ pc' = "BUTTON"
    /\ Update
    /\ UNCHANGED <<held, events, producer, ready, queue, gesture>>

(* The clock.  Of the intervals the display timeout is longer than a        *)
(* gesture takes to become VERY_LONG.                                       *)
TimePasses ==
    /\ \/ ui.awake /\ held \in {"UP", "VERY_LONG"} /\ ui' = [ui EXCEPT !.idle = TRUE]
       \/ ui.armed /\ ui' = [ui EXCEPT !.late = TRUE]
       \/ ui' = [ui EXCEPT !.recent = FALSE]
    /\ UNCHANGED <<held, events, producer, ready, queue, pc, lit, fresh, gesture>>

UiNext == ServiceButton \/ ServicePersistence \/ SkipUi \/ ServiceUi \/ TimePasses

UiSpec == UiInit /\ [][UiNext]_uiVars

(* The loop runs, the radio does not keep the display forever, time passes, *)
(* and a gesture gets longer or ends.                                       *)
UiFairness ==
    /\ WF_uiVars(ServiceButton) /\ WF_uiVars(ServicePersistence)
    /\ WF_uiVars(SkipUi \/ ServiceUi) /\ SF_uiVars(ServiceUi)
    /\ SF_uiVars(ServiceButton /\ held \in {"DOWN", "LONG"} /\ held' # held)
    /\ SF_uiVars(TimePasses /\ ui'.idle /\ ~ui.idle)
    /\ WF_uiVars(TimePasses /\ ~ui'.recent /\ ui.recent)

-----------------------------------------------------------------------------
(* The state has its shape *)
UiTypeOK ==
    /\ ui.screen \in Range(Screens) /\ ui.item \in Range(EditorItems)
    /\ ui.current \in Settings /\ ui.draft \in Settings /\ ui.action = "NONE"
    /\ queue.pending \in {"NONE", "SAVE", "RESET"} /\ queue.draft \in Settings

(* Nothing that is shown goes stale: while the display is awake, either the *)
(* panel is lit and shows what the controller holds, or a render is due     *)
(* (invalidate, update and recordRendered).  The editor does not outlive    *)
(* the display: one that is off holds no draft of its own, no armed reset   *)
(* and no pending display-on (update, the editor's timeout).                *)
PanelIsCurrent ==
    /\ UiTypeOK
    /\ ui.awake /\ ~ui.dirty => fresh
    /\ lit <=> ui.awake /\ ~ui.onPending
    /\ ~ui.awake => ~ui.editor /\ ~ui.armed /\ ~ui.onPending

(* The gesture that wakes the display does nothing else: it does not        *)
(* navigate, edit, enter the editor, ask for a save or make an event        *)
(* (handleSuppressedWakeGesture, and observe's context at PRESS).  Another  *)
(* makes at most one event, and none if it enters the settings editor: the  *)
(* comment on ButtonProducer.  A factory reset takes two long presses in a  *)
(* row on its item: the gesture before the one that requests it armed it    *)
(* (activateEditorItem, handleEditor, update).                              *)
GesturesDoOneThing ==
    [][pc = "BUTTON" /\ pc' # pc =>
         /\ gesture'.woke =>
                /\ ui'.screen = ui.screen /\ ui'.editor = ui.editor /\ ui'.draft = ui.draft
                /\ gesture'.made = << >> /\ UNCHANGED queue
         /\ Len(gesture'.made) <= IF gesture'.entered THEN 0 ELSE 1
         /\ queue'.pending = "RESET" /\ queue' # queue => gesture'.before]_uiVars

(* An awake display comes to show what the controller holds, or goes off.   *)
(* With a timeout it goes off, unless the button is used or the settings    *)
(* are applied again (update, recordRendered).                              *)
DisplaySettles ==
    /\ (ui.awake /\ ~fresh) ~> (~ui.awake \/ fresh)
    /\ (ui.awake /\ ui.current["DISPLAY_TIMEOUT"] # 0)
          ~> (~ui.awake \/ held = "DOWN" \/ queue.pending # "NONE"
                \/ ui.current["DISPLAY_TIMEOUT"] = 0)

(* "SAVE commits and exits": a gesture that asked for a save or a reset     *)
(* leaves the editor closed.                                                *)
ActionLeavesEditor == gesture.acted /\ held # "UP" => ~ui.editor
=============================================================================
