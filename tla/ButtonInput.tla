---------------------------- MODULE ButtonInput ----------------------------
(***************************************************************************)
(* DeviceInput::Button: the debouncer and classifier of the application     *)
(* button.  One step is one sample of the pin, any number of ticks after    *)
(* the last: the loop that samples is held up by the radio, the display and *)
(* flash.  The code keeps the times of the last change and of the press and *)
(* subtracts them from the clock modulo 2^32; the model keeps the elapsed   *)
(* times, up to Horizon.                                                    *)
(***************************************************************************)
EXTENDS Naturals, Sequences

CONSTANTS Debounce, LongPress, VeryLongPress,   \* debounceMs_, ..., in ticks
          MaxGap                                \* ticks between two samples

ASSUME ButtonAssumption ==
    /\ {Debounce, LongPress, VeryLongPress, MaxGap} \subseteq Nat \ {0}
    /\ LongPress < VeryLongPress

VARIABLES initialized, armed, stable, candidate,
          longEmitted, veryLongEmitted,
          candidateAge, pressAge,
          out,         \* ButtonEvents of the last sample
          level,       \* history: the last sample
          steady,      \* history: ticks since the samples last changed
          turned       \* history: pressAge when the samples last changed

button == <<initialized, armed, stable, candidate, longEmitted, veryLongEmitted,
            candidateAge, pressAge, out>>
buttonVars == <<button, level, steady, turned>>

Horizon == VeryLongPress + MaxGap
Later(age, gap) == IF age + gap < Horizon THEN age + gap ELSE Horizon

ButtonInit ==
    /\ initialized = FALSE /\ armed = FALSE /\ stable = FALSE /\ candidate = FALSE
    /\ longEmitted = FALSE /\ veryLongEmitted = FALSE
    /\ candidateAge = 0 /\ pressAge = 0 /\ out = << >>
    /\ level = FALSE /\ steady = 0 /\ turned = 0

FirstSample(pressed) ==
    /\ ~initialized
    /\ initialized' = TRUE /\ stable' = pressed /\ candidate' = pressed
    /\ armed' = ~pressed /\ candidateAge' = 0
    /\ out' = << >>
    /\ UNCHANGED <<longEmitted, veryLongEmitted, pressAge>>

(* updateStartupHeldState *)
HeldAtStartup(pressed, gap) ==
    LET age == IF pressed \/ candidate THEN 0 ELSE Later(candidateAge, gap)
    IN  /\ initialized /\ ~armed
        /\ candidate' = pressed /\ candidateAge' = age
        /\ armed' = (~pressed /\ age >= Debounce)
        /\ stable' = IF armed' THEN FALSE ELSE stable
        /\ out' = << >>
        /\ UNCHANGED <<initialized, longEmitted, veryLongEmitted, pressAge>>

(* elapsed(nowMs, candidateSinceMs_) once the sample is taken in *)
CandidateAge(pressed, gap) ==
    IF pressed = stable \/ candidate # pressed THEN 0 ELSE Later(candidateAge, gap)

Edge(changed, down, wasLong) ==
    IF ~changed THEN << >>
    ELSE IF down THEN <<"PRESS">>
    ELSE IF wasLong THEN <<"RELEASE">> ELSE <<"RELEASE", "SHORT_PRESS">>

(* The events of a sample: the change of the stable level, then the length  *)
(* of the press.  append would drop a third event.                          *)
ButtonEvents(changed, down, age, wasLong, wasVeryLong) ==
    Edge(changed, down, wasLong)
        \o (IF down /\ ~wasLong /\ age >= LongPress THEN <<"LONG_PRESS">> ELSE << >>)
        \o (IF down /\ ~wasVeryLong /\ age >= VeryLongPress
            THEN <<"VERY_LONG_PRESS">> ELSE << >>)

(* update, once armed: the gesture has the lengths wasLong, wasVery, and    *)
(* its length is looked at while it is down                                 *)
Take(pressed, gap, changed, wasLong, wasVery, down) ==
    LET age == IF changed /\ pressed THEN 0 ELSE Later(pressAge, gap)
    IN  /\ initialized /\ armed
        /\ candidate' = pressed /\ candidateAge' = CandidateAge(pressed, gap)
        /\ stable' = (stable # changed)
        /\ pressAge' = IF stable' THEN age ELSE 0
        /\ longEmitted' = (wasLong \/ (down /\ age >= LongPress))
        /\ veryLongEmitted' = (wasVery \/ (down /\ age >= VeryLongPress))
        /\ out' = ButtonEvents(changed, down, age, wasLong, wasVery)
        /\ UNCHANGED <<initialized, armed>>

Changed(pressed, gap) == pressed # stable /\ CandidateAge(pressed, gap) >= Debounce

(* Mutant: a press keeps the length of the gesture before it *)
SampleKeepsLength(pressed, gap) ==
    LET changed == Changed(pressed, gap)
    IN  Take(pressed, gap, changed, longEmitted, veryLongEmitted, stable # changed)

Sample(pressed, gap) ==
    LET changed == Changed(pressed, gap)
        begins  == changed /\ pressed
    IN  Take(pressed, gap, changed, longEmitted /\ ~begins, veryLongEmitted /\ ~begins,
             stable # changed)

ButtonNext ==
    \E pressed \in BOOLEAN, gap \in 1 .. MaxGap :
        /\ FirstSample(pressed) \/ HeldAtStartup(pressed, gap) \/ Sample(pressed, gap)
        /\ level' = pressed
        /\ steady' = IF initialized /\ pressed = level THEN Later(steady, gap) ELSE 0
        /\ turned' = IF pressed # level THEN pressAge' ELSE turned

ButtonSpec == ButtonInit /\ [][ButtonNext]_buttonVars

-----------------------------------------------------------------------------

(* The state has its shape, and no sample reports more than the two events  *)
(* that ButtonEvents has room for                                           *)
ButtonTypeOK ==
    /\ {initialized, armed, stable, candidate, longEmitted, veryLongEmitted, level}
           \subseteq BOOLEAN
    /\ {candidateAge, pressAge, steady, turned} \subseteq 0 .. Horizon
    /\ Len(out) <= 2

(* Once the button is armed, a level seen for the debounce interval is the  *)
(* stable one, and a change of the stable level was seen that long.  A      *)
(* gesture ends as a SHORT_PRESS only when the first sample to see the      *)
(* release came before LongPress, however late the sample that confirms it. *)
StableFollowsPin ==
    /\ ButtonTypeOK
    /\ armed /\ steady >= Debounce => stable = level
    /\ out # << >> /\ Head(out) \in {"PRESS", "RELEASE"} => steady >= Debounce
    /\ out # << >> /\ out[Len(out)] = "SHORT_PRESS" => turned < LongPress

(* The events form gestures: PRESS, the lengths it reaches, RELEASE         *)
(* (update and append), and they are true to the pin.                       *)
G == INSTANCE Gestures WITH
        held <- IF ~armed \/ ~stable THEN "UP" ELSE IF veryLongEmitted THEN "VERY_LONG"
                ELSE IF longEmitted THEN "LONG" ELSE "DOWN",
        events <- out
ImplementsGestures == G!GestureSpec /\ []StableFollowsPin
=============================================================================
