---------------------------- MODULE DeviceProofs ----------------------------
(***************************************************************************)
(* Proofs about the sensor producer, the button and the user interface: a   *)
(* sensor event is a crossing, the debouncer's events are gestures true to  *)
(* the pin, the panel is current and a gesture does one thing; for every    *)
(* list of screens, fields and presets, every interval and every width.     *)
(***************************************************************************)
EXTENDS DeviceUi, ButtonInput, SensorThreshold, SequenceTheorems, WellFoundedInduction, TLAPS

-----------------------------------------------------------------------------
(* The sensor: an event is made by a real crossing *)

(* v is back by the hysteresis after an event, and not past the threshold   *)
(* before the first                                                         *)
Back == IF again THEN policy.hysteresis ELSE 0
GoneBack(v) == IF Above THEN v + Back <= Threshold ELSE v - Back >= Threshold

(* nearest holds one value at most, and an armed producer has seen one that *)
(* had gone back                                                            *)
SensorInv ==
    /\ policy \in Policies
    /\ sensorInitialized \in BOOLEAN /\ sensorArmed \in BOOLEAN /\ again \in BOOLEAN
    /\ nearest = {} \/ \E w \in Int : nearest = {w}
    /\ ~sensorInitialized => ~again /\ ~sensorArmed /\ nearest = {}
    /\ sensorArmed => \E v \in nearest : GoneBack(v)

LEMMA NumericInt ==
    ASSUME policy \in Policies
    PROVE  /\ \A bits \in Words : NumericValue(bits) \in Int
           /\ Threshold \in Int /\ policy.hysteresis \in Nat /\ Back \in Nat
  BY ScalarAssumption DEF Policies, Words, NumericValue, Threshold, Back

(* A further value is one, and as far back as the two it is taken from *)
LEMMA FurtherFacts ==
    ASSUME SensorInv, NEW v \in Int
    PROVE  \E w \in Int : /\ Further(nearest \cup {v}) = {w}
                          /\ \A x \in nearest \cup {v} : x \in Int /\ IF Above THEN w <= x ELSE w >= x
  <1>1. CASE nearest = {}
    <2>1. nearest \cup {v} = {v}
      BY <1>1
    <2>2. Further({v}) = {v}
      BY DEF Further
    <2> QED
      BY <2>1, <2>2
  <1>2. CASE nearest # {}
    <2>1. PICK u \in Int : nearest = {u}
      BY <1>2, Zenon DEF SensorInv
    <2>2. nearest \cup {v} = {v, u}
      BY <2>1
    <2>3. PICK w \in {v, u} : \A x \in {v, u} : IF Above THEN w <= x ELSE w >= x
      <3>1. v <= u \/ u <= v
        OBVIOUS
      <3> QED
        BY <3>1
    <2>4. Further({v, u}) = {w}
      BY <2>3 DEF Further
    <2> QED
      BY <2>2, <2>3, <2>4
  <1> QED
    BY <1>1, <1>2, Zenon

LEMMA StillBack ==
    ASSUME NEW v \in Int, NEW w \in Int, NEW t \in Int, NEW b \in Nat, NEW c \in Nat, c <= b
    PROVE  /\ v + b <= t /\ w <= v => w + c <= t
           /\ v - b >= t /\ w >= v => w - c >= t
  OBVIOUS

LEMMA SensorStays ==
    ASSUME SensorInv, policy' = policy
    PROVE  /\ Above' = Above /\ Threshold' = Threshold
           /\ \A v : GoneBack(v)' <=> IF Above THEN v + Back' <= Threshold
                                      ELSE v - Back' >= Threshold
           /\ Back' = IF again' THEN policy.hysteresis ELSE 0
  BY Zenon DEF Above, Threshold, NumericValue, GoneBack, Back

LEMMA SensorInvSample ==
    ASSUME SensorInv, NEW bits \in Words, SampleSensor(bits)
    PROVE  SensorInv'
  <1> DEFINE v == NumericValue(bits)
  <1>1. /\ v \in Int /\ Threshold \in Int /\ policy.hysteresis \in Nat /\ Back \in Nat
        /\ policy' = policy /\ policy \in Policies
    BY NumericInt, Zenon DEF SensorInv, SampleSensor
  <1>2. /\ Back' = IF again' THEN policy.hysteresis ELSE 0
        /\ Back' \in Nat /\ Back' <= policy.hysteresis /\ Back' <= Back' /\ v <= v /\ v >= v
    BY <1>1, SensorStays
  <1>3. PICK w \in Int : /\ Further(nearest \cup {v}) = {w}
                         /\ \A x \in nearest \cup {v} :
                                x \in Int /\ IF Above THEN w <= x ELSE w >= x
    BY <1>1, FurtherFacts, Zenon
  <1>4. again' = (again \/ emitted') /\ nearest' = IF emitted' THEN {} ELSE {w}
    BY <1>3, Zenon DEF SampleSensor
  <1>5. /\ again' \in BOOLEAN
        /\ nearest' = {} \/ \E x \in Int : nearest' = {x}
    BY <1>3, <1>4, Zenon DEF SensorInv
  <1> HIDE DEF v
  <1>6. CASE ~sensorInitialized
    <2>1. sensorInitialized' = TRUE /\ sensorArmed' = ~IsActive(bits) /\ emitted' = FALSE
      BY <1>6, Zenon DEF SampleSensor, ObserveValue
    <2>2. nearest' = {w} /\ (again' = FALSE)
      BY <1>4, <1>6, <2>1, Zenon DEF SensorInv
    <2>3. ~IsActive(bits) => IF Above THEN v <= Threshold ELSE v >= Threshold
      BY <1>1 DEF IsActive, v
    <2>4. ~IsActive(bits) => IF Above THEN w + Back' <= Threshold ELSE w - Back' >= Threshold
      BY <1>1, <1>2, <1>3, <2>2, <2>3
    <2>5. sensorArmed' => \E x \in nearest' : GoneBack(x)'
      BY <1>1, <2>1, <2>2, <2>4, SensorStays, Zenon
    <2> QED
      BY <1>1, <1>5, <2>1, <2>5, Zenon DEF SensorInv
  <1>7. CASE sensorInitialized /\ emitted'
    <2>1. sensorInitialized' = TRUE /\ sensorArmed /\ IsActive(bits)
      BY <1>7, Zenon DEF SampleSensor, ObserveValue, SensorInv
    <2>2. sensorArmed' = FALSE
      BY <1>7, <2>1, Zenon DEF SampleSensor, ObserveValue
    <2> QED
      BY <1>1, <1>5, <2>1, <2>2, Zenon DEF SensorInv
  <1>8. CASE sensorInitialized /\ ~emitted'
    <2>1. /\ sensorInitialized' = TRUE /\ nearest' = {w} /\ again' = again
          /\ sensorArmed' = IF sensorArmed THEN ~IsActive(bits) ELSE IsRearmed(bits)
      BY <1>4, <1>8, Zenon DEF SampleSensor, ObserveValue, SensorInv
    <2>2. sensorArmed' \in BOOLEAN
      <3>1. /\ \A x \in Int : (x <= Threshold - policy.hysteresis) \in BOOLEAN
            /\ \A x \in Int : (x >= Threshold + policy.hysteresis) \in BOOLEAN
        BY <1>1
      <3>2. IsRearmed(bits) \in BOOLEAN
        BY <1>1, <3>1, Zenon DEF IsRearmed, v
      <3> QED
        BY <2>1, <3>2, Zenon
    <2>3. ASSUME sensorArmed'
          PROVE  \E x \in nearest \cup {v} :
                     x \in Int /\ IF Above THEN x + Back' <= Threshold ELSE x - Back' >= Threshold
      <3>1. CASE sensorArmed
        <4>1. PICK x \in nearest : GoneBack(x)
          BY <3>1, Zenon DEF SensorInv
        <4>2. Back' = Back
          BY <1>1, <2>1, SensorStays, Zenon DEF Back
        <4> QED
          BY <1>3, <4>1, <4>2, Zenon DEF GoneBack
      <3>2. CASE ~sensorArmed
        <4>1. IsRearmed(bits)
          BY <2>1, <2>3, <3>2, Zenon
        <4>2. IF Above THEN v + policy.hysteresis <= Threshold
              ELSE v - policy.hysteresis >= Threshold
          BY <1>1, <4>1 DEF IsRearmed, v
        <4>3. IF Above THEN v + Back' <= Threshold ELSE v - Back' >= Threshold
          <5> DEFINE h == policy.hysteresis
                     c == Back'
          <5>1. h \in Nat /\ c \in Nat /\ c <= h /\ v \in Int /\ v <= v /\ v >= v
            BY <1>1, <1>2, Zenon DEF v
          <5>2. IF Above THEN v + h <= Threshold ELSE v - h >= Threshold
            BY <4>2, Zenon
          <5> HIDE DEF h, c
          <5>3. IF Above THEN v + c <= Threshold ELSE v - c >= Threshold
            BY <1>1, <5>1, <5>2, StillBack, Zenon
          <5> QED
            BY <5>3, Zenon DEF c
        <4> QED
          BY <1>1, <4>3, Zenon DEF v
      <3> QED
        BY <3>1, <3>2, Zenon
    <2>4. sensorArmed' => IF Above THEN w + Back' <= Threshold ELSE w - Back' >= Threshold
      BY <1>1, <1>2, <1>3, <2>3, StillBack, Zenon
    <2>5. sensorArmed' => \E x \in nearest' : GoneBack(x)'
      BY <1>1, <2>1, <2>4, SensorStays, Zenon
    <2> QED
      BY <1>1, <1>5, <2>1, <2>2, <2>5, Zenon DEF SensorInv
  <1> QED
    BY <1>6, <1>7, <1>8, Zenon DEF SensorInv

LEMMA SensorInvNext == SensorInv /\ [SensorNext]_sensorVars => SensorInv'
  <1> SUFFICES ASSUME SensorInv, [SensorNext]_sensorVars
               PROVE  SensorInv'
    OBVIOUS
  <1>1. CASE \E bits \in Words : SampleSensor(bits)
    BY <1>1, SensorInvSample, Zenon
  <1>2. CASE UNCHANGED <<policy, sensorInitialized, sensorArmed, again, nearest>>
    BY <1>2, Zenon DEF SensorInv, GoneBack, Back, Above, Threshold, NumericValue
  <1> QED
    BY <1>1, <1>2, Zenon DEF SensorNext, NoSensorSample, sensorVars

(* Every SENSOR_THRESHOLD event is a real crossing (observe and isRearmed), *)
(* for every width of the values, every type, threshold and hysteresis, and *)
(* any sequence of samples.                                                 *)
THEOREM SensorEventsAreCrossings == SensorSpec => EventsAreCrossings
  <1>1. SensorInit => SensorInv
    BY Zenon DEF SensorInit, SensorInv
  <1>2. SensorSpec => []SensorInv
    BY <1>1, SensorInvNext, PTL DEF SensorSpec
  <1>3. SensorInv /\ [SensorNext]_sensorVars =>
            [emitted' =>
               LET back == IF again THEN policy.hysteresis ELSE 0
               IN  \E v \in nearest : IF Above THEN v + back <= Threshold
                                     ELSE v - back >= Threshold]_sensorVars
    <2> SUFFICES ASSUME SensorInv, SensorNext, emitted'
                 PROVE  \E v \in nearest : GoneBack(v)
      BY Zenon DEF GoneBack, Back
    <2>1. PICK bits \in Words : SampleSensor(bits)
      BY Zenon DEF SensorNext, NoSensorSample
    <2>2. sensorArmed
      BY <2>1, Zenon DEF SampleSensor, ObserveValue
    <2> QED
      BY <2>2, Zenon DEF SensorInv
  <1> QED
    BY <1>2, <1>3, PTL DEF SensorSpec, EventsAreCrossings

-----------------------------------------------------------------------------
(* The button: its events form gestures, and are true to the pin *)

Edges == {<<"PRESS">>, <<"RELEASE">>, <<"RELEASE", "SHORT_PRESS">>}
Lengths == {<<"LONG_PRESS">>, <<"VERY_LONG_PRESS">>, <<"LONG_PRESS", "VERY_LONG_PRESS">>}

(* While the pin differs from the stable level the two clocks agree and the *)
(* debounce has not passed.  A release that is not confirmed yet was seen   *)
(* before LongPress, unless the gesture is long.                            *)
ButtonInv ==
    /\ initialized \in BOOLEAN /\ armed \in BOOLEAN /\ stable \in BOOLEAN
    /\ candidate \in BOOLEAN /\ longEmitted \in BOOLEAN /\ veryLongEmitted \in BOOLEAN
    /\ level \in BOOLEAN
    /\ candidateAge \in 0 .. Horizon /\ pressAge \in 0 .. Horizon
    /\ steady \in 0 .. Horizon /\ turned \in 0 .. Horizon
    /\ out \in {<< >>} \cup Edges \cup Lengths
    /\ candidate = level /\ (~initialized => ~armed)
    /\ (armed /\ level # stable => candidateAge = steady /\ steady < Debounce)
    /\ (armed /\ stable /\ ~level /\ ~longEmitted => turned < LongPress)
    /\ (veryLongEmitted => longEmitted)
    /\ (out \in Edges => steady >= Debounce)
    /\ (out = <<"RELEASE", "SHORT_PRESS">> => turned < LongPress)

LEMMA LaterFacts ==
    ASSUME NEW age \in 0 .. Horizon, NEW gap \in 1 .. MaxGap
    PROVE  Later(age, gap) \in 0 .. Horizon
  BY ButtonAssumption DEF Later, Horizon

LEMMA TwoOfOne ==
    ASSUME NEW S, NEW x \in S, NEW y \in S
    PROVE  <<x>> \o <<y>> = <<x, y>>
  <1>1. <<x>> \in Seq(S) /\ <<y>> \in Seq(S) /\ <<x, y>> \in Seq(S)
    OBVIOUS
  <1> DEFINE c == <<x>> \o <<y>>
  <1>2. c \in Seq(S) /\ Len(c) = 2 /\ c[1] = x /\ c[2] = y
    <2>1. /\ Len(<<x>>) = 1 /\ Len(<<y>>) = 1 /\ <<x>>[1] = x /\ <<y>>[1] = y
      OBVIOUS
    <2>2. /\ c \in Seq(S) /\ Len(c) = Len(<<x>>) + Len(<<y>>)
          /\ \A i \in 1 .. Len(<<x>>) + Len(<<y>>) : c[i] =
               IF i <= Len(<<x>>) THEN <<x>>[i] ELSE <<y>>[i - Len(<<x>>)]
      BY <1>1, ConcatProperties
    <2>3. c[1] = <<x>>[1] /\ c[2] = <<y>>[2 - 1]
      BY <2>1, <2>2
    <2> QED
      BY <2>1, <2>2, <2>3
  <1> HIDE DEF c
  <1>3. c = <<x, y>>
    <2>1. Len(<<x, y>>) = 2 /\ <<x, y>>[1] = x /\ <<x, y>>[2] = y
      OBVIOUS
    <2>2. \A i \in 1 .. 2 : i = 1 \/ i = 2
      OBVIOUS
    <2>3. \A i \in 1 .. Len(c) : c[i] = <<x, y>>[i]
      BY <1>2, <2>1, <2>2
    <2> QED
      BY <1>1, <1>2, <2>1, <2>3, SeqEqual
  <1> QED
    BY <1>3 DEF c

LEMMA Concatenations ==
    /\ << >> \o << >> = << >>
    /\ << >> \o <<"LONG_PRESS">> = <<"LONG_PRESS">>
    /\ <<"LONG_PRESS">> \o << >> = <<"LONG_PRESS">>
    /\ << >> \o <<"VERY_LONG_PRESS">> = <<"VERY_LONG_PRESS">>
    /\ <<"LONG_PRESS">> \o <<"VERY_LONG_PRESS">> = <<"LONG_PRESS", "VERY_LONG_PRESS">>
    /\ <<"PRESS">> \o << >> = <<"PRESS">>
    /\ <<"RELEASE">> \o << >> = <<"RELEASE">>
    /\ <<"RELEASE", "SHORT_PRESS">> \o << >> = <<"RELEASE", "SHORT_PRESS">>
  <1> DEFINE S == {"PRESS", "RELEASE", "SHORT_PRESS", "LONG_PRESS", "VERY_LONG_PRESS"}
  <1>1. /\ << >> \in Seq(S) /\ <<"LONG_PRESS">> \in Seq(S)
        /\ <<"VERY_LONG_PRESS">> \in Seq(S) /\ <<"PRESS">> \in Seq(S)
        /\ <<"RELEASE">> \in Seq(S) /\ <<"RELEASE", "SHORT_PRESS">> \in Seq(S)
    OBVIOUS
  <1>2. <<"LONG_PRESS">> \o <<"VERY_LONG_PRESS">> = <<"LONG_PRESS", "VERY_LONG_PRESS">>
    <2>1. "LONG_PRESS" \in S /\ "VERY_LONG_PRESS" \in S
      OBVIOUS
    <2> HIDE DEF S
    <2> QED
      BY <2>1, TwoOfOne, Zenon
  <1> HIDE DEF S
  <1> QED
    BY <1>1, <1>2, ConcatEmptySeq, Zenon

(* The lengths a gesture that is down reaches *)
Grown(age, wasLong, wasVery) ==
    IF ~wasLong /\ age >= LongPress
    THEN IF ~wasVery /\ age >= VeryLongPress THEN <<"LONG_PRESS", "VERY_LONG_PRESS">>
         ELSE <<"LONG_PRESS">>
    ELSE IF ~wasVery /\ age >= VeryLongPress THEN <<"VERY_LONG_PRESS">> ELSE << >>

StaysUp == /\ stable = FALSE /\ stable' = FALSE /\ pressAge' = 0 /\ out' = << >>
           /\ UNCHANGED <<longEmitted, veryLongEmitted>>
StaysDown(gap) ==
    LET age == Later(pressAge, gap)
    IN  /\ stable = TRUE /\ stable' = TRUE /\ pressAge' = age
        /\ longEmitted' = (longEmitted \/ age >= LongPress)
        /\ veryLongEmitted' = (veryLongEmitted \/ age >= VeryLongPress)
        /\ out' = Grown(age, longEmitted, veryLongEmitted)
GoesDown == /\ stable = FALSE /\ stable' = TRUE /\ pressAge' = 0 /\ out' = <<"PRESS">>
            /\ longEmitted' = FALSE /\ veryLongEmitted' = FALSE
GoesUp == /\ stable = TRUE /\ stable' = FALSE /\ pressAge' = 0
          /\ out' = IF longEmitted THEN <<"RELEASE">> ELSE <<"RELEASE", "SHORT_PRESS">>
          /\ UNCHANGED <<longEmitted, veryLongEmitted>>

LEMMA SampleOutcome ==
    ASSUME ButtonInv, NEW pressed \in BOOLEAN, NEW gap \in 1 .. MaxGap, Sample(pressed, gap)
    PROVE  /\ initialized /\ armed /\ UNCHANGED <<initialized, armed>>
           /\ candidate' = pressed /\ candidateAge' = CandidateAge(pressed, gap)
           /\ ~Changed(pressed, gap) => StaysUp \/ StaysDown(gap)
           /\ Changed(pressed, gap) => (pressed /\ GoesDown) \/ (~pressed /\ GoesUp)
  <1>1. /\ initialized /\ armed /\ UNCHANGED <<initialized, armed>>
        /\ candidate' = pressed /\ candidateAge' = CandidateAge(pressed, gap)
    BY Zenon DEF Sample, Take
  <1>2. /\ stable \in BOOLEAN /\ longEmitted \in BOOLEAN /\ veryLongEmitted \in BOOLEAN
        /\ ~(0 >= LongPress) /\ ~(0 >= VeryLongPress)
    BY ButtonAssumption DEF ButtonInv
  <1>3. CASE ~Changed(pressed, gap) /\ ~stable
    <2>0. stable = FALSE /\ Changed(pressed, gap) = FALSE
      BY <1>2, <1>3, Zenon DEF Changed
    <2>1. stable' = FALSE /\ longEmitted' = longEmitted /\ veryLongEmitted' = veryLongEmitted
          /\ pressAge' = 0
      BY <1>2, <2>0, Zenon DEF Sample, Take
    <2>2. out' = << >>
      BY <1>2, <2>0, Concatenations, Zenon DEF Sample, Take, ButtonEvents, Edge
    <2> QED
      BY <1>1, <1>2, <1>3, <2>1, <2>2, Zenon DEF StaysUp
  <1>4. CASE ~Changed(pressed, gap) /\ stable
    <2> DEFINE age == Later(pressAge, gap)
    <2>1. /\ stable' = TRUE /\ longEmitted' = (longEmitted \/ age >= LongPress)
          /\ veryLongEmitted' = (veryLongEmitted \/ age >= VeryLongPress)
          /\ pressAge' = age
      BY <1>2, <1>4, Zenon DEF Sample, Take
    <2>2. out' = ButtonEvents(FALSE, TRUE, age, longEmitted, veryLongEmitted)
      BY <1>2, <1>4, Zenon DEF Sample, Take, ButtonEvents, Edge
    <2>3. out' = Grown(age, longEmitted, veryLongEmitted)
      BY <2>2, Concatenations, Zenon DEF ButtonEvents, Edge, Grown
    <2> QED
      BY <1>1, <1>2, <1>4, <2>1, <2>3, Zenon DEF StaysDown
  <1>5. CASE Changed(pressed, gap) /\ pressed
    <2>1. stable = FALSE
      BY <1>2, <1>5, Zenon DEF Changed
    <2>2. stable' = TRUE /\ longEmitted' = FALSE /\ veryLongEmitted' = FALSE /\ pressAge' = 0
      BY <1>2, <1>5, <2>1, Zenon DEF Sample, Take
    <2>3. out' = <<"PRESS">>
      BY <1>2, <1>5, <2>1, Concatenations, Zenon DEF Sample, Take, ButtonEvents, Edge
    <2> QED
      BY <1>1, <1>5, <2>1, <2>2, <2>3, Zenon DEF GoesDown
  <1>6. CASE Changed(pressed, gap) /\ ~pressed
    <2>1. stable = TRUE
      BY <1>2, <1>6, Zenon DEF Changed
    <2>2. stable' = FALSE /\ longEmitted' = longEmitted /\ veryLongEmitted' = veryLongEmitted
          /\ pressAge' = 0
      BY <1>2, <1>6, <2>1, Zenon DEF Sample, Take
    <2>3. out' = IF longEmitted THEN <<"RELEASE">> ELSE <<"RELEASE", "SHORT_PRESS">>
      BY <1>2, <1>6, <2>1, Concatenations, Zenon DEF Sample, Take, ButtonEvents, Edge
    <2> QED
      BY <1>1, <1>6, <2>1, <2>2, <2>3, Zenon DEF GoesUp
  <1> QED
    BY <1>3, <1>4, <1>5, <1>6, Zenon

(* The part of ButtonNext that keeps the history *)
Witnessed(pressed, gap) ==
    /\ level' = pressed
    /\ steady' = IF initialized /\ pressed = level THEN Later(steady, gap) ELSE 0
    /\ turned' = IF pressed # level THEN pressAge' ELSE turned

LEMMA AgesStay ==
    ASSUME ButtonInv, NEW pressed \in BOOLEAN, NEW gap \in 1 .. MaxGap,
           Witnessed(pressed, gap), pressAge' \in 0 .. Horizon
    PROVE  /\ level' \in BOOLEAN /\ steady' \in 0 .. Horizon /\ turned' \in 0 .. Horizon
           /\ 0 \in 0 .. Horizon /\ CandidateAge(pressed, gap) \in 0 .. Horizon
  <1>1. 0 \in 0 .. Horizon
    BY ButtonAssumption DEF Horizon
  <1> QED
    BY <1>1, LaterFacts, Zenon DEF ButtonInv, Witnessed, CandidateAge

LEMMA InvFirstSample ==
    ASSUME ButtonInv, NEW pressed \in BOOLEAN, NEW gap \in 1 .. MaxGap,
           FirstSample(pressed), Witnessed(pressed, gap)
    PROVE  ButtonInv'
  <1>1. << >> \notin Edges
    BY DEF Edges
  <1>2. /\ initialized' = TRUE /\ stable' = pressed /\ candidate' = pressed /\ level' = pressed
        /\ armed' = ~pressed /\ candidateAge' = 0 /\ pressAge' = pressAge /\ out' = << >>
        /\ longEmitted' = longEmitted /\ veryLongEmitted' = veryLongEmitted
    BY Zenon DEF FirstSample, Witnessed
  <1>3. pressAge' \in 0 .. Horizon
    BY <1>2, Zenon DEF ButtonInv
  <1>4. /\ level' \in BOOLEAN /\ steady' \in 0 .. Horizon /\ turned' \in 0 .. Horizon
        /\ 0 \in 0 .. Horizon
    BY <1>3, AgesStay, Zenon
  <1>5. << >> # <<"RELEASE", "SHORT_PRESS">>
    OBVIOUS
  <1> QED
    BY <1>1, <1>2, <1>3, <1>4, <1>5, Zenon DEF ButtonInv

LEMMA InvHeldAtStartup ==
    ASSUME ButtonInv, NEW pressed \in BOOLEAN, NEW gap \in 1 .. MaxGap,
           HeldAtStartup(pressed, gap), Witnessed(pressed, gap)
    PROVE  ButtonInv'
  <1>1. << >> \notin Edges /\ << >> # <<"RELEASE", "SHORT_PRESS">>
    BY DEF Edges
  <1>2. /\ initialized' = initialized /\ candidate' = pressed /\ level' = pressed
        /\ pressAge' = pressAge /\ out' = << >> /\ armed' \in BOOLEAN /\ initialized
        /\ longEmitted' = longEmitted /\ veryLongEmitted' = veryLongEmitted
    BY Zenon DEF HeldAtStartup, Witnessed
  <1>3. /\ armed' => ~pressed /\ stable' = FALSE
        /\ stable' \in BOOLEAN
    BY Zenon DEF HeldAtStartup, ButtonInv
  <1>4. pressAge' \in 0 .. Horizon
    BY <1>2, Zenon DEF ButtonInv
  <1>5. /\ level' \in BOOLEAN /\ steady' \in 0 .. Horizon /\ turned' \in 0 .. Horizon
        /\ 0 \in 0 .. Horizon
    BY <1>4, AgesStay, Zenon
  <1>6. candidateAge' \in 0 .. Horizon
    BY <1>5, LaterFacts, Zenon DEF HeldAtStartup, ButtonInv
  <1> QED
    BY <1>1, <1>2, <1>3, <1>4, <1>5, <1>6, Zenon DEF ButtonInv

LEMMA InvSample ==
    ASSUME ButtonInv, NEW pressed \in BOOLEAN, NEW gap \in 1 .. MaxGap,
           Sample(pressed, gap), Witnessed(pressed, gap)
    PROVE  ButtonInv'
  <1> DEFINE age == Later(pressAge, gap)
             wait == CandidateAge(pressed, gap)
  <1>1. /\ initialized /\ armed /\ UNCHANGED <<initialized, armed>>
        /\ candidate' = pressed /\ candidateAge' = wait
        /\ ~Changed(pressed, gap) => StaysUp \/ StaysDown(gap)
        /\ Changed(pressed, gap) => (pressed /\ GoesDown) \/ (~pressed /\ GoesUp)
    BY SampleOutcome, Zenon
  <1>2. /\ age \in 0 .. Horizon /\ 0 \in 0 .. Horizon
        /\ ~(0 >= Debounce) /\ ~(0 >= LongPress)
    <2>1. pressAge \in 0 .. Horizon
      BY Zenon DEF ButtonInv
    <2>2. 0 \in 0 .. Horizon /\ ~(0 >= Debounce) /\ ~(0 >= LongPress)
      BY ButtonAssumption DEF Horizon
    <2> QED
      BY <2>1, <2>2, LaterFacts, Zenon
  <1>3. pressAge' \in 0 .. Horizon
    BY <1>1, <1>2, Zenon DEF StaysUp, StaysDown, GoesUp, GoesDown
  <1>4. /\ level' \in BOOLEAN /\ steady' \in 0 .. Horizon /\ turned' \in 0 .. Horizon
        /\ wait \in 0 .. Horizon
    BY <1>3, AgesStay, Zenon
  <1>5. /\ stable' \in BOOLEAN /\ longEmitted' \in BOOLEAN /\ veryLongEmitted' \in BOOLEAN
    BY <1>1, Zenon DEF StaysUp, StaysDown, GoesUp, GoesDown, ButtonInv
  <1>6. out' \in {<< >>} \cup Edges \cup Lengths
    BY <1>1, Zenon DEF StaysUp, StaysDown, GoesUp, GoesDown, Grown, Edges, Lengths
  <1>7. /\ << >> \notin Edges /\ \A o \in Lengths : o \notin Edges
        /\ <<"RELEASE", "SHORT_PRESS">> \in Edges
    <2>1. Len(<<"LONG_PRESS">>) = 1 /\ <<"LONG_PRESS">>[1] = "LONG_PRESS"
      OBVIOUS
    <2> QED
      BY DEF Edges, Lengths
  <1>8. ASSUME pressed # stable, candidate = pressed
        PROVE  steady' = wait
    BY <1>1, <1>8, Zenon DEF ButtonInv, Witnessed, CandidateAge
  <1>9. Changed(pressed, gap) => /\ pressed # stable /\ candidate = pressed /\ level = pressed
                                 /\ wait >= Debounce /\ stable' = pressed
    <2> SUFFICES ASSUME Changed(pressed, gap)
                 PROVE  /\ pressed # stable /\ candidate = pressed /\ level = pressed
                        /\ wait >= Debounce /\ stable' = pressed
      BY Zenon
    <2>1. pressed # stable /\ wait >= Debounce
      BY Zenon DEF Changed
    <2>2. candidate = pressed
      BY <1>2, <2>1, Zenon DEF CandidateAge
    <2>3. level = pressed
      BY <2>2, Zenon DEF ButtonInv
    <2>4. stable' = pressed
      <3>1. pressed = TRUE \/ pressed = FALSE
        BY Zenon
      <3>2. CASE pressed = TRUE
        BY <1>1, <3>2, Zenon DEF GoesDown
      <3>3. CASE pressed = FALSE
        BY <1>1, <3>3, Zenon DEF GoesUp
      <3> QED
        BY <3>1, <3>2, <3>3, Zenon
    <2> QED
      BY <2>1, <2>2, <2>3, <2>4, Zenon
  <1>10. ~Changed(pressed, gap) => stable' = stable /\ out' \notin Edges
    <2> SUFFICES ASSUME ~Changed(pressed, gap)
                 PROVE  stable' = stable /\ out' \in {<< >>} \cup Lengths
      BY <1>7, Zenon
    <2>1. CASE StaysUp
      BY <2>1, Zenon DEF StaysUp
    <2>2. CASE StaysDown(gap)
      BY <2>2, Zenon DEF StaysDown, Grown, Lengths
    <2> QED
      BY <1>1, <2>1, <2>2, Zenon
  <1>11. ASSUME level' # stable'
         PROVE  candidateAge' = steady' /\ steady' < Debounce
    <2>1. ~Changed(pressed, gap) /\ pressed # stable /\ level' = pressed
      BY <1>9, <1>10, <1>11, Zenon DEF Witnessed
    <2>2. wait < Debounce
      <3>1. ~(wait >= Debounce)
        BY <2>1, Zenon DEF Changed
      <3> QED
        BY <1>4, <3>1, ButtonAssumption
    <2>3. CASE candidate = pressed
      BY <1>1, <1>8, <2>1, <2>2, <2>3, Zenon
    <2>4. CASE candidate # pressed
      <3>1. steady' = 0 /\ wait = 0
        BY <2>4, Zenon DEF ButtonInv, Witnessed, CandidateAge
      <3> QED
        BY <1>1, <2>2, <3>1, Zenon
    <2> QED
      BY <2>3, <2>4, Zenon
  <1>12. out' \in Edges => steady' >= Debounce
    BY <1>8, <1>9, <1>10, Zenon
  <1>13. ASSUME stable', ~level', ~longEmitted'
         PROVE  turned' < LongPress
    <2>1. ~pressed /\ ~Changed(pressed, gap) /\ StaysDown(gap)
      BY <1>1, <1>9, <1>13, Zenon DEF Witnessed, StaysUp
    <2>2. ~(age >= LongPress) /\ ~longEmitted /\ pressAge' = age /\ stable
      BY <1>13, <2>1, Zenon DEF StaysDown
    <2>3. CASE pressed # level
      <3>1. turned' = age
        BY <2>2, <2>3, Zenon DEF Witnessed
      <3> HIDE DEF age
      <3> QED
        BY <1>2, <2>2, <3>1, ButtonAssumption
    <2>4. CASE pressed = level
      BY <1>1, <2>1, <2>2, <2>4, Zenon DEF Witnessed, ButtonInv
    <2> QED
      BY <2>3, <2>4, Zenon
  <1>14. veryLongEmitted' => longEmitted'
    <2>1. age >= VeryLongPress => age >= LongPress
      <3> HIDE DEF age
      <3> QED
        BY <1>2, ButtonAssumption
    <2> QED
      <3>1. (veryLongEmitted => longEmitted) /\ longEmitted \in BOOLEAN
            /\ veryLongEmitted \in BOOLEAN
        BY Zenon DEF ButtonInv
      <3>2. CASE StaysUp \/ GoesUp
        BY <3>1, <3>2, Zenon DEF StaysUp, GoesUp
      <3>3. CASE GoesDown
        BY <3>3, Zenon DEF GoesDown
      <3>4. CASE StaysDown(gap)
        BY <2>1, <3>1, <3>4, Zenon DEF StaysDown
      <3> QED
        BY <1>1, <3>2, <3>3, <3>4, Zenon
  <1>15. ASSUME out' = <<"RELEASE", "SHORT_PRESS">>
         PROVE  turned' < LongPress
    <2>1. Changed(pressed, gap)
      BY <1>7, <1>10, <1>15, Zenon
    <2>2. <<"RELEASE", "SHORT_PRESS">> # <<"PRESS">> /\ <<"RELEASE", "SHORT_PRESS">> # <<"RELEASE">>
      OBVIOUS
    <2>3. ~pressed /\ GoesUp /\ ~longEmitted /\ level = pressed
      BY <1>1, <1>9, <1>15, <2>1, <2>2, Zenon DEF GoesDown, GoesUp
    <2> QED
      BY <1>1, <2>3, Zenon DEF GoesUp, Witnessed, ButtonInv
  <1> HIDE DEF age, wait
  <1> QED
    BY <1>1, <1>3, <1>4, <1>5, <1>6, <1>11, <1>12, <1>13, <1>14, <1>15, Zenon
       DEF ButtonInv, Witnessed

LEMMA ButtonInvNext == ButtonInv /\ [ButtonNext]_buttonVars => ButtonInv'
  <1> SUFFICES ASSUME ButtonInv, [ButtonNext]_buttonVars
               PROVE  ButtonInv'
    OBVIOUS
  <1>1. CASE ButtonNext
    <2>1. PICK pressed \in BOOLEAN, gap \in 1 .. MaxGap :
              /\ FirstSample(pressed) \/ HeldAtStartup(pressed, gap) \/ Sample(pressed, gap)
              /\ Witnessed(pressed, gap)
      BY <1>1, Zenon DEF ButtonNext, Witnessed
    <2> QED
      BY <2>1, InvFirstSample, InvHeldAtStartup, InvSample, Zenon
  <1>2. CASE UNCHANGED buttonVars
    BY <1>2, Zenon DEF buttonVars, button, ButtonInv
  <1> QED
    BY <1>1, <1>2, Zenon

Held == IF ~armed \/ ~stable THEN "UP" ELSE IF veryLongEmitted THEN "VERY_LONG"
        ELSE IF longEmitted THEN "LONG" ELSE "DOWN"

LEMMA GestureStep ==
    ASSUME ButtonInv, ButtonNext
    PROVE  G!GestureNext
  <1>1. PICK pressed \in BOOLEAN, gap \in 1 .. MaxGap :
            FirstSample(pressed) \/ HeldAtStartup(pressed, gap) \/ Sample(pressed, gap)
    BY Zenon DEF ButtonNext
  <1>2. CASE FirstSample(pressed)
    <2>1. Held = "UP" /\ Held' = "UP" /\ out' = << >>
      BY <1>2, Zenon DEF FirstSample, ButtonInv, Held
    <2> QED
      BY <2>1, Zenon DEF G!GestureNext, G!Quiet, Held
  <1>3. CASE HeldAtStartup(pressed, gap)
    <2>1. Held = "UP" /\ Held' = "UP" /\ out' = << >>
      BY <1>3, Zenon DEF HeldAtStartup, Held
    <2> QED
      BY <2>1, Zenon DEF G!GestureNext, G!Quiet, Held
  <1>4. CASE Sample(pressed, gap)
    <2>1. armed /\ armed' /\ (StaysUp \/ StaysDown(gap) \/ GoesDown \/ GoesUp)
      <3>1. /\ armed /\ armed' = armed
            /\ ~Changed(pressed, gap) => StaysUp \/ StaysDown(gap)
            /\ Changed(pressed, gap) => (pressed /\ GoesDown) \/ (~pressed /\ GoesUp)
        BY <1>4, SampleOutcome, Zenon
      <3> QED
        BY <3>1, Zenon
    <2>2. longEmitted \in BOOLEAN /\ veryLongEmitted \in BOOLEAN /\ (veryLongEmitted => longEmitted)
      BY Zenon DEF ButtonInv
    <2>3. CASE StaysUp
      <3>1. Held = "UP" /\ Held' = "UP" /\ out' = << >>
        BY <2>3, Zenon DEF StaysUp, Held
      <3> QED
        BY <3>1, Zenon DEF G!GestureNext, G!Quiet, Held
    <2>4. CASE GoesDown
      <3>1. Held = "UP" /\ Held' = "DOWN" /\ out' = <<"PRESS">>
        BY <2>1, <2>4, Zenon DEF GoesDown, Held
      <3> QED
        BY <3>1, Zenon DEF G!GestureNext, G!Press, Held
    <2>5. CASE GoesUp
      <3>1. /\ Held # "UP" /\ Held' = "UP"
            /\ out' = IF Held = "DOWN" THEN <<"RELEASE", "SHORT_PRESS">> ELSE <<"RELEASE">>
        BY <2>1, <2>2, <2>5, Zenon DEF GoesUp, Held
      <3> QED
        BY <3>1, Zenon DEF G!GestureNext, G!Release, Held
    <2>6. CASE StaysDown(gap)
      <3> DEFINE age == Later(pressAge, gap)
      <3>1. age >= VeryLongPress => age >= LongPress
        <4>1. pressAge \in 0 .. Horizon
          BY Zenon DEF ButtonInv
        <4>2. age \in 0 .. Horizon
          BY <4>1, LaterFacts, Zenon
        <4> HIDE DEF age
        <4> QED
          BY <4>2, ButtonAssumption
      <3>2. /\ stable /\ stable' /\ out' = Grown(age, longEmitted, veryLongEmitted)
            /\ longEmitted' = (longEmitted \/ age >= LongPress)
            /\ veryLongEmitted' = (veryLongEmitted \/ age >= VeryLongPress)
        BY <2>6, Zenon DEF StaysDown
      <3> HIDE DEF age
      <3>3. CASE Held = "VERY_LONG"
        <4>1. veryLongEmitted /\ longEmitted
          BY <2>1, <2>2, <3>2, <3>3, Zenon DEF Held
        <4>2. Held' = Held /\ out' = << >>
          BY <2>1, <3>2, <4>1, Zenon DEF Held, Grown
        <4> QED
          BY <4>2, Zenon DEF G!GestureNext, G!Quiet, Held
      <3>4. CASE Held = "LONG"
        <4>1. ~veryLongEmitted /\ longEmitted
          BY <2>1, <2>2, <3>2, <3>4, Zenon DEF Held
        <4>2. \/ Held' = Held /\ out' = << >>
              \/ Held' = "VERY_LONG" /\ out' = <<"VERY_LONG_PRESS">>
          BY <2>1, <3>2, <4>1, Zenon DEF Held, Grown
        <4> QED
          BY <3>4, <4>2, Zenon DEF G!GestureNext, G!Quiet, G!Lengthen, Held
      <3>5. CASE Held = "DOWN"
        <4>1. ~veryLongEmitted /\ ~longEmitted
          BY <2>1, <2>2, <3>2, <3>5, Zenon DEF Held
        <4>2. \/ Held' = Held /\ out' = << >>
              \/ Held' = "LONG" /\ out' = <<"LONG_PRESS">>
              \/ Held' = "VERY_LONG" /\ out' = <<"LONG_PRESS", "VERY_LONG_PRESS">>
          BY <2>1, <3>1, <3>2, <4>1, Zenon DEF Held, Grown
        <4> QED
          BY <3>5, <4>2, Zenon DEF G!GestureNext, G!Quiet, G!Lengthen, Held
      <3> QED
        BY <2>1, <3>2, <3>3, <3>4, <3>5, Zenon DEF Held
    <2> QED
      BY <2>1, <2>3, <2>4, <2>5, <2>6, Zenon
  <1> QED
    BY <1>1, <1>2, <1>3, <1>4, Zenon

(* The events of the debouncer (Button::update) are the gestures Gestures   *)
(* specifies, and they are true to the pin: for every debounce interval,    *)
(* length of a press and pause between two samples.                         *)
THEOREM ButtonImplementsGestures == ButtonSpec => ImplementsGestures
  <1>1. ButtonInit => ButtonInv
    <2>1. 0 \in 0 .. Horizon
      BY ButtonAssumption DEF Horizon
    <2>2. << >> \notin Edges /\ << >> # <<"RELEASE", "SHORT_PRESS">>
      BY DEF Edges
    <2> QED
      BY <2>1, <2>2, Zenon DEF ButtonInit, ButtonInv
  <1>2. ButtonInit => G!GestureInit
    BY Zenon DEF ButtonInit, G!GestureInit
  <1>3. ButtonInv /\ [ButtonNext]_buttonVars => [G!GestureNext]_(G!gestureVars)
    <2> SUFFICES ASSUME ButtonInv, UNCHANGED buttonVars
                 PROVE  UNCHANGED G!gestureVars
      BY GestureStep, Zenon
    <2>1. armed' = armed /\ stable' = stable /\ out' = out /\ longEmitted' = longEmitted
          /\ veryLongEmitted' = veryLongEmitted
      BY Zenon DEF buttonVars, button
    <2> QED
      BY <2>1, Zenon DEF G!gestureVars
  <1>4. ButtonInv => StableFollowsPin
    <2> SUFFICES ASSUME ButtonInv
                 PROVE  StableFollowsPin
      OBVIOUS
    <2>1. armed /\ steady >= Debounce => stable = level
      <3>1. armed /\ level # stable => ~(steady >= Debounce)
        BY ButtonAssumption DEF ButtonInv
      <3> QED
        BY <3>1, Zenon
    <2>2. /\ Len(out) <= 2
          /\ out # << >> /\ Head(out) \in {"PRESS", "RELEASE"} => out \in Edges
          /\ out # << >> /\ out[Len(out)] = "SHORT_PRESS" => out = <<"RELEASE", "SHORT_PRESS">>
      <3>1. out \in {<< >>} \cup Edges \cup Lengths
        BY Zenon DEF ButtonInv
      <3>2. CASE out = << >>
        BY <3>2
      <3>3. CASE out \in {<<"PRESS">>, <<"RELEASE">>, <<"LONG_PRESS">>, <<"VERY_LONG_PRESS">>}
        BY <3>3 DEF Edges
      <3>4. CASE out = <<"RELEASE", "SHORT_PRESS">>
        BY <3>4 DEF Edges
      <3>5. CASE out = <<"LONG_PRESS", "VERY_LONG_PRESS">>
        BY <3>5
      <3> QED
        BY <3>1, <3>2, <3>3, <3>4, <3>5, Zenon DEF Edges, Lengths
    <2>3. ButtonTypeOK
      BY <2>2, Zenon DEF ButtonInv, ButtonTypeOK
    <2> QED
      BY <2>1, <2>2, <2>3, Zenon DEF StableFollowsPin, ButtonInv
  <1> QED
    BY <1>1, <1>2, <1>3, <1>4, ButtonInvNext, PTL DEF ButtonSpec, G!GestureSpec, ImplementsGestures

-----------------------------------------------------------------------------
(* The inductive invariant of the user interface.  An armed factory reset   *)
(* belongs to an editor, and an editor to a display that is awake.          *)

Controllers ==
    [screen : Range(Screens), awake : BOOLEAN, onPending : BOOLEAN, dirty : BOOLEAN,
     suppress : BOOLEAN, wokeLong : BOOLEAN, editor : BOOLEAN, item : Range(EditorItems),
     armed : BOOLEAN, current : Settings, draft : Settings, action : {"NONE", "SAVE", "RESET"},
     idle : BOOLEAN, late : BOOLEAN, recent : BOOLEAN]

Sound(u) == /\ u \in Controllers
            /\ u.armed => u.editor
            /\ ~u.awake => ~u.editor /\ ~u.onPending
            /\ u.suppress => ~u.editor

(* The panel: the draft outside the editor is the current settings *)
PanelInv ==
    /\ Sound(ui) /\ ui.action = "NONE" /\ (~ui.editor => ui.draft = ui.current)
    /\ queue \in [pending : {"NONE", "SAVE", "RESET"}, draft : Settings]
    /\ lit \in BOOLEAN /\ fresh \in BOOLEAN
    /\ ui.awake /\ ~ui.dirty => fresh
    /\ lit <=> ui.awake /\ ~ui.onPending

(* The events one gesture makes *)
Mades == {<< >>, <<"BUTTON">>, <<"MANUAL_CHECK_IN">>}
Producers(made, told) ==
    [eligible : BOOLEAN, suppressed : BOOLEAN, manual : BOOLEAN, long : BOOLEAN,
     veryLong : BOOLEAN, made : made, told : told]

Histories == [woke : BOOLEAN, before : BOOLEAN, armed : BOOLEAN, entered : BOOLEAN,
              acted : BOOLEAN, made : Mades]

(* Of a gesture that woke the display the rest is suppressed *)
Waking(u, h) == u.awake /\ u.suppress => h # "UP" /\ (h = "DOWN" <=> ~u.wokeLong)

(* The gesture so far, as its history, the producer of events and the       *)
(* controller remember it                                                   *)
GestureInv ==
    /\ gesture \in Histories /\ held \in {"UP", "DOWN", "LONG", "VERY_LONG"}
    /\ ready \in BOOLEAN /\ producer \in Producers({<< >>}, {FALSE})
    /\ Waking(ui, held)
    /\ held # "UP" /\ gesture.woke =>
           /\ ui.suppress \/ ~ui.awake
           /\ ready => ~producer.eligible /\ ~producer.manual
    /\ held # "UP" \/ pc # "PERSIST" => gesture.made = << >>
    /\ held = "UP" /\ pc # "PERSIST" => ~gesture.woke /\ ~gesture.entered
    /\ held # "UP" /\ gesture.entered => held = "VERY_LONG"
    /\ ready /\ held = "DOWN" => ~producer.long
    /\ ready /\ held = "VERY_LONG" => ~producer.manual
    /\ ui.armed => IF held = "DOWN" THEN gesture.before ELSE gesture.armed

-----------------------------------------------------------------------------
(* The order of the items, the presets *)
LEMMA LeastIndex ==
    ASSUME NEW S \in SUBSET Nat, S # {}
    PROVE  \E x \in S : \A y \in S : x <= y
  <1>1. PICK x \in S : \A y \in S : ~(<<y, x>> \in OpToRel(<, Nat))
    BY NatLessThanWellFounded, WFMin, Zenon
  <1>2. \A y \in S : ~(y < x)
    BY <1>1, Zenon DEF OpToRel
  <1>3. \A y \in S : x <= y
    BY <1>2
  <1> QED
    BY <1>3, Zenon

LEMMA NextInOrder ==
    ASSUME NEW order, order \in Seq(Range(order)), NEW x \in Range(order)
    PROVE  NextIn(order, x) \in Range(order)
  <1> DEFINE i == CHOOSE j \in DOMAIN order : order[j] = x
             n == Len(order)
  <1>1. n \in Nat /\ DOMAIN order = 1 .. n
    BY Zenon, LenProperties
  <1>2. i \in 1 .. n
    BY <1>1 DEF Range
  <1> HIDE DEF i, n
  <1>3. (i % n) + 1 \in 1 .. n
    BY <1>1, <1>2
  <1>4. order[(i % n) + 1] \in Range(order)
    BY <1>1, <1>3 DEF Range
  <1> QED
    BY <1>4 DEF NextIn, i, n

LEMMA ItemsInOrder ==
    /\ EditorItems \in Seq(Range(EditorItems)) /\ EditorItems[1] \in Range(EditorItems)
    /\ \A x \in Range(EditorItems) :
           x \in Range(Fields) \cup {"SAVE", "CANCEL", "FACTORY_RESET"}
  <1> DEFINE S == Range(Fields) \cup {"SAVE", "CANCEL", "FACTORY_RESET"}
             tail == <<"SAVE", "CANCEL", "FACTORY_RESET">>
  <1>1. Fields \in Seq(S)
    BY UiAssumption
  <1>2. tail \in Seq(S) /\ Len(tail) = 3
    OBVIOUS
  <1> HIDE DEF S, tail
  <1>3. EditorItems \in Seq(S) /\ Len(EditorItems) = Len(Fields) + 3
    BY <1>1, <1>2, ConcatProperties DEF EditorItems, tail
  <1>4. Len(Fields) \in Nat /\ DOMAIN EditorItems = 1 .. Len(EditorItems)
    BY <1>1, <1>3
  <1>5. EditorItems \in Seq(Range(EditorItems))
    BY <1>3, <1>4 DEF Range
  <1>6. EditorItems[1] \in Range(EditorItems)
    BY <1>3, <1>4 DEF Range
  <1>7. \A x \in Range(EditorItems) : x \in S
    BY <1>3 DEF Range
  <1> QED
    BY <1>5, <1>6, <1>7 DEF S

LEMMA HomeIsScreen == "HOME" \in Range(Screens)
  BY UiAssumption DEF Range

LEMMA PresetFits ==
    ASSUME NEW s \in Settings, NEW f \in Range(Fields)
    PROVE  [s EXCEPT ![f] = NextPreset(@, Presets[f])] \in Settings
  <1> DEFINE p == Presets[f]
             greater == {i \in DOMAIN p : p[i] > s[f]}
             first == CHOOSE i \in greater : \A j \in greater : i <= j
  <1>1. p \in Seq(Nat) /\ p # << >>
    BY UiAssumption, Zenon
  <1>2. greater \subseteq DOMAIN p /\ 1 \in DOMAIN p /\ DOMAIN p \subseteq Nat
    BY <1>1
  <1>3. greater # {} => first \in DOMAIN p
    BY <1>2, LeastIndex, Zenon
  <1>4. NextPreset(s[f], p) \in Range(p)
    <2> HIDE DEF greater, first
    <2>1. (IF greater = {} THEN 1 ELSE first) \in DOMAIN p
      BY <1>2, <1>3, Zenon
    <2>2. p[IF greater = {} THEN 1 ELSE first] \in Range(p)
      BY <2>1, Zenon DEF Range
    <2> QED
      BY <2>2, Zenon DEF NextPreset, first, greater
  <1> QED
    BY <1>4 DEF Settings

-----------------------------------------------------------------------------
(* What the controller does to the presentation *)

(* The controller stays sound, and a change of what is shown marks it *)
Moves(u, v) ==
    /\ Sound(v)
    /\ v.awake /\ ~v.onPending <=> u.awake /\ ~u.onPending
    /\ u.dirty => v.dirty
    /\ v.awake /\ ~v.dirty => u.awake /\ Content(v) = Content(u)

LEMMA MovesOn ==
    ASSUME NEW u, NEW v, NEW w, Moves(u, v), Moves(v, w)
    PROVE  Moves(u, w)
  BY Zenon DEF Moves

(* A waking PRESS, and the gesture it belongs to *)
LEMMA WakeFields ==
    ASSUME NEW u \in Controllers, ~u.awake, NEW v, v = Handle(u, "PRESS")
    PROVE  /\ v \in Controllers /\ v.awake = TRUE /\ v.onPending = TRUE /\ v.suppress = TRUE
           /\ v.wokeLong = FALSE /\ v.dirty = TRUE /\ v.screen = u.screen /\ v.editor = u.editor
           /\ v.draft = u.draft /\ v.current = u.current /\ v.action = u.action
           /\ v.armed = u.armed /\ v.item = u.item
  <1>1. v = [u EXCEPT !.awake = TRUE, !.onPending = TRUE, !.suppress = TRUE,
                      !.wokeLong = FALSE, !.idle = FALSE, !.dirty = TRUE]
    BY Zenon DEF Handle
  <1> QED
    BY <1>1, Zenon DEF Controllers

(* What a suppressed event, or one that only resets the idle timer, leaves alone *)
Alike(u, v) ==
    /\ v \in Controllers /\ v.awake = u.awake /\ v.onPending = u.onPending /\ v.dirty = u.dirty
    /\ v.screen = u.screen /\ v.editor = u.editor /\ v.draft = u.draft /\ v.current = u.current
    /\ v.action = u.action /\ v.armed = u.armed /\ v.item = u.item

LEMMA SuppressedFields ==
    ASSUME NEW u \in Controllers, NEW e
    PROVE  /\ Alike(u, HandleSuppressed(u, e))
           /\ e \in {"LONG_PRESS", "VERY_LONG_PRESS"} =>
                  HandleSuppressed(u, e).wokeLong = TRUE
                  /\ HandleSuppressed(u, e).suppress = u.suppress
           /\ e = "SHORT_PRESS" => HandleSuppressed(u, e).suppress = FALSE
           /\ e = "RELEASE" => IF u.wokeLong THEN HandleSuppressed(u, e).suppress = FALSE
                               ELSE HandleSuppressed(u, e) = u
           /\ e = "PRESS" => HandleSuppressed(u, e) = u
  <1>1. Alike(u, u)
    BY Zenon DEF Alike
  <1>2. PICK v : v = [u EXCEPT !.wokeLong = TRUE]
    BY Zenon
  <1>3. Alike(u, v) /\ v.wokeLong = TRUE /\ v.suppress = u.suppress
    BY <1>2, Zenon DEF Alike, Controllers
  <1>4. PICK w : w = [u EXCEPT !.suppress = FALSE]
    BY Zenon
  <1>5. Alike(u, w) /\ w.suppress = FALSE
    BY <1>4, Zenon DEF Alike, Controllers
  <1> QED
    BY <1>1, <1>2, <1>3, <1>4, <1>5, Zenon DEF HandleSuppressed

LEMMA IdleFields ==
    ASSUME NEW u \in Controllers, NEW v, v = [u EXCEPT !.idle = FALSE]
    PROVE  Alike(u, v) /\ v.suppress = u.suppress /\ v.wokeLong = u.wokeLong /\ v.late = u.late
  BY Zenon DEF Alike, Controllers

LEMMA NavigateFields ==
    ASSUME NEW u \in Controllers, NEW s \in Range(Screens), NEW v, v = Navigate(u, s)
    PROVE  /\ v \in Controllers /\ v.awake = u.awake /\ v.onPending = u.onPending
           /\ v.dirty = (u.dirty \/ s # u.screen) /\ v.suppress = u.suppress
           /\ v.screen = s /\ v.editor = u.editor /\ v.draft = u.draft /\ v.current = u.current
           /\ v.action = u.action /\ v.armed = u.armed
  BY Zenon DEF Navigate, Controllers

LEMMA EnterFields ==
    ASSUME NEW u \in Controllers, NEW v, v = EnterEditor(u)
    PROVE  /\ v \in Controllers /\ v.awake = u.awake /\ v.onPending = u.onPending
           /\ v.dirty = TRUE /\ v.suppress = u.suppress /\ v.screen = u.screen
           /\ v.current = u.current /\ v.action = u.action /\ v.armed = FALSE
  BY ItemsInOrder, Zenon DEF EnterEditor, Disarm, Controllers

LEMMA ExitFields ==
    ASSUME NEW u \in Controllers, NEW retain \in BOOLEAN, NEW v, v = ExitEditor(u, retain)
    PROVE  /\ v \in Controllers /\ v.awake = u.awake /\ v.onPending = u.onPending
           /\ v.dirty = TRUE /\ v.suppress = u.suppress /\ v.screen = u.screen
           /\ v.editor = FALSE /\ v.current = u.current /\ v.action = u.action
           /\ v.armed = FALSE /\ (~retain => v.draft = u.current)
  <1>1. CASE retain
    BY <1>1, ItemsInOrder, Zenon DEF ExitEditor, Disarm, Controllers
  <1>2. CASE ~retain
    BY <1>2, ItemsInOrder, Zenon DEF ExitEditor, Disarm, Controllers
  <1> QED
    BY <1>1, <1>2, Zenon

(* What the editor leaves alone, and what it may have changed *)
Edited(u, v) ==
    /\ v \in Controllers /\ v.awake = u.awake /\ v.onPending = u.onPending
    /\ v.dirty = TRUE /\ v.suppress = u.suppress /\ v.screen = u.screen
    /\ v.current = u.current
    /\ v.armed => v.editor

LEMMA ActivateFields ==
    ASSUME NEW u \in Controllers, u.editor = TRUE, NEW v, v = ActivateEditorItem(u)
    PROVE  /\ Edited(u, v)
           /\ v.action = "RESET" => u.action = "RESET" \/ u.armed
  <1>1. CASE u.item = "SAVE"
    <2>1. PICK w : w = [u EXCEPT !.action = "SAVE"]
      BY Zenon
    <2>2. /\ w \in Controllers /\ w.action = "SAVE" /\ w.awake = u.awake
          /\ w.onPending = u.onPending /\ w.suppress = u.suppress /\ w.screen = u.screen
          /\ w.current = u.current
      BY <2>1 DEF Controllers
    <2>3. v = ExitEditor(w, TRUE)
      BY <1>1, <2>1, Zenon DEF ActivateEditorItem
    <2> QED
      BY <2>2, <2>3, ExitFields, Zenon DEF Edited
  <1>2. CASE u.item = "CANCEL"
    <2>1. v = ExitEditor(u, FALSE)
      BY <1>2 DEF ActivateEditorItem
    <2> QED
      BY <2>1, ExitFields, ZenonT(30) DEF Edited
  <1>3. CASE u.item = "FACTORY_RESET" /\ u.armed /\ ~u.late
    <2>1. PICK w : w = [u EXCEPT !.action = "RESET"]
      BY Zenon
    <2>2. /\ w \in Controllers /\ w.action = "RESET" /\ w.awake = u.awake
          /\ w.onPending = u.onPending /\ w.suppress = u.suppress /\ w.screen = u.screen
          /\ w.current = u.current
      BY <2>1 DEF Controllers
    <2>3. v = ExitEditor(w, FALSE)
      BY <1>3, <2>1 DEF ActivateEditorItem
    <2> QED
      BY <1>3, <2>2, <2>3, ExitFields, ZenonT(30) DEF Edited
  <1>4. CASE u.item = "FACTORY_RESET" /\ ~(u.armed /\ ~u.late)
    <2>1. v = [u EXCEPT !.armed = TRUE, !.late = FALSE, !.dirty = TRUE]
      BY <1>4, Zenon DEF ActivateEditorItem
    <2> QED
      BY <2>1, ZenonT(30) DEF Edited, Controllers
  <1>5. CASE u.item \in Range(Fields) /\ u.item \notin {"SAVE", "CANCEL", "FACTORY_RESET"}
    <2> DEFINE d == [u.draft EXCEPT ![u.item] = NextPreset(@, Presets[u.item])]
    <2>1. u.draft \in Settings
      BY DEF Controllers
    <2>2. d \in Settings
      BY <1>5, <2>1, PresetFits, Zenon
    <2>3. v = [Disarm(u) EXCEPT !.dirty = TRUE, !.draft = d]
      BY <1>5, Zenon DEF ActivateEditorItem
    <2> HIDE DEF d
    <2> QED
      BY <2>2, <2>3, ZenonT(30) DEF Disarm, Edited, Controllers
  <1>6. u.item \in Range(EditorItems)
    BY DEF Controllers
  <1> QED
    BY <1>1, <1>2, <1>3, <1>4, <1>5, <1>6, ItemsInOrder, Zenon

(* What an event does to the controller *)
Does(u, e, v) ==
    /\ v.current = u.current
    /\ ~u.awake /\ e # "PRESS" => v = u
    /\ ~u.awake /\ e = "PRESS" => v.awake /\ v.suppress /\ ~v.wokeLong
    /\ ~u.awake \/ u.suppress =>
           /\ v.screen = u.screen /\ v.editor = u.editor /\ v.draft = u.draft
           /\ v.action = u.action /\ v.armed = u.armed
    /\ u.awake => v.awake
    /\ u.awake /\ u.suppress =>
           /\ e = "PRESS" => v = u
           /\ e \in {"LONG_PRESS", "VERY_LONG_PRESS"} => v.suppress /\ v.wokeLong
           /\ e = "SHORT_PRESS" => ~v.suppress
           /\ e = "RELEASE" => IF u.wokeLong THEN ~v.suppress ELSE v = u
    /\ u.awake /\ ~u.suppress => ~v.suppress
    /\ v.editor /\ ~u.editor => e = "VERY_LONG_PRESS"
    /\ e # "LONG_PRESS" => v.action = u.action /\ (v.armed => u.armed)
    /\ e = "SHORT_PRESS" => ~v.armed
    /\ v.action = "RESET" => u.action = "RESET" \/ u.armed

LEMMA SameContent ==
    ASSUME NEW u, NEW v, v.editor = u.editor, v.item = u.item, v.draft = u.draft,
           v.current = u.current, v.armed = u.armed, v.screen = u.screen
    PROVE  Content(v) = Content(u)
  BY Zenon DEF Content

LEMMA AlikeMoves ==
    ASSUME NEW u, NEW v, Sound(u), Alike(u, v), v.suppress => u.suppress
    PROVE  Moves(u, v)
  <1>1. Content(v) = Content(u)
    BY Zenon DEF Alike, Content
  <1>2. Sound(v)
    BY Zenon DEF Sound, Alike
  <1> QED
    BY <1>1, <1>2, Zenon DEF Alike, Moves

LEMMA SameMoves ==
    ASSUME NEW u, Sound(u)
    PROVE  Moves(u, u)
  BY Zenon DEF Moves

LEMMA EditedMoves ==
    ASSUME NEW u, NEW v, Sound(u), u.awake = TRUE, u.suppress = FALSE, Edited(u, v)
    PROVE  Moves(u, v)
  BY Zenon DEF Moves, Edited, Sound

LEMMA HandleAsleep ==
    ASSUME NEW u, NEW e, Sound(u), ~u.awake
    PROVE  Moves(u, Handle(u, e)) /\ Does(u, e, Handle(u, e))
  <1>0. u \in Controllers /\ u.awake = FALSE /\ u.editor = FALSE
        /\ u.onPending = FALSE /\ u.armed = FALSE
    BY DEF Sound, Controllers
  <1>1. CASE e = "PRESS"
    <2> DEFINE v == Handle(u, "PRESS")
    <2>1. /\ v \in Controllers /\ v.awake = TRUE /\ v.onPending = TRUE /\ v.suppress = TRUE
          /\ v.wokeLong = FALSE /\ v.dirty = TRUE /\ v.screen = u.screen /\ v.editor = u.editor
          /\ v.draft = u.draft /\ v.current = u.current /\ v.action = u.action
          /\ v.armed = u.armed
      BY <1>0, WakeFields, Zenon
    <2> HIDE DEF v
    <2>2. Sound(v)
      BY <1>0, <2>1, Zenon DEF Sound
    <2>3. Moves(u, v)
      BY <1>0, <2>1, <2>2, Zenon DEF Moves
    <2>4. Does(u, "PRESS", v)
      BY <1>0, <2>1, Zenon DEF Does
    <2> QED
      BY <1>1, <2>3, <2>4, Zenon DEF v
  <1>2. CASE e # "PRESS"
    <2>1. Handle(u, e) = u
      BY <1>0, <1>2, Zenon DEF Handle
    <2>2. Does(u, e, u)
      BY <1>0, <1>2, Zenon DEF Does
    <2> QED
      BY <2>1, <2>2, SameMoves, Zenon
  <1> QED
    BY <1>1, <1>2, Zenon

LEMMA HandleWaking ==
    ASSUME NEW u, NEW e, Sound(u), u.awake, u.suppress
    PROVE  Moves(u, Handle(u, e)) /\ Does(u, e, Handle(u, e))
  <1>0. u \in Controllers /\ u.awake = TRUE /\ u.suppress = TRUE /\ u.editor = FALSE
        /\ u.armed = FALSE
    BY DEF Sound, Controllers
  <1> DEFINE v == HandleSuppressed(u, e)
  <1>1. /\ Alike(u, v)
        /\ e \in {"LONG_PRESS", "VERY_LONG_PRESS"} => v.wokeLong = TRUE /\ v.suppress = u.suppress
        /\ e = "SHORT_PRESS" => v.suppress = FALSE
        /\ e = "RELEASE" => IF u.wokeLong THEN v.suppress = FALSE ELSE v = u
        /\ e = "PRESS" => v = u
    BY <1>0, SuppressedFields, Zenon
  <1>2. Handle(u, e) = v
    BY <1>0, Zenon DEF Handle
  <1> HIDE DEF v
  <1>3. Moves(u, v)
    BY <1>0, <1>1, AlikeMoves, Zenon
  <1>4. Does(u, e, v)
    BY <1>0, <1>1, Zenon DEF Does, Alike
  <1> QED
    BY <1>2, <1>3, <1>4, Zenon

LEMMA HandleEditing ==
    ASSUME NEW u, NEW e, Sound(u), u.awake, ~u.suppress, u.editor
    PROVE  Moves(u, Handle(u, e)) /\ Does(u, e, Handle(u, e))
  <1>0. u \in Controllers /\ u.awake = TRUE /\ u.suppress = FALSE /\ u.editor = TRUE
    BY DEF Sound, Controllers
  <1>a. Handle(u, e) = HandleEditor(u, e)
    BY <1>0, Zenon DEF Handle
  <1>b. PICK w : w = [u EXCEPT !.idle = FALSE]
    BY Zenon
  <1>c. Alike(u, w) /\ w.suppress = u.suppress
    BY <1>0, <1>b, IdleFields, Zenon
  <1>1. CASE e = "PRESS"
    <2>1. Handle(u, e) = w
      BY <1>1, <1>a, <1>b, Zenon DEF HandleEditor
    <2>2. Moves(u, w)
      BY <1>0, <1>c, AlikeMoves, Zenon
    <2>3. Does(u, e, w)
      BY <1>0, <1>1, <1>c, Zenon DEF Does, Alike
    <2> QED
      BY <2>1, <2>2, <2>3, Zenon
  <1>2. CASE e = "SHORT_PRESS"
    <2> DEFINE v == HandleEditor(u, e)
    <2>1. v = [Disarm(u) EXCEPT !.item = NextIn(EditorItems, Disarm(u).item), !.idle = FALSE,
                                !.dirty = TRUE]
      BY <1>2, Zenon DEF HandleEditor
    <2>2. Disarm(u).item = u.item
      BY <1>0 DEF Disarm, Controllers
    <2>3. NextIn(EditorItems, u.item) \in Range(EditorItems)
      <3>1. u.item \in Range(EditorItems)
        BY <1>0 DEF Controllers
      <3> QED
        BY <3>1, ItemsInOrder, NextInOrder, Zenon
    <2> HIDE DEF v
    <2>4. Edited(u, v) /\ v.armed = FALSE /\ v.editor = TRUE /\ v.action = u.action
      BY <1>0, <2>1, <2>2, <2>3, ZenonT(30) DEF Disarm, Edited, Controllers
    <2>5. Moves(u, v)
      BY <1>0, <2>4, EditedMoves, Zenon
    <2>6. Does(u, e, v)
      BY <1>0, <1>2, <2>4, Zenon DEF Does, Edited
    <2> QED
      BY <1>a, <2>5, <2>6, Zenon DEF v
  <1>3. CASE e = "LONG_PRESS"
    <2> DEFINE v == ActivateEditorItem(w)
    <2>1. Handle(u, e) = v
      BY <1>3, <1>a, <1>b, Zenon DEF HandleEditor
    <2>2. /\ w \in Controllers /\ w.editor = TRUE /\ w.awake = u.awake /\ w.suppress = u.suppress
          /\ w.current = u.current /\ w.armed = u.armed /\ w.action = u.action
          /\ w.screen = u.screen /\ w.onPending = u.onPending
      BY <1>0, <1>c, Zenon DEF Alike
    <2>3. Edited(w, v) /\ (v.action = "RESET" => w.action = "RESET" \/ w.armed)
      BY <2>2, ActivateFields, Zenon
    <2> HIDE DEF v
    <2>4. Edited(u, v)
      BY <2>2, <2>3, Zenon DEF Edited
    <2>5. Moves(u, v)
      BY <1>0, <2>4, EditedMoves, Zenon
    <2>6. Does(u, e, v)
      BY <1>0, <1>3, <2>2, <2>3, <2>4, Zenon DEF Does, Edited
    <2> QED
      BY <2>1, <2>5, <2>6, Zenon
  <1>4. CASE e \notin {"PRESS", "SHORT_PRESS", "LONG_PRESS"}
    <2>1. Handle(u, e) = u
      BY <1>4, <1>a, Zenon DEF HandleEditor
    <2>2. Does(u, e, u)
      BY <1>0, <1>4, Zenon DEF Does
    <2> QED
      BY <2>1, <2>2, SameMoves, Zenon
  <1> QED
    BY <1>1, <1>2, <1>3, <1>4, Zenon

LEMMA HandleScreens ==
    ASSUME NEW u, NEW e, Sound(u), u.awake, ~u.suppress, ~u.editor
    PROVE  Moves(u, Handle(u, e)) /\ Does(u, e, Handle(u, e))
  <1>0. u \in Controllers /\ u.awake = TRUE /\ u.suppress = FALSE /\ u.editor = FALSE
        /\ u.armed = FALSE
    BY DEF Sound, Controllers
  <1>1. CASE e = "PRESS"
    <2> DEFINE w == [u EXCEPT !.idle = FALSE]
    <2>1. Handle(u, e) = w
      BY <1>0, <1>1, Zenon DEF Handle
    <2>2. Alike(u, w) /\ w.suppress = u.suppress
      BY <1>0, IdleFields, Zenon
    <2> HIDE DEF w
    <2>3. Moves(u, w)
      BY <1>0, <2>2, AlikeMoves, Zenon
    <2>4. Does(u, e, w)
      BY <1>0, <1>1, <2>2, Zenon DEF Does, Alike
    <2> QED
      BY <2>1, <2>3, <2>4, Zenon
  <1>2. ASSUME NEW s \in Range(Screens), e \in {"SHORT_PRESS", "LONG_PRESS"},
               Handle(u, e) = Navigate(u, s)
        PROVE  Moves(u, Handle(u, e)) /\ Does(u, e, Handle(u, e))
    <2> DEFINE v == Navigate(u, s)
    <2>1. /\ v \in Controllers /\ v.awake = u.awake /\ v.onPending = u.onPending
          /\ v.dirty = (u.dirty \/ s # u.screen) /\ v.suppress = u.suppress
          /\ v.screen = s /\ v.editor = u.editor /\ v.draft = u.draft /\ v.current = u.current
          /\ v.action = u.action /\ v.armed = u.armed
      BY <1>0, NavigateFields, Zenon
    <2> HIDE DEF v
    <2>2. Sound(v)
      BY <1>0, <2>1, Zenon DEF Sound
    <2>3. ~v.dirty => Content(v) = Content(u)
      BY <1>0, <2>1, Zenon DEF Content
    <2>4. u.dirty => v.dirty
      BY <2>1, Zenon
    <2>5. Moves(u, v)
      BY <1>0, <2>1, <2>2, <2>3, <2>4, Zenon DEF Moves
    <2>6. Does(u, e, v)
      BY <1>0, <1>2, <2>1, Zenon DEF Does
    <2> QED
      BY <1>2, <2>5, <2>6, Zenon DEF v
  <1>3. CASE e = "SHORT_PRESS"
    <2>1. Handle(u, e) = Navigate(u, NextIn(Screens, u.screen))
      BY <1>0, <1>3, Zenon DEF Handle
    <2>2. u.screen \in Range(Screens) /\ Screens \in Seq(Range(Screens))
      BY <1>0, UiAssumption DEF Controllers
    <2>3. NextIn(Screens, u.screen) \in Range(Screens)
      BY <2>2, NextInOrder, Zenon
    <2> QED
      BY <1>2, <1>3, <2>1, <2>3, Zenon
  <1>4. CASE e = "LONG_PRESS"
    <2>1. Handle(u, e) = Navigate(u, "HOME")
      BY <1>0, <1>4, Zenon DEF Handle
    <2>2. "HOME" \in Range(Screens)
      BY HomeIsScreen, Zenon
    <2> QED
      BY <1>2, <1>4, <2>1, <2>2, Zenon
  <1>5. CASE e = "VERY_LONG_PRESS"
    <2> DEFINE v == EnterEditor(u)
    <2>1. Handle(u, e) = v
      BY <1>0, <1>5, Zenon DEF Handle
    <2>2. /\ v \in Controllers /\ v.awake = u.awake /\ v.onPending = u.onPending
          /\ v.dirty = TRUE /\ v.suppress = u.suppress /\ v.screen = u.screen
          /\ v.current = u.current /\ v.action = u.action /\ v.armed = FALSE
      BY <1>0, EnterFields, Zenon
    <2> HIDE DEF v
    <2>3. Moves(u, v)
      BY <1>0, <2>2, EditedMoves, Zenon DEF Edited
    <2>4. Does(u, e, v)
      BY <1>0, <1>5, <2>2, Zenon DEF Does
    <2> QED
      BY <2>1, <2>3, <2>4, Zenon
  <1>6. CASE e \notin {"PRESS", "SHORT_PRESS", "LONG_PRESS", "VERY_LONG_PRESS"}
    <2>1. Handle(u, e) = u
      BY <1>0, <1>6, Zenon DEF Handle
    <2>2. Does(u, e, u)
      BY <1>0, <1>6, Zenon DEF Does
    <2> QED
      BY <2>1, <2>2, SameMoves, Zenon
  <1> QED
    BY <1>1, <1>3, <1>4, <1>5, <1>6, Zenon

LEMMA HandleDoes ==
    ASSUME NEW u, NEW e, Sound(u)
    PROVE  Moves(u, Handle(u, e)) /\ Does(u, e, Handle(u, e))
  BY HandleAsleep, HandleWaking, HandleEditing, HandleScreens, Zenon
-----------------------------------------------------------------------------
(* A step that moves the controller keeps the panel current *)
LEMMA MovesKeep ==
    ASSUME NEW u, NEW v, NEW l, NEW f, NEW g, Moves(u, v), u.awake /\ ~u.dirty => f,
           l <=> u.awake /\ ~u.onPending, g = (f /\ Content(v) = Content(u))
    PROVE  /\ v.awake /\ ~v.dirty => g
           /\ l <=> v.awake /\ ~v.onPending
           /\ g \in BOOLEAN
  <1>1. g \in BOOLEAN
    BY Zenon
  <1>2. l <=> v.awake /\ ~v.onPending
    BY Zenon DEF Moves
  <1>3. v.awake /\ ~v.dirty => u.awake /\ ~u.dirty /\ Content(v) = Content(u)
    BY Zenon DEF Moves
  <1> QED
    BY <1>1, <1>2, <1>3, Zenon

(* A service marks the presentation *)
Marks(u, v) ==
    /\ Moves(u, v) /\ Content(v) = Content(u)
    /\ v.awake = u.awake /\ v.suppress = u.suppress /\ v.wokeLong = u.wokeLong
    /\ v.screen = u.screen /\ v.editor = u.editor /\ v.draft = u.draft
    /\ v.current = u.current /\ v.action = u.action /\ v.armed = u.armed

LEMMA MarkMoves ==
    ASSUME NEW u, Sound(u), NEW c \in BOOLEAN, u.dirty => c, NEW v, v = [u EXCEPT !.dirty = c]
    PROVE  Marks(u, v)
  <1>1. /\ v \in Controllers /\ v.dirty = c /\ v.onPending = u.onPending
        /\ v.awake = u.awake /\ v.suppress = u.suppress /\ v.wokeLong = u.wokeLong
        /\ v.screen = u.screen /\ v.editor = u.editor /\ v.draft = u.draft
        /\ v.current = u.current /\ v.action = u.action /\ v.armed = u.armed
        /\ v.item = u.item
    BY DEF Sound, Controllers
  <1>2. Sound(v)
    BY <1>1, Zenon DEF Sound
  <1>3. Content(v) = Content(u)
    BY <1>1, SameContent, Zenon
  <1>4. u.dirty => v.dirty
    BY <1>1, Zenon
  <1>5. Moves(u, v)
    BY <1>1, <1>2, <1>3, <1>4, Zenon DEF Moves
  <1> QED
    BY <1>1, <1>3, <1>5, Zenon DEF Marks

LEMMA OneEvent ==
    ASSUME NEW sample, NEW e, sample = <<e>>
    PROVE  sample # << >> /\ Len(sample) = 1 /\ sample[1] = e
  OBVIOUS

LEMMA TwoEvents ==
    ASSUME NEW sample, NEW e, NEW f, sample = <<e, f>>
    PROVE  sample # << >> /\ Len(sample) # 1 /\ sample[1] = e /\ sample[2] = f
  OBVIOUS

(* The samples a gesture is made of *)
Samples ==
    {<< >>, <<"PRESS">>, <<"LONG_PRESS">>, <<"VERY_LONG_PRESS">>,
     <<"LONG_PRESS", "VERY_LONG_PRESS">>, <<"RELEASE", "SHORT_PRESS">>, <<"RELEASE">>}

LEMMA InTurnMoves ==
    ASSUME NEW u, Sound(u), NEW sample \in Samples, NEW v, v = InTurn(Handle, u, sample)
    PROVE  Moves(u, v) /\ v.current = u.current
  <1>1. CASE sample = << >>
    BY <1>1, SameMoves, Zenon DEF InTurn
  <1>2. ASSUME NEW e, sample = <<e>>
        PROVE  Moves(u, v) /\ v.current = u.current
    <2>1. v = Handle(u, e)
      <3>1. sample # << >> /\ Len(sample) = 1 /\ sample[1] = e
        BY <1>2, OneEvent, Zenon
      <3> QED
        BY <3>1, Zenon DEF InTurn
    <2>2. Moves(u, v) /\ Does(u, e, v)
      BY <2>1, HandleDoes, Zenon
    <2> QED
      BY <2>2, Zenon DEF Does
  <1>3. ASSUME NEW e, NEW f, sample = <<e, f>>
        PROVE  Moves(u, v) /\ v.current = u.current
    <2> DEFINE w == Handle(u, e)
    <2>1. v = Handle(w, f)
      <3>1. sample # << >> /\ Len(sample) # 1 /\ sample[1] = e /\ sample[2] = f
        BY <1>3, TwoEvents, Zenon
      <3> QED
        BY <3>1, Zenon DEF InTurn
    <2>2. Moves(u, w) /\ Does(u, e, w)
      BY HandleDoes, Zenon
    <2> HIDE DEF w
    <2>3. Sound(w)
      BY <2>2, Zenon DEF Moves
    <2>4. Moves(w, v) /\ Does(w, f, v)
      BY <2>1, <2>3, HandleDoes, Zenon
    <2> QED
      BY <2>2, <2>4, MovesOn, Zenon DEF Does
  <1> QED
    BY <1>1, <1>2, <1>3, Zenon DEF Samples
(* queueEditorAction consumes the action; the draft outside the editor is   *)
(* the current settings                                                     *)
Settles(u, v) ==
    /\ Moves(u, v) /\ Content(v) = Content(u) /\ v.action = "NONE"
    /\ ~v.editor => v.draft = v.current
    /\ v.awake = u.awake /\ v.suppress = u.suppress /\ v.wokeLong = u.wokeLong
    /\ v.screen = u.screen /\ v.editor = u.editor /\ v.current = u.current
    /\ v.armed = u.armed
    /\ (u.editor \/ u.draft = u.current) => v.draft = u.draft

LEMMA SettledMoves ==
    ASSUME NEW u, Sound(u), NEW v,
           v = [u EXCEPT !.action = "NONE", !.draft = IF u.editor THEN @ ELSE u.current]
    PROVE  Settles(u, v)
  <1>0. u \in Controllers
    BY Zenon DEF Sound
  <1>1. PICK d : d = IF u.editor THEN u.draft ELSE u.current
    BY Zenon
  <1>2. u.draft \in Settings /\ u.current \in Settings
    BY <1>0, Zenon DEF Controllers
  <1>3. d \in Settings
    BY <1>1, <1>2, Zenon
  <1>4. v = [u EXCEPT !.action = "NONE", !.draft = d]
    BY <1>1, Zenon
  <1>5. /\ v \in Controllers /\ v.dirty = u.dirty /\ v.onPending = u.onPending
        /\ v.awake = u.awake /\ v.suppress = u.suppress /\ v.wokeLong = u.wokeLong
        /\ v.screen = u.screen /\ v.editor = u.editor /\ v.draft = d
        /\ v.current = u.current /\ v.action = "NONE" /\ v.armed = u.armed
        /\ v.item = u.item
    BY <1>0, <1>3, <1>4, ZenonT(30) DEF Controllers
  <1>6. Sound(v)
    BY <1>5, Zenon DEF Sound
  <1>7. Content(v) = Content(u)
    <2>1. CASE u.editor
      <3>1. d = u.draft
        BY <1>1, <2>1, Zenon
      <3> QED
        BY <1>5, <3>1, SameContent, ZenonT(30)
    <2>2. CASE ~u.editor
      <3>1. ~v.editor
        BY <1>5, <2>2, Zenon
      <3>2. Content(v) = <<"SCREEN", v.screen>> /\ Content(u) = <<"SCREEN", u.screen>>
        BY <2>2, <3>1, Zenon DEF Content
      <3> QED
        BY <1>5, <3>2, Zenon
    <2> QED
      BY <2>1, <2>2, Zenon
  <1>8. Moves(u, v)
    BY <1>5, <1>6, <1>7, Zenon DEF Moves
  <1> QED
    BY <1>1, <1>5, <1>7, <1>8, Zenon DEF Settles

LEMMA ButtonSamples ==
    ASSUME GestureNext
    PROVE  events' \in Samples
  BY Zenon DEF GestureNext, Quiet, Press, Lengthen, Release, Samples

(* The controller across serviceButton *)
Marked == [ui EXCEPT !.dirty = @ \/ Observed.made # << >> \/ Observed.told]
Handled == InTurn(Handle, Marked, events')

LEMMA ButtonParts ==
    ASSUME ServiceButton
    PROVE  /\ pc = "BUTTON" /\ pc' = "PERSIST" /\ GestureNext /\ lit' = lit
           /\ QueueEditorAction(Handled) /\ Remember(Handled, Observed.made)
           /\ producer' = [Observed EXCEPT !.made = << >>, !.told = FALSE]
           /\ ui' = [Handled EXCEPT !.action = "NONE",
                                    !.draft = IF Handled.editor THEN @ ELSE Handled.current]
           /\ ready' \in IF Observed.made = << >> THEN {ready} ELSE {ready, FALSE}
           /\ fresh' = (fresh /\ Content(ui') = Content(ui))
  BY Zenon DEF ServiceButton, Marked, Handled
LEMMA MarkedSound ==
    ASSUME Sound(ui)
    PROVE  Marks(ui, Marked) /\ Sound(Marked)
  <1> DEFINE c == (ui.dirty \/ Observed.made # << >> \/ Observed.told)
  <1>1. c \in BOOLEAN /\ (ui.dirty => c)
    BY Zenon
  <1>2. Marked = [ui EXCEPT !.dirty = c]
    BY Zenon DEF Marked
  <1> HIDE DEF c
  <1>3. Marks(ui, Marked)
    BY <1>1, <1>2, MarkMoves, Zenon
  <1> QED
    BY <1>3, Zenon DEF Marks, Moves

LEMMA PanelButton ==
    ASSUME PanelInv, ServiceButton
    PROVE  PanelInv'
  <1>1. Sound(ui) /\ Moves(ui, Marked) /\ Sound(Marked)
    BY MarkedSound, Zenon DEF PanelInv, Marks
  <1>2. events' \in Samples
    BY ButtonParts, ButtonSamples, Zenon
  <1>3. Moves(Marked, Handled)
    BY <1>1, <1>2, InTurnMoves, Zenon DEF Handled
  <1>4. Sound(Handled) /\ Handled \in Controllers
    BY <1>3, Zenon DEF Moves, Sound
  <1>5. Moves(Handled, ui') /\ ui'.action = "NONE" /\ (~ui'.editor => ui'.draft = ui'.current)
    <2>1. Settles(Handled, ui')
      BY <1>4, ButtonParts, SettledMoves, Zenon
    <2> QED
      BY <2>1, Zenon DEF Settles
  <1>6. Moves(ui, ui')
    BY <1>1, <1>3, <1>5, MovesOn, Zenon
  <1>7. Sound(ui')
    BY <1>6, Zenon DEF Moves
  <1>8. /\ ui'.awake /\ ~ui'.dirty => fresh'
        /\ lit' <=> ui'.awake /\ ~ui'.onPending
        /\ fresh' \in BOOLEAN /\ lit' \in BOOLEAN
    <2>1. /\ ui.awake /\ ~ui.dirty => fresh
          /\ lit <=> ui.awake /\ ~ui.onPending
          /\ lit \in BOOLEAN
      BY Zenon DEF PanelInv
    <2>2. lit' = lit /\ fresh' = (fresh /\ Content(ui') = Content(ui))
      BY ButtonParts, Zenon
    <2>3. /\ ui'.awake /\ ~ui'.dirty => fresh'
          /\ lit <=> ui'.awake /\ ~ui'.onPending
          /\ fresh' \in BOOLEAN
      BY <1>6, <2>1, <2>2, MovesKeep, Zenon
    <2> QED
      BY <2>1, <2>2, <2>3, Zenon
  <1>9. queue' \in [pending : {"NONE", "SAVE", "RESET"}, draft : Settings]
    <2>1. queue \in [pending : {"NONE", "SAVE", "RESET"}, draft : Settings]
      BY Zenon DEF PanelInv
    <2>2. Handled.draft \in Settings /\ Defaults \in Settings
      BY <1>4, UiAssumption, Zenon DEF Controllers
    <2>3. \A p \in {"SAVE", "RESET"}, d \in Settings :
              [pending |-> p, draft |-> d] \in [pending : {"NONE", "SAVE", "RESET"}, draft : Settings]
      BY Zenon
    <2>4. queue' \in {queue, [pending |-> "SAVE", draft |-> Handled.draft],
                      [pending |-> "RESET", draft |-> Defaults]}
      <3>1. QueueEditorAction(Handled)
        BY ButtonParts, Zenon
      <3>2. CASE Handled.action = "SAVE"
        <4>1. queue' = QueueSave(queue, Handled.draft)
          BY <3>1, <3>2, Zenon DEF QueueEditorAction
        <4> QED
          BY <4>1, Zenon DEF QueueSave
      <3>3. CASE Handled.action = "RESET"
        <4>1. queue' = QueueReset(queue, Defaults)
          BY <3>1, <3>3, Zenon DEF QueueEditorAction
        <4> QED
          BY <4>1, Zenon DEF QueueReset
      <3>4. CASE Handled.action \notin {"SAVE", "RESET"}
        BY <3>1, <3>4, Zenon DEF QueueEditorAction
      <3> QED
        BY <3>2, <3>3, <3>4, Zenon
    <2> QED
      BY <2>1, <2>2, <2>3, <2>4, Zenon
  <1> QED
    BY <1>5, <1>7, <1>8, <1>9, Zenon DEF PanelInv

Applies(u, v) ==
    /\ Moves(u, v) /\ v.action = u.action /\ (~v.editor => v.draft = v.current)
    /\ v.awake = u.awake /\ v.suppress = u.suppress /\ v.wokeLong = u.wokeLong
    /\ v.armed = u.armed

LEMMA AppliedMoves ==
    ASSUME NEW u, Sound(u), NEW s \in Settings, NEW c \in BOOLEAN, NEW v,
           v = ApplyCurrentSettings(u, s, c), ~u.editor => u.draft = u.current
    PROVE  Applies(u, v)
  <1>0. u \in Controllers
    BY Zenon DEF Sound
  <1>1. PICK d : d = IF u.editor THEN u.draft ELSE s
    BY Zenon
  <1>2. PICK x : x = IF c THEN Screens[s["DEFAULT_SCREEN"]] ELSE u.screen
    BY Zenon
  <1>3. d \in Settings
    <2>1. u.draft \in Settings
      BY <1>0, Zenon DEF Controllers
    <2> QED
      BY <1>1, <2>1, Zenon
  <1>4. x \in Range(Screens)
    <2>1. u.screen \in Range(Screens)
      BY <1>0, Zenon DEF Controllers
    <2>2. "DEFAULT_SCREEN" \in Range(Fields)
          /\ Range(Presets["DEFAULT_SCREEN"]) \subseteq DOMAIN Screens
      BY UiAssumption
    <2>3. s["DEFAULT_SCREEN"] \in DOMAIN Screens
      BY <2>2, Zenon DEF Settings
    <2>4. Screens[s["DEFAULT_SCREEN"]] \in Range(Screens)
      BY <2>3, Zenon DEF Range
    <2> QED
      BY <1>2, <2>1, <2>4, Zenon
  <1>5. v = [u EXCEPT !.current = s, !.draft = d, !.idle = FALSE, !.dirty = TRUE, !.screen = x]
    BY <1>1, <1>2, Zenon DEF ApplyCurrentSettings
  <1>6. /\ v \in Controllers /\ v.dirty = TRUE /\ v.onPending = u.onPending
        /\ v.awake = u.awake /\ v.suppress = u.suppress /\ v.wokeLong = u.wokeLong
        /\ v.editor = u.editor /\ v.draft = d /\ v.current = s
        /\ v.action = u.action /\ v.armed = u.armed
    <2>1. PICK w : w = [u EXCEPT !.current = s, !.draft = d]
      BY Zenon
    <2>2. v = [w EXCEPT !.idle = FALSE, !.dirty = TRUE, !.screen = x]
      BY <1>5, <2>1, Zenon
    <2>3. /\ w \in Controllers /\ w.onPending = u.onPending
          /\ w.awake = u.awake /\ w.suppress = u.suppress /\ w.wokeLong = u.wokeLong
          /\ w.editor = u.editor /\ w.draft = d /\ w.current = s
          /\ w.action = u.action /\ w.armed = u.armed
      BY <1>0, <1>3, <2>1, ZenonT(30) DEF Controllers
    <2>4. /\ v \in Controllers /\ v.dirty = TRUE /\ v.onPending = w.onPending
          /\ v.awake = w.awake /\ v.suppress = w.suppress /\ v.wokeLong = w.wokeLong
          /\ v.editor = w.editor /\ v.draft = w.draft /\ v.current = w.current
          /\ v.action = w.action /\ v.armed = w.armed
      BY <1>4, <2>2, <2>3, ZenonT(30) DEF Controllers
    <2> QED
      BY <2>3, <2>4, Zenon
  <1>7. Sound(v)
    BY <1>6, Zenon DEF Sound
  <1>8. Moves(u, v)
    BY <1>6, <1>7, Zenon DEF Moves
  <1> QED
    BY <1>1, <1>6, <1>8, Zenon DEF Applies
(* What the panel's invariant needs of a step that leaves the button alone *)
LEMMA PanelMoved ==
    ASSUME PanelInv, Moves(ui, ui'), ui'.action = "NONE",
           ~ui'.editor => ui'.draft = ui'.current,
           queue' \in [pending : {"NONE", "SAVE", "RESET"}, draft : Settings],
           lit' = lit, fresh' = (fresh /\ Content(ui') = Content(ui))
    PROVE  PanelInv'
  <1>1. /\ ui.awake /\ ~ui.dirty => fresh
        /\ lit <=> ui.awake /\ ~ui.onPending
        /\ lit \in BOOLEAN
    BY Zenon DEF PanelInv
  <1>2. /\ ui'.awake /\ ~ui'.dirty => fresh'
        /\ lit <=> ui'.awake /\ ~ui'.onPending
        /\ fresh' \in BOOLEAN
    BY <1>1, MovesKeep, Zenon
  <1>3. Sound(ui')
    BY Zenon DEF Moves
  <1> QED
    BY <1>1, <1>2, <1>3, Zenon DEF PanelInv

LEMMA EmptyQueueTyped ==
    EmptyQueue(Defaults) \in [pending : {"NONE", "SAVE", "RESET"}, draft : Settings]
  <1>1. Defaults \in Settings
    BY UiAssumption, Zenon
  <1> QED
    BY <1>1, Zenon DEF EmptyQueue

(* What the persistence service does to the controller *)
LEMMA PersistMoves ==
    ASSUME PanelInv, ServicePersistence
    PROVE  /\ Moves(ui, ui') /\ ui'.action = "NONE" /\ (~ui'.editor => ui'.draft = ui'.current)
           /\ ui'.awake = ui.awake /\ ui'.suppress = ui.suppress
           /\ ui'.wokeLong = ui.wokeLong /\ ui'.armed = ui.armed
  <1>0. Sound(ui) /\ ui.action = "NONE" /\ (~ui.editor => ui.draft = ui.current)
        /\ queue \in [pending : {"NONE", "SAVE", "RESET"}, draft : Settings]
    BY Zenon DEF PanelInv
  <1>1. CASE ui' = ui
    BY <1>0, <1>1, SameMoves, Zenon
  <1>2. CASE ui' = [ui EXCEPT !.dirty = TRUE]
    <2>1. Marks(ui, ui')
      BY <1>0, <1>2, MarkMoves, Zenon
    <2> QED
      BY <1>0, <2>1, Zenon DEF Marks
  <1>3. CASE ui' = ApplyCurrentSettings(ui, queue.draft, queue.pending = "RESET")
    <2>1. queue.draft \in Settings
      BY <1>0, Zenon
    <2>2. PICK c \in BOOLEAN : c = (queue.pending = "RESET")
      BY Zenon
    <2>3. ui' = ApplyCurrentSettings(ui, queue.draft, c)
      BY <1>3, <2>2, Zenon
    <2>4. Applies(ui, ui')
      BY <1>0, <2>1, <2>3, AppliedMoves, Zenon
    <2> QED
      BY <1>0, <2>4, Zenon DEF Applies
  <1> QED
    BY <1>1, <1>2, <1>3, Zenon DEF ServicePersistence

LEMMA PanelPersist ==
    ASSUME PanelInv, ServicePersistence
    PROVE  PanelInv'
  <1>1. queue' \in [pending : {"NONE", "SAVE", "RESET"}, draft : Settings]
    BY EmptyQueueTyped, Zenon DEF PanelInv, ServicePersistence
  <1>2. lit' = lit /\ fresh' = (fresh /\ Content(ui') = Content(ui))
    BY Zenon DEF ServicePersistence
  <1>3. Moves(ui, ui') /\ ui'.action = "NONE" /\ (~ui'.editor => ui'.draft = ui'.current)
    BY PersistMoves, Zenon
  <1> QED
    BY <1>1, <1>2, <1>3, PanelMoved, Zenon

(* Intervals pass: a step of the clock, or of the other timers *)
LEMMA TimeFields ==
    ASSUME NEW u \in Controllers, NEW v,
           v \in {[u EXCEPT !.idle = TRUE], [u EXCEPT !.late = TRUE], [u EXCEPT !.recent = FALSE]}
    PROVE  Alike(u, v) /\ v.suppress = u.suppress /\ v.wokeLong = u.wokeLong
  BY ZenonT(30) DEF Alike, Controllers

LEMMA TimeAlike ==
    ASSUME PanelInv, TimePasses
    PROVE  Alike(ui, ui') /\ ui'.suppress = ui.suppress /\ ui'.wokeLong = ui.wokeLong
  <1>1. ui \in Controllers
    BY Zenon DEF PanelInv, Sound
  <1>2. ui' \in {[ui EXCEPT !.idle = TRUE], [ui EXCEPT !.late = TRUE],
                 [ui EXCEPT !.recent = FALSE]}
    BY Zenon DEF TimePasses
  <1> QED
    BY <1>1, <1>2, TimeFields, Zenon

LEMMA PanelTime ==
    ASSUME PanelInv, TimePasses
    PROVE  PanelInv'
  <1>1. Alike(ui, ui') /\ ui'.suppress = ui.suppress
    BY TimeAlike, Zenon
  <1>2. Moves(ui, ui')
    BY <1>1, AlikeMoves, Zenon DEF PanelInv
  <1>3. ui'.action = "NONE" /\ (~ui'.editor => ui'.draft = ui'.current)
    BY <1>1, Zenon DEF Alike, PanelInv
  <1>4. queue' = queue /\ lit' = lit /\ fresh' = fresh
    BY Zenon DEF TimePasses
  <1>5. Content(ui') = Content(ui)
    BY <1>1, SameContent, Zenon DEF Alike
  <1>6. fresh' = (fresh /\ Content(ui') = Content(ui))
    BY <1>4, <1>5, Zenon DEF PanelInv
  <1>7. queue' \in [pending : {"NONE", "SAVE", "RESET"}, draft : Settings]
    BY <1>4, Zenon DEF PanelInv
  <1> QED
    BY <1>2, <1>3, <1>4, <1>6, <1>7, PanelMoved, Zenon
(* Controller.update: what a refresh, and then the drawing, may change *)
Kin(u, v) ==
    /\ v \in Controllers /\ v.awake = u.awake /\ v.suppress = u.suppress
    /\ v.wokeLong = u.wokeLong /\ v.screen = u.screen /\ v.editor = u.editor
    /\ v.draft = u.draft /\ v.current = u.current /\ v.action = u.action
    /\ v.armed => u.armed

LEMMA KinSound ==
    ASSUME NEW u, NEW v, Sound(u), u.awake, Kin(u, v)
    PROVE  Sound(v)
  BY Zenon DEF Sound, Kin

LEMMA DisarmedKin ==
    ASSUME NEW u \in Controllers, NEW v, v = [Disarm(u) EXCEPT !.dirty = TRUE]
    PROVE  Kin(u, v) /\ v.dirty = TRUE /\ v.onPending = u.onPending
  <1>1. v = [u EXCEPT !.armed = FALSE, !.late = FALSE, !.dirty = TRUE]
    BY Zenon DEF Disarm
  <1> QED
    BY <1>1, ZenonT(30) DEF Kin, Controllers

LEMMA RefreshKin ==
    ASSUME NEW u, Sound(u), u.awake, NEW v \in Refresh(u)
    PROVE  /\ Kin(u, v) /\ v.onPending = u.onPending /\ (u.dirty => v.dirty)
           /\ ~v.dirty => Content(v) = Content(u)
  <1> DEFINE w == IF u.editor /\ u.armed /\ u.late
                  THEN [Disarm(u) EXCEPT !.dirty = TRUE] ELSE u
             c == (w.dirty \/ (~w.editor /\ w.screen \in LiveScreens))
  <1>0. u \in Controllers
    BY Zenon DEF Sound
  <1>1. Kin(u, u)
    BY <1>0, Zenon DEF Kin
  <1>2. CASE u.editor /\ u.armed /\ u.late
    <2>1. w = [Disarm(u) EXCEPT !.dirty = TRUE]
      BY <1>2, Zenon
    <2>2. Kin(u, w) /\ w.dirty = TRUE /\ w.onPending = u.onPending
      BY <1>0, <2>1, DisarmedKin, Zenon
    <2>3. v \in {w, [w EXCEPT !.dirty = c]}
      BY Zenon DEF Refresh
    <2> HIDE DEF w
    <2>4. Sound(w) /\ c = TRUE
      BY <2>2, KinSound, Zenon
    <2>5. v = w \/ v = [w EXCEPT !.dirty = TRUE]
      BY <2>3, <2>4, Zenon
    <2>6. CASE v = w
      BY <2>2, <2>6, Zenon
    <2>7. CASE v = [w EXCEPT !.dirty = TRUE]
      BY <2>2, <2>7, ZenonT(30) DEF Kin, Controllers
    <2> QED
      BY <2>5, <2>6, <2>7, Zenon
  <1>3. CASE ~(u.editor /\ u.armed /\ u.late)
    <2>1. w = u
      BY <1>3, Zenon
    <2>2. v \in {w, [w EXCEPT !.dirty = c]}
      BY Zenon DEF Refresh
    <2>3. c \in BOOLEAN /\ (w.dirty => c)
      BY Zenon
    <2> HIDE DEF w, c
    <2>4. v = u \/ v = [u EXCEPT !.dirty = c]
      BY <2>1, <2>2, Zenon
    <2>5. CASE v = u
      BY <1>1, <2>5, Zenon
    <2>6. CASE v = [u EXCEPT !.dirty = c]
      <3>1. Marks(u, v)
        BY <2>1, <2>3, <2>6, MarkMoves, Zenon
      <3>2. v.onPending = u.onPending /\ v.dirty = c
        BY <1>0, <2>3, <2>6, Zenon DEF Controllers
      <3> QED
        BY <2>1, <2>3, <3>1, <3>2, Zenon DEF Marks, Moves, Sound, Kin
    <2> QED
      BY <2>4, <2>5, <2>6, Zenon
  <1> QED
    BY <1>2, <1>3, Zenon

LEMMA DrawnKin ==
    ASSUME NEW u \in Controllers, NEW d \in BOOLEAN, NEW r \in BOOLEAN, NEW v,
           v = [u EXCEPT !.onPending = FALSE, !.dirty = d, !.recent = r]
    PROVE  Kin(u, v) /\ v.onPending = FALSE /\ v.dirty = d
  BY ZenonT(30) DEF Kin, Controllers

LEMMA ShownKin ==
    ASSUME NEW u \in Controllers, NEW v, v = [u EXCEPT !.onPending = FALSE]
    PROVE  Kin(u, v) /\ v.onPending = FALSE /\ v.dirty = u.dirty
  BY ZenonT(30) DEF Kin, Controllers

LEMMA KinOn ==
    ASSUME NEW u, NEW v, NEW w, Kin(u, v), Kin(v, w)
    PROVE  Kin(u, w)
  BY Zenon DEF Kin

LEMMA PanelDraw ==
    ASSUME PanelInv, ui.awake, NEW u \in Refresh(ui), Draw(u)
    PROVE  /\ Kin(ui, ui') /\ ui'.onPending = FALSE /\ lit' = TRUE
           /\ fresh' \in BOOLEAN /\ (~ui'.dirty => fresh')
  <1>0. Sound(ui) /\ ui.awake /\ (~ui.dirty => fresh) /\ (lit \/ ui.onPending)
    BY Zenon DEF PanelInv, Sound
  <1>1. /\ Kin(ui, u) /\ u.onPending = ui.onPending /\ (ui.dirty => u.dirty)
        /\ ~u.dirty => Content(u) = Content(ui)
    BY <1>0, RefreshKin, Zenon
  <1>2. u \in Controllers
    BY <1>1, Zenon DEF Kin
  <1>3. lit' = TRUE
    BY <1>0, <1>1, Zenon DEF Draw
  <1>4. CASE u.dirty /\ ~u.recent
    <2>1. fresh' = TRUE /\ ui' = [u EXCEPT !.onPending = FALSE, !.dirty = FALSE, !.recent = TRUE]
      BY <1>4, Zenon DEF Draw
    <2>2. Kin(u, ui') /\ ui'.onPending = FALSE
      BY <1>2, <2>1, DrawnKin, Zenon
    <2> QED
      BY <1>1, <1>3, <2>1, <2>2, KinOn, Zenon
  <1>5. CASE ~(u.dirty /\ ~u.recent)
    <2>1. ui' = [u EXCEPT !.onPending = FALSE] /\ fresh' = (fresh /\ Content(u) = Content(ui))
      BY <1>5, Zenon DEF Draw
    <2>2. Kin(u, ui') /\ ui'.onPending = FALSE /\ ui'.dirty = u.dirty
      BY <1>2, <2>1, ShownKin, Zenon
    <2>3. fresh' \in BOOLEAN /\ (~ui'.dirty => fresh')
      BY <1>0, <1>1, <2>1, <2>2, Zenon
    <2> QED
      BY <1>1, <1>3, <2>2, <2>3, KinOn, Zenon
  <1> QED
    BY <1>4, <1>5, Zenon
LEMMA SleptFields ==
    ASSUME NEW u, Sound(u), u.action = "NONE", ~u.editor => u.draft = u.current, NEW v,
           v = Sleep(IF u.editor THEN ExitEditor(u, FALSE) ELSE u)
    PROVE  /\ v \in Controllers /\ v.awake = FALSE /\ v.onPending = FALSE /\ v.editor = FALSE
           /\ v.armed = FALSE /\ v.action = "NONE" /\ v.draft = v.current
  <1> DEFINE w == IF u.editor THEN ExitEditor(u, FALSE) ELSE u
  <1>0. u \in Controllers
    BY Zenon DEF Sound
  <1>1. /\ w \in Controllers /\ w.editor = FALSE /\ w.armed = FALSE /\ w.action = "NONE"
        /\ w.draft = w.current
    <2>1. CASE u.editor
      <3> DEFINE x == ExitEditor(u, FALSE)
      <3>1. /\ x \in Controllers /\ x.editor = FALSE /\ x.current = u.current
            /\ x.action = u.action /\ x.armed = FALSE /\ (~FALSE => x.draft = u.current)
        BY <1>0, ExitFields, Zenon
      <3>2. w = x
        BY <2>1, Zenon
      <3> HIDE DEF w, x
      <3> QED
        BY <3>1, <3>2, Zenon
    <2>2. CASE ~u.editor
      <3>1. w = u
        BY <2>2, Zenon
      <3>2. u.editor \in BOOLEAN /\ u.armed \in BOOLEAN
        BY <1>0, Zenon DEF Controllers
      <3>3. u.editor = FALSE /\ u.armed = FALSE
        BY <2>2, <3>2, Zenon DEF Sound
      <3> HIDE DEF w
      <3> QED
        BY <1>0, <2>2, <3>1, <3>3, Zenon
    <2> QED
      BY <2>1, <2>2, Zenon
  <1>2. v = [w EXCEPT !.awake = FALSE, !.onPending = FALSE, !.idle = FALSE]
    BY Zenon DEF Sleep
  <1> HIDE DEF w
  <1> QED
    BY <1>1, <1>2, ZenonT(30) DEF Controllers

LEMMA PanelUi ==
    ASSUME PanelInv, ServiceUi
    PROVE  PanelInv'
  <1>0. Sound(ui) /\ ui.action = "NONE" /\ (~ui.editor => ui.draft = ui.current)
        /\ queue \in [pending : {"NONE", "SAVE", "RESET"}, draft : Settings]
    BY Zenon DEF PanelInv
  <1>1. queue' = queue /\ Update
    BY Zenon DEF ServiceUi
  <1>2. CASE TimedOut(ui)
    <2>1. /\ ui' = Sleep(IF ui.editor THEN ExitEditor(ui, FALSE) ELSE ui)
          /\ lit' = FALSE /\ fresh' = FALSE
      BY <1>1, <1>2, Zenon DEF Update
    <2>2. /\ ui' \in Controllers /\ ui'.awake = FALSE /\ ui'.onPending = FALSE
          /\ ui'.editor = FALSE /\ ui'.armed = FALSE /\ ui'.action = "NONE"
          /\ ui'.draft = ui'.current
      BY <1>0, <2>1, SleptFields, Zenon
    <2>3. Sound(ui')
      BY <2>2, Zenon DEF Sound
    <2> QED
      BY <1>0, <1>1, <2>1, <2>2, <2>3, Zenon DEF PanelInv
  <1>3. CASE ~TimedOut(ui) /\ ui.awake
    <2>1. PICK u \in Refresh(ui) : Draw(u)
      BY <1>1, <1>3, Zenon DEF Update
    <2>2. /\ Kin(ui, ui') /\ ui'.onPending = FALSE /\ lit' = TRUE
          /\ fresh' \in BOOLEAN /\ (~ui'.dirty => fresh')
      BY <1>3, <2>1, PanelDraw, Zenon
    <2>3. Sound(ui')
      BY <1>0, <1>3, <2>2, KinSound, Zenon
    <2>4. ui'.action = "NONE" /\ (~ui'.editor => ui'.draft = ui'.current) /\ ui'.awake
      BY <1>0, <1>3, <2>2, Zenon DEF Kin
    <2> QED
      BY <1>0, <1>1, <2>2, <2>3, <2>4, Zenon DEF PanelInv
  <1>4. CASE ~TimedOut(ui) /\ ~ui.awake
    <2>1. ui' = ui /\ lit' = lit /\ fresh' = fresh
      BY <1>1, <1>4, Zenon DEF Update
    <2> QED
      BY <1>1, <2>1, Zenon DEF PanelInv
  <1> QED
    BY <1>2, <1>3, <1>4, Zenon

LEMMA PanelStep ==
    ASSUME PanelInv, [UiNext]_uiVars
    PROVE  PanelInv'
  <1>1. CASE ServiceButton
    BY <1>1, PanelButton, Zenon
  <1>2. CASE ServicePersistence
    BY <1>2, PanelPersist, Zenon
  <1>3. CASE SkipUi
    BY <1>3, Zenon DEF SkipUi, PanelInv
  <1>4. CASE ServiceUi
    BY <1>4, PanelUi, Zenon
  <1>5. CASE TimePasses
    BY <1>5, PanelTime, Zenon
  <1>6. CASE UNCHANGED uiVars
    BY <1>6, Zenon DEF uiVars, PanelInv
  <1> QED
    BY <1>1, <1>2, <1>3, <1>4, <1>5, <1>6, Zenon DEF UiNext

LEMMA PanelStart == UiInit => PanelInv
  <1> SUFFICES ASSUME UiInit PROVE PanelInv
    BY Zenon
  <1>0. Defaults \in Settings
    BY UiAssumption, Zenon
  <1>1. ui = Controller
    BY Zenon DEF UiInit
  <1>2. ui \in Controllers
    BY <1>0, <1>1, HomeIsScreen, ItemsInOrder, Zenon DEF Controller, Controllers
  <1>3. /\ ui.awake = TRUE /\ ui.onPending = FALSE /\ ui.dirty = TRUE /\ ui.suppress = FALSE
        /\ ui.editor = FALSE /\ ui.armed = FALSE /\ ui.action = "NONE"
        /\ ui.draft = ui.current
    BY <1>1, Zenon DEF Controller
  <1>4. Sound(ui)
    BY <1>2, <1>3, Zenon DEF Sound
  <1>5. lit = TRUE /\ fresh = FALSE /\ queue = EmptyQueue(Defaults)
    BY Zenon DEF UiInit
  <1> QED
    BY <1>3, <1>4, <1>5, EmptyQueueTyped, Zenon DEF PanelInv

(* While the display is awake it shows what the controller holds or a       *)
(* render is due, and the editor does not outlive it (invalidate, update    *)
(* and recordRendered), whatever the screens, the fields and their presets. *)
THEOREM PanelStaysCurrent == UiSpec => []PanelIsCurrent
  <1>1. PanelInv => PanelIsCurrent
    BY Zenon DEF PanelInv, Sound, Controllers, PanelIsCurrent, UiTypeOK
  <1> QED
    BY <1>1, PanelStart, PanelStep, PTL DEF UiSpec
-----------------------------------------------------------------------------
(* What a sample of the button does to the controller *)

Shape(h, g, s) ==
    \/ s = << >> /\ g = h
    \/ s = <<"PRESS">> /\ h = "UP" /\ g = "DOWN"
    \/ s = <<"LONG_PRESS">> /\ h = "DOWN" /\ g = "LONG"
    \/ s = <<"VERY_LONG_PRESS">> /\ h = "LONG" /\ g = "VERY_LONG"
    \/ s = <<"LONG_PRESS", "VERY_LONG_PRESS">> /\ h = "DOWN" /\ g = "VERY_LONG"
    \/ s = <<"RELEASE", "SHORT_PRESS">> /\ h = "DOWN" /\ g = "UP"
    \/ s = <<"RELEASE">> /\ h \in {"LONG", "VERY_LONG"} /\ g = "UP"

Outcome(u, h, g, s, v) ==
    /\ Waking(v, g)
    /\ ~u.awake \/ u.suppress =>
           /\ v.screen = u.screen /\ v.editor = u.editor /\ v.draft = u.draft
           /\ v.action = u.action
           /\ g # "UP" => v.suppress \/ ~v.awake
    /\ v.editor /\ ~u.editor => g = "VERY_LONG" /\ g # h
    /\ v.armed => u.armed \/ s = <<"LONG_PRESS">> \/ s = <<"LONG_PRESS", "VERY_LONG_PRESS">>
    /\ v.armed => ~(h = "DOWN" /\ g = "UP")
    /\ v.action = "RESET" => u.armed /\ h = "DOWN"

LEMMA OneDoes ==
    ASSUME NEW u, Sound(u), NEW e, NEW v, v = InTurn(Handle, u, <<e>>)
    PROVE  Does(u, e, v)
  <1>1. PICK s : s = <<e>>
    BY Zenon
  <1>2. s # << >> /\ Len(s) = 1 /\ s[1] = e
    BY <1>1, OneEvent, Zenon
  <1>3. v = InTurn(Handle, u, s)
    BY <1>1, Zenon
  <1>4. v = Handle(u, e)
    BY <1>2, <1>3, Zenon DEF InTurn
  <1> QED
    BY <1>4, HandleDoes, Zenon

LEMMA TwoDo ==
    ASSUME NEW u, Sound(u), NEW e, NEW f, NEW v, v = InTurn(Handle, u, <<e, f>>)
    PROVE  \E w : Does(u, e, w) /\ Does(w, f, v) /\ Sound(w)
  <1>1. PICK s : s = <<e, f>>
    BY Zenon
  <1>2. s # << >> /\ Len(s) # 1 /\ s[1] = e /\ s[2] = f
    BY <1>1, TwoEvents, Zenon
  <1>3. v = InTurn(Handle, u, s)
    BY <1>1, Zenon
  <1>4. v = Handle(Handle(u, e), f)
    BY <1>2, <1>3, Zenon DEF InTurn
  <1>5. PICK w : w = Handle(u, e)
    BY Zenon
  <1>6. Moves(u, w) /\ Does(u, e, w)
    BY <1>5, HandleDoes, Zenon
  <1>7. Sound(w) /\ v = Handle(w, f)
    BY <1>4, <1>5, <1>6, Zenon DEF Moves
  <1>8. Does(w, f, v)
    BY <1>7, HandleDoes, Zenon
  <1> QED
    BY <1>6, <1>7, <1>8, Zenon

LEMMA HandledOutcome ==
    ASSUME NEW u, Sound(u), u.action = "NONE", NEW h, NEW g, NEW s, Shape(h, g, s), Waking(u, h),
           NEW v, v = InTurn(Handle, u, s)
    PROVE  Outcome(u, h, g, s, v)
  <1>1. CASE s = << >> /\ g = h
    <2>1. v = u
      BY <1>1, Zenon DEF InTurn
    <2>2. u.armed => ~(h = "DOWN" /\ g = "UP")
      BY <1>1, Zenon
    <2> QED
      BY <1>1, <2>1, <2>2, Zenon DEF Outcome
  <1>2. CASE s = <<"PRESS">> /\ h = "UP" /\ g = "DOWN"
    <2>1. Does(u, "PRESS", v)
      BY <1>2, OneDoes, Zenon
    <2> QED
      BY <1>2, <2>1, Zenon DEF Outcome, Does, Waking
  <1>3. CASE s = <<"LONG_PRESS">> /\ h = "DOWN" /\ g = "LONG"
    <2>1. Does(u, "LONG_PRESS", v)
      BY <1>3, OneDoes, Zenon
    <2> QED
      BY <1>3, <2>1, Zenon DEF Outcome, Does, Waking
  <1>4. CASE s = <<"VERY_LONG_PRESS">> /\ h = "LONG" /\ g = "VERY_LONG"
    <2>1. Does(u, "VERY_LONG_PRESS", v)
      BY <1>4, OneDoes, Zenon
    <2> QED
      BY <1>4, <2>1, Zenon DEF Outcome, Does, Waking
  <1>5. CASE s = <<"LONG_PRESS", "VERY_LONG_PRESS">> /\ h = "DOWN" /\ g = "VERY_LONG"
    <2>1. PICK w : Does(u, "LONG_PRESS", w) /\ Does(w, "VERY_LONG_PRESS", v) /\ Sound(w)
      BY <1>5, TwoDo, Zenon
    <2> QED
      BY <1>5, <2>1, ZenonT(30) DEF Outcome, Does, Waking
  <1>6. CASE s = <<"RELEASE", "SHORT_PRESS">> /\ h = "DOWN" /\ g = "UP"
    <2>1. PICK w : Does(u, "RELEASE", w) /\ Does(w, "SHORT_PRESS", v) /\ Sound(w)
      BY <1>6, TwoDo, Zenon
    <2> QED
      BY <1>6, <2>1, ZenonT(30) DEF Outcome, Does, Waking
  <1>7. CASE s = <<"RELEASE">> /\ h \in {"LONG", "VERY_LONG"} /\ g = "UP"
    <2>1. Does(u, "RELEASE", v)
      BY <1>7, OneDoes, Zenon
    <2> QED
      BY <1>7, <2>1, Zenon DEF Outcome, Does, Waking
  <1> QED
    BY <1>1, <1>2, <1>3, <1>4, <1>5, <1>6, <1>7, Zenon DEF Shape
-----------------------------------------------------------------------------
(* What a sample does to the producer of events *)

LEMMA OneMade ==
    /\ Append(<< >>, "BUTTON") = <<"BUTTON">>
    /\ Append(<< >>, "MANUAL_CHECK_IN") = <<"MANUAL_CHECK_IN">>
  OBVIOUS

LEMMA PressObserved ==
    ASSUME NEW p \in Producers({<< >>}, {FALSE}), NEW u, NEW q, q = ObservePress(p, u)
    PROVE  /\ q \in Producers({<< >>}, {FALSE}) /\ q.long = FALSE
           /\ q.eligible \/ q.manual => u.awake
  <1> DEFINE a == (u.awake /\ ~u.editor /\ u.screen \in ProducerScreens)
             b == (~(u.awake /\ ~u.editor) /\ u.screen \in ProducerScreens)
             c == (u.awake /\ ~u.editor /\ u.screen = "HOME")
  <1>1. q = [p EXCEPT !.eligible = a, !.suppressed = b, !.manual = c, !.long = FALSE,
                      !.veryLong = FALSE]
    BY Zenon DEF ObservePress
  <1>2. a \in BOOLEAN /\ b \in BOOLEAN /\ c \in BOOLEAN /\ (a \/ c => u.awake)
    BY Zenon
  <1> HIDE DEF a, b, c
  <1> QED
    BY <1>1, <1>2, ZenonT(30) DEF Producers

LEMMA LongObserved ==
    ASSUME NEW p \in Producers({<< >>}, {FALSE}), NEW q, q = ObserveLong(p)
    PROVE  /\ q \in Producers({<< >>}, {FALSE})
           /\ q.eligible = p.eligible /\ q.manual = p.manual
  <1>1. (p.long \/ p.manual) \in BOOLEAN
    BY Zenon
  <1>2. PICK c \in BOOLEAN : c = (p.long \/ p.manual)
    BY <1>1, Zenon
  <1>3. q = [p EXCEPT !.long = c]
    BY <1>2, Zenon DEF ObserveLong
  <1> QED
    BY <1>3, ZenonT(30) DEF Producers

LEMMA VeryLongObserved ==
    ASSUME NEW p \in Producers({<< >>}, {FALSE}), NEW q,
           q = [p EXCEPT !.veryLong = TRUE, !.manual = FALSE]
    PROVE  /\ q \in Producers({<< >>}, {FALSE})
           /\ q.eligible = p.eligible /\ q.manual = FALSE
  BY ZenonT(30) DEF Producers

LEMMA ReleaseObserved ==
    ASSUME NEW p \in Producers({<< >>}, {FALSE}), NEW q, q = ObserveRelease(p)
    PROVE  /\ q \in Producers(Mades, {FALSE})
           /\ q.made # << >> => p.manual /\ p.long
           /\ q.eligible => p.eligible
  <1> DEFINE m == IF p.manual /\ p.long /\ ~p.veryLong
                  THEN Append(p.made, "MANUAL_CHECK_IN") ELSE p.made
             c == (p.eligible /\ ~p.long)
  <1>1. p.made = << >>
    BY Zenon DEF Producers
  <1>2. m \in Mades /\ (m # << >> => p.manual /\ p.long)
    BY <1>1, OneMade, Zenon DEF Mades
  <1>3. c \in BOOLEAN /\ (c => p.eligible)
    BY Zenon
  <1>4. q = [p EXCEPT !.made = m, !.eligible = c, !.suppressed = FALSE, !.manual = FALSE,
                      !.long = FALSE, !.veryLong = FALSE]
    BY Zenon DEF ObserveRelease
  <1> HIDE DEF m, c
  <1> QED
    BY <1>2, <1>3, <1>4, ZenonT(30) DEF Producers

LEMMA ShortObserved ==
    ASSUME NEW p \in Producers(Mades, {FALSE}), p.made = << >>, NEW q, q = ObserveShort(p)
    PROVE  /\ q \in Producers(Mades, BOOLEAN)
           /\ q.made # << >> => p.eligible
  <1> DEFINE m == IF p.eligible THEN Append(p.made, "BUTTON") ELSE p.made
             c == (~p.eligible /\ p.suppressed)
  <1>1. m \in Mades /\ (m # << >> => p.eligible)
    BY OneMade, Zenon DEF Mades
  <1>2. c \in BOOLEAN
    BY Zenon
  <1>3. q = [p EXCEPT !.made = m, !.told = c, !.eligible = FALSE, !.suppressed = FALSE,
                      !.manual = FALSE]
    BY Zenon DEF ObserveShort
  <1> HIDE DEF m, c
  <1> QED
    BY <1>1, <1>2, <1>3, ZenonT(30) DEF Producers
Yields(p, h, g, q) ==
    /\ q \in Producers(Mades, BOOLEAN)
    /\ q.made # << >> => (p.eligible \/ p.manual) /\ h # "UP" /\ g = "UP" /\ h # "VERY_LONG"
    /\ g = "DOWN" => ~q.long
    /\ g = "VERY_LONG" => ~q.manual
    /\ h # "UP" /\ g # "UP" /\ ~p.eligible /\ ~p.manual => ~q.eligible /\ ~q.manual
    /\ h = "UP" /\ g = "DOWN" /\ ~ui.awake => ~q.eligible /\ ~q.manual

LEMMA ProducersWiden ==
    /\ \A q \in Producers({<< >>}, {FALSE}) : q \in Producers(Mades, BOOLEAN) /\ q.made = << >>
    /\ \A q \in Producers(Mades, {FALSE}) : q \in Producers(Mades, BOOLEAN)
  BY ZenonT(30) DEF Producers, Mades

LEMMA SampleYields ==
    ASSUME NEW p \in Producers({<< >>}, {FALSE}), NEW h, NEW g, NEW s, Shape(h, g, s),
           h = "DOWN" => ~p.long, h = "VERY_LONG" => ~p.manual,
           NEW q, q = InTurn(LAMBDA r, e : Observe(r, e, ui), p, s)
    PROVE  Yields(p, h, g, q)
  <1>0. p \in Producers(Mades, BOOLEAN) /\ p.made = << >>
    BY ProducersWiden, Zenon
  <1>1. CASE s = << >> /\ g = h
    <2>1. q = p
      BY <1>1, Zenon DEF InTurn
    <2> QED
      BY <1>0, <1>1, <2>1, Zenon DEF Yields
  <1>2. CASE s = <<"PRESS">> /\ h = "UP" /\ g = "DOWN"
    <2>1. s # << >> /\ Len(s) = 1 /\ s[1] = "PRESS"
      BY <1>2, OneEvent, Zenon
    <2>2. q = ObservePress(p, ui)
      BY <2>1, Zenon DEF InTurn, Observe
    <2>3. q \in Producers({<< >>}, {FALSE}) /\ q.long = FALSE /\ (q.eligible \/ q.manual => ui.awake)
      BY <2>2, PressObserved, Zenon
    <2> QED
      BY <1>2, <2>3, ProducersWiden, Zenon DEF Yields
  <1>3. CASE s = <<"LONG_PRESS">> /\ h = "DOWN" /\ g = "LONG"
    <2>1. s # << >> /\ Len(s) = 1 /\ s[1] = "LONG_PRESS"
      BY <1>3, OneEvent, Zenon
    <2>2. q = ObserveLong(p)
      BY <2>1, Zenon DEF InTurn, Observe
    <2>3. q \in Producers({<< >>}, {FALSE}) /\ q.eligible = p.eligible /\ q.manual = p.manual
      BY <2>2, LongObserved, Zenon
    <2> QED
      BY <1>3, <2>3, ProducersWiden, Zenon DEF Yields
  <1>4. CASE s = <<"VERY_LONG_PRESS">> /\ h = "LONG" /\ g = "VERY_LONG"
    <2>1. s # << >> /\ Len(s) = 1 /\ s[1] = "VERY_LONG_PRESS"
      BY <1>4, OneEvent, Zenon
    <2>2. q = [p EXCEPT !.veryLong = TRUE, !.manual = FALSE]
      BY <2>1, Zenon DEF InTurn, Observe
    <2>3. q \in Producers({<< >>}, {FALSE}) /\ q.eligible = p.eligible /\ q.manual = FALSE
      BY <2>2, VeryLongObserved, Zenon
    <2> QED
      BY <1>4, <2>3, ProducersWiden, Zenon DEF Yields
  <1>5. CASE s = <<"LONG_PRESS", "VERY_LONG_PRESS">> /\ h = "DOWN" /\ g = "VERY_LONG"
    <2>1. s # << >> /\ Len(s) # 1 /\ s[1] = "LONG_PRESS" /\ s[2] = "VERY_LONG_PRESS"
      BY <1>5, TwoEvents, Zenon
    <2>2. PICK r : r = ObserveLong(p)
      BY Zenon
    <2>3. q = Observe(Observe(p, "LONG_PRESS", ui), "VERY_LONG_PRESS", ui)
      BY <2>1, Zenon DEF InTurn
    <2>4. Observe(p, "LONG_PRESS", ui) = r
      BY <2>2, Zenon DEF Observe
    <2>5. q = [r EXCEPT !.veryLong = TRUE, !.manual = FALSE]
      BY <2>3, <2>4, Zenon DEF Observe
    <2>6. r \in Producers({<< >>}, {FALSE}) /\ r.eligible = p.eligible /\ r.manual = p.manual
      BY <2>2, LongObserved, Zenon
    <2>7. q \in Producers({<< >>}, {FALSE}) /\ q.eligible = r.eligible /\ q.manual = FALSE
      BY <2>5, <2>6, VeryLongObserved, Zenon
    <2> QED
      BY <1>5, <2>6, <2>7, ProducersWiden, Zenon DEF Yields
  <1>6. CASE s = <<"RELEASE", "SHORT_PRESS">> /\ h = "DOWN" /\ g = "UP"
    <2>1. s # << >> /\ Len(s) # 1 /\ s[1] = "RELEASE" /\ s[2] = "SHORT_PRESS"
      BY <1>6, TwoEvents, Zenon
    <2>2. PICK r : r = ObserveRelease(p)
      BY Zenon
    <2>3. q = Observe(Observe(p, "RELEASE", ui), "SHORT_PRESS", ui)
      BY <2>1, Zenon DEF InTurn
    <2>4. Observe(p, "RELEASE", ui) = r
      BY <2>2, Zenon DEF Observe
    <2>5. q = ObserveShort(r)
      BY <2>3, <2>4, Zenon DEF Observe
    <2>6. r \in Producers(Mades, {FALSE}) /\ (r.made # << >> => p.manual /\ p.long)
          /\ (r.eligible => p.eligible)
      BY <2>2, ReleaseObserved, Zenon
    <2>7. r.made = << >>
      BY <1>6, <2>6, Zenon
    <2>8. q \in Producers(Mades, BOOLEAN) /\ (q.made # << >> => r.eligible)
      BY <2>5, <2>6, <2>7, ShortObserved, Zenon
    <2> QED
      BY <1>6, <2>6, <2>8, Zenon DEF Yields
  <1>7. CASE s = <<"RELEASE">> /\ h \in {"LONG", "VERY_LONG"} /\ g = "UP"
    <2>1. s # << >> /\ Len(s) = 1 /\ s[1] = "RELEASE"
      BY <1>7, OneEvent, Zenon
    <2>2. q = ObserveRelease(p)
      BY <2>1, Zenon DEF InTurn, Observe
    <2>3. q \in Producers(Mades, {FALSE}) /\ (q.made # << >> => p.manual /\ p.long)
      BY <2>2, ReleaseObserved, Zenon
    <2> QED
      BY <1>7, <2>3, ProducersWiden, Zenon DEF Yields
  <1> QED
    BY <1>1, <1>2, <1>3, <1>4, <1>5, <1>6, <1>7, Zenon DEF Shape
-----------------------------------------------------------------------------
(* serviceButton and the gesture's history *)

LEMMA PressAlone ==
    <<"PRESS">> \notin {<< >>, <<"LONG_PRESS">>, <<"VERY_LONG_PRESS">>, <<"RELEASE">>,
                        <<"LONG_PRESS", "VERY_LONG_PRESS">>, <<"RELEASE", "SHORT_PRESS">>}
  OBVIOUS

LEMMA LongAmong ==
    /\ "LONG_PRESS" \in Range(<<"LONG_PRESS">>)
    /\ "LONG_PRESS" \in Range(<<"LONG_PRESS", "VERY_LONG_PRESS">>)
  BY DEF Range

LEMMA NothingBefore ==
    ASSUME NEW m \in Mades
    PROVE  << >> \o m = m
  <1> DEFINE S == {"BUTTON", "MANUAL_CHECK_IN"}
  <1>1. "BUTTON" \in S /\ "MANUAL_CHECK_IN" \in S
    BY Zenon
  <1> HIDE DEF S
  <1>2. << >> \in Seq(S) /\ \A x \in S : <<x>> \in Seq(S)
    OBVIOUS
  <1>3. m \in Seq(S)
    BY <1>1, <1>2, Zenon DEF Mades
  <1> QED
    BY <1>3, ConcatEmptySeq, Zenon

LEMMA ButtonShape ==
    ASSUME GestureInv, GestureNext
    PROVE  /\ Shape(held, held', events') /\ held' \in {"UP", "DOWN", "LONG", "VERY_LONG"}
           /\ events' = <<"PRESS">> <=> held = "UP" /\ held' = "DOWN"
  <1>1. held \in {"UP", "DOWN", "LONG", "VERY_LONG"}
    BY Zenon DEF GestureInv
  <1>2. Shape(held, held', events')
    BY <1>1, Zenon DEF GestureNext, Quiet, Press, Lengthen, Release, Shape
  <1>3. held' \in {"UP", "DOWN", "LONG", "VERY_LONG"}
    BY <1>1, <1>2, Zenon DEF Shape
  <1>4. held = "UP" /\ held' = "DOWN" => events' = <<"PRESS">>
    BY <1>2, Zenon DEF Shape
  <1>5. events' = <<"PRESS">> => held = "UP" /\ held' = "DOWN"
    BY <1>2, PressAlone, Zenon DEF Shape
  <1> QED
    BY <1>2, <1>3, <1>4, <1>5, Zenon

Recorded(k, g, m, e, a) ==
    /\ k \in Histories /\ k.woke = g.woke /\ k.before = g.before /\ k.made = m
    /\ k.entered = e /\ k.armed = a

LEMMA RememberFields ==
    ASSUME NEW g \in Histories, g.made = << >>, NEW m \in Mades, NEW e \in BOOLEAN,
           NEW a \in BOOLEAN, NEW c \in BOOLEAN, NEW k,
           k = [g EXCEPT !.made = @ \o m, !.entered = e, !.armed = a, !.acted = c]
    PROVE  Recorded(k, g, m, e, a)
  <1>1. g.made \o m = m
    BY NothingBefore, Zenon
  <1>2. k = [g EXCEPT !.made = m, !.entered = e, !.armed = a, !.acted = c]
    BY <1>1, Zenon
  <1> QED
    BY <1>2, ZenonT(30) DEF Histories, Recorded

LEMMA ButtonObserved ==
    ASSUME GestureInv, GestureNext
    PROVE  /\ Observed \in Producers(Mades, BOOLEAN)
           /\ ~ready => Observed = producer
           /\ ready => Yields(producer, held, held', Observed)
           /\ Observed.made # << >> => ready /\ Yields(producer, held, held', Observed)
  <1>1. Shape(held, held', events')
    BY ButtonShape, Zenon
  <1>2. producer \in Producers({<< >>}, {FALSE}) /\ ready \in BOOLEAN
    BY Zenon DEF GestureInv
  <1>3. CASE ready
    <2>1. (held = "DOWN" => ~producer.long) /\ (held = "VERY_LONG" => ~producer.manual)
      BY <1>3, Zenon DEF GestureInv
    <2>2. Observed = InTurn(LAMBDA r, e : Observe(r, e, ui), producer, events')
      BY <1>3, Zenon DEF Observed
    <2>3. Yields(producer, held, held', Observed)
      BY <1>1, <1>2, <2>1, <2>2, SampleYields, Zenon
    <2> QED
      BY <1>3, <2>3, Zenon DEF Yields
  <1>4. CASE ~ready
    <2>1. Observed = producer
      BY <1>4, Zenon DEF Observed
    <2>2. producer \in Producers(Mades, BOOLEAN) /\ producer.made = << >>
      BY <1>2, ProducersWiden, Zenon
    <2> QED
      BY <1>4, <2>1, <2>2, Zenon
  <1> QED
    BY <1>3, <1>4, Zenon

LEMMA GestureShape ==
    NoGesture \in Histories /\ NoGesture.made = << >> /\ NoGesture.woke = FALSE
    /\ NoGesture.entered = FALSE
  BY ZenonT(30) DEF NoGesture, Histories, Mades

LEMMA PressedHistory ==
    ASSUME NEW w \in BOOLEAN, NEW b \in BOOLEAN, NEW g,
           g = [NoGesture EXCEPT !.woke = w, !.before = b]
    PROVE  /\ g \in Histories /\ g.woke = w /\ g.before = b /\ g.made = << >>
           /\ g.entered = FALSE /\ g.armed = FALSE
  BY ZenonT(30) DEF NoGesture, Histories, Mades
(* The history after a sample *)
Recalls(pressed) ==
    /\ gesture' \in Histories /\ gesture'.made = Observed.made
    /\ gesture'.woke = IF pressed THEN ~ui.awake ELSE gesture.woke
    /\ gesture'.before = IF pressed THEN gesture.armed ELSE gesture.before
    /\ gesture'.entered => (~pressed /\ gesture.entered) \/ (Handled.editor /\ ~ui.editor)
    /\ ~pressed /\ gesture.armed => gesture'.armed
    /\ Handled.armed /\ "LONG_PRESS" \in Range(events') => gesture'.armed

LEMMA ButtonRecalls ==
    ASSUME PanelInv, GestureInv, ServiceButton
    PROVE  Recalls(held = "UP" /\ held' = "DOWN")
  <1> DEFINE g == IF events' = <<"PRESS">>
                  THEN [NoGesture EXCEPT !.woke = ~ui.awake, !.before = gesture.armed]
                  ELSE gesture
             e == (g.entered \/ (Handled.editor /\ ~ui.editor))
             a == (g.armed \/ (Handled.armed /\ "LONG_PRESS" \in Range(events')))
             c == (g.acted \/ Handled.action # "NONE")
  <1>1. gesture' = [g EXCEPT !.made = @ \o Observed.made, !.entered = e, !.armed = a, !.acted = c]
    BY ButtonParts, Zenon DEF Remember
  <1>2. e \in BOOLEAN /\ a \in BOOLEAN /\ c \in BOOLEAN
    BY Zenon
  <1>3. /\ e => g.entered \/ (Handled.editor /\ ~ui.editor)
        /\ g.armed \/ (Handled.armed /\ "LONG_PRESS" \in Range(events')) => a
    BY Zenon
  <1>4. GestureNext /\ pc = "BUTTON"
    BY ButtonParts, Zenon
  <1>5. gesture \in Histories /\ gesture.made = << >>
    BY <1>4, Zenon DEF GestureInv
  <1>6. events' = <<"PRESS">> <=> held = "UP" /\ held' = "DOWN"
    BY <1>4, ButtonShape, Zenon
  <1>7. CASE held = "UP" /\ held' = "DOWN"
    <2>1. g = [NoGesture EXCEPT !.woke = ~ui.awake, !.before = gesture.armed]
      BY <1>6, <1>7, Zenon
    <2>2. (~ui.awake) \in BOOLEAN /\ gesture.armed \in BOOLEAN
      BY <1>5, Zenon DEF Histories
    <2> HIDE DEF g
    <2>3. /\ g \in Histories /\ g.woke = (~ui.awake) /\ g.before = gesture.armed
          /\ g.made = << >> /\ g.entered = FALSE
      BY <2>1, <2>2, PressedHistory, ZenonT(30)
    <2> HIDE DEF e, a, c
    <2>4. Observed.made \in Mades
      BY <1>4, ButtonObserved, Zenon DEF Producers
    <2>5. Recorded(gesture', g, Observed.made, e, a)
      BY <1>1, <1>2, <2>3, <2>4, RememberFields, Zenon
    <2> QED
      BY <1>3, <1>7, <2>3, <2>5, Zenon DEF Recalls, Recorded
  <1>8. CASE ~(held = "UP" /\ held' = "DOWN")
    <2>1. g = gesture
      BY <1>6, <1>8, Zenon
    <2> HIDE DEF g, e, a, c
    <2>2. Observed.made \in Mades
      BY <1>4, ButtonObserved, Zenon DEF Producers
    <2>3. Recorded(gesture', g, Observed.made, e, a)
      BY <1>1, <1>2, <1>5, <2>1, <2>2, RememberFields, Zenon
    <2> QED
      BY <1>3, <1>8, <2>1, <2>3, Zenon DEF Recalls, Recorded
  <1> QED
    BY <1>7, <1>8, Zenon

LEMMA ButtonOutcome ==
    ASSUME PanelInv, GestureInv, ServiceButton
    PROVE  /\ Outcome(ui, held, held', events', Handled) /\ Settles(Handled, ui')
           /\ ui.action = "NONE" /\ Handled.current = ui.current
  <1>1. Sound(ui) /\ ui.action = "NONE" /\ Waking(ui, held)
    BY Zenon DEF PanelInv, GestureInv
  <1>2. Marks(ui, Marked) /\ Sound(Marked)
    BY <1>1, MarkedSound, Zenon
  <1>3. Waking(Marked, held) /\ Marked.action = "NONE"
    BY <1>1, <1>2, Zenon DEF Waking, Marks
  <1>4. Shape(held, held', events') /\ events' \in Samples
    BY ButtonParts, ButtonShape, ButtonSamples, Zenon
  <1>5. Outcome(Marked, held, held', events', Handled)
    BY <1>2, <1>3, <1>4, HandledOutcome, Zenon DEF Handled
  <1>6. Outcome(ui, held, held', events', Handled)
    BY <1>2, <1>5, Zenon DEF Outcome, Marks
  <1>7. Moves(Marked, Handled) /\ Handled.current = Marked.current
    BY <1>2, <1>4, InTurnMoves, Zenon DEF Handled
  <1>8. Sound(Handled)
    BY <1>7, Zenon DEF Moves
  <1>9. Settles(Handled, ui')
    BY <1>8, ButtonParts, SettledMoves, Zenon
  <1> QED
    BY <1>1, <1>2, <1>6, <1>7, <1>9, Zenon DEF Marks

LEMMA ProducerCleared ==
    ASSUME NEW p \in Producers(Mades, BOOLEAN), NEW q, q = [p EXCEPT !.made = << >>, !.told = FALSE]
    PROVE  /\ q \in Producers({<< >>}, {FALSE}) /\ q.eligible = p.eligible
           /\ q.manual = p.manual /\ q.long = p.long
  BY ZenonT(30) DEF Producers
LEMMA GestureButton ==
    ASSUME PanelInv, GestureInv, ServiceButton
    PROVE  GestureInv'
  <1>1. /\ pc = "BUTTON" /\ pc' = "PERSIST" /\ GestureNext
        /\ producer' = [Observed EXCEPT !.made = << >>, !.told = FALSE]
        /\ ready' \in IF Observed.made = << >> THEN {ready} ELSE {ready, FALSE}
    BY ButtonParts, Zenon
  <1>2. Shape(held, held', events') /\ held' \in {"UP", "DOWN", "LONG", "VERY_LONG"}
    BY <1>1, ButtonShape, Zenon
  <1>3. Recalls(held = "UP" /\ held' = "DOWN")
    BY ButtonRecalls, Zenon
  <1>4. Outcome(ui, held, held', events', Handled) /\ Settles(Handled, ui')
    BY ButtonOutcome, Zenon
  <1>5. /\ Observed \in Producers(Mades, BOOLEAN)
        /\ ready => Yields(producer, held, held', Observed)
        /\ Observed.made # << >> => Yields(producer, held, held', Observed)
    BY <1>1, ButtonObserved, Zenon
  <1>6. /\ producer' \in Producers({<< >>}, {FALSE}) /\ producer'.eligible = Observed.eligible
        /\ producer'.manual = Observed.manual /\ producer'.long = Observed.long
    BY <1>1, <1>5, ProducerCleared, Zenon
  <1>7. ready' \in BOOLEAN /\ (ready' => ready)
    BY <1>1, Zenon DEF GestureInv
  <1>8. Waking(ui', held')
    BY <1>4, Zenon DEF Outcome, Waking, Settles
  <1>9. held' # "UP" /\ gesture'.woke =>
            /\ ui'.suppress \/ ~ui'.awake
            /\ ready' => ~producer'.eligible /\ ~producer'.manual
    <2> SUFFICES ASSUME held' # "UP", gesture'.woke
                 PROVE  /\ ui'.suppress \/ ~ui'.awake
                        /\ ready' => ~producer'.eligible /\ ~producer'.manual
      BY Zenon
    <2>1. CASE held = "UP" /\ held' = "DOWN"
      <3>1. ~ui.awake
        BY <1>3, <2>1, Zenon DEF Recalls
      <3>2. ui'.suppress \/ ~ui'.awake
        BY <1>4, <3>1, Zenon DEF Outcome, Settles
      <3> QED
        BY <1>5, <1>6, <1>7, <2>1, <3>1, <3>2, Zenon DEF Yields
    <2>2. CASE ~(held = "UP" /\ held' = "DOWN")
      <3>1. gesture.woke /\ held # "UP"
        BY <1>2, <1>3, <2>2, Zenon DEF Recalls, Shape
      <3>2. (ui.suppress \/ ~ui.awake) /\ (ready => ~producer.eligible /\ ~producer.manual)
        BY <3>1, Zenon DEF GestureInv
      <3>3. ui'.suppress \/ ~ui'.awake
        BY <1>4, <3>2, Zenon DEF Outcome, Settles
      <3> QED
        BY <1>5, <1>6, <1>7, <3>1, <3>2, <3>3, Zenon DEF Yields
    <2> QED
      BY <2>1, <2>2, Zenon
  <1>10. held' # "UP" \/ pc' # "PERSIST" => gesture'.made = << >>
    BY <1>1, <1>3, <1>5, Zenon DEF Recalls, Yields
  <1>11. held' # "UP" /\ gesture'.entered => held' = "VERY_LONG"
    <2> SUFFICES ASSUME held' # "UP", gesture'.entered
                 PROVE  held' = "VERY_LONG"
      BY Zenon
    <2>1. CASE Handled.editor /\ ~ui.editor
      BY <1>4, <2>1, Zenon DEF Outcome
    <2>2. CASE ~(held = "UP" /\ held' = "DOWN") /\ gesture.entered
      <3>1. held # "UP"
        BY <1>2, <2>2, Zenon DEF Shape
      <3>2. held = "VERY_LONG"
        BY <2>2, <3>1, Zenon DEF GestureInv
      <3> QED
        BY <1>2, <3>2, Zenon DEF Shape
    <2> QED
      BY <1>3, <2>1, <2>2, Zenon DEF Recalls
  <1>12. /\ ready' /\ held' = "DOWN" => ~producer'.long
         /\ ready' /\ held' = "VERY_LONG" => ~producer'.manual
    BY <1>5, <1>6, <1>7, Zenon DEF Yields
  <1>13. ui'.armed => IF held' = "DOWN" THEN gesture'.before ELSE gesture'.armed
    <2> SUFFICES ASSUME ui'.armed
                 PROVE  IF held' = "DOWN" THEN gesture'.before ELSE gesture'.armed
      BY Zenon
    <2>1. Handled.armed
      BY <1>4, Zenon DEF Settles
    <2>2. CASE events' = <<"LONG_PRESS">> \/ events' = <<"LONG_PRESS", "VERY_LONG_PRESS">>
      <3>1. "LONG_PRESS" \in Range(events')
        BY <2>2, LongAmong, Zenon
      <3>2. gesture'.armed
        BY <1>3, <2>1, <3>1, Zenon DEF Recalls
      <3>3. held' # "DOWN"
        <4>1. held' # "DOWN" \/ events' = << >> \/ events' = <<"PRESS">>
          BY <1>2, Zenon DEF Shape
        <4>2. events' # << >> /\ events' # <<"PRESS">>
          BY <2>2, PressAlone, OneEvent, TwoEvents, Zenon
        <4> QED
          BY <4>1, <4>2, Zenon
      <3> QED
        BY <3>2, <3>3, Zenon
    <2>3. CASE ~(events' = <<"LONG_PRESS">> \/ events' = <<"LONG_PRESS", "VERY_LONG_PRESS">>)
      <3>1. ui.armed /\ ~(held = "DOWN" /\ held' = "UP")
        BY <1>4, <2>1, <2>3, Zenon DEF Outcome
      <3>2. IF held = "DOWN" THEN gesture.before ELSE gesture.armed
        BY <3>1, Zenon DEF GestureInv
      <3>3. CASE held = "UP" /\ held' = "DOWN"
        BY <1>3, <3>2, <3>3, Zenon DEF Recalls
      <3>4. CASE ~(held = "UP" /\ held' = "DOWN")
        <4>1. held' = "DOWN" <=> held = "DOWN"
          BY <1>2, <2>3, <3>1, <3>4, Zenon DEF Shape
        <4> QED
          BY <1>3, <3>2, <3>4, <4>1, Zenon DEF Recalls
      <3> QED
        BY <3>3, <3>4, Zenon
    <2> QED
      BY <2>2, <2>3, Zenon
  <1>14. gesture' \in Histories
    BY <1>3, Zenon DEF Recalls
  <1> QED
    BY <1>1, <1>2, <1>6, <1>7, <1>8, <1>9, <1>10, <1>11, <1>12, <1>13, <1>14, Zenon
    DEF GestureInv
(* A step that leaves the button and its history alone *)
LEMMA GestureElsewhere ==
    ASSUME GestureInv, held' = held, producer' = producer, ready' = ready, gesture' = gesture,
           pc' = "PERSIST" <=> pc = "PERSIST", ui'.armed => ui.armed,
           ui'.awake => ui.awake /\ ui'.suppress = ui.suppress /\ ui'.wokeLong = ui.wokeLong
    PROVE  GestureInv'
  <1>1. Waking(ui', held')
    BY Zenon DEF GestureInv, Waking
  <1>2. held # "UP" /\ gesture.woke => ui'.suppress \/ ~ui'.awake
    BY Zenon DEF GestureInv
  <1> QED
    BY <1>1, <1>2, ZenonT(30) DEF GestureInv

LEMMA ClearedHistory ==
    ASSUME NEW a \in BOOLEAN, NEW g, g = [NoGesture EXCEPT !.armed = a]
    PROVE  g \in Histories /\ g.made = << >> /\ g.woke = FALSE /\ g.entered = FALSE /\ g.armed = a
  BY ZenonT(30) DEF NoGesture, Histories, Mades

LEMMA GesturePersist ==
    ASSUME PanelInv, GestureInv, ServicePersistence
    PROVE  GestureInv'
  <1>1. /\ pc = "PERSIST" /\ pc' = "UI" /\ held' = held /\ producer' = producer /\ ready' = ready
        /\ gesture' = IF held = "UP" THEN [NoGesture EXCEPT !.armed = gesture.armed] ELSE gesture
    BY Zenon DEF ServicePersistence
  <1>2. /\ ui'.awake = ui.awake /\ ui'.suppress = ui.suppress
        /\ ui'.wokeLong = ui.wokeLong /\ ui'.armed = ui.armed
    BY PersistMoves, Zenon
  <1>3. Waking(ui', held')
    BY <1>1, <1>2, Zenon DEF GestureInv, Waking
  <1>4. CASE held = "UP"
    <2>1. gesture.armed \in BOOLEAN
      BY Zenon DEF GestureInv, Histories
    <2>2. gesture' = [NoGesture EXCEPT !.armed = gesture.armed]
      BY <1>1, <1>4, Zenon
    <2>3. gesture' \in Histories /\ gesture'.made = << >> /\ gesture'.woke = FALSE
          /\ gesture'.entered = FALSE /\ gesture'.armed = gesture.armed
      BY <2>1, <2>2, ClearedHistory, Zenon
    <2>4. ui'.armed => gesture'.armed
      BY <1>2, <1>4, <2>3, Zenon DEF GestureInv
    <2> QED
      BY <1>1, <1>3, <1>4, <2>3, <2>4, ZenonT(30) DEF GestureInv
  <1>5. CASE held # "UP"
    <2>1. gesture' = gesture
      BY <1>1, <1>5, Zenon
    <2>2. gesture.woke => ui'.suppress \/ ~ui'.awake
      BY <1>2, <1>5, Zenon DEF GestureInv
    <2> QED
      BY <1>1, <1>2, <1>3, <1>5, <2>1, <2>2, ZenonT(30) DEF GestureInv
  <1> QED
    BY <1>4, <1>5, Zenon

LEMMA GestureUi ==
    ASSUME PanelInv, GestureInv, ServiceUi
    PROVE  GestureInv'
  <1>0. Sound(ui) /\ ui.action = "NONE" /\ (~ui.editor => ui.draft = ui.current)
    BY Zenon DEF PanelInv
  <1>1. /\ pc = "UI" /\ pc' = "BUTTON" /\ held' = held /\ producer' = producer
        /\ ready' = ready /\ gesture' = gesture /\ Update
    BY Zenon DEF ServiceUi
  <1>2. CASE TimedOut(ui)
    <2>1. ui' = Sleep(IF ui.editor THEN ExitEditor(ui, FALSE) ELSE ui)
      BY <1>1, <1>2, Zenon DEF Update
    <2>2. ui'.awake = FALSE /\ ui'.armed = FALSE
      BY <1>0, <2>1, SleptFields, Zenon
    <2> QED
      BY <1>1, <2>2, GestureElsewhere, Zenon
  <1>3. CASE ~TimedOut(ui) /\ ui.awake
    <2>1. PICK u \in Refresh(ui) : Draw(u)
      BY <1>1, <1>3, Zenon DEF Update
    <2>2. Kin(ui, ui')
      BY <1>3, <2>1, PanelDraw, Zenon
    <2>3. (ui'.armed => ui.armed) /\ ui'.awake = ui.awake /\ ui'.suppress = ui.suppress
          /\ ui'.wokeLong = ui.wokeLong
      BY <2>2, Zenon DEF Kin
    <2> QED
      BY <1>1, <1>3, <2>3, GestureElsewhere, Zenon
  <1>4. CASE ~TimedOut(ui) /\ ~ui.awake
    <2>1. ui' = ui
      BY <1>1, <1>4, Zenon DEF Update
    <2> QED
      BY <1>1, <2>1, GestureElsewhere, Zenon
  <1> QED
    BY <1>2, <1>3, <1>4, Zenon

UiInv == PanelInv /\ GestureInv

LEMMA UiStep ==
    ASSUME UiInv, [UiNext]_uiVars
    PROVE  UiInv'
  <1>1. PanelInv'
    BY PanelStep, Zenon DEF UiInv
  <1>2. CASE ServiceButton
    BY <1>1, <1>2, GestureButton, Zenon DEF UiInv
  <1>3. CASE ServicePersistence
    BY <1>1, <1>3, GesturePersist, Zenon DEF UiInv
  <1>4. CASE SkipUi
    <2>1. GestureInv'
      BY <1>4, GestureElsewhere, Zenon DEF SkipUi, UiInv
    <2> QED
      BY <1>1, <2>1, Zenon DEF UiInv
  <1>5. CASE ServiceUi
    BY <1>1, <1>5, GestureUi, Zenon DEF UiInv
  <1>6. CASE TimePasses
    <2>1. Alike(ui, ui') /\ ui'.suppress = ui.suppress /\ ui'.wokeLong = ui.wokeLong
      BY <1>6, TimeAlike, Zenon DEF UiInv
    <2>2. /\ held' = held /\ producer' = producer /\ ready' = ready /\ gesture' = gesture
          /\ pc' = pc
      BY <1>6, Zenon DEF TimePasses
    <2>3. GestureInv'
      BY <2>1, <2>2, GestureElsewhere, Zenon DEF UiInv, Alike
    <2> QED
      BY <1>1, <2>3, Zenon DEF UiInv
  <1>7. CASE UNCHANGED uiVars
    <2>1. GestureInv'
      BY <1>7, GestureElsewhere, Zenon DEF uiVars, UiInv
    <2> QED
      BY <1>1, <2>1, Zenon DEF UiInv
  <1> QED
    BY <1>2, <1>3, <1>4, <1>5, <1>6, <1>7, Zenon DEF UiNext
LEMMA UiStart == UiInit => UiInv
  <1> SUFFICES ASSUME UiInit PROVE UiInv
    BY Zenon
  <1>1. /\ ui = Controller /\ producer = Producer /\ gesture = NoGesture /\ held = "UP"
        /\ ready = TRUE /\ pc = "BUTTON"
    BY Zenon DEF UiInit, GestureInit
  <1>2. ui.suppress = FALSE /\ ui.armed = FALSE
    BY <1>1, Zenon DEF Controller
  <1>3. producer \in Producers({<< >>}, {FALSE})
    BY <1>1, ZenonT(30) DEF Producer, Producers
  <1>4. Waking(ui, held)
    BY <1>2, Zenon DEF Waking
  <1>5. GestureInv
    BY <1>1, <1>2, <1>3, <1>4, GestureShape, Zenon DEF GestureInv
  <1> QED
    BY <1>5, PanelStart, Zenon DEF UiInv

LEMMA MadeAtMostOne ==
    ASSUME NEW m \in Mades, NEW c, c => m = << >>
    PROVE  Len(m) <= IF c THEN 0 ELSE 1
  <1>1. Len(<< >>) <= 0 /\ Len(<< >>) <= 1 /\ \A x : Len(<<x>>) <= 1
    OBVIOUS
  <1>2. Len(m) <= 1 /\ (m = << >> => Len(m) <= 0)
    BY <1>1, Zenon DEF Mades
  <1> QED
    BY <1>2, Zenon

(* What is queued, and on whose account *)
LEMMA QueuedReset ==
    ASSUME NEW u, QueueEditorAction(u)
    PROVE  /\ u.action = "NONE" => queue' = queue
           /\ queue'.pending = "RESET" /\ queue' # queue => u.action = "RESET"
  <1>1. CASE u.action = "SAVE"
    <2>1. queue' = QueueSave(queue, u.draft)
      BY <1>1, Zenon DEF QueueEditorAction
    <2>2. CASE queue.pending = "RESET"
      BY <1>1, <2>1, <2>2, Zenon DEF QueueSave
    <2>3. CASE queue.pending # "RESET"
      <3>1. queue' = [pending |-> "SAVE", draft |-> u.draft]
        BY <2>1, <2>3, Zenon DEF QueueSave
      <3>2. queue'.pending = "SAVE"
        BY <3>1, Zenon
      <3> QED
        BY <1>1, <3>2, Zenon
    <2> QED
      BY <2>2, <2>3, Zenon
  <1>2. CASE u.action = "RESET"
    BY <1>2, Zenon
  <1>3. CASE u.action \notin {"SAVE", "RESET"}
    BY <1>3, Zenon DEF QueueEditorAction
  <1> QED
    BY <1>1, <1>2, <1>3, Zenon

LEMMA ButtonDoesOneThing ==
    ASSUME UiInv, ServiceButton
    PROVE  /\ gesture'.woke =>
                  /\ ui'.screen = ui.screen /\ ui'.editor = ui.editor /\ ui'.draft = ui.draft
                  /\ gesture'.made = << >> /\ UNCHANGED queue
           /\ Len(gesture'.made) <= IF gesture'.entered THEN 0 ELSE 1
           /\ queue'.pending = "RESET" /\ queue' # queue => gesture'.before
  <1>0. PanelInv /\ GestureInv
    BY Zenon DEF UiInv
  <1>1. GestureNext /\ QueueEditorAction(Handled) /\ pc = "BUTTON"
    BY ButtonParts, Zenon
  <1>2. Shape(held, held', events')
    BY <1>0, <1>1, ButtonShape, Zenon
  <1>3. Recalls(held = "UP" /\ held' = "DOWN")
    BY <1>0, ButtonRecalls, Zenon
  <1>4. /\ Outcome(ui, held, held', events', Handled) /\ Settles(Handled, ui')
        /\ ui.action = "NONE" /\ Handled.current = ui.current
    BY <1>0, ButtonOutcome, Zenon
  <1>5. gesture'.made # << >> => /\ ready /\ (producer.eligible \/ producer.manual)
                                 /\ held # "UP" /\ held' = "UP" /\ held # "VERY_LONG"
    <2>1. Observed.made # << >> => ready /\ Yields(producer, held, held', Observed)
      BY <1>0, <1>1, ButtonObserved, Zenon
    <2> QED
      BY <1>3, <2>1, Zenon DEF Recalls, Yields
  <1>6. ASSUME gesture'.woke
        PROVE  /\ ui'.screen = ui.screen /\ ui'.editor = ui.editor /\ ui'.draft = ui.draft
               /\ gesture'.made = << >> /\ UNCHANGED queue
    <2>1. (held = "UP" /\ held' = "DOWN" /\ ~ui.awake) \/ (gesture.woke /\ held # "UP")
      <3>1. CASE held = "UP" /\ held' = "DOWN"
        BY <1>3, <1>6, <3>1, Zenon DEF Recalls
      <3>2. CASE ~(held = "UP" /\ held' = "DOWN")
        <4>1. gesture.woke
          BY <1>3, <1>6, <3>2, Zenon DEF Recalls
        <4> QED
          BY <1>0, <1>1, <4>1, Zenon DEF GestureInv
      <3> QED
        BY <3>1, <3>2, Zenon
    <2>2. ~ui.awake \/ ui.suppress
      BY <1>0, <2>1, Zenon DEF GestureInv
    <2>3. /\ Handled.screen = ui.screen /\ Handled.editor = ui.editor
          /\ Handled.draft = ui.draft /\ Handled.action = "NONE"
      BY <1>4, <2>2, Zenon DEF Outcome
    <2>4. Handled.editor \/ Handled.draft = Handled.current
      BY <1>0, <1>4, <2>3, Zenon DEF PanelInv
    <2>5. ui'.screen = ui.screen /\ ui'.editor = ui.editor /\ ui'.draft = ui.draft
      BY <1>4, <2>3, <2>4, Zenon DEF Settles
    <2>6. gesture'.made = << >>
      BY <1>0, <1>5, <2>1, Zenon DEF GestureInv
    <2>7. queue' = queue
      BY <1>1, <2>3, QueuedReset, Zenon
    <2> QED
      BY <2>5, <2>6, <2>7, Zenon
  <1>7. Len(gesture'.made) <= IF gesture'.entered THEN 0 ELSE 1
    <2>1. gesture'.entered => gesture'.made = << >>
      <3> SUFFICES ASSUME gesture'.entered, gesture'.made # << >>
                   PROVE  FALSE
        BY Zenon
      <3>1. ~(Handled.editor /\ ~ui.editor)
        BY <1>4, <1>5, Zenon DEF Outcome
      <3>2. gesture.entered
        BY <1>3, <3>1, Zenon DEF Recalls
      <3> QED
        BY <1>0, <1>5, <3>2, Zenon DEF GestureInv
    <2>2. gesture'.made \in Mades
      BY <1>3, Zenon DEF Recalls, Histories
    <2> QED
      BY <2>1, <2>2, MadeAtMostOne, Zenon
  <1>8. ASSUME queue'.pending = "RESET", queue' # queue
        PROVE  gesture'.before
    <2>1. ui.armed /\ held = "DOWN"
      BY <1>1, <1>4, <1>8, QueuedReset, Zenon DEF Outcome
    <2>2. gesture.before
      BY <1>0, <2>1, Zenon DEF GestureInv
    <2> QED
      BY <1>3, <2>1, <2>2, Zenon DEF Recalls
  <1> QED
    BY <1>6, <1>7, <1>8, Zenon

(* The gesture that wakes the display does nothing else, another makes one  *)
(* event at most, none if it enters the editor, and a factory reset takes   *)
(* two gestures in a row (handle, handleSuppressedWakeGesture,              *)
(* activateEditorItem and ButtonProducer.observe), for every interleaving   *)
(* of gestures with the services of the loop.                               *)
THEOREM OneGestureOneThing == UiSpec => GesturesDoOneThing
  <1> DEFINE One == pc = "BUTTON" /\ pc' # pc =>
         /\ gesture'.woke =>
                /\ ui'.screen = ui.screen /\ ui'.editor = ui.editor /\ ui'.draft = ui.draft
                /\ gesture'.made = << >> /\ UNCHANGED queue
         /\ Len(gesture'.made) <= IF gesture'.entered THEN 0 ELSE 1
         /\ queue'.pending = "RESET" /\ queue' # queue => gesture'.before
  <1>1. UiInv /\ [UiNext]_uiVars => [One]_uiVars
    <2> SUFFICES ASSUME UiInv, UiNext, pc = "BUTTON", pc' # pc
                 PROVE  One
      BY Zenon
    <2>1. ServiceButton
      BY Zenon DEF UiNext, ServicePersistence, SkipUi, ServiceUi, TimePasses
    <2> QED
      BY <2>1, ButtonDoesOneThing, Zenon
  <1> QED
    BY <1>1, UiStart, UiStep, PTL DEF UiSpec, GesturesDoOneThing
=============================================================================
