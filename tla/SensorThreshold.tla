-------------------------- MODULE SensorThreshold ---------------------------
(***************************************************************************)
(* The producer of SENSOR_THRESHOLD events (SensorThresholdProducer in      *)
(* event_producers.h), as serviceSensorThresholdProducer of the Node drives *)
(* it: a value that crosses the threshold makes one event, and the next one *)
(* only after the value has gone back past the hysteresis.                  *)
(***************************************************************************)
EXTENDS ScalarValues, Integers

(* NORMALIZED_U16 and ENUM_U16; UNSIGNED_32; SIGNED_32 and FIXED_Q16_16 *)
SensorTypes == {"NARROW", "UNSIGNED", "SIGNED"}

Policies == [type : SensorTypes, threshold : Words, hysteresis : Words,
             relation : {"CROSSED_ABOVE", "CROSSED_BELOW"}]

VARIABLES policy,
          sensorInitialized, sensorArmed,
          sensorReady,       \* eventSubsystemReady
          emitted,     \* the last sample made an event
          again,       \* history: an event was made
          nearest      \* history: the value furthest back since the last event

sensorVars == <<policy, sensorInitialized, sensorArmed, sensorReady, emitted, again, nearest>>

NumericValue(bits) ==
    IF policy.type = "SIGNED" /\ bits >= HalfRange THEN bits - 2 * HalfRange ELSE bits

ValidObserved(p, bits) == p.type = "NARROW" => bits < NarrowRange

Above == policy.relation = "CROSSED_ABOVE"
Threshold == NumericValue(policy.threshold)

IsActive(bits) == IF Above THEN NumericValue(bits) > Threshold ELSE NumericValue(bits) < Threshold

(* Mutant: the hysteresis is left out *)
IsRearmedAtOnce(bits) == ~IsActive(bits)

(* The sum and the difference are int64_t: they do not wrap *)
IsRearmed(bits) ==
    IF Above THEN NumericValue(bits) <= Threshold - policy.hysteresis
    ELSE NumericValue(bits) >= Threshold + policy.hysteresis

SensorInit ==
    /\ policy \in Policies
    /\ sensorInitialized = FALSE /\ sensorArmed = FALSE /\ sensorReady = TRUE
    /\ emitted = FALSE /\ again = FALSE /\ nearest = {}

Further(values) == {v \in values : \A w \in values : IF Above THEN v <= w ELSE v >= w}

(* observe of an available value *)
ObserveValue(bits) ==
    IF ~sensorInitialized
    THEN sensorInitialized' = TRUE /\ sensorArmed' = ~IsActive(bits) /\ emitted' = FALSE
    ELSE /\ sensorArmed' = IF sensorArmed THEN ~IsActive(bits) ELSE IsRearmed(bits)
         /\ emitted' = (sensorArmed /\ IsActive(bits))
         /\ UNCHANGED sensorInitialized

(* serviceSensorThresholdProducer.  An event that cannot be stored is not   *)
(* made again; a storage failure stops the producer until the next boot.    *)
SampleSensor(bits) ==
    /\ sensorReady /\ ValidObserved(policy, policy.threshold) /\ ValidObserved(policy, bits)
    /\ ObserveValue(bits)
    /\ sensorReady' \in IF emitted' THEN BOOLEAN ELSE {sensorReady}
    /\ nearest' = IF emitted' THEN {} ELSE Further(nearest \cup {NumericValue(bits)})
    /\ again' = (again \/ emitted')
    /\ UNCHANGED policy

(* unavailable, outside the type, or the policy or the subsystem is unusable *)
NoSensorSample ==
    /\ emitted' = FALSE
    /\ UNCHANGED <<policy, sensorInitialized, sensorArmed, sensorReady, again, nearest>>

SensorNext == NoSensorSample \/ \E bits \in Words : SampleSensor(bits)

SensorSpec == SensorInit /\ [][SensorNext]_sensorVars

-----------------------------------------------------------------------------
(* An event is made by a real crossing: since the event before it, or since *)
(* the first sample, there was a value that was not past the threshold, and *)
(* since an event before it one that had gone back by the hysteresis,       *)
(* whatever the type and the width of the values.  A device that starts     *)
(* past the threshold makes no event, and a value that hovers at it makes   *)
(* one (observe and isRearmed).                                             *)
EventsAreCrossings ==
    [][emitted' =>
         LET back == IF again THEN policy.hysteresis ELSE 0
         IN  \E v \in nearest : IF Above THEN v + back <= Threshold
                               ELSE v - back >= Threshold]_sensorVars
=============================================================================
