------------------------------ MODULE Gestures ------------------------------
(***************************************************************************)
(* What the application button promises its users (device_input.h): a       *)
(* gesture begins with PRESS and ends with RELEASE.  In between it becomes  *)
(* LONG_PRESS and then VERY_LONG_PRESS, each at most once.  A gesture that  *)
(* became neither ends with SHORT_PRESS after its RELEASE.  A sample of the *)
(* pin reports at most two events, in order.                                *)
(***************************************************************************)
EXTENDS Sequences

VARIABLES held,      \* what the gesture has become
          events     \* ButtonEvents of the last sample

gestureVars == <<held, events>>

GestureInit == held = "UP" /\ events = << >>

Quiet   == events' = << >> /\ UNCHANGED held
Press   == held = "UP" /\ held' = "DOWN" /\ events' = <<"PRESS">>
Lengthen ==
    \/ held = "DOWN" /\ held' = "LONG" /\ events' = <<"LONG_PRESS">>
    \/ held = "LONG" /\ held' = "VERY_LONG" /\ events' = <<"VERY_LONG_PRESS">>
    \/ held = "DOWN" /\ held' = "VERY_LONG" /\ events' = <<"LONG_PRESS", "VERY_LONG_PRESS">>
Release ==
    /\ held # "UP" /\ held' = "UP"
    /\ events' = IF held = "DOWN" THEN <<"RELEASE", "SHORT_PRESS">> ELSE <<"RELEASE">>

GestureNext == Quiet \/ Press \/ Lengthen \/ Release

GestureSpec == GestureInit /\ [][GestureNext]_gestureVars
=============================================================================
