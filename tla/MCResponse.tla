----------------------------- MODULE MCResponse -----------------------------
(***************************************************************************)
(* A device responds, for TLC: the host's requests are answered (HostLink)  *)
(* and the display follows its user (DeviceUi).  A behaviour is one of a    *)
(* single part, so that their states add up; the other rests, and nothing   *)
(* of it is enabled that fairness would ask for.                            *)
(***************************************************************************)
EXTENDS HostLink, DeviceUi

VARIABLE part

MCScreens == <<"HOME", "RADIO">>
MCProducerScreens == {"RADIO"}
MCLiveScreens == {"RADIO"}
MCFields == <<"DISPLAY_TIMEOUT", "DEFAULT_SCREEN">>
MCPresets == [DISPLAY_TIMEOUT |-> <<15>>, DEFAULT_SCREEN |-> <<1>>]
MCDefaults == [DISPLAY_TIMEOUT |-> 15, DEFAULT_SCREEN |-> 1]

(* The interface at rest: the display is off and the loop stands *)
MCUiRests ==
    /\ GestureInit
    /\ ui = Sleep(Controller) /\ producer = Producer /\ queue = EmptyQueue(Defaults)
    /\ pc = "NONE" /\ ready = TRUE
    /\ lit = FALSE /\ fresh = FALSE /\ gesture = NoGesture

MCInit ==
    /\ part \in {"LINK", "UI"}
    /\ LinkInit
    /\ IF part = "UI" THEN UiInit ELSE MCUiRests

MCNext ==
    \/ part = "LINK" /\ LinkNext /\ UNCHANGED <<part, uiVars>>
    \/ part = "UI" /\ UiNext /\ UNCHANGED <<part, linkVars>>

MCSpec == MCInit /\ [][MCNext]_<<part, linkVars, uiVars>> /\ LinkFairness /\ UiFairness
=============================================================================
