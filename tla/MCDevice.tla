------------------------------ MODULE MCDevice ------------------------------
(***************************************************************************)
(* What a device does for its host and for the user in front of it, for     *)
(* TLC.  The host: the bytes of its frames (HostFraming), the requests and  *)
(* answers (HostLink), the operations they stand for (Capabilities).  The   *)
(* user: the button (ButtonInput), the interface it works (DeviceUi).  The  *)
(* sensor: its events (SensorThreshold).  A behaviour is one of a single    *)
(* part, so that their states add up.                                       *)
(*                                                                         *)
(* The frames: two HELLO_REQUESTs, of which one asks for minors the device  *)
(* does not have, an OPERATION_REQUEST whose identifier and payload put     *)
(* zeros in the frame, and one with flags.  The registries: the board's     *)
(* three descriptors, one longer than a page with a signed reading, an      *)
(* empty one and one that is not valid.  The interface has HOME and one     *)
(* live screen that produces events, and two of the settings.               *)
(***************************************************************************)
EXTENDS HostLink, HostFraming, Capabilities, DeviceUi, ButtonInput, SensorThreshold

VARIABLE part

MCFrame(minor, type, flags, id, payload) ==
    [major |-> 0, minor |-> minor, type |-> type, flags |-> flags, id |-> id,
     payload |-> payload]

MCFrames ==
    {MCFrame(2, HelloRequest, 0, 1, <<1, 2>>), MCFrame(2, HelloRequest, 0, 257, <<3, 4>>),
     MCFrame(1, OperationRequest, 0, 256, <<0>>), MCFrame(3, 17, 1, 2, <<>>)}

MCNoise == {0, 1, 3, 12, 255}

Descriptor(id, class, flags, type, min, max, safety) ==
    [id |-> id, class |-> class, flags |-> flags, type |-> type, min |-> min, max |-> max,
     safety |-> safety, known |-> TRUE]

MCIndicator == Descriptor(Indicator, "INDICATOR_OUTPUT", {"DESCRIBE", "READ", "SET"},
                          "BOOLEAN", 0, 1, "MUTATING_INTERLOCK")
MCDigital == Descriptor(Digital, "DIGITAL_INPUT", {"DESCRIBE", "READ"}, "BOOLEAN", 0, 1, "NONE")
MCAnalog == Descriptor(Analog, "ANALOG_INPUT", {"DESCRIBE", "READ"},
                       "NORMALIZED_U16", 0, NarrowRange - 1, "NONE")
MCRelay == Descriptor(4, "RELAY_OUTPUT", {"DESCRIBE"}, "NONE", 0, 0, "NONE")

(* Readings from -1 to 1 *)
MCSensor == Descriptor(5, "SENSOR", {"DESCRIBE", "READ"}, "SIGNED_32",
                       2 * HalfRange - 1, 1, "NONE")

MCBoard == <<MCIndicator, MCDigital, MCAnalog>>
MCRegistries == {MCBoard, MCBoard \o <<MCRelay, MCSensor>>, <<MCIndicator, MCSensor>>, <<>>,
                 <<MCIndicator, MCIndicator>>}

MCServiceRequests ==
    {Operation(op, 0, v) : op \in Lists, v \in {NoValue, Value("BOOLEAN", 1), Value("UNSIGNED_32", 2),
                                              Value("UNSIGNED_32", 6)}}
    \cup {Operation(op, t, NoValue) : op \in {"PING", "GET_STATUS", "GET_DEVICE_INFO"}, t \in 0 .. 1}
    \cup {Operation(op, t, NoValue) : op \in {"DESCRIBE_CAPABILITY", "RUN_PROCEDURE"},
                                    t \in {0, 1, 5, 6}}
    \cup {Operation(op, t, Value("BOOLEAN", 1)) : op \in {"READ_CAPABILITY", "SET_INDICATOR"},
                                                t \in {0, 5}}

MCDispatchRequests ==
    {Operation("READ_CAPABILITY", t, NoValue) : t \in {1, 2, 5, 6}}
    \cup {Operation("SET_INDICATOR", t, Value("BOOLEAN", b)) : t \in {1, 5}, b \in 0 .. 2}

MCTraffics == {MCServiceRequests, MCDispatchRequests}

(* Answers no handler should give, and the ones the board's never gives *)
MCOtherAnswers ==
    {Failed("BUSY"), Failed("UNAUTHORIZED"), Result("BUSY", Value("BOOLEAN", 1)),
     Result("OK", NoValue), Result("OK", Value("SIGNED_32", 2)),
     Result("OK", Value("SIGNED_32", 2 * HalfRange - 1))}

MCScreens == <<"HOME", "RADIO">>
MCProducerScreens == {"RADIO"}
MCLiveScreens == {"RADIO"}
MCFields == <<"DISPLAY_TIMEOUT", "DEFAULT_SCREEN">>
MCPresets == [DISPLAY_TIMEOUT |-> <<0, 15>>, DEFAULT_SCREEN |-> <<1>>]
MCDefaults == [DISPLAY_TIMEOUT |-> 15, DEFAULT_SCREEN |-> 1]

MCPolicy == [type |-> "NARROW", threshold |-> 0, hysteresis |-> 0,
             relation |-> "CROSSED_ABOVE"]

MCInit ==
    /\ part \in {"LINK", "FRAMING", "OPERATIONS", "UI", "BUTTON", "SENSOR"}
    /\ part # "OPERATIONS" =>
           build = "HOST" /\ registry = MCBoard /\ traffic = MCServiceRequests
    /\ part # "SENSOR" => policy = MCPolicy
    /\ LinkInit /\ FramingInit /\ CapabilityInit /\ UiInit /\ ButtonInit /\ SensorInit

hostVars == <<linkVars, framingVars, capabilityVars>>
userVars == <<uiVars, buttonVars, sensorVars>>

MCNext ==
    /\ UNCHANGED part
    /\ \/ /\ UNCHANGED userVars
          /\ \/ part = "LINK" /\ LinkNext /\ UNCHANGED <<framingVars, capabilityVars>>
             \/ part = "FRAMING" /\ FramingNext /\ UNCHANGED <<linkVars, capabilityVars>>
             \/ part = "OPERATIONS" /\ CapabilityNext /\ UNCHANGED <<linkVars, framingVars>>
       \/ /\ UNCHANGED hostVars
          /\ \/ part = "UI" /\ UiNext /\ UNCHANGED <<buttonVars, sensorVars>>
             \/ part = "BUTTON" /\ ButtonNext /\ UNCHANGED <<uiVars, sensorVars>>
             \/ part = "SENSOR" /\ SensorNext /\ UNCHANGED <<uiVars, buttonVars>>

MCSpec == MCInit /\ [][MCNext]_<<part, hostVars, userVars>>
=============================================================================
