SPECIFICATION MCSpec
CONSTANTS
    Events = {1}
    MaxRequests = 3
    MaxWrites = 4
    MaxOthers = 1
    Capacity = 2
    MaxPayload = 2
    Frames <- MCFrames
    Noise <- MCNoise
    CounterLimit = 2
    MaxFrames = 3
    MaxFaults = 1
    Registries <- MCRegistries
    Traffics <- MCTraffics
    OtherAnswers <- MCOtherAnswers
    HalfRange = 4
    NarrowRange = 4
    MaxEntries = 2
    MetricCount = 3
    MetricEntries = 2
    TallyLimit = 1
    MaxOperations = 2
    Screens <- MCScreens
    ProducerScreens <- MCProducerScreens
    LiveScreens <- MCLiveScreens
    Fields <- MCFields
    Presets <- MCPresets
    Defaults <- MCDefaults
    Debounce = 2
    LongPress = 5
    VeryLongPress = 8
    MaxGap = 9
INVARIANTS
    RequestRunsOnce
    AnswersAreResults
    OnlySentFrames
    EveryAnswerEncodes
    PanelIsCurrent
PROPERTIES
    OutputChangesOnlyLocally
    GesturesDoOneThing
    ImplementsGestures
    EventsAreCrossings
CHECK_DEADLOCK FALSE
