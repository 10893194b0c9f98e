SPECIFICATION MCSpec
CONSTANTS
    Events = {}
    MaxRequests = 2
    MaxWrites = 3
    MaxOthers = 1
    Capacity = 2
    Screens <- MCScreens
    ProducerScreens <- MCProducerScreens
    LiveScreens <- MCLiveScreens
    Fields <- MCFields
    Presets <- MCPresets
    Defaults <- MCDefaults
PROPERTIES
    
    DisplaySettles
