CONSTANTS
    MaxIntents = 5
    MaxInstances = 3
    HastyIntents = 4
    HastyInstances = 2
    DeepLinks = TRUE
    Revocations = TRUE
SPECIFICATION Spec
INVARIANTS
    EngineIsOwned
    LampTellsTruth
    DescriptorsOwned
PROPERTIES
    AmberEnds
