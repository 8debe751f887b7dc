CONSTANTS
    MaxIntents = 4
    MaxInstances = 3
    HastyIntents = 4
    HastyInstances = 3
    DeepLinks = FALSE
    Revocations = FALSE
SPECIFICATION Spec
INVARIANTS
    RedMeansStopped
