CONSTANTS
    MaxRuns = 2
    MaxQueue = 2
SPECIFICATION Spec
INVARIANTS
    OneRunThatStops
    LampFollowsPatientUser
    PairIsLatest
    WindowIsOfLatestRun
PROPERTIES
    CloseIsGranted
