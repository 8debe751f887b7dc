CONSTANTS
    OS = "windows"
    N = 3
    LivesOn <- WindowsLivesOn
    OnDevice <- AllSettings
SPECIFICATION FairSpec
INVARIANTS
    ConnectedMeansInstalled
    DeviceSettingsGone
PROPERTIES
    NothingAfterStop
    CancelReturns
