CONSTANTS
    OS = "linux"
    N = 8
    LivesOn <- LinuxLivesOn
    OnDevice <- NoSetting
SPECIFICATION Spec
INVARIANTS
    CompleteRollback
