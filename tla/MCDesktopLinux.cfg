CONSTANTS
    OS = "linux"
    N = 8
    LivesOn <- LinuxLivesOn
    OnDevice <- NoSetting
SPECIFICATION FairSpec
INVARIANTS
    RestoredOnReturn
    UndoFindsSetting
    OneOrphanOnCancel
PROPERTIES
    RollbackEnds
    PromiseSpec
