CONSTANTS
    MaxRuns = 2
    MaxQueue = 3
SPECIFICATION Spec
INVARIANTS
    ExitLeavesNoRun
