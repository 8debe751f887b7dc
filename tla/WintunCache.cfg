CONSTANTS
    Processes = {cli, gui}
    MaxFaults = 2
SPECIFICATION Spec
INVARIANTS
    LoadedIsVerified
    NeverTorn
