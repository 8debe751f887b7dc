CONSTANTS
    MaxEngines = 2
    MaxDescriptor = 3
    MaxQueries = 2
SPECIFICATION Spec
INVARIANTS
    ClosesOnlyItsOwn
    NothingLeft
    TrafficUsesItsProxy
PROPERTIES
    QueriesAnswered
    GoroutinesEnd
    KeepsMobilePromise
