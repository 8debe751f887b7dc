CONSTANTS
    Queries <- BoundedQueries
SPECIFICATION Spec
INVARIANTS
    TypeOK
    ParsesTheFormat
    NoAddressOfIPv6
PROPERTIES
    ExchangeEnds
