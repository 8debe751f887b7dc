CONSTANTS
    Interfaces <- TwoInterfaces
    GatewayOf <- Gateways
    s1 = s1
    s2 = s2
    Worlds <- AloneOrTwo
SPECIFICATION Spec
INVARIANTS
    HostRestored
    FullTunnel
    SocksReachable
    TunIsALock
PROPERTIES
    SettingsAreSteps
    KilledRunFreezesHost
