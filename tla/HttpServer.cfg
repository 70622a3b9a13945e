SPECIFICATION Spec
CONSTANTS
    a1 = a1
    a2 = a2
    NoHeader = NoHeader
    Localhost = Localhost
    Hostname = Hostname
    Connections <- MCConnections
    Addresses <- MCAddresses
    Whitelists <- MCWhitelists
    Paths <- MCPaths
    MaxRequests = 3
INVARIANTS
    TypeOK
    EveryRequestAnsweredOnce
    WebSocketServesItsSession
CHECK_DEADLOCK FALSE
