SPECIFICATION Spec
CONSTANTS
    Connections <- MCConnections
    MaxChannelLen = 5
    MaxViews = 2
    NoChannel = NoChannel
    NoConnection = NoConnection
INVARIANTS
    TypeOK
    RoutedToTheNamedConnection
    TerminatedForAReason
PROPERTIES
    ClosedConnectionsGetNothing
CHECK_DEADLOCK FALSE
