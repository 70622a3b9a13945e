SPECIFICATION Spec
CONSTANTS
    c1 = c1
    c2 = c2
    Connections <- MCConnections
    ResponseIds <- MCResponseIds
    kBidiQueueCapacity = 2
    MaxPayloads = 4
SYMMETRY Symmetry
INVARIANTS
    TypeOK
    AwaitedResponseIsOutstanding
PROPERTIES
    ImplementsMailbox
