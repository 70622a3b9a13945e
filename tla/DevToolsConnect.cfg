SPECIFICATION Spec
CONSTANTS
    None = None
    Root = root
    Children = {red, blue}
    SocketArg = blue
    SocketKinds <- MCSocketKinds
    MaxId = 7
    MaxSessionId = 3
    MaxViewId = 5
    NumOnConnected = 3
INVARIANTS
    TypeOK
    ExpectationsHold
PROPERTIES
    EveryAnswerFindsItsCommand
