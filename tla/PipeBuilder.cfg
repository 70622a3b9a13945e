SPECIFICATION Spec
CONSTANTS
    MaxFds = 8
    MaxSetUps = 3
    MaxRemap = 4
    Invalid = Invalid
INVARIANTS
    EveryDescriptorHasOneHolder
    ChildIsWired
    DriverSeesChildExit
