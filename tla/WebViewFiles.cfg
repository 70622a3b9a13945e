SPECIFICATION Spec
CONSTANTS
    p1 = p1
    p2 = p2
    Relative = Relative
    None = None
    Paths <- MCPaths
    MaxFiles = 2
    MaxObjects = 6
    MaxNavigations = 1
    MaxSeen = 2
INVARIANTS
    GuardedObjectIsReleased
    AppendKeepsOldFiles
