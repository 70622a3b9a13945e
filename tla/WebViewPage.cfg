SPECIFICATION PageSpec
CONSTANTS
    v1 = v1
    v2 = v2
    f1 = f1
    None = None
    Values <- MCValues
    FrameIds <- MCFrameIds
    MaxEntries = 3
    MaxDepth = 2
INVARIANTS
    PageTypeOK
    TrackerFollowsSession
PROPERTIES
    ResultBeatsDeadline
    CallWithDeadlineReturns
    TraverseHonoursDelta
