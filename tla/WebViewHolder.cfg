SPECIFICATION Spec
CONSTANTS
    page = page
    other = other
    frame = frame
    inner = inner
    NoView = NoView
    Views <- MCViews
    Parent <- MCParent
    NonBlocking <- MCNonBlocking
    MaxNesting = 3
INVARIANTS
    TypeOK
    HeldViewsAreAlive
    HeldViewsAreLocked
    ParentsOfLockedAreLocked
    IdleViewsAreReleased
