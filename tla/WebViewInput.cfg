SPECIFICATION Spec
CONSTANTS
    MaxEvents = 3
    MaxInbox = 5
    MouseEvent <- MCMouseEvent
    TouchEvent <- MCTouchEvent
    KeyEvent <- MCKeyEvent
    kMobileDevices <- MCkMobileDevices
    DeviceNames <- MCDeviceNames
    MajorVersions = {"118", "119"}
    OtherPlatforms = {"iOS"}
    None = None
INVARIANTS
    TypeOK
    SyncDispatchWaits
    GuessedPlatformGivesTheSameUserAgent
PROPERTIES
    FindMobileDeviceIsAllOrNothing
