SPECIFICATION Spec
CONSTANTS
    browser = browser
    page = page
    None = None
    Clients <- MCClients
    Root = browser
    listeners_ <- MCListeners
    EventKinds <- MCEventKinds
    MaxCommands = 2
    MaxEvents = 1
INVARIANTS
    TypeOK
    ListenersHearInOrder
    OverrideSurvivesNavigation
PROPERTIES
    ImplementsCommandRpc
    BlockedByItsAlert
    EveryCallReturns
