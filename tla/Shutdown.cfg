SPECIFICATION FairSpec
CONSTANTS
    Capacity = 2
    MaxEvents = 4
    ListenerWatches = {"wait"}
INVARIANTS
    TypeOK
    MainInv
    TokenHasCause
    LostOnlyInShutdown
    NoInternalDeadlock
    OrderlyExit
PROPERTIES
    ServiceSafety
    ServiceEnds
    BacklogHandled
