SPECIFICATION FairSpec
CONSTANTS
    Endpoints = {e1, e2}
    Window = 2
    BackoffInit = 500
    MaxBackoff = 1000
    BroadcastCap = 1
    MaxBlock = 3
    MaxAccepts = 5
INVARIANTS
    TypeOK
    NoRepeatInWindow
    RingIsRecent
    SeenMatchesRing
    SeenIsForwarded
PROPERTIES
    EndpointRecovers
    AcceptedIsConsumed
    ImplementsFeed
