SPECIFICATION Spec
CONSTANTS
    w1 = w1
    w2 = w2
    s1 = s1
    s2 = s2
    None = None
    Workers <- TwoWorkers
    Servers <- TwoServers
    Features <- NoFeatures
    Wakers <- OneServer
    EventSizes <- ThreeSlots
SYMMETRY WorkerSymmetry
CHECK_DEADLOCK FALSE
INVARIANTS
    TypeOK
    SlotIsLive
    NoServerStranded
    IdleListExact
    NoLostWakeup
    OneToken
    Undisturbed
PROPERTIES
    WakeMeansWoken
