SPECIFICATION Spec
CONSTANTS
    w1 = w1
    w2 = w2
    s1 = s1
    s2 = s2
    None = None
    Workers <- TwoWorkers
    Servers <- OneServer
    Features <- AllFeatures
    Wakers <- NoWakers
    EventSizes <- TwoOrThreeSlots
SYMMETRY Symmetry
CHECK_DEADLOCK FALSE
INVARIANTS
    NoServerStranded
    IdleListExact
    ReadyIsSwitchable
    TimeoutReported
    TimerOnlyWhileParked
    BufferFits
