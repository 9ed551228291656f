SPECIFICATION FairSpec
CONSTANTS
    w1 = w1
    w2 = w2
    w3 = w3
    a = a
    b = b
    r = r
    p1 = p1
    p2 = p2
    c1 = c1
    None = None
    Workers <- TwoWorkers
    Servers <- TwoServers
    Router = r
    Owner <- OwnerPair
    BootOrder <- BootTwo
    InitialTasks <- FamilyAndLone
    Child <- FamilyAndLoneChild
    QueueCapacity = 4
    ChannelSize = 4
    EventSlots = 3
    Preemptible = FALSE
    BlockAtBoot = FALSE
    LateWorkers = TRUE
    Impatient = FALSE
CHECK_DEADLOCK FALSE
PROPERTIES
    Completes
