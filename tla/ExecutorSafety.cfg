SPECIFICATION Spec
CONSTANTS
    w1 = w1
    w2 = w2
    w3 = w3
    a = a
    b = b
    r = r
    p1 = p1
    p2 = p2
    c1 = c1
    None = None
    Workers <- ThreeWorkers
    Servers <- TwoServers
    Router = r
    Owner <- OwnerMixed
    BootOrder <- BootTwo
    InitialTasks <- FamilyAndLone
    Child <- FamilyAndLoneChild
    QueueCapacity = 1
    ChannelSize = 4
    EventSlots = 3
    Preemptible = FALSE
    BlockAtBoot = FALSE
    LateWorkers = FALSE
    Impatient = FALSE
INVARIANTS
    TypeOK
    WaitingIsReady
    NeverRefused
    RunningIsExecuting
    OneWakePerBlock
    PendingExact
    RunningCount
    DroppedStaysCounted
    CompletionSound
