SPECIFICATION EchoFairSpec
CONSTANTS
    w1 = w1
    w2 = w2
    w3 = w3
    a = a
    r = r
    t1 = t1
    q1 = q1
    q2 = q2
    None = None
    Workers = {w1, w2, w3}
    Servers = {a, r}
    Router = r
    Owner <- OwnerThree
    BootOrder <- BootOne
    InitialTasks <- OneAcceptor
    Child <- OneAcceptorTasks
    Clients <- TwoClients
    AcceptErrors = TRUE
    QueueCapacity = 4
    ChannelSize = 4
    EventSlots = 3
    Preemptible = FALSE
    BlockAtBoot = FALSE
    LateWorkers = FALSE
    Impatient = FALSE
INVARIANTS
    OneHandler
    ConnectionsCounted
PROPERTIES
    Served
