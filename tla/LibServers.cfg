SPECIFICATION Spec
CONSTANTS
    w1 = w1
    w2 = w2
    w3 = w3
    a = a
    b = b
    c = c
    p1 = p1
    p2 = p2
    c1 = c1
    None = None
    Workers = {w1, w2, w3}
    Servers = {a, b, c}
    ServerId <- ThreeIds
    Owner <- OwnerEach
    InitialTasks <- ThreeLone
    Child <- NoChild
    QueueCapacity = 4
    Polls = FALSE
    Impatient = FALSE
    Preemptible = FALSE
    PrintBlocks = FALSE
CHECK_DEADLOCK FALSE
INVARIANTS
    WaitAccepted
