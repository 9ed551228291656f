SPECIFICATION FairSpec
CONSTANTS
    w1 = w1
    w2 = w2
    w3 = w3
    a = a
    b = b
    c = c
    p1 = p1
    p2 = p2
    c1 = c1
    None = None
    Workers = {w1, w2}
    Servers = {a}
    ServerId <- OneId
    Owner <- OwnerSolo
    InitialTasks <- FamilyAndLone
    Child <- FamilyAndLoneChild
    QueueCapacity = 4
    Polls = TRUE
    Impatient = FALSE
    Preemptible = FALSE
    PrintBlocks = FALSE
INVARIANTS
    WaitingIsReady
    RunningIsExecuting
    OneWakePerBlock
    TaskOfWorker
    CompletionSound
PROPERTIES
    Completes
