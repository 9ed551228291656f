SPECIFICATION FairSpec
CONSTANTS
    Workers = {"perf", "blocking", "dummy", "handover", "preempted", "exiting", "a", "b", "c"}
    Servers = {"main", "helper"}
    None = None
    Tests <- SuiteOrDemo
CHECK_DEADLOCK FALSE
INVARIANTS
    AssertionsHold
    LeavesNothing
PROPERTIES
    TestsFinish
