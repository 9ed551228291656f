SPECIFICATION Spec
CONSTANTS
    Workers = {"timeout"}
    Servers = {"main"}
    None = None
    Tests <- TimeoutAlone
INVARIANTS
    AssertionsHold
