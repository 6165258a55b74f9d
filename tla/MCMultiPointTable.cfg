CONSTANTS
    Clients = {c1}
    Workers = {w1, w2}
    Stoppers = {s1}
    None = None
    Commands = {"run", "stop", "write", "clear", "cancel"}
    MaxRuns = 2
    MaxRows = 2
    MaxCycles = 2
    MaxLate = 1
SPECIFICATION Spec
SYMMETRY Symmetry
INVARIANTS
    CompletedRowIsAtRest
    LiveThreadsAreCurrent
PROPERTIES
    CompleteMeansWhole
    ImplementsGate
