CONSTANTS
    Clients = {c1, c2}
    Workers = {w1}
    Stoppers = {s1, s2}
    None = None
    Commands = {"run", "stop", "write", "clear", "move", "cancel", "disable"}
    MaxRuns = 1
    MaxRows = 1
    MaxCycles = 1
    MaxLate = 1
SPECIFICATION Spec
SYMMETRY Symmetry
INVARIANTS
    TypeOK
    ForeignCommandsRunAlone
    NoRowOnceCancelled
    ConfirmedStopIsStandstill
    OutcomeIsHonest
PROPERTIES
    UnconfirmedBlocks
    ExecutionErrorRetained
