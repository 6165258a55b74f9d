CONSTANTS
    Clients = {c1, c2}
    Workers = {w1}
    Stoppers = {s1}
    None = None
    Commands = {"run", "stop", "disable"}
    MaxRuns = 1
    MaxRows = 1
    MaxCycles = 1
    MaxLate = 0
    MaxRequests = 3
SPECIFICATION LiveSpec
PROPERTIES
    CancellationResolves
    CancelledRunEnds
    ConfirmedStopReopens
    RequestsAnswered
    RunsEnd
