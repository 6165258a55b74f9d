SPECIFICATION Spec
CONSTANTS
    Devices = {a, b}
    First = a
    Stored <- MCStored
    Flows = {f1, f2}
    None = None
    MaxPresses = 3
    MaxRequests = 2
SYMMETRY Symmetry
PROPERTIES StopIsFinal RunnerShownIsItsOwn RunnerNeverGoesBack
CHECK_DEADLOCK FALSE
