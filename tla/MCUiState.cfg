SPECIFICATION Spec
CONSTANTS
    Devices = {"mctivity", "aux_encoder"}
    First = "mctivity"
    Aux = "aux_encoder"
    Pages = {p1, p2}
    Slots = {s1, s2}
    MaxEvents = 2
    MaxSaves = 2
    Initial <- MCInitial
    Misfits <- MCMisfits
    None = None
    Torn = Torn
    Sent = Sent
    Refused = Refused
    Bad = Bad
    Huge = 100000000
    MaxRow = 4
    PageRows = 3
    PageCycles = 4
    ServerRows = 3
    ServerCycles = 4
    Sensors <- MCSensors
    Given <- MCGiven
SYMMETRY Symmetry
INVARIANTS
    FileIsWhole
    
    SettingsReadBack
PROPERTIES
    SaveIsConfined
CHECK_DEADLOCK FALSE
