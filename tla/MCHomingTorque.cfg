CONSTANTS
    Scale = 2
    Speeds = {1, 3}
    Decels = {0}
    Offsets <- BackoffOffsets
    Wall = 2
    MaxDistance = 2
    TimeoutCycles = 2
    HoldCycles = 2
    GlitchCycles = 1
    MaxCommands = 2
    MaxUnready = 2
SPECIFICATION Spec
INVARIANTS
    SustainedTorque
