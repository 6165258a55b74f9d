CONSTANTS
    SettleCycles = 2
    GlitchCycles = 2
    PulseCycles = 3
    HoldCycles = 2
    ResetCycles = 2
    MaxSpeed = 3
SPECIFICATION Spec
INVARIANTS
    TypeOK
    OneGenerator
    SettlingIsIdle
    LostEnableCancels
    FaultLatches
    GearBaseFresh
PROPERTIES
    StillStaysStill
