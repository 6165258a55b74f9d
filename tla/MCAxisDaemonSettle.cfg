CONSTANTS
    SettleCycles = 2
    GlitchCycles = 1
    PulseCycles = 2
    HoldCycles = 1
    ResetCycles = 1
    MaxSpeed = 2
SPECIFICATION Spec
INVARIANTS
    SettledBeforeMotion
