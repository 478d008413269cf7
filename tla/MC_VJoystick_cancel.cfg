CONSTANTS
    Pointers <- MC_Pointers
    Pos <- MC_Pos
    MaxEvents = 2
    MIN_SCALE = 5
    MAX_SCALE = 20
    SCALE_STEP = 1
    DEFAULT_SCALE = 10
    CancelPossible = TRUE
SPECIFICATION Spec
INVARIANT HeldInputHasFinger
