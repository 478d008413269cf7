CONSTANTS
    Pointers <- MC_Pointers
    Keys <- MC_Keys
    MaxEvents = 2
    GuiMayToggle = TRUE
    KeyboardMayHide = FALSE
    CancelPossible = FALSE
SPECIFICATION Spec
INVARIANT NoGhostKey
