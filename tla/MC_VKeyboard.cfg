CONSTANTS
    Pointers <- MC_Pointers
    Keys <- MC_Keys
    MaxEvents = 1
    GuiMayToggle = TRUE
    KeyboardMayHide = TRUE
    CancelPossible = TRUE
SPECIFICATION Spec
INVARIANT TypeOK
