CONSTANTS
    Pointers <- MC_OnePointer
    Keys <- MC_Keys
    MaxEvents = 2
    GuiMayToggle = FALSE
    KeyboardMayHide = TRUE
    CancelPossible = FALSE
SPECIFICATION Spec
INVARIANT HiddenKeyboardHoldsNothing
