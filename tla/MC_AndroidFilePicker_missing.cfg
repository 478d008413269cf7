\* The deployed SDLActivity lacks showFilePicker; no other JNI failure.
CONSTANTS
    Present <- MC_NoFilePicker
    OomPossible = FALSE
    FindClassMayFail = FALSE
SPECIFICATION Spec
INVARIANT NoJniAbort
