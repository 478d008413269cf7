CONSTANTS
    Present <- MC_AllPresent
    OomPossible = TRUE
    FindClassMayFail = TRUE
SPECIFICATION Spec
INVARIANT NoLocalRefLeak
