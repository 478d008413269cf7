CONSTANTS
    P1 = P1
    P2 = P2
    Folders <- MC_Folders
    NoPath = NoPath
    ApiR = TRUE
    RevokePossible = TRUE
SPECIFICATION Spec
PROPERTY LaunchesWithSavedPath
