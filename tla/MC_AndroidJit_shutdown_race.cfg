CONSTANTS
    Threads <- MC_Threads
    FdIds = {f1, f2, f3}
    NoFd = NoFd
    AddrTop = 9
    PAGE = 2
    SizeBits = 3
    Sizes <- MC_Sizes
    OsMayFail = FALSE

SPECIFICATION Spec

PROPERTY RefinesJitRegistry
