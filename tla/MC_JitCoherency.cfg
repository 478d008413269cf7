CONSTANTS
    Threads <- MC_OneThread
    FdIds = {f1, f2, f3}
    NoFd = NoFd
    AddrTop = 9
    PAGE = 2
    SizeBits = 3
    Sizes <- MC_Sizes
    OsMayFail = TRUE
    Code <- MC_Code
    InsnLen = 2

SPECIFICATION SystemSpec

INVARIANT ExecutesWrittenCode
PROPERTY RefinesJitRegistry
