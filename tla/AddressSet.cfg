SPECIFICATION SetSpec
CONSTANTS
    Addr = {a1, a2, a3, a4}
    ZeroAddr = ZeroAddr
    U64Max = 7
    Env = {"stale_remove"}
INVARIANTS SizeBacked
