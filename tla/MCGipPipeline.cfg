SPECIFICATION Spec
CONSTANTS
    Reg <- MCReg
    WordSize = 2
    Offered <- MCOffered
INVARIANTS
    OperandsFresh
    RegistersAgree
    MemoryAgrees
    BlockedOnce
