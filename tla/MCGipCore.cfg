SPECIFICATION CoreSpec
CONSTANTS
    Reg <- MCReg
    WordSize = 8
    Offered = {}
    MaxIdle = 6
    Programs <- MCPrograms
INVARIANTS
    InOrder
    PcWrittenWhenEmpty
    KeepsCompleting
