SPECIFICATION MCSpec
CONSTANTS
    TxFifos = {t0}
    CmdFifos = {c0}
    MaxSizeMOne = 3
    Words = {a, b}
SYMMETRY WordSymmetry
INVARIANTS TypeOK PointersInOrder FlagsAgree
PROPERTIES UncommittedNeverOverwritten ImplementsCommitFifo
