SPECIFICATION FairSpec
CONSTANTS
    Base = 4
    Offsets <- SomeOffsets
    MaxEntries = 1
INVARIANTS TypeOK NearNotBefore NearOnTime ReadsWhatIsThere NoOverrun
PROPERTIES CommandsFlow
