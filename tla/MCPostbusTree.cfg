SPECIFICATION FairSpec
CONSTANTS
    Sources <- SomeSources
    Targets <- SomeTargets
    Lengths <- SomeLengths
    Pauses = FALSE
    IoSources <- SomeIoSources
    LateTargets = FALSE
INVARIANTS TypeOK TargetFollows
PROPERTIES ImplementsFabric PacketsTaken
