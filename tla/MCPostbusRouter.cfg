SPECIFICATION FairSpec
CONSTANTS
    Sources <- SomeSources
    Targets <- SomeTargets
    Lengths <- MultiWord
    Pauses = TRUE
    IoSources <- SomeIoSources
    LateTargets = FALSE
INVARIANTS TypeOK RouteHeld
PROPERTIES ImplementsFabric PacketsTaken
