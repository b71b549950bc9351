SPECIFICATION Spec
CONSTANTS
    Sources <- SomeSources
    Targets <- SomeTargets
    Lengths <- SomeLengths
    Pauses = TRUE
    IoSources <- SomeIoSources
    LateTargets = FALSE
PROPERTIES AcknowledgedIsKept
