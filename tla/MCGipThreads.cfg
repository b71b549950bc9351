SPECIFICATION Spec
CONSTANTS
    Threads <- FiveThreads
    NativeThreads <- Medium
    Written <- FiveThreads
INVARIANTS TypeOK ThreadNesting DecoderAgrees ContextKept
PROPERTIES ResumesWhatWaits RequestStable
