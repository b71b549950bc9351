SPECIFICATION FairSpec
CONSTANTS
    Threads <- OneEach
    NativeThreads <- None
    Written <- None
PROPERTIES RoundRobinServes HighestServed PreemptedResumes
