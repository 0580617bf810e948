CONSTANTS
    LastSignal = 3
    SIGALRM = 2
    NTimers = 2
    PipeCapacity = 4
    MaxRaise = 2
    MaxArm = 2
    MaxSources = 2
SPECIFICATION FairSpec
PROPERTIES
    FlaggedSignalIsDispatched
    FlaggedTimerIsDispatched
