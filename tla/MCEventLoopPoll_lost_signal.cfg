CONSTANTS
    LastSignal = 2
    SIGALRM = 2
    NTimers = 1
    PipeCapacity = 4
    MaxRaise = 2
    MaxArm = 0
    MaxSources = 2
SPECIFICATION FairSpec
PROPERTY EverySignalIsDispatched
