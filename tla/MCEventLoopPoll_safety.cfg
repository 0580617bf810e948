CONSTANTS
    LastSignal = 2
    SIGALRM = 2
    NTimers = 1
    PipeCapacity = 4
    MaxRaise = 2
    MaxArm = 3
    MaxSources = 2
SPECIFICATION Spec
INVARIANTS
    TypeOK
    NoSpuriousDispatch
    DeliveryStaysRecorded
    LiveTimerIdsUnique
    FiredIsOwnExpiry
    FlaggedTimerIsAnnounced
PROPERTY TimerEventOnlyAfterExpiry
