CONSTANTS
    Client = {c1, c2}
    None = None
    FD = {5, 6}
    ListenFD = 4
    MaxMsgs = 2
SPECIFICATION FairSpec
PROPERTIES
    CallIsAnswered
    ClosedClientIsDropped
    InterruptStops
