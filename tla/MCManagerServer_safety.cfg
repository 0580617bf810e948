\* Three clients for two descriptors: accept() fails, descriptors are reused.
\* Two messages: of one client, or of two.
CONSTANTS
    Client = {c1, c2, c3}
    None = None
    FD = {5, 6}
    ListenFD = 4
    MaxMsgs = 2
SYMMETRY Symmetry
SPECIFICATION Spec
INVARIANTS
    DescriptorsAgree
    ReportedEventIsTrue
    FramingInStep
    EveryCallAccountedFor
