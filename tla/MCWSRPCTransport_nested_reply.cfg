CONSTANTS
  SyncCalls = {s1, s2}
  AsyncCalls = {}
  PeerReqs = {r1}
  Long = {}
SPECIFICATION Spec
INVARIANT CompletedCallReturnsReply
CHECK_DEADLOCK FALSE
