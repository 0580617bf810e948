CONSTANTS
  SyncCalls = {s1, s2}
  AsyncCalls = {a1}
  PeerReqs = {r1}
  Long = {s1}
SPECIFICATION FairSpec
INVARIANTS OwnReplyOnly NoReplyOverlooked InStep
PROPERTIES KeepsPromise CallReturns
CHECK_DEADLOCK FALSE
