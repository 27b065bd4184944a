SPECIFICATION Spec
CONSTANTS
  Requests = {r1, r2, r3}
  Alice = alice
  Bob = bob
  OldToken = token0
  NoToken = NoToken
  OldCopy = original
  Untitled = untitled
  PendingMax = 1
  MaxSyncs = 2
  MaxFaults = 1
SYMMETRY Exchangeable
INVARIANTS
  StateConnectsOnce
  ReconnectedOnlyByOverlap
  
PROPERTIES
  PendingLogins
CHECK_DEADLOCK FALSE
