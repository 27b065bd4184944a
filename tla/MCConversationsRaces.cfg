SPECIFICATION Spec
CONSTANTS
  Requests = {r1, r2}
  Alice = alice
  Bob = bob
  OldTalk = talk0
  OldAuthor = author0
  Absent = Absent
  NoAction = NoAction
  RateLimit = 1
  MaxProposals = 2
  MaxFaults = 2
SYMMETRY Exchangeable
INVARIANTS
  DeletedIsGone
  OwnProposalOffered
  LimiterSound
CHECK_DEADLOCK FALSE
