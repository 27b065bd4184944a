SPECIFICATION Spec
CONSTANTS
  NoRow = NoRow
  NoPicture = NoPicture
  Nobody = Nobody
  Requests = {r1, r2, r3}
  Alice = alice
  AliceEmail = alice_at_home
  AliceName = ally
  Emails = {alice_at_home, bob_at_home}
  Names = {ally, bobby}
  Passwords = {old, new}
  OldPassword = old
  OldReset = reset0
  OldVerify = verify0
  MaxResets = 1
  MaxFaults = 1
SYMMETRY Exchangeable
INVARIANTS
  IdentitiesUnique
  ChangesLostOnlyByOverlap
  TokenReusedOnlyByOverlap
  ResetLimitHolds
  AvatarKept
CHECK_DEADLOCK FALSE
