SPECIFICATION Spec
CONSTANTS
  NoRow = NoRow
  Nobody = Nobody
  MaxImages = 1
  Requests = {r1, r2, r3}
  Users = {alice, bob}
  Owner = alice
  Uids = {e1}
  Initial = {e1}
  Tasks = {t1}
  MaxFaults = 1
SYMMETRY Exchangeable
INVARIANTS
  AcceptedImagesStay
  ImagesAgree
  NothingComesBack
  ReimportAddsNothing
  LostOnlyByOverlap
PROPERTY
  ImplementsImageStore
  OwnersRowsOnly
CHECK_DEADLOCK FALSE
