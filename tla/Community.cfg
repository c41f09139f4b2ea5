\* The synchronous API under twenty-four mixes of three to six requests.
CONSTANTS
  User <- MCUser
  Category <- MCCategory
  Dataset <- MCDataset
  Review <- MCReview
  Email <- MCEmail
  Text <- MCText
  Poster <- MCPoster
  NoRow = NoRow
  Op <- MCOp
  Request <- MCRequest
  Traffic <- MCTraffic
  Seed <- MCSeed
  IdWidth = 6
  MaxFaults = 1
  Nobody = Nobody
  t1 = t1
  t2 = t2
  t3 = t3
  past = past
SPECIFICATION Spec
\* Every request is answered, and then nothing is left to do.
CHECK_DEADLOCK FALSE
INVARIANTS
  TypeOK
  FanOutReachesSubscribers
  FanOutBreaksForACause
  DuplicateRegistrationIsConflict
  ShownWasReadable
PROPERTIES
  SubscriptionsKeepContract
  OverwrittenOnlyByOverlap
  ConflictIsReal
