SPECIFICATION FairSpec
CONSTANTS
  c1 = c1
  c2 = c2
  d1 = d1
  d2 = d2
  g1 = g1
  r1 = r1
  r2 = r2
  alice = alice
  bob = bob
  ds = ds
  ver = ver
  Gateway = {g1}
  Core = {c1,c2}
  Data = {d1,d2}
  Request = {r1}
  User = {alice, bob}
  NoUser = NoUser
  Dataset = {ds}
  Version = {ver}
  NoTarget = NoTarget
  NoMessage = NoMessage
  Owner <- MCOwner
  DatasetOf <- MCDatasetOf
  Shape <- MCShape
  Scenario = "insert"
  Fallible = {c2,d2}
  MaxFailures = 1
INVARIANTS
  TypeOK
  OkMeansExecuted
  RedeliveredRequestIsNew
  FailuresPayForRepeats
PROPERTIES
  EventuallyDrained
CHECK_DEADLOCK FALSE
