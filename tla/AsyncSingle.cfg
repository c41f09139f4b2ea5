SPECIFICATION Spec
CONSTANTS
  c1 = c1
  g1 = g1
  d1 = d1
  r1 = r1
  r2 = r2
  alice = alice
  bob = bob
  ds = ds
  ver = ver
  Gateway = {g1}
  Core = {c1}
  Data = {d1}
  Request = {r1}
  User = {alice, bob}
  NoUser = NoUser
  Dataset = {ds}
  Version = {ver}
  NoTarget = NoTarget
  NoMessage = NoMessage
  Owner <- MCOwner
  DatasetOf <- MCDatasetOf
  Shape <- MCShape
  Scenario = "create"
  Fallible = {c1,g1}
  MaxFailures = 3
SYMMETRY ReplicaSymmetry
INVARIANTS
  CoreWaitIsInFlight
  SteadyReplicasExecuteOnce
CHECK_DEADLOCK FALSE
