SPECIFICATION Spec
CONSTANTS
  ds = ds
  alice = alice
  bob = bob
  root = root
  a1 = a1
  a2 = a2
  a3 = a3
  yes = yes
  no = no
  yesByRoot = yesByRoot
  Dataset = {ds}
  User = {alice, bob, root}
  Admin = {root}
  Ask = {a1, a2}
  Decide = {}
  Owner <- MCOwner
  Actor <- MCActor
  Target <- MCTarget
  Verdict <- MCVerdict
  MaxFaults = 0
SYMMETRY AskSymmetry
CHECK_DEADLOCK FALSE
INVARIANTS
  DuplicateIsConflict
