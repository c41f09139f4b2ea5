SPECIFICATION Spec
CONSTANTS
  seed = seed
  create = create
  addBad = addBad
  addPlain = addPlain
  drop = drop
  relayFirst = relayFirst
  relaySecond = relaySecond
  unlist = unlist
  Seed = {seed}
  Create = {}
  Add = {addPlain, addBad}
  Delete = {}
  Relay = {}
  Remove = {}
  Traffic <- OnlyAdds
  Target <- MCTarget
  Doomed <- MCDoomed
  Chosen <- MCChosen
  File <- MCFile
  Metadata <- MCMetadata
  MaxFaults = 0
CHECK_DEADLOCK FALSE
INVARIANTS
  SuccessKeepsFile
