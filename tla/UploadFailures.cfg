SPECIFICATION Spec
CONSTANTS
  seed = seed
  create = create
  addBad = addBad
  addPlain = addPlain
  drop = drop
  relayFirst = relayFirst
  relaySecond = relaySecond
  unlist = unlist
  Seed = {seed}
  Create = {create}
  Add = {addBad, addPlain}
  Delete = {drop}
  Relay = {relayFirst, relaySecond}
  Remove = {unlist}
  Traffic <- MCTraffic
  Target <- MCTarget
  Doomed <- MCDoomed
  Chosen <- MCChosen
  File <- MCFile
  Metadata <- MCMetadata
  MaxFaults = 3
CHECK_DEADLOCK FALSE
INVARIANTS
  TypeOK
  
  
  NumbersFollowDates
  StrayFileHasAReason
  FailureLeavesNothing
