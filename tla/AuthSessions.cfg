SPECIFICATION Spec
CONSTANTS
  writer = writer
  alice = alice
  bob = bob
  reader = reader
  Instance = {writer, reader}
  Writer = writer
  User = {alice}
  TicksPerSecond = 2
  CodeTTL = 3
  MaxAttempts = 2
  BlockDuration = 2
  TokenTTL = 3
  MaxTime = 6
  MaxChallenges = 2
  MaxTokens = 2
  MaxRestarts = 1
SYMMETRY AuthSymmetry
CHECK_DEADLOCK FALSE
INVARIANTS
  TypeOK
  CodeLogsInOnce
  WrongCodesArePaidFor
  
  TokenLivesItsTTL
  RevocationHoldsHere
PROPERTIES
  LockoutHolds
