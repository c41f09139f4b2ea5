SPECIFICATION Spec
CONSTANTS
  writer = writer
  alice = alice
  bob = bob
  reader = reader
  Instance = {writer}
  Writer = writer
  User = {alice}
  TicksPerSecond = 2
  CodeTTL = 2
  MaxAttempts = 2
  BlockDuration = 2
  TokenTTL = 3
  MaxTime = 9
  MaxChallenges = 0
  MaxTokens = 1
  MaxRestarts = 0
SYMMETRY AuthSymmetry
CHECK_DEADLOCK FALSE
INVARIANTS
  RevokedIsRefused
