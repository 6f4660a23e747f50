SPECIFICATION Spec
CONSTANTS
  Networks <- MCNetworks
  MaxDifficulty <- MCMaxDifficulty
  Limit = 64
  Compact <- MCCompact
  TARGET_SPACING_SECONDS = 1
  RETARGETING_INTERVAL = 3
  RETARGETING_FACTOR = 3
  BLOCK_MAX_FUTURE = 1
  MaxTime = 5
  MaxLevel = 5
  MaxImports = 1
INVARIANTS
  PreparedIsAccepted
  PeriodHasOneTarget
  RetargetIsBounded
