CONSTANTS
  None = None
  r1 = r1
  r2 = r2
  Runs <- MCRuns2
  Argvs <- MCLadderArgvs
SPECIFICATION Spec
INVARIANTS TypeOK UpgradeMonotone UpgradeFixedPoint UpgradeNotAboveInput
CHECK_DEADLOCK FALSE
