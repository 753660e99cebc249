CONSTANTS
  None = None
  r1 = r1
  r2 = r2
  Runs <- MCRuns1
  Argvs <- MCParserArgvs
SPECIFICATION Spec
INVARIANT ParsedPerSpec
CHECK_DEADLOCK FALSE
