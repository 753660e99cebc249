CONSTANTS
  None = None
  Parse <- parse_major_minor_patch
  Strings <- MCStrings
  EmptyLine <- MCEmptyLine
  TagV1_0_20 <- MCTagV1_0_20
  TagV1_1_1 <- MCTagV1_1_1
  Argvs <- MCArgvs
  Listings <- MCListings
  GitFaults <- MCAllFaults
SPECIFICATION Spec
PROPERTY MCRefines
CHECK_DEADLOCK FALSE
