\* Bodies of up to 8 characters, two more than the size limit: three brackets,
\* strings and escapes between.
SPECIFICATION BodySpec
CONSTANTS
  MaxNesting = 2
  MaxLength = 8
  MaxBodySize = 6
INVARIANTS
  BodyTypeOK
  ParsedIsGuarded
  RepliesAgree
  KeepsWithinLimit
\* The body ends.
CHECK_DEADLOCK FALSE
