SPECIFICATION Spec
CONSTANTS
  Names <- MCNames
  Scalars = {"string", "null"}
  MaxDepth = 3
  MaxEntries = 3
  MaxKeyBytes = 12
  Radix = 2
INVARIANTS
  TypeOK
  FramesDescribeOpenContainers
  LimitsAreExact
  CountsCoverEntries
  EntriesAreTheLeavesInOrder
CHECK_DEADLOCK FALSE
