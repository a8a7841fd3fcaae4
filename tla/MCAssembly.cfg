CONSTANTS
  N <- Four
  Name <- TwoAlike
  Rest <- OneElsewhere
SPECIFICATION MCFairSpec
CHECK_DEADLOCK FALSE
INVARIANTS ReplacedIsWhole OriginalKept ChunksOutliveUsers
PROPERTIES AssemblyReturns
