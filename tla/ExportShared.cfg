\* Two exports with every option; everything that can fail does, and each can
\* be killed at any point.
SPECIFICATION FairSpec
CONSTANTS
  dev = dev
  prod = prod
  solo = solo
  shared = shared
  own = own
  f1 = f1
  f2 = f2
  f3 = f3
  File = {f1, f2, f3}
  Ident = {shared, own}
  Torn = Torn
  NoFile = NoFile
  NoOwner = NoOwner
  Broken = Broken
  Env <- MCEnv
  IdentOf <- MCIdentOf
  Rev <- MCRev
  Content <- MCContent
  Projects <- AllProjects
  Options <- AllOptions
  Faults = {"evaluate", "serialize", "write", "delete", "index", "crash"}
  Parallelism = 2
  ChunkSize = 2
  MaxRuns = 2
  MaxSlots = 3
INVARIANT TypeOK
INVARIANT AbortHasCause
INVARIANT IndexDescribesDirectory
INVARIANT ExitZeroMeansExported
INVARIANT SuccessIsFaithful
INVARIANT ReplacedLeavesNothingStale
PROPERTY DeletesOnlySuperseded
PROPERTY ExportReturns
