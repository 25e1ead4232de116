\* An inline environment fails beside one that shares its identifier.
SPECIFICATION Spec
CONSTANTS
  dev = dev
  prod = prod
  solo = solo
  shared = shared
  own = own
  f1 = f1
  f2 = f2
  f3 = f3
  File = {f1, f2, f3}
  Ident = {shared, own}
  Torn = Torn
  NoFile = NoFile
  NoOwner = NoOwner
  Broken = Broken
  Env <- MCEnv
  IdentOf <- MCIdentOf
  Rev <- MCRev
  Content <- MCContent
  Projects <- PairProjects
  Options <- MergeOptions
  Faults = {"evaluate"}
  Parallelism = 1
  ChunkSize = 2
  MaxRuns = 2
  MaxSlots = 3
PROPERTY FailedEnvironmentKeepsItsFiles
