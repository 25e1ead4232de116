\* Three workers of one process and its mutexes, failures, no stop.
SPECIFICATION FairSpec
CONSTANTS
  w1 = w1
  w2 = w2
  w3 = w3
  p1 = p1
  p2 = p2
  Process = {p1}
  Worker = {w1, w2, w3}
  ProcessOf <- OneProcess
  File = {1}
  MaxVersion = 1
  Helm = {h1}
  Nothing = Nothing
  Failed = Failed
  Unasked = Unasked
  Reverts = FALSE
  UpgradesMidRun = FALSE
  MaxCalls = 3
  MaxStops = 0
PROPERTY EveryCallReturns
