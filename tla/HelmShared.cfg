\* Two processes, two workers in one of them, edits, stops, failures, an upgrade.
SPECIFICATION Spec
CONSTANTS
  w1 = w1
  w2 = w2
  w3 = w3
  p1 = p1
  p2 = p2
  Process = {p1, p2}
  Worker = {w1, w2, w3}
  ProcessOf <- TwoProcesses
  File = {1, 2}
  MaxVersion = 1
  Helm = {h1, h2}
  Nothing = Nothing
  Failed = Failed
  Unasked = Unasked
  Reverts = FALSE
  UpgradesMidRun = FALSE
  MaxCalls = 2
  MaxStops = 1
SYMMETRY Workers
INVARIANT TypeOK
INVARIANT EntriesAreTrue
INVARIANT OnlyStopsLeaveTemporaries
PROPERTY RenderedOnce
PROPERTY KeepsPromise
