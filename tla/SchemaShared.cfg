\* Three tasks of two processes, one of them killed once, while a CRD changes.
SPECIFICATION FairSpec
CONSTANTS
  t1 = t1
  t2 = t2
  t3 = t3
  p1 = p1
  p2 = p2
  apps = apps
  custom = custom
  c1 = c1
  c2 = c2
  Process = {p1, p2}
  Task = {t1, t2, t3}
  ProcessOf <- TwoProcesses
  Key = {apps, custom}
  Covered = {apps}
  Cluster = {c1}
  TTL = 0
  MaxFetches = 1
  None = None
  Empty = Empty
  Torn = Torn
  MaxCalls = 3
  MaxStops = 1
  MaxChanges = 1
  MaxTime = 1
CHECK_DEADLOCK FALSE
INVARIANT TypeOK
INVARIANT FreshWhenLoaded
INVARIANT TornHasCause
PROPERTY KeepsPromise
PROPERTY EveryCallReturns
