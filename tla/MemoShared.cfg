\* Three threads, a key built from another, failures and a re-entrant thunk.
SPECIFICATION FairSpec
CONSTANTS
  t1 = t1
  t2 = t2
  t3 = t3
  a = a
  b = b
  Thread = {t1, t2, t3}
  Key = {a, b}
  Needs <- Ordered
  Wants <- AskBoth
  NoKey = NoKey
  NoSlot = NoSlot
  NoValue = NoValue
  MaxErrors = 2
INVARIANT TypeOK
INVARIANT SingleFlight
INVARIANT SleeperIsRemembered
PROPERTY ImplementsTable
PROPERTY EveryCallReturns
