\* Two environments that build two keys from one another.
SPECIFICATION FairSpec
CONSTANTS
  t1 = t1
  t2 = t2
  t3 = t3
  a = a
  b = b
  Thread = {t1, t2}
  Key = {a, b}
  Needs <- Crossed
  Wants <- AskOwn
  NoKey = NoKey
  NoSlot = NoSlot
  NoValue = NoValue
  MaxErrors = 0
PROPERTY EveryCallReturns
