SPECIFICATION FairSpec
CONSTANTS
  t1 = t1
  t2 = t2
  t3 = t3
  t4 = t4
  NoThread = NoThread
  Thread = {t1, t2, t3, t4}
  Trip = 3
INVARIANTS
  CountIsWaiters
  SleepersAreCounted
PROPERTIES
  ImplementsPosix
  LetGoReturns
