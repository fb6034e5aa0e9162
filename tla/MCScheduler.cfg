CONSTANTS
  idle = idle
  t1 = t1
  t2 = t2
  t3 = t3
  t4 = t4
  Thread = {idle, t1, t2, t3, t4}
  IdleThread = idle
  NoThread = NoThread
  AppDefault = 1
  MaxPriority = 2
SPECIFICATION FairSpec
INVARIANTS
  HighestExact
  OneCircle
PROPERTIES
  ImplementsRunQueue
  RoundRobin
