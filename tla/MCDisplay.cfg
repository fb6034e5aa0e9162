CONSTANTS
  p1 = p1  p2 = p2  p3 = p3
  Thread <- MCThread
  DISPLAY_WAITER_MAX = 3
  INPUT_BUF_CAP = 2
  QueueLen = 2
  StartCursor = 0
  Boots <- MCBoots
  EarlyReuse = FALSE
  NoOne = NoOne
SPECIFICATION DisplayFairSpec
INVARIANTS
  OwnerAsked
  InputInOrder
PROPERTIES
  ImplementsDisplayLock
  WaiterServed
