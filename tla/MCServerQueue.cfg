CONSTANTS
  c1 = c1  c2 = c2  c3 = c3  p1 = p1  p2 = p2  b1 = b1  b2 = b2
  QueueLen = 2
  GenMod = 3
  Client = {c1, c2, c3}
  Pid = {p1, p2}
  OwnerOf <- MCOwnerOf
  TidOf <- MCTidOf
  MaxThreadCount = 4
  Payload = {b1, b2}
  Nobody = Nobody
  NoPayload = NoPayload
  Thread = {1, 2}
  Sent = {"Scalar", "Move", "BlockingScalar", "MutableBorrow"}
SPECIFICATION FairSpec
INVARIANTS
  UnreadInOrder
  EmptyCountExact
  NoSleepWithMail
  
  BlockedIffNamed
PROPERTIES
  ImplementsMailbox
  NobodyWaitsForever
