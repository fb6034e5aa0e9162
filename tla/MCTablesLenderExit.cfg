SPECIFICATION TablesSpec
CHECK_DEADLOCK FALSE
CONSTANTS
  Pid = {p1, p2}
  Sidx = {0, 1}
  Cid = {0, 1}
  MaxBirth = 3
  MaxHeld = 2
  MaskBits = 2
  ListLen = 2
  MaxId = 7
  Proc = {client, server}
  RAM_PAGES = 5
  FRAGMENTED_AREA = 3
  VirtPages = 2
  RegionPages = 1
  MaxPages = 2
  MaxLoans = 2
  Lender = {client}
  Borrower = {server}
  Ending = {client}
  Claiming = {server}
  NoPage = NoPage
  NoProc = NoProc
INVARIANT
  DiscardedWhenReturned
