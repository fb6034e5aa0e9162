SPECIFICATION Spec
CONSTANTS
  QueueLen = 2
  GenMod = 3
  Client = {11, 21}
  Pid = {1, 2}
  OwnerOf <- PidOfThread
  Payload = {m}
  Nobody = Nobody
  NoPayload = NoPayload
  Sidx = {0}
  Bits = {1, 2}
  Idle = Idle
  Sid = {A}
  Addr = {}
  Programs <- DestroyedOnly
  Boot = {1, 2}
  PID1 = PID1
INVARIANTS
  SleeperIsNamed
