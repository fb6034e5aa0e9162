SPECIFICATION FairSpec
CONSTANTS
  QueueLen = 2
  GenMod = 3
  Client = {11, 21, 31}
  Pid = {1, 2, 3}
  OwnerOf <- PidOfThread
  Payload = {m}
  Nobody = Nobody
  NoPayload = NoPayload
  Sidx = {0}
  Bits = {1, 2}
  Idle = Idle
  Sid = {A}
  Addr = {}
  Programs <- CallsOnly
  Boot = {1, 2, 3}
  PID1 = PID1
PROPERTIES
  CallsEnd
