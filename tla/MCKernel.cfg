SPECIFICATION Spec
CONSTANTS
  QueueLen = 2
  GenMod = 3
  Client = {11, 12, 21, 31}
  Pid = {1, 2, 3}
  OwnerOf <- PidOfThread
  Payload = {m}
  Nobody = Nobody
  NoPayload = NoPayload
  Sidx = {0}
  Bits = {1, 2}
  Idle = Idle
  Sid = {A}
  Addr = {a, b}
  Programs <- AllPrograms
  Boot = {1, 2}
  PID1 = PID1
INVARIANTS
  TablesSound
  ReadyMeansQueued
  MailboxIsPickedUp
  ReceiversAgree
  CallersAgree
  
  ResultFitsCall

  
