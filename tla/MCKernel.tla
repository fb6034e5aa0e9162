------------------------------ MODULE MCKernel ------------------------------
(***************************************************************************)
(* Instances of Kernel.  Threads are numbered by process: 11 and 12 belong *)
(* to process 1, 21 to process 2, and so on.                               *)
(***************************************************************************)
EXTENDS Kernel

PidOfThread == [t \in Client |-> t \div 10]

\* A server process with two threads and two one-thread clients, of which one
\* also dies, by itself or killed by the other, and is spawned again.
IpcPrograms ==
  [t \in Client |->
     CASE t = 11 -> {"CreateServer", "CreateThread", "Receive", "ReturnScalar"}
       [] t = 12 -> {"Receive"}
       [] t = 21 -> {"Connect", "BlockingScalar", "TerminatePid", "Spawn"}
       [] t = 31 -> {"Connect", "TryScalar", "TryBlockingScalar", "TerminateProcess"}]

\* Futexes and notification bits within process 1; process 2 starts, kills and
\* waits for process 3.
WaitPrograms ==
  [t \in Client |->
     CASE t = 11 -> {"CreateThread", "FutexWait", "FutexWake", "PostEvent"}
       [] t = 12 -> {"FutexWait", "WaitEvent", "PollEvent"}
       [] t = 21 -> {"WaitProcess", "Spawn", "TerminatePid"}
       [] t = 31 -> {"TerminateProcess", "Yield"}]

\* A server with a reactor, which waits for events and polls, beside a thread
\* that blocks in ReceiveMessage.
ReactorPrograms ==
  [t \in Client |->
     CASE t = 11 -> {"CreateServer", "CreateThread", "WaitEvent", "TryReceive", "ReturnScalar"}
       [] t = 12 -> {"Receive"}
       [] t = 21 -> {"Connect", "Scalar", "BlockingScalar"}
       [] OTHER -> {}]

\* Servers come and go while others are connected to them, but nobody waits
\* for them.
EventPrograms ==
  [t \in Client |->
     CASE t = 11 -> {"CreateServer", "DestroyServer", "TryReceive", "RegisterEventHandler"}
       [] t = 12 -> {}
       [] t = 21 -> {"CreateServer", "Connect", "TerminateProcess", "Spawn"}
       [] t = 31 -> {"CreateServer", "Connect", "TryScalar", "TerminateProcess"}]

\* One server thread and two clients that call it.
CallPrograms ==
  [t \in Client |->
     CASE t = 11 -> {"CreateServer", "Serve", "ReturnScalar"}
       [] OTHER -> {"Connect", "BlockingScalar"}]

\* A server that is destroyed while a client is blocked on it.
DestroyedPrograms ==
  [t \in Client |-> CASE t = 11 -> {"CreateServer", "DestroyServer"}
                      [] OTHER -> {"Connect", "BlockingScalar"}]

\* The choices of the configurations.
AllPrograms == {IpcPrograms, WaitPrograms, ReactorPrograms, EventPrograms}
CallsOnly == {CallPrograms}
DestroyedOnly == {DestroyedPrograms}
============================================================================
