------------------------------- MODULE MCTables -------------------------------
(***************************************************************************)
(* The tables a message passes on its way: the server and connection       *)
(* tables, the permissions of one connection, and the pages and page       *)
(* tables its buffer is in.  They share no state here, so a behaviour      *)
(* exercises one of them.                                                  *)
(***************************************************************************)
EXTENDS Connections, Permissions, Memory

VARIABLE table   \* the table this behaviour is about

TablesInit ==
  Init /\ PermInit /\ MemInit /\ table \in {"connections", "permissions", "memory"}

TablesNext ==
  /\ \/ table = "connections" /\ Next /\ UNCHANGED <<permVars, memVars>>
     \/ table = "permissions" /\ PermNext /\ UNCHANGED <<vars, memVars>>
     \/ table = "memory" /\ MemNext /\ UNCHANGED <<vars, permVars>>
  /\ UNCHANGED table

TablesSpec == TablesInit /\ [][TablesNext]_<<vars, permVars, memVars, table>>
=============================================================================
