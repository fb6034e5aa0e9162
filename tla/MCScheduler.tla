----------------------------- MODULE MCScheduler -----------------------------
(* Scheduler for TLC: up to four threads and the idle thread. *)
EXTENDS Scheduler, TLC

CONSTANTS idle, t1, t2, t3, t4

=============================================================================
