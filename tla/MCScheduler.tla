---------------------------- MODULE MCScheduler ---------------------------
(* Two cores and five threads: two idle threads and three that are spawned *)
(* on either core, yield, exit and are killed.                             *)
EXTENDS Scheduler

MCCpus == {0, 1}
=============================================================================
