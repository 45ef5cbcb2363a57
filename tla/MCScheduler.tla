----------------------------- MODULE MCScheduler -----------------------------
(* The scheduler's runs take its constants from the configurations: two firings and two
   subscribers on channels of one element fill every channel and make every wait happen. *)
EXTENDS Scheduler
=============================================================================
