------------------------------ MODULE MCScheduler ------------------------------
(* Instances of Scheduler for TLC.  A schedule is given by the set of instants
   it fires at; instant 0 stands for its last firing before the model starts. *)
EXTENDS Scheduler, FiniteSetsExt, TLC

CONSTANTS Often, Rarely, Broken

FireTimes(s) ==
    CASE s = Often  -> {0, 1}
      [] s = Rarely -> {0}
      [] s = Broken -> {}

MCCron ==
    [s \in Schedule |-> [t \in 0 .. MaxTime |->
        Max({f \in FireTimes(s) : f <= t} \cup {-1})]]

(* Instances are interchangeable (used where no liveness is checked). *)
InstanceSymmetry == Permutations(Instance)
===============================================================================
