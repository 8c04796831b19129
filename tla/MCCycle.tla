-------------------------------- MODULE MCCycle --------------------------------
(* Instances of Cycle for TLC: the run and instance names are model values. *)
EXTENDS Cycle, TLC

(* Runs and instances are interchangeable (used where no liveness is checked). *)
CycleSymmetry == Permutations(Run) \cup Permutations(Instance)
===============================================================================
