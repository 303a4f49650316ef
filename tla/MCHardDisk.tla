------------------------------ MODULE MCHardDisk -----------------------------
(* HardDisk.tla on small tables; tasks are interchangeable. *)
EXTENDS HardDisk, TLC

TaskSymmetry == Permutations(Task)
==============================================================================
