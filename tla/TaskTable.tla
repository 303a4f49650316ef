------------------------------ MODULE TaskTable ------------------------------
(* task[] of kernel/sched.c, which the modules about tasks share. *)
EXTENDS Integers

CONSTANT NR_TASKS        \* its slots, with the one of task 0
==============================================================================
