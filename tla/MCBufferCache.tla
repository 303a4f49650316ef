----------------------------- MODULE MCBufferCache ---------------------------
(* BufferCache.tla with few buffers; tasks are interchangeable. *)
EXTENDS BufferCache, TLC

TaskSymmetry == Permutations(Task)
==============================================================================
