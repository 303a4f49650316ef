-------------------------------- MODULE MCFiles ------------------------------
EXTENDS Files, TLC

TaskSymmetry == Permutations(Task)

\* The longer one does not fit into a pipe.
MCMessage == {<<1>>, <<0, 1, 1, 0>>}
==============================================================================
