----------------------------- MODULE MCProcess -----------------------------
(* Three processes at a time, numbers that come round at the fourth fork,  *)
(* and the calls kill(-1), kill(2), wait() and waitpid(2), waitpid(-2).    *)
EXTENDS Process

MCArguments == {-2, -1, 2}
=============================================================================
