------------------------------- MODULE WaitSet -------------------------------
(***************************************************************************)
(* What a wait queue promises to its uninterruptible users, with no word   *)
(* of how: every task asleep when wake_up is called is due to run from     *)
(* that moment on, nobody else is, and a task that is due does run.        *)
(* SleepQueue.tla models the code of kernel/sched.c, where the queue has   *)
(* no list: only the last sleeper is recorded and each sleeper remembers   *)
(* its predecessor on its own kernel stack.                                *)
(***************************************************************************)
CONSTANTS Task, Queue

VARIABLES
  waiting,  \* waiting[q]: the tasks asleep on q since the last wake_up(q)
  due       \* the tasks that a wake_up has released and that have not run

vars == <<waiting, due>>

Idle(t) == t \notin due /\ \A q \in Queue : t \notin waiting[q]

Init == waiting = [q \in Queue |-> {}] /\ due = {}

Sleep(t, q) == /\ Idle(t)
               /\ waiting' = [waiting EXCEPT ![q] = @ \cup {t}]
               /\ UNCHANGED due

WakeAll(q) == /\ due' = due \cup waiting[q]
              /\ waiting' = [waiting EXCEPT ![q] = {}]

Resume(t) == /\ t \in due
             /\ due' = due \ {t}
             /\ UNCHANGED waiting

Next == \/ \E t \in Task, q \in Queue : Sleep(t, q)
        \/ \E q \in Queue : WakeAll(q)
        \/ \E t \in Task : Resume(t)

Spec == Init /\ [][Next]_vars /\ \A t \in Task : WF_vars(Resume(t))
==============================================================================
