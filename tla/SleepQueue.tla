------------------------------ MODULE SleepQueue -----------------------------
(***************************************************************************)
(* The wait queues of kernel/sched.c: sleep_on, interruptible_sleep_on,    *)
(* wake_up, sys_pause, the part of schedule() that wakes signalled tasks,  *)
(* and the places that write a task's state behind their back (rs_io.s,    *)
(* do_exit).  A queue is one pointer, the last task that went to sleep;    *)
(* each sleeper keeps the previous value of that pointer in the local      *)
(* variable tmp of its suspended call, so the "list" runs through the      *)
(* kernel stacks of the sleepers and is followed one task at a time, each  *)
(* task waking its predecessor when it gets to run itself.                 *)
(*                                                                         *)
(* The kernel is not preemptive: between two calls of schedule() a task's  *)
(* kernel code is one step, disturbed only by interrupts, and every caller *)
(* modelled here either disables interrupts before it tests its condition  *)
(* and sleeps, or is woken only by other tasks.  (The one caller for which *)
(* neither is true, rw_abs_hd, is the business of HardDisk.tla.)           *)
(* schedule() picks any runnable task; Scheduler.tla models how it picks.  *)
(***************************************************************************)
EXTENDS FiniteSets

CONSTANTS
  Task,     \* the tasks but task[0], which may not sleep (sched.c:148-149)
  UQueue,   \* queues slept on with sleep_on: buffers, inodes, super blocks
  IQueue,   \* queues slept on with interruptible_sleep_on: the tty queues
  NoTask    \* the null pointer; as the value of current, task[0]

ASSUME QueueAssumption == /\ NoTask \notin Task \cup UQueue \cup IQueue
                          /\ UQueue \cap IQueue = {}

Queue == UQueue \cup IQueue

VARIABLES
  state,    \* task_struct.state
  signal,   \* task_struct.signal # 0
  wq,       \* the queue pointer: i_wait, b_wait, buffer_wait, proc_list, ...
  pc,       \* where the task's kernel code is suspended, "run" if nowhere
  where,    \* the argument p of the suspended call, if any
  tmp,      \* the local variable tmp of the suspended call
  current   \* the task on the processor

vars == <<state, signal, wq, pc, where, tmp, current>>

State == {"running", "interruptible", "uninterruptible", "zombie"}
Place == {"run", "sleep_on", "interruptible_sleep_on", "pause", "exited"}

Init == /\ state = [t \in Task |-> "running"]
        /\ signal = [t \in Task |-> FALSE]
        /\ wq = [q \in Queue |-> NoTask]
        /\ pc = [t \in Task |-> "run"]
        /\ where = [t \in Task |-> NoTask]
        /\ tmp = [t \in Task |-> NoTask]
        /\ current = NoTask

(***************************************************************************)
(* Helpers.                                                                *)
(***************************************************************************)
\* `if (tmp) tmp->state=0`: no look at what t is doing.
SetRunning(s, t) == [u \in Task |-> IF u = t THEN "running" ELSE s[u]]

\* The first loop of schedule().  Alarms are signals sent from nowhere.
WakeSignalled(s) ==
  [t \in Task |-> IF signal[t] /\ s[t] = "interruptible" THEN "running" ELSE s[t]]

\* schedule() entered with the states s: somebody runnable gets the
\* processor, task[0] if nobody is.
schedule(s) ==
  LET st == WakeSignalled(s)
      runnable == {t \in Task : st[t] = "running"}
  IN /\ state' = st
     /\ IF runnable = {} THEN current' = NoTask ELSE current' \in runnable

OnCpu(t, place) == current = t /\ pc[t] = place

(***************************************************************************)
(* Faulty variants of operators below, to check that properties can fail.  *)
(***************************************************************************)
\* The predecessor on the queue is forgotten.
sleep_on_forgets(t, q) ==
  /\ OnCpu(t, "run")
  /\ wq' = [wq EXCEPT ![q] = t]
  /\ pc' = [pc EXCEPT ![t] = "sleep_on"]
  /\ where' = [where EXCEPT ![t] = q]
  /\ schedule([state EXCEPT ![t] = "uninterruptible"])
  /\ UNCHANGED <<signal, tmp>>

\* The predecessor is remembered and not woken.
sleep_on_return_selfish(t) ==
  /\ OnCpu(t, "sleep_on")
  /\ pc' = [pc EXCEPT ![t] = "run"]
  /\ tmp' = [tmp EXCEPT ![t] = NoTask]
  /\ where' = [where EXCEPT ![t] = NoTask]
  /\ UNCHANGED <<state, signal, wq, current>>

(***************************************************************************)
(* Uninterruptible sleep.                                                  *)
(***************************************************************************)
sleep_on(t, q) ==
  /\ OnCpu(t, "run")
  /\ tmp' = [tmp EXCEPT ![t] = wq[q]]
  /\ wq' = [wq EXCEPT ![q] = t]
  /\ pc' = [pc EXCEPT ![t] = "sleep_on"]
  /\ where' = [where EXCEPT ![t] = q]
  /\ schedule([state EXCEPT ![t] = "uninterruptible"])
  /\ UNCHANGED signal

sleep_on_return(t) ==
  /\ OnCpu(t, "sleep_on")
  /\ state' = SetRunning(state, tmp[t])
  /\ pc' = [pc EXCEPT ![t] = "run"]
  /\ tmp' = [tmp EXCEPT ![t] = NoTask]
  /\ where' = [where EXCEPT ![t] = NoTask]
  /\ UNCHANGED <<signal, wq, current>>

(***************************************************************************)
(* Interruptible sleep.                                                    *)
(***************************************************************************)
interruptible_sleep_on(t, q) ==
  /\ OnCpu(t, "run")
  /\ tmp' = [tmp EXCEPT ![t] = wq[q]]
  /\ wq' = [wq EXCEPT ![q] = t]
  /\ pc' = [pc EXCEPT ![t] = "interruptible_sleep_on"]
  /\ where' = [where EXCEPT ![t] = q]
  /\ schedule([state EXCEPT ![t] = "interruptible"])
  /\ UNCHANGED signal

\* Somebody went to sleep after t: wake him first, sleep again.
interruptible_repeat(t) ==
  /\ OnCpu(t, "interruptible_sleep_on")
  /\ wq[where[t]] \notin {NoTask, t}
  /\ schedule([SetRunning(state, wq[where[t]]) EXCEPT ![t] = "interruptible"])
  /\ UNCHANGED <<signal, wq, pc, where, tmp>>

interruptible_return(t) ==
  /\ OnCpu(t, "interruptible_sleep_on")
  /\ wq[where[t]] \in {NoTask, t}
  /\ wq' = [wq EXCEPT ![where[t]] = NoTask]
  /\ state' = SetRunning(state, tmp[t])
  /\ pc' = [pc EXCEPT ![t] = "run"]
  /\ tmp' = [tmp EXCEPT ![t] = NoTask]
  /\ where' = [where EXCEPT ![t] = NoTask]
  /\ UNCHANGED <<signal, current>>

(***************************************************************************)
(* Wake-ups.  They come from the running task or from an interrupt         *)
(* handler, so at any moment.                                              *)
(***************************************************************************)
(* Faulty variant: the pointer stays, as in rs_wake below. *)
wake_up_keeps(q) ==
  /\ wq[q] # NoTask
  /\ state' = SetRunning(state, wq[q])
  /\ UNCHANGED <<signal, wq, pc, where, tmp, current>>

wake_up(q) ==
  /\ wq[q] # NoTask
  /\ state' = SetRunning(state, wq[q])
  /\ wq' = [wq EXCEPT ![q] = NoTask]
  /\ UNCHANGED <<signal, pc, where, tmp, current>>

\* The serial interrupt wakes the task of the write queue's proc_list but
\* leaves the pointer where it is.
rs_wake(q) ==
  /\ q \in IQueue
  /\ wq[q] # NoTask
  /\ state' = SetRunning(state, wq[q])
  /\ UNCHANGED <<signal, wq, pc, where, tmp, current>>

(***************************************************************************)
(* Pause, signals, exit.                                                   *)
(***************************************************************************)
sys_pause(t) ==
  /\ OnCpu(t, "run")
  /\ pc' = [pc EXCEPT ![t] = "pause"]
  /\ schedule([state EXCEPT ![t] = "interruptible"])
  /\ UNCHANGED <<signal, wq, where, tmp>>

pause_return(t) ==
  /\ OnCpu(t, "pause")
  /\ pc' = [pc EXCEPT ![t] = "run"]
  /\ UNCHANGED <<state, signal, wq, where, tmp, current>>

\* From a task, the keyboard (SIGINT), or an alarm.
send_sig(t) ==
  /\ ~ signal[t]
  /\ signal' = [signal EXCEPT ![t] = TRUE]
  /\ UNCHANGED <<state, wq, pc, where, tmp, current>>

\* On the way back to user mode: the signal is ignored or handed to the
\* task's handler.  (The default action is do_exit below.)
deliver_signal(t) ==
  /\ OnCpu(t, "run")
  /\ signal[t]
  /\ signal' = [signal EXCEPT ![t] = FALSE]
  /\ UNCHANGED <<state, wq, pc, where, tmp, current>>

\* The end of do_exit for a task with a father.  release() of the task by
\* its father's waitpid is left out: the task_struct stays.
do_exit(t) ==
  /\ OnCpu(t, "run")
  /\ pc' = [pc EXCEPT ![t] = "exited"]
  /\ schedule([state EXCEPT ![t] = "zombie"])
  /\ UNCHANGED <<signal, wq, where, tmp>>

\* `return (-1);  /* just to suppress warnings */`
exit_return(t) ==
  /\ OnCpu(t, "exited")
  /\ pc' = [pc EXCEPT ![t] = "run"]
  /\ UNCHANGED <<state, signal, wq, where, tmp, current>>

(***************************************************************************)
(* The timer takes the processor from a task in user mode that has used up *)
(* its time slice; task[0] calls schedule() for ever, from pause().        *)
(***************************************************************************)
do_timer ==
  /\ current # NoTask => pc[current] = "run"
  /\ schedule(state)
  /\ UNCHANGED <<signal, wq, pc, where, tmp>>

TaskStep(t) ==
  \/ \E q \in UQueue : sleep_on(t, q)
  \/ sleep_on_return(t)
  \/ \E q \in IQueue : interruptible_sleep_on(t, q)
  \/ interruptible_repeat(t)
  \/ interruptible_return(t)
  \/ sys_pause(t)
  \/ pause_return(t)
  \/ send_sig(t)
  \/ deliver_signal(t)
  \/ do_exit(t)
  \/ exit_return(t)

Next ==
  \/ \E t \in Task : TaskStep(t)
  \/ \E q \in Queue : wake_up(q) \/ rs_wake(q)
  \/ do_timer

(***************************************************************************)
(* Fairness: a task that has the processor inside a sleeping primitive     *)
(* finishes the call; the timer goes on ticking; and a task that is        *)
(* runnable whenever the timer takes the processor away gets it some time  *)
(* (Scheduler!NoStarvation).  Nothing makes anybody call wake_up.          *)
(***************************************************************************)
Fairness ==
  /\ WF_vars(do_timer)
  /\ \A t \in Task :
       /\ WF_vars(sleep_on_return(t))
       /\ WF_vars(interruptible_return(t) \/ interruptible_repeat(t))
       /\ WF_vars(pause_return(t) \/ exit_return(t))
       /\ SF_vars(do_timer /\ current' = t)

Spec == Init /\ [][Next]_vars
FairSpec == Spec /\ Fairness

(***************************************************************************)
(* Properties.                                                             *)
(***************************************************************************)
\* Types; a wake-up through a null pointer would leave them.
TypeOK ==
  /\ state \in [Task -> State]
  /\ signal \in [Task -> BOOLEAN]
  /\ wq \in [Queue -> Task \cup {NoTask}]
  /\ pc \in [Task -> Place]
  /\ where \in [Task -> Queue \cup {NoTask}]
  /\ tmp \in [Task -> Task \cup {NoTask}]
  /\ current \in Task \cup {NoTask}

Asleep(q) ==
  {t \in Task : pc[t] = "sleep_on" /\ where[t] = q /\ state[t] = "uninterruptible"}

\* No sleeper is ever lost: in every group of tasks asleep on q there is one
\* that the queue pointer, or the tmp of a suspended sleep_on(q) outside the
\* group, still names.  So the first of them to be woken is reached from the
\* pointer, and each of them wakes the next.  Signals, and the tasks that
\* wake others through a stale pointer (interruptible_sleep_on), cannot
\* break the chain of an uninterruptible queue.  (sched.c:150-155)
Attached(t, q, X) ==
  \/ wq[q] = t
  \/ \E u \in Task \ X : pc[u] = "sleep_on" /\ where[u] = q /\ tmp[u] = t

NoLostSleeper ==
  \A q \in UQueue : \A X \in SUBSET Asleep(q) :
    X # {} => \E t \in X : Attached(t, q, X)
==============================================================================
