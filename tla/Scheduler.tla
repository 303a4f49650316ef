------------------------------- MODULE Scheduler -----------------------------
(***************************************************************************)
(* The scheduler of kernel/sched.c: schedule(), do_timer, sys_alarm,       *)
(* sys_nice, the rescheduling at the end of a system call (system_call.s), *)
(* and as much of fork and exit as gives a task its time slice and takes   *)
(* the task away.  Task 0, the idle task, is 0: it never sleeps, is picked *)
(* when nobody else can run, and calls schedule() for ever.                *)
(*                                                                         *)
(* Alarms are kept relative to jiffies: the ticks that are left, -1 when   *)
(* alarm < jiffies.                                                        *)
(***************************************************************************)
EXTENDS TaskTable

CONSTANTS
  MaxPriority,   \* bound on priorities; sys_nice raises them without limit
  Nicer,         \* the tasks that call sys_nice
  Alarmed,       \* the tasks that call sys_alarm
  MaxAlarm,      \* longest alarm asked for, in ticks
  Forks          \* whether tasks fork and exit

ASSUME SchedulerAssumption ==
  /\ NR_TASKS \in Nat \ {0}
  /\ MaxPriority \in Nat \ {0}
  /\ Nicer \subseteq 1..NR_TASKS - 1
  /\ Alarmed \subseteq 1..NR_TASKS - 1
  /\ MaxAlarm \in Nat
  /\ Forks \in BOOLEAN

NotIdle == 1..NR_TASKS - 1
NoAlarm == -2
Expired == -1

VARIABLES
  state,      \* "none": task[i] is NULL
  counter, priority, alarm,
  signal,     \* a signal is pending
  mode,       \* where the task is: in "user" mode, in the "kernel", or
              \* "leaving" it, behind the test of counter in _system_call
  current

sched_vars == <<state, counter, priority, alarm, signal, mode, current>>

SchedInit ==
  /\ state \in [NotIdle -> {"none", "running"}]
  /\ counter = [i \in NotIdle |-> IF state[i] = "none" THEN 0 ELSE MaxPriority]
  /\ priority = [i \in NotIdle |-> MaxPriority]
  /\ alarm = [i \in NotIdle |-> NoAlarm]
  /\ signal = [i \in NotIdle |-> FALSE]
  /\ mode = [i \in NotIdle |-> "user"]
  /\ current = 0

(***************************************************************************)
(* schedule()                                                              *)
(***************************************************************************)
\* (Faulty variant: counter >>= 1 and nothing added.)
RecalculatedHalf(st, c) ==
  [i \in NotIdle |-> IF st[i] = "none" THEN c[i] ELSE c[i] \div 2]

\* Every task gets its priority on top of half of what it has left.
Recalculated(st, c) ==
  [i \in NotIdle |-> IF st[i] = "none" THEN c[i] ELSE c[i] \div 2 + priority[i]]

\* The search goes down from the last slot and takes the first of the largest.
Best(runnable, c) ==
  CHOOSE i \in runnable :
    \A j \in runnable : c[j] < c[i] \/ (c[j] = c[i] /\ j <= i)

\* schedule() with the states st, the counters c and the alarms al.  The loop
\* is gone through again once at most: RecalculationEndsLoop in
\* TaskProofs.tla.
schedule(st, c, al) ==
  LET due == {i \in NotIdle : st[i] # "none" /\ al[i] = Expired}
      sig == [i \in NotIdle |-> signal[i] \/ i \in due]
      woken == [i \in NotIdle |->
                  IF sig[i] /\ st[i] = "interruptible" THEN "running" ELSE st[i]]
      runnable == {i \in NotIdle : woken[i] = "running"}
      spent == runnable # {} /\ \A i \in runnable : c[i] = 0
      left == IF spent THEN Recalculated(st, c) ELSE c
  IN /\ signal' = sig
     /\ alarm' = [i \in NotIdle |-> IF i \in due THEN NoAlarm ELSE al[i]]
     /\ state' = woken
     /\ counter' = left
     /\ current' = IF runnable = {} THEN 0 ELSE Best(runnable, left)

(***************************************************************************)
(* The timer.                                                              *)
(***************************************************************************)
\* jiffies++, seen from the alarms.
Passed == [i \in NotIdle |-> IF alarm[i] > Expired THEN alarm[i] - 1 ELSE alarm[i]]

\* --current->counter, not below zero.
Ticked == [i \in NotIdle |-> IF i = current /\ counter[i] > 0
                            THEN counter[i] - 1 ELSE counter[i]]

\* Signals are taken on the way back to user mode.
TakesSignals(i) == signal' = [j \in NotIdle |-> signal[j] /\ j # i]

\* cpl, of a task other than task 0.
InUserMode == current # 0 /\ mode[current] = "user"

\* (Faulty variant: no schedule() at the end of the slice.)
timer_interrupt_lazy ==
  /\ alarm' = Passed
  /\ counter' = Ticked
  /\ UNCHANGED <<state, priority, signal, mode, current>>

\* The timer interrupt and do_timer: a tick of the current task's slice; at
\* the end of the slice it loses the processor, unless it is in the kernel.
\* (The slice of task 0 is not kept: idle calls schedule() between any two
\* ticks.)
timer_interrupt ==
  /\ \/ /\ InUserMode /\ Ticked[current] = 0
        /\ schedule(state, Ticked, Passed)
        /\ mode' = [mode EXCEPT ![current] = "leaving"]
     \/ /\ InUserMode /\ Ticked[current] > 0
        /\ TakesSignals(current)
        /\ counter' = Ticked
        /\ alarm' = Passed
        /\ UNCHANGED <<state, mode, current>>
     \/ /\ ~ InUserMode
        /\ counter' = Ticked
        /\ alarm' = Passed
        /\ UNCHANGED <<state, signal, mode, current>>
  /\ UNCHANGED priority

\* for(;;) pause();
idle ==
  /\ current = 0
  /\ schedule(state, counter, alarm)
  /\ UNCHANGED <<priority, mode>>

(***************************************************************************)
(* System calls of the current task i.                                     *)
(***************************************************************************)
system_call(i) ==
  /\ current = i
  /\ mode[i] = "user"
  /\ mode' = [mode EXCEPT ![i] = "kernel"]
  /\ UNCHANGED <<state, counter, priority, alarm, signal, current>>

\* sleep_on, interruptible_sleep_on, sys_pause.
sleep(i, st) ==
  /\ current = i
  /\ mode[i] = "kernel"
  /\ schedule([state EXCEPT ![i] = st], counter, alarm)
  /\ UNCHANGED <<priority, mode>>

\* The end of the call: a used-up slice is noticed here.
reschedule(i) ==
  /\ current = i
  /\ mode[i] = "kernel"
  /\ counter[i] = 0
  /\ schedule(state, counter, alarm)
  /\ mode' = [mode EXCEPT ![i] = "leaving"]
  /\ UNCHANGED priority

to_user_mode(i) ==
  /\ current = i
  /\ mode[i] = "leaving" \/ (mode[i] = "kernel" /\ counter[i] > 0)
  /\ mode' = [mode EXCEPT ![i] = "user"]
  /\ TakesSignals(i)
  /\ UNCHANGED <<state, counter, priority, alarm, current>>

\* (Faulty variant: the priority may become zero.)
sys_nice_zero(i, increment) ==
  /\ current = i
  /\ i \in Nicer
  /\ mode[i] = "kernel"
  /\ priority[i] - increment >= 0
  /\ priority[i] - increment <= MaxPriority
  /\ priority' = [priority EXCEPT ![i] = @ - increment]
  /\ UNCHANGED <<state, counter, alarm, signal, mode, current>>

sys_nice(i, increment) ==
  /\ current = i
  /\ i \in Nicer
  /\ mode[i] = "kernel"
  /\ priority[i] - increment > 0
  /\ priority[i] - increment <= MaxPriority
  /\ priority' = [priority EXCEPT ![i] = @ - increment]
  /\ UNCHANGED <<state, counter, alarm, signal, mode, current>>

sys_alarm(i, ticks) ==
  /\ current = i
  /\ i \in Alarmed
  /\ mode[i] = "kernel"
  /\ alarm' = [alarm EXCEPT ![i] = IF ticks > 0 THEN ticks ELSE NoAlarm]
  /\ UNCHANGED <<state, counter, priority, signal, mode, current>>

\* find_empty_process and copy_process: the child gets the first free slot of
\* task[] and a time slice of its own.
fork(i, child) ==
  /\ Forks
  /\ current = i
  /\ mode[i] = "kernel"
  /\ state[child] = "none"
  /\ \A j \in NotIdle : state[j] = "none" => child <= j
  /\ state' = [state EXCEPT ![child] = "running"]
  /\ priority' = [priority EXCEPT ![child] = priority[i]]
  /\ counter' = [counter EXCEPT ![child] = priority[i]]
  /\ alarm' = [alarm EXCEPT ![child] = NoAlarm]
  /\ signal' = [signal EXCEPT ![child] = FALSE]
  /\ mode' = [mode EXCEPT ![child] = "user"]
  /\ UNCHANGED current

\* The end of do_exit.  release() empties the slot and frees the task_struct,
\* at once if the father has exited; the zombie that waits for its father's
\* waitpid is left out.
exit(i) ==
  /\ Forks
  /\ current = i
  /\ mode[i] = "kernel"
  /\ schedule([state EXCEPT ![i] = "none"], [counter EXCEPT ![i] = 0],
              [alarm EXCEPT ![i] = NoAlarm])
  /\ priority' = [priority EXCEPT ![i] = MaxPriority]
  /\ mode' = [mode EXCEPT ![i] = "user"]

(***************************************************************************)
(* wake_up, by an interrupt handler or the current task.                   *)
(***************************************************************************)
wake_up(i) ==
  /\ state[i] \in {"interruptible", "uninterruptible"}
  /\ state' = [state EXCEPT ![i] = "running"]
  /\ UNCHANGED <<counter, priority, alarm, signal, mode, current>>

\* What ends a system call, if the task does not sleep or exit first.
EndOfCall(i) == reschedule(i) \/ to_user_mode(i)

SchedNext ==
  \/ timer_interrupt
  \/ idle
  \/ \E i \in NotIdle :
       \/ system_call(i)
       \/ \E st \in {"interruptible", "uninterruptible"} : sleep(i, st)
       \/ EndOfCall(i)
       \/ \E increment \in {-1, 1} : sys_nice(i, increment)
       \/ \E ticks \in 0..MaxAlarm : sys_alarm(i, ticks)
       \/ \E child \in NotIdle : fork(i, child)
       \/ exit(i)
       \/ wake_up(i)

\* The timer ticks, task 0 loops, a task does not stay in the kernel for ever
\* without sleeping.
SchedFairness == /\ WF_sched_vars(timer_interrupt) /\ WF_sched_vars(idle)
                 /\ WF_sched_vars(\E i \in NotIdle : EndOfCall(i))

SchedSpec == SchedInit /\ [][SchedNext]_sched_vars
FairSched == SchedSpec /\ SchedFairness

(***************************************************************************)
(* Properties.                                                             *)
(***************************************************************************)
\* Types.  What a task saves up while it sleeps has a limit: counter stays
\* below twice the largest priority.
TypeOK ==
  /\ state \in [NotIdle -> {"none", "running", "interruptible", "uninterruptible"}]
  /\ counter \in [NotIdle -> 0..2 * MaxPriority - 1]
  /\ priority \in [NotIdle -> 1..MaxPriority]
  /\ alarm \in [NotIdle -> NoAlarm..MaxAlarm]
  /\ signal \in [NotIdle -> BOOLEAN]
  /\ mode \in [NotIdle -> {"user", "kernel", "leaving"}]
  /\ current \in NotIdle \cup {0}

\* The processor is given to a task with time left, whatever tasks do to
\* their priorities, and to task 0 only if no task can run: the loop in
\* schedule() (101-117), which runs with no way out else, is left at once.
PickedHasTime ==
  [][current' # current =>
       IF current' = 0 THEN \A i \in NotIdle : state'[i] # "running"
                       ELSE counter'[current'] > 0]_sched_vars

\* schedule() "should work well in all circumstances" (sched.c:59-61): a task
\* that can run gets the processor, or sleeps, or exits, whatever the others
\* do with sleeps, wake-ups and priorities - unless they go on forking for
\* ever: each child starts with a full slice (fork.c:84).
StopForking == <>[][~ \E i, child \in NotIdle : fork(i, child)]_sched_vars

NoStarvation ==
  StopForking =>
    \A i \in NotIdle : state[i] = "running" ~> current = i \/ state[i] # "running"

\* An alarm whose time has come does not wait for ever for somebody to call
\* schedule(): it is turned into a signal, unless the task sets another or
\* exits first.
AlarmNoticed ==
  \A i \in Alarmed : state[i] # "none" /\ alarm[i] = Expired ~>
                    state[i] = "none" \/ alarm[i] # Expired
==============================================================================
