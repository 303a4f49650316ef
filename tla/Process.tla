------------------------------ MODULE Process ------------------------------
(***************************************************************************)
(* The life of processes: fork (kernel/fork.c), exit, kill and waitpid     *)
(* (kernel/exit.c), pause, setpgid and setsid, the controlling terminal    *)
(* and the signals taken on the way back to user mode (system_call.s).     *)
(*                                                                         *)
(* A task in the kernel keeps the processor until it sleeps, so a system   *)
(* call is one step, but for those that pause and for do_exit, which may   *)
(* sleep in sys_close and iput.  Which runnable task is next is left open  *)
(* (Scheduler.tla).  Everybody has uid 0; SIGINT stands for the signals    *)
(* whose default action is do_exit.                                        *)
(***************************************************************************)
EXTENDS TaskTable, FiniteSetsExt

CONSTANTS MaxPid,            \* the number after which ++last_pid < 0
          Arguments,         \* what kill and waitpid are called with
          MaxCalls           \* bound on the calls other than exit, waitpid and pause

ASSUME ConstantsAssumption ==
  NR_TASKS \in Nat /\ MaxCalls \in Nat /\ MaxPid \in Nat /\ 2 <= NR_TASKS /\ NR_TASKS <= MaxPid

VARIABLES task, last_pid,
          tty_pgrp,       \* tty_table[0].pgrp
          calls           \* how many calls under the bound

vars == <<task, last_pid, tty_pgrp, calls>>

Slot == 0..NR_TASKS - 1
Pid == 1..MaxPid
Used(i) == task[i].at # "none"

\* at: "none" (task[i] is NULL), "user", "ret" (in ret_from_sys_call), asleep
\* in "pause" or in "wait"pid, in do_"exit" (its children have got father 0),
\* "zombie".
\* wait: the pid sys_waitpid was called with.  tty: has a controlling terminal.
NoTask == [at |-> "none", pid |-> 0, father |-> 0, pgrp |-> 0, session |-> 0, leader |-> FALSE,
           tty |-> FALSE, signal |-> {}, sig_fn |-> "default", wait |-> 0]
FirstTask == [NoTask EXCEPT !.at = "pause", !.father = -1]
InitTask == [NoTask EXCEPT !.at = "user", !.pid = 1]

\* The end of a system call: with signals pending they come first.
Returned(tasks, t) == [tasks EXCEPT ![t].at = IF tasks[t].signal = {} THEN "user" ELSE "ret"]

Counted == calls < MaxCalls /\ calls' = calls + 1

----------------------------------------------------------------------------
(* fork.c: the slot and the number; nothing is undone when no slot or no   *)
(* page is free.                                                           *)
After(k) == ((last_pid - 1 + k) % MaxPid) + 1
InUseRunning(n) == \E i \in Slot : Used(i) /\ task[i].at # "zombie" /\ task[i].pid = n  \* faulty
InUse(n) == \E i \in Slot : Used(i) /\ task[i].pid = n
find_empty_process(n) == \E k \in 1..MaxPid :
                           n = After(k) /\ ~ InUse(n) /\ \A j \in 1..k - 1 : InUse(After(j))
EmptySlots == {i \in Slot \ {0} : ~ Used(i)}

copy_process(t, n) == [task[t] EXCEPT !.pid = n, !.father = task[t].pid, !.signal = {},
                                      !.leader = FALSE]
sys_fork(t) ==
  /\ task[t].at = "user"
  /\ \E n \in Pid :
       /\ find_empty_process(n) /\ last_pid' = n
       /\ \/ task' = Returned(task, t)                     \* EAGAIN
          \/ /\ EmptySlots # {}
             /\ task' = Returned([task EXCEPT ![Min(EmptySlots)] = copy_process(t, n)], t)
  /\ Counted /\ UNCHANGED tty_pgrp

----------------------------------------------------------------------------
(* exit.c: signals.  Task 0 gets none; those of a task that has exited are *)
(* never looked at and are left out.                                       *)
Alive(i) == Used(i) /\ task[i].at \notin {"exit", "zombie"}
Killed(t, pid, i) ==
  IF pid = 0 THEN task[i].pgrp = task[t].pid             \* not the caller's pgrp
  ELSE pid = -1 \/ task[i].pid = pid \/ (pid < -1 /\ task[i].pgrp = -pid)
do_killButLast(t, pid, sig, tasks) ==              \* faulty: starts at the last slot
  [i \in Slot |-> IF i \in 1..NR_TASKS - 2 /\ Alive(i) /\ Killed(t, pid, i)
                  THEN [tasks[i] EXCEPT !.signal = @ \union {sig}] ELSE tasks[i]]
do_kill(t, pid, sig, tasks) ==
  [i \in Slot |-> IF i > 0 /\ Alive(i) /\ Killed(t, pid, i)
                  THEN [tasks[i] EXCEPT !.signal = @ \union {sig}] ELSE tasks[i]]

sys_kill(t, pid) == /\ task[t].at = "user" /\ task' = Returned(do_kill(t, pid, "INT", task), t)
                    /\ Counted /\ UNCHANGED <<last_pid, tty_pgrp>>

\* tty_io.c: the interrupt character was typed.
tty_intr == /\ tty_pgrp > 0
            /\ task' = [i \in Slot |-> IF Alive(i) /\ task[i].pgrp = tty_pgrp
                                       THEN [task[i] EXCEPT !.signal = @ \union {"INT"}] ELSE task[i]]
            /\ Counted /\ UNCHANGED <<last_pid, tty_pgrp>>

sys_signal(t, f) == /\ task[t].at = "user" /\ task' = Returned([task EXCEPT ![t].sig_fn = f], t)
                    /\ Counted /\ UNCHANGED <<last_pid, tty_pgrp>>

----------------------------------------------------------------------------
(* do_exit up to the point where it may sleep, and the rest: a zombie for  *)
(* the father that it has by then, or nothing at all.                      *)
Orphaned(t) == [i \in Slot |-> IF Used(i) /\ task[i].father = task[t].pid
                               THEN [task[i] EXCEPT !.father = 0] ELSE task[i]]
do_exit(t) == /\ task' = [Orphaned(t) EXCEPT ![t].at = "exit", ![t].signal = {}, ![t].sig_fn = "default"]
              /\ UNCHANGED <<last_pid, tty_pgrp, calls>>
sys_exit(t) == task[t].at = "user" /\ do_exit(t)

release(p) == [task EXCEPT ![p] = NoTask]
exitedKeepsTty(t) ==                               \* faulty: tty->pgrp stays
  /\ task[t].at = "exit"
  /\ task' = IF task[t].father # 0
             THEN do_kill(t, task[t].father, "CHLD", [task EXCEPT ![t].at = "zombie", ![t].tty = FALSE])
             ELSE release(t)
  /\ UNCHANGED <<last_pid, tty_pgrp, calls>>
exited(t) ==
  /\ task[t].at = "exit"
  /\ tty_pgrp' = IF task[t].leader /\ task[t].tty THEN 0 ELSE tty_pgrp
  /\ task' = IF task[t].father # 0
             THEN do_kill(t, task[t].father, "CHLD", [task EXCEPT ![t].at = "zombie", ![t].tty = FALSE])
             ELSE release(t)
  /\ UNCHANGED <<last_pid, calls>>

----------------------------------------------------------------------------
(* waitpid.  flag says that a child was seen in this or an earlier scan.   *)
Waited(t, pid, p) ==
  /\ p \in Slot \ {0, t} /\ Used(p) /\ task[p].father = task[t].pid
  /\ \/ pid = -1 \/ task[p].pid = pid
     \/ pid = 0 /\ task[p].pgrp = task[t].pgrp
     \/ pid < -1 /\ task[p].pgrp = -pid
Zombies(t, pid) == {p \in Slot : Waited(t, pid, p) /\ task[p].at = "zombie"}

scan(t, pid, flag, nohang) ==
  LET left == task[t].signal \ (IF flag THEN {"CHLD"} ELSE {})
      now == [task EXCEPT ![t].signal = left, ![t].wait = 0]
  IN task' = IF Zombies(t, pid) # {}
             THEN Returned([now EXCEPT ![Max(Zombies(t, pid))] = NoTask], t)
             ELSE IF (flag \/ \E p \in Slot : Waited(t, pid, p)) /\ ~ nohang
             THEN [now EXCEPT ![t].at = "wait", ![t].wait = pid]
             ELSE Returned(now, t)
sys_waitpid(t, pid, nohang) ==
  /\ task[t].at = "user" /\ scan(t, pid, FALSE, nohang) /\ UNCHANGED <<last_pid, tty_pgrp, calls>>

\* schedule() has made the task running because of a signal.
wait_onAgain(t) ==                                 \* faulty: looks again after any signal
  /\ task[t].at = "wait" /\ task[t].signal # {} /\ scan(t, task[t].wait, TRUE, FALSE)
  /\ UNCHANGED <<last_pid, tty_pgrp, calls>>
wait_on(t) ==
  /\ task[t].at = "wait" /\ task[t].signal # {}
  /\ IF task[t].signal = {"CHLD"} THEN scan(t, task[t].wait, TRUE, FALSE)
     ELSE task' = [task EXCEPT ![t].at = "ret", ![t].wait = 0, ![t].signal = @ \ {"CHLD"}]   \* EINTR
  /\ UNCHANGED <<last_pid, tty_pgrp, calls>>

sys_pause(t) == /\ task[t].at = "user" /\ task' = [task EXCEPT ![t].at = "pause"]
                /\ UNCHANGED <<last_pid, tty_pgrp, calls>>
pause_ends(t) == /\ task[t].at = "pause" /\ task[t].signal # {} /\ task' = [task EXCEPT ![t].at = "ret"]
                 /\ UNCHANGED <<last_pid, tty_pgrp, calls>>

(* system_call.s, after a system call and after a timer interrupt in user  *)
(* mode.  INT is looked at first, as its number is lower.                  *)
ret_from_sys_call(t) ==
  /\ task[t].at \in {"user", "ret"} /\ task[t].signal # {}
  /\ IF "INT" \in task[t].signal
     THEN IF task[t].sig_fn = "default" THEN do_exit(t)
          ELSE /\ task' = Returned([task EXCEPT ![t].signal = @ \ {"INT"},
                                                ![t].sig_fn = "default"], t)
               /\ UNCHANGED <<last_pid, tty_pgrp, calls>>
     ELSE /\ task' = [task EXCEPT ![t].at = "user", ![t].signal = {}]
          /\ UNCHANGED <<last_pid, tty_pgrp, calls>>

----------------------------------------------------------------------------
(* sys.c: process groups and sessions; open.c: the controlling terminal.   *)
sys_setpgid(t, pid, pgid) ==
  LET n == IF pid = 0 THEN task[t].pid ELSE pid
  IN /\ task[t].at = "user"
     /\ \E i \in Slot : /\ Used(i) /\ task[i].pid = n
                        /\ ~ task[i].leader /\ task[i].session = task[t].session
                        /\ task' = Returned([task EXCEPT ![i].pgrp = IF pgid = 0 THEN n ELSE pgid], t)
     /\ Counted /\ UNCHANGED <<last_pid, tty_pgrp>>
sys_setsid(t) ==
  /\ task[t].at = "user" /\ ~ task[t].leader
  /\ task' = Returned([task EXCEPT ![t].leader = TRUE, ![t].session = task[t].pid,
                                    ![t].pgrp = task[t].pid, ![t].tty = FALSE], t)
  /\ Counted /\ UNCHANGED <<last_pid, tty_pgrp>>
open_tty(t) ==
  /\ task[t].at = "user" /\ task[t].leader /\ ~ task[t].tty
  /\ task' = Returned([task EXCEPT ![t].tty = TRUE], t) /\ tty_pgrp' = task[t].pgrp
  /\ Counted /\ UNCHANGED last_pid

----------------------------------------------------------------------------
Init == /\ task = [i \in Slot |-> IF i = 0 THEN FirstTask ELSE IF i = 1 THEN InitTask ELSE NoTask]
        /\ last_pid = 1 /\ tty_pgrp = 0 /\ calls = 0

Next ==
  \/ \E t \in Slot \ {0} :
       \/ sys_fork(t) \/ sys_exit(t) \/ exited(t)
       \/ \E pid \in Arguments : sys_kill(t, pid)
       \/ \E pid \in Arguments, nohang \in BOOLEAN : sys_waitpid(t, pid, nohang)
       \/ wait_on(t) \/ sys_pause(t) \/ pause_ends(t) \/ ret_from_sys_call(t)
       \/ \E f \in {"default", "handler"} : sys_signal(t, f)
       \/ \E p \in Slot : Used(p) /\ \E pgid \in {0, task[t].pgrp} : sys_setpgid(t, task[p].pid, pgid)
       \/ sys_setsid(t) \/ open_tty(t)
  \/ tty_intr

\* Every runnable task gets the processor again and again (Scheduler.tla), and
\* on its way back to user mode it takes its signals; what do_exit sleeps for
\* is on the disk and comes.
Fairness == \A t \in Slot \ {0} : WF_vars(exited(t) \/ wait_on(t) \/ pause_ends(t) \/ ret_from_sys_call(t))

Spec == Init /\ [][Next]_vars /\ Fairness

----------------------------------------------------------------------------
\* A process number stands for one process from fork to release, and a father's
\* number for the process that forked: it can still wait. Numbers come round
\* again, so children of an exited father must not wait for its successor
\* (fork.c:136, 77, exit.c:89-91).
FathersLive ==
  /\ \A i, j \in Slot : Used(i) /\ Used(j) /\ task[i].pid = task[j].pid => i = j
  /\ \A i \in Slot \ {0} : Used(i) /\ task[i].father # 0 =>
       \E f \in Slot \ {0, i} : Alive(f) /\ task[f].pid = task[i].father

\* No SIGCHLD falls between the scan and the pause, and one that stands for
\* several children is enough: nobody is left asleep in waitpid while a child it
\* waits for by number, or any child, is a zombie (exit.c:91, 122-147).
NoChildMissed ==
  \A t \in Slot : task[t].at = "wait" /\ task[t].signal = {} /\ task[t].wait \in {-1} \union Pid
                  => Zombies(t, task[t].wait) = {}

\* The group that is signalled from the keyboard is that of a living session
\* leader with this terminal, never a later process with its number
\* (exit.c:99, sys.c:167, open.c:148).
TtyGroupLed ==
  tty_pgrp # 0 => \E t \in Slot : /\ Used(t) /\ task[t].at # "zombie"
                                  /\ task[t].pid = tty_pgrp /\ task[t].leader /\ task[t].tty

\* A signal that nobody catches ends the process, wherever it sleeps: pause and
\* waitpid return (sched.c:92, exit.c:145, system_call.s:92-99).
KilledDies ==
  \A t \in Slot \ {0} :
    Alive(t) /\ "INT" \in task[t].signal /\ task[t].sig_fn = "default"
      ~> ~ Alive(t) \/ task[t].sig_fn # "default"
=============================================================================
