----------------------------- MODULE TaskProofs ------------------------------
(***************************************************************************)
(* Tasks, for every number of slots.  Process.tla: fathers, the            *)
(* terminal's group and waitpid, for every number of process numbers:      *)
(* numbers are used again, and still name who they named; no father sleeps *)
(* beside a zombie child.  Scheduler.tla, for every largest priority:      *)
(* types with the bound on saved-up time, and that the loop of schedule()  *)
(* ends with a task that has time left.                                    *)
(***************************************************************************)
EXTENDS Process, Scheduler, WellFoundedInduction, TLAPS

USE ConstantsAssumption

Running == {"user", "ret", "pause", "wait"}

Record == [at : {"none", "exit", "zombie"} \union Running,
           pid : Nat, father : Int, pgrp : Nat, session : Nat, leader : BOOLEAN, tty : BOOLEAN,
           signal : SUBSET {"INT", "CHLD"}, sig_fn : {"default", "handler"}, wait : Arguments \union {0}]

\* FathersLive needs that process numbers are positive (0 is "no father"), and
\* TtyGroupLed that a leader is in the group that it leads: sys_setpgid leaves
\* leaders alone. Slot 0 is task 0, asleep in pause().
Inductive ==
  /\ task \in [Slot -> Record] /\ last_pid \in Pid /\ tty_pgrp \in Nat
  /\ task[0].at = "pause" /\ task[0].pid = 0
  /\ \A i \in Slot \ {0} : Used(i) => task[i].pid \in Pid
  /\ \A i \in Slot : Used(i) /\ task[i].leader => task[i].pgrp = task[i].pid
  /\ FathersLive
  /\ TtyGroupLed

-------------------------------------------------------------------------------
(* A step in which no process begins, ends, or changes relatives.          *)

Class(at) == IF at \in Running THEN "user" ELSE at
Same(p, q) == /\ p.pid = q.pid /\ p.father = q.father /\ p.leader = q.leader
              /\ p.tty = q.tty /\ (p.leader => p.pgrp = q.pgrp)
              /\ Class(p.at) = Class(q.at)
Kept(tasks) == tasks \in [Slot -> Record] /\ \A i \in Slot : Same(task[i], tasks[i])

LEMMA ReturnKeeps ==
  ASSUME NEW T \in [Slot -> Record], NEW t \in Slot, T[t].at \in Running
  PROVE  /\ Returned(T, t) \in [Slot -> Record]
         /\ \A i \in Slot : Same(T[i], Returned(T, t)[i])
         /\ \A i \in Slot \ {t} : Returned(T, t)[i] = T[i]
BY DEF Returned, Record, Same, Class, Running

LEMMA KeptInvariant ==
  ASSUME Inductive, Kept(task'), task'[0].at = "pause", last_pid' \in Pid, tty_pgrp' = tty_pgrp
  PROVE  Inductive'
<1>1. \A i \in Slot : Same(task[i], task'[i]) /\ task[i] \in Record /\ task'[i] \in Record
  BY DEF Inductive, Kept
<1>2. \A i \in Slot : /\ Used(i)' = Used(i) /\ Alive(i)' = Alive(i)
                      /\ (task'[i].at = "zombie") = (task[i].at = "zombie")
  BY <1>1 DEF Used, Alive, Same, Class, Running, Record
<1>3. 0 \in Slot
  BY DEF Slot
<1>4. /\ task'[0].pid = 0
      /\ \A i \in Slot \ {0} : Used(i)' => task'[i].pid \in Pid
      /\ \A i \in Slot : Used(i)' /\ task'[i].leader => task'[i].pgrp = task'[i].pid
  BY <1>1, <1>2, <1>3 DEF Inductive, Same
<1>5. FathersLive'
  BY <1>1, <1>2 DEF Inductive, FathersLive, Same
<1>6. TtyGroupLed'
  BY <1>1, <1>2 DEF Inductive, TtyGroupLed, Same
<1>7. QED
  BY <1>4, <1>5, <1>6 DEF Inductive, Kept

LEMMA KillKeeps ==
  ASSUME NEW T \in [Slot -> Record], NEW t, NEW pid, NEW sig \in {"INT", "CHLD"}
  PROVE  /\ do_kill(t, pid, sig, T) \in [Slot -> Record]
         /\ \A i \in Slot : Same(T[i], do_kill(t, pid, sig, T)[i])
         /\ \A i \in Slot : do_kill(t, pid, sig, T)[i].at = T[i].at
BY DEF do_kill, Record, Same

LEMMA SameAgain ==
  ASSUME NEW p, NEW q, NEW r, Same(p, q), Same(q, r)
  PROVE  Same(p, r)
BY DEF Same

\* kill, the keyboard, signal, and what a process does with its signals.
LEMMA SignalKeeps ==
  ASSUME Inductive, NEW t \in Slot \ {0},
         \/ \E pid : sys_kill(t, pid)
         \/ tty_intr
         \/ \E f \in {"default", "handler"} : sys_signal(t, f)
         \/ sys_pause(t) \/ pause_ends(t)
  PROVE  Inductive'
<1>1. task \in [Slot -> Record] /\ 0 \in Slot /\ last_pid \in Pid
  BY DEF Inductive, Slot
<1>2. CASE \E pid : sys_kill(t, pid)
  <2>1. PICK pid : sys_kill(t, pid)
    BY <1>2
  <2> DEFINE T == do_kill(t, pid, "INT", task)
  <2>2. /\ T \in [Slot -> Record]
        /\ \A i \in Slot : Same(task[i], T[i])
        /\ \A i \in Slot : T[i].at = task[i].at
    BY <1>1, KillKeeps
  <2>3. T[t].at \in Running
    BY <2>1, <2>2 DEF sys_kill, Running
  <2>4. task' = Returned(T, t) /\ last_pid' = last_pid /\ tty_pgrp' = tty_pgrp
    BY <2>1 DEF sys_kill
  <2> HIDE DEF T
  <2>5. /\ task' \in [Slot -> Record]
        /\ \A i \in Slot : Same(T[i], task'[i])
        /\ \A i \in Slot \ {t} : task'[i] = T[i]
    BY <2>2, <2>3, <2>4, ReturnKeeps
  <2>6. \A i \in Slot : Same(task[i], task'[i])
    BY <2>2, <2>5, SameAgain
  <2>7. QED
    BY <1>1, <2>2, <2>4, <2>5, <2>6, KeptInvariant DEF Kept, Inductive
<1>3. CASE tty_intr
  <2>1. /\ task' \in [Slot -> Record]
        /\ \A i \in Slot : Same(task[i], task'[i]) /\ task'[i].at = task[i].at
    BY <1>1, <1>3 DEF tty_intr, Record, Same
  <2>2. QED
    BY <1>1, <1>3, <2>1, KeptInvariant DEF tty_intr, Kept, Inductive
<1>4. CASE \E f \in {"default", "handler"} : sys_signal(t, f)
  <2>1. PICK f \in {"default", "handler"} : sys_signal(t, f)
    BY <1>4
  <2> DEFINE T == [task EXCEPT ![t].sig_fn = f]
  <2>2. /\ T \in [Slot -> Record] /\ T[t].at \in Running
        /\ \A i \in Slot : Same(task[i], T[i]) /\ T[i].at = task[i].at
    BY <1>1, <2>1 DEF sys_signal, Record, Same, Running
  <2>3. task' = Returned(T, t) /\ last_pid' = last_pid /\ tty_pgrp' = tty_pgrp
    BY <2>1 DEF sys_signal
  <2> HIDE DEF T
  <2>4. /\ task' \in [Slot -> Record]
        /\ \A i \in Slot : Same(T[i], task'[i])
        /\ \A i \in Slot \ {t} : task'[i] = T[i]
    BY <2>2, <2>3, ReturnKeeps
  <2>5. \A i \in Slot : Same(task[i], task'[i])
    BY <2>2, <2>4, SameAgain
  <2>6. QED
    BY <1>1, <2>2, <2>3, <2>4, <2>5, KeptInvariant DEF Kept, Inductive
<1>5. CASE sys_pause(t) \/ pause_ends(t)
  <2>1. /\ task' \in [Slot -> Record] /\ task'[0] = task[0]
        /\ \A i \in Slot : Same(task[i], task'[i])
    BY <1>1, <1>5 DEF sys_pause, pause_ends, Record, Same, Class, Running
  <2>2. QED
    BY <1>1, <1>5, <2>1, KeptInvariant DEF sys_pause, pause_ends, Kept, Inductive
<1>6. QED
  BY <1>2, <1>3, <1>4, <1>5

-------------------------------------------------------------------------------
(* fork: the new number names nobody else, and the father is alive. *)

LEMMA LeastNatural ==
  ASSUME NEW S \in SUBSET Nat, S # {}
  PROVE  \E m \in S : \A j \in S : m <= j
<1>1. PICK m \in S : \A j \in S : ~ (<<j, m>> \in OpToRel(<, Nat))
  BY NatLessThanWellFounded, WFMin
<1>2. \A j \in S : ~ (j < m)
  BY <1>1 DEF OpToRel
<1>3. QED
  BY <1>2

\* The first and the last of some slots are among them.
LEMMA MinMaxIn ==
  ASSUME NEW S \in SUBSET Slot, S # {}
  PROVE  Min(S) \in S /\ Max(S) \in S
<1>1. S \in SUBSET Nat
  BY DEF Slot
<1>2. PICK m \in S : \A j \in S : m <= j
  BY <1>1, LeastNatural
<1>3. Min(S) \in S
  BY <1>1, <1>2 DEF Min
<1> DEFINE above(j) == NR_TASKS - j
           Above == {above(j) : j \in S}
<1>4. \A j \in S : above(j) \in Nat
  BY DEF Slot
<1>5. \A j, k \in S : above(j) <= above(k) => j >= k
  BY DEF Slot
<1> HIDE DEF above
<1>6. Above \in SUBSET Nat /\ Above # {}
  BY <1>4
<1>7. PICK d \in Above : \A e \in Above : d <= e
  BY <1>6, LeastNatural
<1>8. PICK l \in S : d = above(l)
  OBVIOUS
<1>9. \A j \in S : l >= j
  BY <1>5, <1>7, <1>8
<1>10. Max(S) \in S
  BY <1>9 DEF Max
<1>11. QED
  BY <1>3, <1>10

LEMMA CopyType ==
  ASSUME NEW r \in Record, r.at = "user", NEW n \in Nat
  PROVE  LET child == [r EXCEPT !.pid = n, !.father = r.pid, !.signal = {}, !.leader = FALSE]
         IN /\ child \in Record /\ child.pid = n /\ child.father = r.pid
            /\ child.leader = FALSE /\ child.at = "user"
<1> DEFINE one == [r EXCEPT !.pid = n]
           two == [one EXCEPT !.father = r.pid]
           three == [two EXCEPT !.signal = {}]
           child == [three EXCEPT !.leader = FALSE]
<1>1. one \in Record /\ one.pid = n /\ one.at = "user"
  BY DEF Record
<1>2. r.pid \in Int
  BY DEF Record
<1> HIDE DEF one
<1>3. two \in Record /\ two.father = r.pid /\ two.pid = n /\ two.at = "user"
  BY <1>1, <1>2 DEF Record
<1> HIDE DEF two
<1>4. three \in Record /\ three.father = r.pid /\ three.pid = n /\ three.at = "user"
  BY <1>3 DEF Record
<1> HIDE DEF three
<1>5. /\ child \in Record /\ child.father = r.pid /\ child.pid = n /\ child.at = "user"
      /\ child.leader = FALSE
  BY <1>4 DEF Record
<1>6. child = [r EXCEPT !.pid = n, !.father = r.pid, !.signal = {}, !.leader = FALSE]
  BY DEF one, two, three
<1>7. QED
  BY <1>5, <1>6

LEMMA ForkKeeps ==
  ASSUME Inductive, NEW t \in Slot \ {0}, sys_fork(t)
  PROVE  Inductive'
<1>1. PICK n \in Pid :
        /\ find_empty_process(n) /\ last_pid' = n
        /\ \/ task' = Returned(task, t)
           \/ /\ EmptySlots # {}
              /\ task' = Returned([task EXCEPT ![Min(EmptySlots)] = copy_process(t, n)], t)
  BY DEF sys_fork
<1>2. /\ task \in [Slot -> Record] /\ 0 \in Slot /\ tty_pgrp' = tty_pgrp
      /\ task[t].at = "user" /\ last_pid' \in Pid
  BY <1>1 DEF Inductive, Slot, sys_fork
<1>3. CASE task' = Returned(task, t)
  <2>1. /\ task' \in [Slot -> Record] /\ task'[0] = task[0]
        /\ \A i \in Slot : Same(task[i], task'[i])
    BY <1>2, <1>3, ReturnKeeps DEF Running
  <2>2. QED
    BY <1>2, <2>1, KeptInvariant DEF Kept, Inductive
<1>4. CASE /\ EmptySlots # {}
           /\ task' = Returned([task EXCEPT ![Min(EmptySlots)] = copy_process(t, n)], t)
  <2>0. PICK c \in EmptySlots : c = Min(EmptySlots)
    BY <1>4, MinMaxIn DEF EmptySlots
  <2> DEFINE T == [task EXCEPT ![c] = copy_process(t, n)]
  <2>1. c \in Slot \ {0, t} /\ ~ Used(c)
    BY <1>2 DEF EmptySlots, Used
  <2>2. \A i \in Slot : Used(i) => task[i].pid # n
    BY <1>1 DEF find_empty_process, InUse
  <2> DEFINE child == copy_process(t, n)
  <2>a. /\ child \in Record /\ child.pid = n /\ child.father = task[t].pid
        /\ child.leader = FALSE /\ child.at = "user"
    <3>1. task[t] \in Record /\ n \in Nat
      BY <1>2 DEF Pid
    <3>2. QED
      BY <1>2, <3>1, CopyType DEF copy_process
  <2> HIDE DEF child
  <2>3. /\ T \in [Slot -> Record] /\ T[t].at = "user"
        /\ T[c] = child /\ \A i \in Slot \ {c} : T[i] = task[i]
    BY <1>2, <2>1, <2>a DEF child
  <2>4. /\ task' \in [Slot -> Record]
        /\ \A i \in Slot : Same(T[i], task'[i])
        /\ \A i \in Slot \ {t} : task'[i] = T[i]
    BY <1>4, <2>0, <2>3, <2>a, ReturnKeeps DEF child, Running
  <2>5. /\ task'[c].pid = n /\ task'[c].father = task[t].pid /\ task'[c].leader = FALSE
        /\ task'[c].at = "user"
    BY <2>1, <2>3, <2>4, <2>a
  <2>6. \A i \in Slot \ {c} : Same(task[i], task'[i])
    BY <2>3, <2>4
  <2>7. \A i \in Slot \ {c} : /\ Used(i)' = Used(i) /\ Alive(i)' = Alive(i)
                              /\ (task'[i].at = "zombie") = (task[i].at = "zombie")
    BY <1>2, <2>4, <2>6 DEF Used, Alive, Same, Class, Running, Record
  <2>8. Used(c)' /\ Alive(t)'
    <3>1. Used(c)'
      BY <2>5 DEF Used
    <3>2. Alive(t) /\ t \in Slot \ {c}
      BY <1>2, <2>1 DEF Used, Alive
    <3>3. QED
      BY <2>7, <3>1, <3>2
  <2>9. /\ task'[0].at = "pause" /\ task'[0].pid = 0
        /\ \A i \in Slot \ {0} : Used(i)' => task'[i].pid \in Pid
        /\ \A i \in Slot : Used(i)' /\ task'[i].leader => task'[i].pgrp = task'[i].pid
    <3>1. task'[0] = task[0]
      BY <1>2, <2>1, <2>3, <2>4
    <3>2. \A i \in Slot \ {0, c} : Used(i)' => task'[i].pid \in Pid
      BY <2>6, <2>7 DEF Inductive, Same
    <3>3. \A i \in Slot \ {c} : Used(i)' /\ task'[i].leader => task'[i].pgrp = task'[i].pid
      BY <2>6, <2>7 DEF Inductive, Same
    <3>4. QED
      BY <1>1, <2>5, <3>1, <3>2, <3>3 DEF Inductive
  <2>10. FathersLive'
    <3>1. \A i, j \in Slot : Used(i)' /\ Used(j)' /\ task'[i].pid = task'[j].pid => i = j
      BY <2>2, <2>5, <2>6, <2>7 DEF Inductive, FathersLive, Same
    <3>2. ASSUME NEW i \in Slot \ {0}, Used(i)', task'[i].father # 0
          PROVE  \E f \in Slot \ {0, i} : Alive(f)' /\ task'[f].pid = task'[i].father
      <4>1. CASE i = c
        <5>1. t \in Slot \ {0, i} /\ task'[t].pid = task[t].pid
          BY <2>1, <2>6, <4>1 DEF Same
        <5>2. QED
          BY <2>5, <2>8, <4>1, <5>1
      <4>2. CASE i # c
        <5>1. PICK f \in Slot \ {0, i} : Alive(f) /\ task[f].pid = task[i].father
          BY <2>6, <2>7, <3>2, <4>2 DEF Inductive, FathersLive, Same
        <5>2. f # c
          BY <2>1, <5>1 DEF Alive
        <5>3. QED
          BY <2>6, <2>7, <4>2, <5>1, <5>2 DEF Same
      <4>3. QED
        BY <4>1, <4>2
    <3>3. QED
      BY <3>1, <3>2 DEF FathersLive
  <2>11. TtyGroupLed'
    BY <1>2, <2>1, <2>6, <2>7 DEF Inductive, TtyGroupLed, Same
  <2>12. QED
    BY <1>2, <2>4, <2>9, <2>10, <2>11 DEF Inductive
<1>5. QED
  BY <1>1, <1>3, <1>4

-------------------------------------------------------------------------------
(* exit and waitpid: nobody alive is a child of a process that goes.       *)

\* do_exit gives the children father 0 before the process stops being alive.
LEMMA ExitKeeps ==
  ASSUME Inductive, NEW t \in Slot \ {0}, task[t].at \in {"user", "ret"}, do_exit(t)
  PROVE  Inductive'
<1>1. /\ task \in [Slot -> Record] /\ 0 \in Slot /\ last_pid' \in Pid
      /\ last_pid' = last_pid /\ tty_pgrp' = tty_pgrp
  BY DEF Inductive, Slot, do_exit
<1> DEFINE O == Orphaned(t)
           E == [O EXCEPT ![t].at = "exit"]
           S == [E EXCEPT ![t].signal = {}]
<1>2. /\ O \in [Slot -> Record]
      /\ \A i \in Slot : /\ O[i].pid = task[i].pid /\ O[i].at = task[i].at
                         /\ O[i].leader = task[i].leader /\ O[i].tty = task[i].tty
                         /\ O[i].pgrp = task[i].pgrp
                         /\ O[i].father = IF Used(i) /\ task[i].father = task[t].pid
                                          THEN 0 ELSE task[i].father
  BY <1>1 DEF Orphaned, Record
<1>3. task' = [S EXCEPT ![t].sig_fn = "default"]
  BY DEF do_exit
<1> HIDE DEF O
<1> DEFINE Like(T) == /\ T \in [Slot -> Record] /\ \A i \in Slot \ {t} : T[i] = O[i]
                      /\ T[t].at = "exit" /\ T[t].pid = O[t].pid /\ T[t].father = O[t].father
                      /\ T[t].leader = O[t].leader /\ T[t].tty = O[t].tty
                      /\ T[t].pgrp = O[t].pgrp
<1>4. Like(E)
  BY <1>2 DEF Record
<1> HIDE DEF E
<1>5. Like(S)
  BY <1>4 DEF Record
<1> HIDE DEF S
<1>6. Like(task')
  BY <1>3, <1>5 DEF Record
<1>7. \A i \in Slot : Used(i)' = Used(i)
  BY <1>2, <1>6 DEF Used
<1>8. Alive(t) /\ \A i \in Slot \ {t} : Alive(i)' = Alive(i)
  BY <1>2, <1>6 DEF Used, Alive
<1>9. /\ task'[0].at = "pause" /\ task'[0].pid = 0
      /\ \A i \in Slot \ {0} : Used(i)' => task'[i].pid \in Pid
      /\ \A i \in Slot : Used(i)' /\ task'[i].leader => task'[i].pgrp = task'[i].pid
  BY <1>1, <1>2, <1>6, <1>7 DEF Inductive
<1>10. FathersLive'
  <2>1. \A i, j \in Slot : Used(i)' /\ Used(j)' /\ task'[i].pid = task'[j].pid => i = j
    BY <1>2, <1>6, <1>7 DEF Inductive, FathersLive
  <2>2. ASSUME NEW i \in Slot \ {0}, Used(i)', task'[i].father # 0
        PROVE  \E f \in Slot \ {0, i} : Alive(f)' /\ task'[f].pid = task'[i].father
    <3>1. Used(i) /\ task'[i].father = task[i].father /\ task[i].father # task[t].pid
      BY <1>2, <1>6, <1>7, <2>2
    <3>2. PICK f \in Slot \ {0, i} : Alive(f) /\ task[f].pid = task[i].father
      BY <2>2, <3>1 DEF Inductive, FathersLive
    <3>3. f # t
      BY <3>1, <3>2
    <3>4. QED
      BY <1>2, <1>6, <1>8, <3>1, <3>2, <3>3
  <2>3. QED
    BY <2>1, <2>2 DEF FathersLive
<1>11. TtyGroupLed'
  <2>1. \A i \in Slot : task[i].at # "zombie" => task'[i].at # "zombie"
    BY <1>2, <1>6
  <2>2. QED
    BY <1>1, <1>2, <1>6, <1>7, <2>1 DEF Inductive, TtyGroupLed
<1>12. QED
  BY <1>1, <1>6, <1>9, <1>10, <1>11 DEF Inductive

\* A process that is not alive becomes a zombie or vanishes, and if it led the
\* terminal's group, that goes too.
LEMMA EndKeeps ==
  ASSUME Inductive, NEW p \in Slot \ {0}, Used(p), ~ Alive(p),
         task' \in [Slot -> Record], task'[0].at = "pause", last_pid' \in Pid,
         \A i \in Slot \ {p} : Same(task[i], task'[i]),
         \/ task'[p].at = "none"
         \/ /\ task'[p].at = "zombie" /\ task'[p].pid = task[p].pid /\ task'[p].pgrp = task[p].pgrp
            /\ task'[p].father = task[p].father /\ task'[p].leader = task[p].leader,
         \/ tty_pgrp' = 0
         \/ tty_pgrp' = tty_pgrp /\ (task[p].at = "zombie" \/ ~ task[p].leader \/ ~ task[p].tty)
  PROVE  Inductive'
<1>1. /\ task \in [Slot -> Record] /\ 0 \in Slot /\ tty_pgrp' \in Nat
  BY DEF Inductive, Slot
<1>2. \A i \in Slot \ {p} : /\ Used(i)' = Used(i) /\ Alive(i)' = Alive(i)
                            /\ (task'[i].at = "zombie") = (task[i].at = "zombie")
  BY <1>1 DEF Used, Alive, Same, Class, Running, Record
<1>3. /\ task'[0].pid = 0
      /\ \A i \in Slot \ {0} : Used(i)' => task'[i].pid \in Pid
      /\ \A i \in Slot : Used(i)' /\ task'[i].leader => task'[i].pgrp = task'[i].pid
  BY <1>1, <1>2 DEF Inductive, Same, Used
<1>4. \A i \in Slot : Used(i)' => /\ Used(i) /\ task'[i].pid = task[i].pid
                                  /\ task'[i].father = task[i].father
  BY <1>2 DEF Same, Used
<1>5. FathersLive'
  <2>1. \A i, j \in Slot : Used(i)' /\ Used(j)' /\ task'[i].pid = task'[j].pid => i = j
    BY <1>4 DEF Inductive, FathersLive
  <2>2. ASSUME NEW i \in Slot \ {0}, Used(i)', task'[i].father # 0
        PROVE  \E f \in Slot \ {0, i} : Alive(f)' /\ task'[f].pid = task'[i].father
    <3>1. PICK f \in Slot \ {0, i} : Alive(f) /\ task[f].pid = task[i].father
      BY <1>4, <2>2 DEF Inductive, FathersLive
    <3>2. f # p
      BY <3>1
    <3>3. QED
      BY <1>2, <1>4, <2>2, <3>1, <3>2 DEF Same
  <2>3. QED
    BY <2>1, <2>2 DEF FathersLive
<1>6. TtyGroupLed'
  BY <1>1, <1>2 DEF Inductive, TtyGroupLed, Same
<1>7. QED
  BY <1>1, <1>3, <1>5, <1>6 DEF Inductive

LEMMA ExitedKeeps ==
  ASSUME Inductive, NEW t \in Slot \ {0}, exited(t)
  PROVE  Inductive'
<1>1. /\ task \in [Slot -> Record] /\ 0 \in Slot \ {t} /\ last_pid' \in Pid
      /\ Used(t) /\ ~ Alive(t) /\ task[0].at = "pause"
  BY DEF Inductive, Slot, exited, Used, Alive
<1>2. tty_pgrp' = 0 \/ (tty_pgrp' = tty_pgrp /\ (~ task[t].leader \/ ~ task[t].tty))
  BY DEF exited
<1>3. CASE task[t].father # 0
  <2> DEFINE Z == [task EXCEPT ![t].at = "zombie"]
             Y == [Z EXCEPT ![t].tty = FALSE]
             Like(T) == /\ T \in [Slot -> Record] /\ \A i \in Slot \ {t} : T[i] = task[i]
                        /\ T[t].at = "zombie" /\ T[t].pid = task[t].pid
                        /\ T[t].father = task[t].father
                        /\ T[t].leader = task[t].leader /\ T[t].pgrp = task[t].pgrp
  <2>1. Like(Z)
    BY <1>1 DEF Record
  <2>2. task' = do_kill(t, task[t].father, "CHLD", Y)
    BY <1>3 DEF exited
  <2> HIDE DEF Z
  <2>3. Like(Y)
    <3> DEFINE y == [Z[t] EXCEPT !.tty = FALSE]
    <3>1. Z[t] \in Record
      BY <2>1
    <3>2. /\ y \in Record /\ y.at = Z[t].at /\ y.pid = Z[t].pid /\ y.father = Z[t].father
          /\ y.leader = Z[t].leader /\ y.pgrp = Z[t].pgrp
      BY <3>1 DEF Record
    <3>3. Y = [Z EXCEPT ![t] = y]
      BY <2>1
    <3> HIDE DEF y
    <3>4. QED
      BY <2>1, <3>2, <3>3
  <2> HIDE DEF Y
  <2>4. /\ task' \in [Slot -> Record] /\ \A i \in Slot : task'[i].at = Y[i].at
        /\ \A i \in Slot : Same(Y[i], task'[i])
    BY <2>2, <2>3, KillKeeps
  <2>5. \A i \in Slot \ {t} : Same(task[i], task'[i])
    BY <2>3, <2>4
  <2>6. task'[t].pgrp = Y[t].pgrp
    BY <2>2, <2>3 DEF do_kill, Record
  <2>7. /\ task'[t].at = "zombie" /\ task'[t].pid = task[t].pid /\ task'[t].pgrp = task[t].pgrp
        /\ task'[t].father = task[t].father /\ task'[t].leader = task[t].leader
    BY <2>3, <2>4, <2>6 DEF Same
  <2>8. task'[0].at = "pause"
    BY <1>1, <2>3, <2>4
  <2>9. QED
    BY <1>1, <1>2, <2>4, <2>5, <2>7, <2>8, EndKeeps
<1>4. CASE task[t].father = 0
  <2>1. task' = [task EXCEPT ![t] = NoTask]
    BY <1>4 DEF exited, release
  <2>2. NoTask \in Record /\ NoTask.at = "none"
    BY DEF NoTask, Record
  <2>3. /\ task' \in [Slot -> Record] /\ task'[t].at = "none"
        /\ \A i \in Slot \ {t} : task'[i] = task[i]
    BY <1>1, <2>1, <2>2
  <2>4. \A i \in Slot \ {t} : Same(task[i], task'[i])
    BY <2>3 DEF Same
  <2>5. QED
    BY <1>1, <1>2, <2>3, <2>4, EndKeeps
<1>5. QED
  BY <1>3, <1>4

LEMMA ScanKeeps ==
  ASSUME Inductive, NEW t \in Slot \ {0}, task[t].at \in Running,
         NEW pid \in Arguments \union {0}, NEW flag, NEW nohang,
         scan(t, pid, flag, nohang), last_pid' = last_pid, tty_pgrp' = tty_pgrp
  PROVE  Inductive'
<1>1. /\ task \in [Slot -> Record] /\ 0 \in Slot \ {t} /\ last_pid' \in Pid /\ task[0].at = "pause"
  BY DEF Inductive, Slot
<1> DEFINE left == task[t].signal \ (IF flag THEN {"CHLD"} ELSE {})
           C == [task EXCEPT ![t].signal = left]
           now == [C EXCEPT ![t].wait = 0]
           Like(T) == /\ T \in [Slot -> Record] /\ \A i \in Slot : Same(task[i], T[i])
                      /\ T[t].at \in Running /\ \A i \in Slot \ {t} : T[i] = task[i]
<1>2. /\ task[t] \in Record /\ left \in SUBSET {"INT", "CHLD"}
  BY <1>1 DEF Record
<1>3. task' = IF Zombies(t, pid) # {}
              THEN Returned([now EXCEPT ![Max(Zombies(t, pid))] = NoTask], t)
              ELSE IF (flag \/ \E p \in Slot : Waited(t, pid, p)) /\ ~ nohang
              THEN [now EXCEPT ![t].at = "wait", ![t].wait = pid]
              ELSE Returned(now, t)
  BY DEF scan
<1> HIDE DEF left
<1>4. Like(C)
  BY <1>1, <1>2 DEF Record, Same
<1> HIDE DEF C
<1>5. Like(now)
  BY <1>4 DEF Record, Same
<1> HIDE DEF now
<1>6. CASE Zombies(t, pid) # {}
  <2>1. PICK p \in Zombies(t, pid) : p = Max(Zombies(t, pid))
    BY <1>6, MinMaxIn DEF Zombies
  <2>2. p \in Slot \ {0, t} /\ Used(p) /\ task[p].at = "zombie"
    BY <2>1 DEF Zombies, Waited
  <2>3. NoTask \in Record /\ NoTask.at = "none"
    BY DEF NoTask, Record
  <2> DEFINE R == [now EXCEPT ![p] = NoTask]
  <2>4. /\ R \in [Slot -> Record] /\ R[p].at = "none" /\ R[t].at \in Running
        /\ \A i \in Slot \ {p} : R[i] = now[i]
    BY <1>5, <2>2, <2>3
  <2>5. task' = Returned(R, t)
    BY <1>3, <1>6, <2>1
  <2> HIDE DEF R
  <2>6. /\ task' \in [Slot -> Record]
        /\ \A i \in Slot : Same(R[i], task'[i])
        /\ \A i \in Slot \ {t} : task'[i] = R[i]
    BY <2>4, <2>5, ReturnKeeps
  <2>7. \A i \in Slot \ {p} : Same(task[i], task'[i])
    BY <1>5, <2>4, <2>6, SameAgain
  <2>8. task'[p].at = "none" /\ task'[0].at = "pause" /\ ~ Alive(p)
    BY <1>1, <1>5, <2>2, <2>4, <2>6 DEF Alive
  <2>9. QED
    BY <1>1, <2>2, <2>6, <2>7, <2>8, EndKeeps
<1>7. CASE task' = [now EXCEPT ![t].at = "wait", ![t].wait = pid]
  <2> DEFINE W == [now EXCEPT ![t].at = "wait"]
  <2>1. Like(W)
    BY <1>5 DEF Record, Same, Class, Running
  <2>2. task' = [W EXCEPT ![t].wait = pid]
    BY <1>7
  <2> HIDE DEF W
  <2>3. Like(task')
    BY <2>1, <2>2 DEF Record, Same
  <2>4. QED
    BY <1>1, <2>3, KeptInvariant DEF Kept
<1>8. CASE task' = Returned(now, t)
  <2>1. /\ task' \in [Slot -> Record]
        /\ \A i \in Slot : Same(now[i], task'[i])
        /\ \A i \in Slot \ {t} : task'[i] = now[i]
    BY <1>5, <1>8, ReturnKeeps
  <2>2. \A i \in Slot : Same(task[i], task'[i])
    BY <1>5, <2>1, SameAgain
  <2>3. QED
    BY <1>1, <1>5, <2>1, <2>2, KeptInvariant DEF Kept
<1>9. QED
  BY <1>3, <1>6, <1>7, <1>8

LEMMA WaitKeeps ==
  ASSUME Inductive, NEW t \in Slot \ {0},
         \/ \E pid \in Arguments, nohang \in BOOLEAN : sys_waitpid(t, pid, nohang)
         \/ wait_on(t)
  PROVE  Inductive'
<1>0. last_pid' = last_pid /\ tty_pgrp' = tty_pgrp
  <2>1. CASE \E pid \in Arguments, nohang \in BOOLEAN : sys_waitpid(t, pid, nohang)
    BY <2>1 DEF sys_waitpid
  <2>2. CASE wait_on(t)
    BY <2>2 DEF wait_on
  <2>3. QED
    BY <2>1, <2>2
<1>1. /\ task \in [Slot -> Record] /\ 0 \in Slot \ {t} /\ last_pid' \in Pid /\ task[0].at = "pause"
      /\ last_pid' = last_pid /\ tty_pgrp' = tty_pgrp
  BY <1>0 DEF Inductive, Slot
<1>2. CASE \E pid \in Arguments, nohang \in BOOLEAN : sys_waitpid(t, pid, nohang)
  BY <1>1, <1>2, ScanKeeps DEF sys_waitpid, Running
<1>3. CASE wait_on(t) /\ task[t].signal = {"CHLD"}
  <2>1. task[t].wait \in Arguments \union {0} /\ scan(t, task[t].wait, TRUE, FALSE)
    BY <1>1, <1>3 DEF wait_on, Record
  <2>2. QED
    BY <1>1, <1>3, <2>1, ScanKeeps DEF wait_on, Running
<1>4. CASE wait_on(t) /\ task[t].signal # {"CHLD"}
  <2> DEFINE R == [task EXCEPT ![t].at = "ret"]
             W == [R EXCEPT ![t].wait = 0]
             Like(T) == /\ T \in [Slot -> Record] /\ \A i \in Slot : Same(task[i], T[i])
                        /\ \A i \in Slot \ {t} : T[i] = task[i]
  <2>1. Like(R)
    BY <1>1, <1>4 DEF wait_on, Record, Same, Class, Running
  <2>2. task' = [W EXCEPT ![t].signal = @ \ {"CHLD"}]
    BY <1>4 DEF wait_on
  <2> HIDE DEF R
  <2>3. Like(W)
    BY <2>1 DEF Record, Same
  <2> HIDE DEF W
  <2>4. Like(task')
    BY <2>2, <2>3 DEF Record, Same
  <2>5. QED
    BY <1>1, <2>4, KeptInvariant DEF Kept
<1>5. QED
  BY <1>2, <1>3, <1>4

LEMMA ReturnInvariant ==
  ASSUME Inductive, NEW t \in Slot \ {0}, ret_from_sys_call(t)
  PROVE  Inductive'
<1>1. /\ task \in [Slot -> Record] /\ 0 \in Slot \ {t} /\ last_pid \in Pid /\ task[0].at = "pause"
      /\ task[t].at \in {"user", "ret"}
  BY DEF Inductive, Slot, ret_from_sys_call
<1> DEFINE Like(T) == /\ T \in [Slot -> Record] /\ \A i \in Slot : Same(task[i], T[i])
                      /\ T[t].at \in Running /\ \A i \in Slot \ {t} : T[i] = task[i]
<1>2. CASE do_exit(t)
  BY <1>1, <1>2, ExitKeeps
<1> DEFINE S == [task EXCEPT ![t].signal = @ \ {"INT"}]
           F == [S EXCEPT ![t].sig_fn = "default"]
<1>3. CASE task' = Returned(F, t) /\ UNCHANGED <<last_pid, tty_pgrp, calls>>
  <2>1. Like(S)
    BY <1>1 DEF Record, Same, Running
  <2> HIDE DEF S
  <2>2. Like(F)
    BY <2>1 DEF Record, Same
  <2> HIDE DEF F
  <2>3. /\ task' \in [Slot -> Record]
        /\ \A i \in Slot : Same(F[i], task'[i])
        /\ \A i \in Slot \ {t} : task'[i] = F[i]
    BY <1>3, <2>2, ReturnKeeps
  <2>4. \A i \in Slot : Same(task[i], task'[i])
    BY <2>2, <2>3, SameAgain
  <2>5. QED
    BY <1>1, <1>3, <2>2, <2>3, <2>4, KeptInvariant DEF Kept
<1> DEFINE U == [task EXCEPT ![t].at = "user"]
<1>4. CASE task' = [U EXCEPT ![t].signal = {}] /\ UNCHANGED <<last_pid, tty_pgrp, calls>>
  <2>1. Like(U)
    BY <1>1 DEF Record, Same, Class, Running
  <2> HIDE DEF U
  <2>2. Like(task')
    BY <1>4, <2>1 DEF Record, Same
  <2>3. QED
    BY <1>1, <1>4, <2>2, KeptInvariant DEF Kept
<1>5. /\ [[task EXCEPT ![t].signal = @ \ {"INT"}] EXCEPT ![t].sig_fn = "default"] = F
      /\ [[task EXCEPT ![t].at = "user"] EXCEPT ![t].signal = {}] = [U EXCEPT ![t].signal = {}]
  OBVIOUS
<1>6. QED
  BY <1>2, <1>3, <1>4, <1>5, Zenon DEF ret_from_sys_call

-------------------------------------------------------------------------------
(* Groups and sessions: only those who do not lead change their group.     *)

LEMMA SetpgidKeeps ==
  ASSUME Inductive, NEW t \in Slot \ {0}, NEW p \in Slot, NEW pgid \in {0, task[t].pgrp},
         sys_setpgid(t, task[p].pid, pgid)
  PROVE  Inductive'
<1>1. /\ task \in [Slot -> Record] /\ 0 \in Slot \ {t} /\ last_pid' \in Pid /\ task[0].at = "pause"
      /\ last_pid' = last_pid /\ tty_pgrp' = tty_pgrp /\ task[t].at = "user"
  BY DEF Inductive, Slot, sys_setpgid
<1> DEFINE n == IF task[p].pid = 0 THEN task[t].pid ELSE task[p].pid
           g == IF pgid = 0 THEN n ELSE pgid
<1>2. g \in Nat
  BY <1>1 DEF Record
<1>3. PICK i \in Slot : /\ ~ task[i].leader
                        /\ task' = Returned([task EXCEPT ![i].pgrp = g], t)
  BY DEF sys_setpgid
<1> HIDE DEF g
<1> DEFINE G == [task EXCEPT ![i].pgrp = g]
<1>4. /\ G \in [Slot -> Record] /\ \A j \in Slot : Same(task[j], G[j]) /\ G[j].at = task[j].at
  BY <1>1, <1>2, <1>3 DEF Record, Same
<1>5. task' = Returned(G, t) /\ G[t].at \in Running
  BY <1>1, <1>3, <1>4 DEF Running
<1> HIDE DEF G
<1>6. /\ task' \in [Slot -> Record]
      /\ \A j \in Slot : Same(G[j], task'[j])
      /\ \A j \in Slot \ {t} : task'[j] = G[j]
  BY <1>4, <1>5, ReturnKeeps
<1>7. \A j \in Slot : Same(task[j], task'[j])
  BY <1>4, <1>6, SameAgain
<1>8. QED
  BY <1>1, <1>4, <1>6, <1>7, KeptInvariant DEF Kept

LEMMA SetsidKeeps ==
  ASSUME Inductive, NEW t \in Slot \ {0}, sys_setsid(t)
  PROVE  Inductive'
<1>1. /\ task \in [Slot -> Record] /\ task[t] \in Record /\ 0 \in Slot \ {t} /\ last_pid' \in Pid
      /\ tty_pgrp' = tty_pgrp /\ task[t].at = "user" /\ ~ task[t].leader
  BY DEF Inductive, Slot, sys_setsid
<1> DEFINE pid == task[t].pid
           L == [task EXCEPT ![t].leader = TRUE]
           S == [L EXCEPT ![t].session = pid]
           G == [S EXCEPT ![t].pgrp = pid]
           Y == [G EXCEPT ![t].tty = FALSE]
           Like(T) == /\ T \in [Slot -> Record] /\ \A i \in Slot \ {t} : T[i] = task[i]
                      /\ T[t].at = "user" /\ T[t].pid = pid /\ T[t].father = task[t].father
                      /\ T[t].leader
<1>2. pid \in Nat
  BY <1>1 DEF Record
<1>3. Like(L)
  BY <1>1 DEF Record
<1>4. task' = Returned(Y, t)
  BY DEF sys_setsid
<1> HIDE DEF L
<1>5. Like(S)
  BY <1>2, <1>3 DEF Record
<1> HIDE DEF S
<1>6. Like(G) /\ G[t].pgrp = pid
  BY <1>2, <1>5 DEF Record
<1> HIDE DEF G
<1>7. Like(Y) /\ Y[t].pgrp = pid
  <2> DEFINE y == [G[t] EXCEPT !.tty = FALSE]
  <2>1. G[t] \in Record
    BY <1>6
  <2>2. /\ y \in Record /\ y.at = G[t].at /\ y.pid = G[t].pid /\ y.father = G[t].father
        /\ y.leader = G[t].leader /\ y.pgrp = G[t].pgrp
    BY <2>1 DEF Record
  <2>3. Y = [G EXCEPT ![t] = y]
    BY <1>6
  <2> HIDE DEF y
  <2>4. QED
    BY <1>6, <2>2, <2>3
<1> HIDE DEF Y
<1>8. /\ task' \in [Slot -> Record] /\ Same(Y[t], task'[t])
      /\ \A i \in Slot \ {t} : task'[i] = task[i]
  BY <1>4, <1>7, ReturnKeeps DEF Running
<1>9. /\ task'[t].pid = task[t].pid /\ task'[t].father = task[t].father
      /\ task'[t].leader /\ task'[t].pgrp = task'[t].pid /\ task'[t].at \in Running
  BY <1>7, <1>8 DEF Same, Class, Running, Record
<1>10. /\ \A i \in Slot : Used(i)' = Used(i) /\ Alive(i)' = Alive(i)
       /\ \A i \in Slot : task'[i].pid = task[i].pid /\ task'[i].father = task[i].father
  BY <1>1, <1>8, <1>9 DEF Used, Alive, Running
<1>11. /\ task'[0].at = "pause" /\ task'[0].pid = 0
       /\ \A i \in Slot \ {0} : Used(i)' => task'[i].pid \in Pid
       /\ \A i \in Slot : Used(i)' /\ task'[i].leader => task'[i].pgrp = task'[i].pid
  BY <1>1, <1>8, <1>9, <1>10 DEF Inductive
<1>12. FathersLive'
  BY <1>10 DEF Inductive, FathersLive
<1>13. TtyGroupLed'
  BY <1>1, <1>8, <1>10 DEF Inductive, TtyGroupLed
<1>14. QED
  BY <1>1, <1>8, <1>11, <1>12, <1>13 DEF Inductive

LEMMA OpenKeeps ==
  ASSUME Inductive, NEW t \in Slot \ {0}, open_tty(t)
  PROVE  Inductive'
<1>1. /\ task \in [Slot -> Record] /\ task[t] \in Record /\ 0 \in Slot \ {t} /\ last_pid' \in Pid
      /\ task[t].at = "user" /\ task[t].leader /\ tty_pgrp' = task[t].pgrp
      /\ Used(t)
  BY DEF Inductive, Slot, open_tty, Used
<1>2. task[t].pgrp = task[t].pid /\ tty_pgrp' \in Nat
  BY <1>1 DEF Inductive, Record
<1> DEFINE Y == [task EXCEPT ![t].tty = TRUE]
           y == [task[t] EXCEPT !.tty = TRUE]
<1>3. /\ y \in Record /\ y.at = "user" /\ y.pid = task[t].pid /\ y.father = task[t].father
      /\ y.leader /\ y.pgrp = task[t].pgrp /\ y.tty
  BY <1>1 DEF Record
<1>4. Y = [task EXCEPT ![t] = y]
  BY <1>1
<1> HIDE DEF y
<1>5. Y \in [Slot -> Record] /\ Y[t] = y /\ \A i \in Slot \ {t} : Y[i] = task[i]
  BY <1>1, <1>3, <1>4
<1>6. task' = Returned(Y, t)
  BY DEF open_tty
<1> HIDE DEF Y
<1>7. /\ task' \in [Slot -> Record] /\ Same(y, task'[t])
      /\ \A i \in Slot \ {t} : task'[i] = task[i]
  BY <1>3, <1>5, <1>6, ReturnKeeps DEF Running
<1>8. /\ task'[t].pid = task[t].pid /\ task'[t].father = task[t].father /\ task'[t].tty
      /\ task'[t].leader /\ task'[t].pgrp = task'[t].pid /\ task'[t].at \in Running
  BY <1>1, <1>2, <1>3, <1>7 DEF Same, Class, Running, Record
<1>9. /\ \A i \in Slot : Used(i)' = Used(i) /\ Alive(i)' = Alive(i)
      /\ \A i \in Slot : task'[i].pid = task[i].pid /\ task'[i].father = task[i].father
  BY <1>1, <1>7, <1>8 DEF Used, Alive, Running
<1>10. /\ task'[0].at = "pause" /\ task'[0].pid = 0
       /\ \A i \in Slot \ {0} : Used(i)' => task'[i].pid \in Pid
       /\ \A i \in Slot : Used(i)' /\ task'[i].leader => task'[i].pgrp = task'[i].pid
  BY <1>1, <1>7, <1>8, <1>9 DEF Inductive
<1>11. FathersLive'
  BY <1>9 DEF Inductive, FathersLive
<1>12. TtyGroupLed'
  <2>1. Used(t)' /\ task'[t].at # "zombie" /\ task'[t].pid = tty_pgrp'
    BY <1>1, <1>2, <1>8, <1>9 DEF Running
  <2>2. QED
    BY <1>8, <2>1 DEF TtyGroupLed
<1>13. QED
  BY <1>1, <1>2, <1>7, <1>10, <1>11, <1>12 DEF Inductive

-------------------------------------------------------------------------------
LEMMA InitInductive == Init => Inductive
<1> SUFFICES ASSUME Init PROVE Inductive
  OBVIOUS
<1>1. FirstTask \in Record /\ InitTask \in Record /\ NoTask \in Record
  <2> DEFINE a == [NoTask EXCEPT !.at = "pause"]
             b == [NoTask EXCEPT !.at = "user"]
  <2>1. NoTask \in Record
    BY DEF NoTask, Record
  <2>2. a \in Record /\ b \in Record
    BY <2>1 DEF Record, Running
  <2>3. FirstTask = [a EXCEPT !.father = -1] /\ InitTask = [b EXCEPT !.pid = 1]
    BY DEF FirstTask, InitTask
  <2> HIDE DEF a, b
  <2>4. [a EXCEPT !.father = -1] \in Record /\ [b EXCEPT !.pid = 1] \in Record
    BY <2>2 DEF Record
  <2>5. QED
    BY <2>1, <2>3, <2>4
<1>2. /\ 0 \in Slot /\ 1 \in Slot
      /\ task[0] = FirstTask /\ task[1] = InitTask
      /\ \A i \in Slot \ {0, 1} : task[i] = NoTask
  BY DEF Init, Slot
<1>3. task \in [Slot -> Record]
  BY <1>1 DEF Init
<1>4. /\ FirstTask.at = "pause" /\ FirstTask.pid = 0 /\ FirstTask.leader = FALSE
      /\ InitTask.at = "user" /\ InitTask.pid = 1 /\ InitTask.father = 0
      /\ InitTask.leader = FALSE /\ NoTask.at = "none"
  BY DEF FirstTask, InitTask, NoTask
<1>5. \A i \in Slot : Used(i) => i \in {0, 1}
  BY <1>2, <1>4 DEF Used
<1>6. FathersLive
  BY <1>2, <1>4, <1>5 DEF FathersLive
<1>7. TtyGroupLed
  BY DEF Init, TtyGroupLed
<1>8. last_pid \in Pid /\ tty_pgrp \in Nat /\ 1 \in Pid
  BY DEF Init, Pid
<1>9. QED
  BY <1>2, <1>3, <1>4, <1>5, <1>6, <1>7, <1>8 DEF Inductive

LEMMA NextInductive == Inductive /\ [Next]_vars => Inductive'
<1> SUFFICES ASSUME Inductive, [Next]_vars PROVE Inductive'
  OBVIOUS
<1> 1 \in Slot \ {0}
  BY DEF Slot
<1>1. ASSUME NEW t \in Slot \ {0}, sys_fork(t) PROVE Inductive'
  BY <1>1, ForkKeeps
<1>2. ASSUME NEW t \in Slot \ {0}, sys_exit(t) PROVE Inductive'
  BY <1>2, ExitKeeps DEF sys_exit
<1>3. ASSUME NEW t \in Slot \ {0}, exited(t) PROVE Inductive'
  BY <1>3, ExitedKeeps
<1>4. ASSUME NEW t \in Slot \ {0}, NEW pid \in Arguments, sys_kill(t, pid) PROVE Inductive'
  BY <1>4, SignalKeeps
<1>5. ASSUME NEW t \in Slot \ {0}, NEW pid \in Arguments, NEW nohang \in BOOLEAN,
             sys_waitpid(t, pid, nohang)
      PROVE  Inductive'
  BY <1>5, WaitKeeps
<1>6. ASSUME NEW t \in Slot \ {0}, wait_on(t) PROVE Inductive'
  BY <1>6, WaitKeeps
<1>7. ASSUME NEW t \in Slot \ {0}, sys_pause(t) \/ pause_ends(t) PROVE Inductive'
  BY <1>7, SignalKeeps
<1>8. ASSUME NEW t \in Slot \ {0}, ret_from_sys_call(t) PROVE Inductive'
  BY <1>8, ReturnInvariant
<1>9. ASSUME NEW t \in Slot \ {0}, NEW f \in {"default", "handler"}, sys_signal(t, f)
      PROVE  Inductive'
  BY <1>9, SignalKeeps
<1>10. ASSUME NEW t \in Slot \ {0}, NEW p \in Slot, NEW pgid \in {0, task[t].pgrp},
              sys_setpgid(t, task[p].pid, pgid)
       PROVE  Inductive'
  BY <1>10, SetpgidKeeps
<1>11. ASSUME NEW t \in Slot \ {0}, sys_setsid(t) PROVE Inductive'
  BY <1>11, SetsidKeeps
<1>12. ASSUME NEW t \in Slot \ {0}, open_tty(t) PROVE Inductive'
  BY <1>12, OpenKeeps
<1>13. CASE tty_intr
  BY <1>13, SignalKeeps
<1>14. CASE UNCHANGED vars
  BY <1>14 DEF vars, Inductive, FathersLive, TtyGroupLed, Used, Alive
<1>15. QED
  BY <1>1, <1>2, <1>3, <1>4, <1>5, <1>6, <1>7, <1>8, <1>9, <1>10, <1>11, <1>12, <1>13, <1>14
     DEF Next

-------------------------------------------------------------------------------
(* Nobody sleeps in waitpid beside a zombie child: a step either makes no  *)
(* zombie and puts nobody to sleep, or it is one of two. The scan sleeps   *)
(* only when it has found none, and the child that becomes a zombie later  *)
(* signals its father in the same step.                                    *)

Asleep(u) == task[u].at = "wait" /\ task[u].signal = {}
MakesNoZombie(i) ==
  \/ task'[i].at \notin {"wait", "zombie"}
  \/ /\ task'[i].at = task[i].at /\ task'[i].pid = task[i].pid /\ task'[i].wait = task[i].wait
     /\ task[i].signal \subseteq task'[i].signal
     /\ task'[i].father \in {0, task[i].father}
\* i was asleep already, or has looked.
HasLooked(i) == /\ task'[i].pid = task[i].pid
                /\ \/ Asleep(i) /\ task'[i].wait = task[i].wait
                   \/ task'[i].wait \in {-1} \union Pid => Zombies(i, task'[i].wait) = {}
\* i was a zombie, or its father is not asleep.
IsNoticed(i) == \/ /\ task[i].at = "zombie" /\ task'[i].pid = task[i].pid
                   /\ task'[i].father \in {0, task[i].father}
                \/ \A u \in Slot : Asleep(u)' => task'[u].pid # task'[i].father

LEMMA StillNoneMissed ==
  ASSUME Inductive', NoChildMissed,
         \A i \in Slot : Asleep(i)' => HasLooked(i),
         \A i \in Slot : task'[i].at = "zombie" => IsNoticed(i)
  PROVE  NoChildMissed'
<1> SUFFICES ASSUME NEW u \in Slot, Asleep(u)', task'[u].wait \in {-1} \union Pid,
                    NEW p \in Zombies(u, task[u].wait)'
             PROVE  FALSE
  BY DEF NoChildMissed, Asleep
<1>1. PICK w \in {-1} \union Pid : w = task'[u].wait
  OBVIOUS
<1>2. /\ p \in Slot \ {0, u} /\ task'[p].at = "zombie" /\ task'[p].father = task'[u].pid
      /\ (w = -1 \/ task'[p].pid = w)
  BY <1>1 DEF Zombies, Waited, Pid
<1>3. u # 0 /\ task'[u].pid # 0
  BY DEF Inductive, Asleep, Used, Pid
<1>4. /\ task[p].at = "zombie" /\ task'[p].pid = task[p].pid
      /\ task'[p].father = task[p].father
  BY <1>2, <1>3 DEF IsNoticed
<1>5. HasLooked(u) /\ task'[u].pid = task[u].pid
  BY DEF HasLooked
<1>6. p \in Zombies(u, w)
  BY <1>2, <1>4, <1>5 DEF Zombies, Waited, Used
<1>7. CASE Asleep(u) /\ task'[u].wait = task[u].wait
  BY <1>1, <1>6, <1>7 DEF NoChildMissed, Asleep
<1>8. CASE Zombies(u, task'[u].wait) = {}
  BY <1>1, <1>6, <1>8
<1>9. QED
  BY <1>1, <1>5, <1>7, <1>8 DEF HasLooked

LEMMA NoZombieNoneMissed ==
  ASSUME Inductive', NoChildMissed, \A i \in Slot : MakesNoZombie(i)
  PROVE  NoChildMissed'
<1>1. \A i \in Slot : Asleep(i)' => HasLooked(i)
  BY DEF Asleep, HasLooked, MakesNoZombie
<1>2. \A i \in Slot : task'[i].at = "zombie" => IsNoticed(i)
  BY DEF IsNoticed, MakesNoZombie
<1>3. QED
  BY <1>1, <1>2, StillNoneMissed

LEMMA ReturnMakesNoZombie ==
  ASSUME NEW T \in [Slot -> Record], NEW t \in Slot, task' = Returned(T, t), task \in [Slot -> Record],
         \A i \in Slot \ {t} : \/ T[i] = task[i]
                               \/ T[i].at \notin {"wait", "zombie"}
                               \/ /\ T[i].at = task[i].at /\ T[i].pid = task[i].pid
                                  /\ T[i].wait = task[i].wait /\ T[i].father = task[i].father
                                  /\ task[i].signal \subseteq T[i].signal
  PROVE  \A i \in Slot : MakesNoZombie(i)
<1>1. task'[t].at \in {"user", "ret"} /\ \A i \in Slot \ {t} : task'[i] = T[i]
  BY DEF Returned, Record
<1>2. QED
  BY <1>1 DEF MakesNoZombie

LEMMA ForkMissesNone ==
  ASSUME Inductive, Inductive', NoChildMissed, NEW t \in Slot \ {0}, sys_fork(t)
  PROVE  NoChildMissed'
<1>1. task \in [Slot -> Record] /\ task[t].at = "user"
  BY DEF Inductive, sys_fork
<1>2. PICK n \in Pid :
        \/ task' = Returned(task, t)
        \/ /\ EmptySlots # {}
           /\ task' = Returned([task EXCEPT ![Min(EmptySlots)] = copy_process(t, n)], t)
  BY DEF sys_fork
<1>3. CASE task' = Returned(task, t)
  BY <1>1, <1>3, ReturnMakesNoZombie, NoZombieNoneMissed
<1>4. CASE /\ EmptySlots # {}
           /\ task' = Returned([task EXCEPT ![Min(EmptySlots)] = copy_process(t, n)], t)
  <2> DEFINE child == copy_process(t, n)
             c == Min(EmptySlots)
             T == [task EXCEPT ![c] = child]
  <2>1. child \in Record /\ child.at = "user"
    <3>1. task[t] \in Record /\ n \in Nat
      BY <1>1 DEF Pid
    <3>2. QED
      BY <1>1, <3>1, CopyType DEF copy_process
  <2> HIDE DEF child, c
  <2>2. T \in [Slot -> Record] /\ \A i \in Slot : T[i] = task[i] \/ T[i].at = "user"
    BY <1>1, <2>1
  <2>3. task' = Returned(T, t)
    BY <1>4 DEF c, child
  <2> HIDE DEF T
  <2>4. QED
    BY <1>1, <2>2, <2>3, ReturnMakesNoZombie, NoZombieNoneMissed
<1>5. QED
  BY <1>2, <1>3, <1>4

LEMMA SignalMissesNone ==
  ASSUME Inductive, Inductive', NoChildMissed, NEW t \in Slot \ {0},
         \/ \E pid : sys_kill(t, pid)
         \/ tty_intr
         \/ \E f \in {"default", "handler"} : sys_signal(t, f)
         \/ sys_pause(t) \/ pause_ends(t)
  PROVE  NoChildMissed'
<1>1. task \in [Slot -> Record]
  BY DEF Inductive
<1>2. CASE \E pid : sys_kill(t, pid)
  <2>1. PICK pid : sys_kill(t, pid)
    BY <1>2
  <2> DEFINE T == do_kill(t, pid, "INT", task)
  <2>2. T \in [Slot -> Record]
    BY <1>1, KillKeeps
  <2>3. \A i \in Slot : /\ T[i].at = task[i].at /\ T[i].pid = task[i].pid
                        /\ T[i].wait = task[i].wait /\ T[i].father = task[i].father
                        /\ task[i].signal \subseteq T[i].signal
    BY <1>1 DEF do_kill, Record
  <2>4. task' = Returned(T, t)
    BY <2>1 DEF sys_kill
  <2> HIDE DEF T
  <2>5. QED
    BY <1>1, <2>2, <2>3, <2>4, ReturnMakesNoZombie, NoZombieNoneMissed
<1>3. CASE tty_intr
  <2>1. \A i \in Slot : MakesNoZombie(i)
    BY <1>1, <1>3 DEF tty_intr, MakesNoZombie, Record
  <2>2. QED
    BY <2>1, NoZombieNoneMissed
<1>4. CASE \E f \in {"default", "handler"} : sys_signal(t, f)
  <2>1. PICK f \in {"default", "handler"} : sys_signal(t, f)
    BY <1>4
  <2> DEFINE T == [task EXCEPT ![t].sig_fn = f]
  <2>2. T \in [Slot -> Record] /\ \A i \in Slot \ {t} : T[i] = task[i]
    BY <1>1, <2>1 DEF Record
  <2>3. task' = Returned(T, t)
    BY <2>1 DEF sys_signal
  <2> HIDE DEF T
  <2>4. QED
    BY <1>1, <2>2, <2>3, ReturnMakesNoZombie, NoZombieNoneMissed
<1>5. CASE sys_pause(t) \/ pause_ends(t)
  <2>1. \A i \in Slot : MakesNoZombie(i)
    BY <1>1, <1>5 DEF sys_pause, pause_ends, MakesNoZombie, Record
  <2>2. QED
    BY <2>1, NoZombieNoneMissed
<1>6. QED
  BY <1>2, <1>3, <1>4, <1>5

LEMMA ExitMissesNone ==
  ASSUME Inductive, Inductive', NoChildMissed, NEW t \in Slot \ {0}, do_exit(t)
  PROVE  NoChildMissed'
<1>1. task \in [Slot -> Record]
  BY DEF Inductive
<1> DEFINE O == Orphaned(t)
           E == [O EXCEPT ![t].at = "exit"]
           S == [E EXCEPT ![t].signal = {}]
<1>2. /\ O \in [Slot -> Record]
      /\ \A i \in Slot : /\ O[i].pid = task[i].pid /\ O[i].at = task[i].at
                         /\ O[i].wait = task[i].wait /\ O[i].signal = task[i].signal
                         /\ O[i].father \in {0, task[i].father}
  BY <1>1 DEF Orphaned, Record
<1>3. task' = [S EXCEPT ![t].sig_fn = "default"]
  BY DEF do_exit
<1> HIDE DEF O
<1> DEFINE Like(T) == /\ T \in [Slot -> Record] /\ \A i \in Slot \ {t} : T[i] = O[i]
                      /\ T[t].at = "exit"
<1>4. Like(E)
  BY <1>2 DEF Record
<1> HIDE DEF E
<1>5. Like(S)
  BY <1>4 DEF Record
<1> HIDE DEF S
<1>6. Like(task')
  BY <1>3, <1>5 DEF Record
<1>7. \A i \in Slot : MakesNoZombie(i)
  BY <1>2, <1>6 DEF MakesNoZombie
<1>8. QED
  BY <1>7, NoZombieNoneMissed

\* The father is alive, as FathersLive says, and awake after the signal.
LEMMA ExitedMissesNone ==
  ASSUME Inductive, Inductive', NoChildMissed, NEW t \in Slot \ {0}, exited(t)
  PROVE  NoChildMissed'
<1>1. task \in [Slot -> Record] /\ Used(t) /\ task[t].at = "exit"
  BY DEF Inductive, exited, Used
<1>2. CASE task[t].father # 0
  <2>1. PICK f \in Pid : f = task[t].father
    <3>1. PICK i \in Slot \ {0} : Alive(i) /\ task[i].pid = task[t].father
      BY <1>1, <1>2 DEF Inductive, FathersLive
    <3>2. task[i].pid \in Pid
      BY <3>1 DEF Alive, Inductive
    <3>3. QED
      BY <3>1, <3>2
  <2> DEFINE Z == [task EXCEPT ![t].at = "zombie"]
             Y == [Z EXCEPT ![t].tty = FALSE]
             Like(T) == /\ T \in [Slot -> Record] /\ \A i \in Slot \ {t} : T[i] = task[i]
                        /\ T[t].at = "zombie" /\ T[t].pid = task[t].pid
                        /\ T[t].father = task[t].father
  <2>2. Like(Z)
    BY <1>1 DEF Record
  <2>3. task' = do_kill(t, f, "CHLD", Y)
    BY <1>2, <2>1 DEF exited
  <2> HIDE DEF Z
  <2>4. Like(Y)
    <3> DEFINE y == [Z[t] EXCEPT !.tty = FALSE]
    <3>1. Z[t] \in Record
      BY <2>2
    <3>2. y \in Record /\ y.at = Z[t].at /\ y.pid = Z[t].pid /\ y.father = Z[t].father
      BY <3>1 DEF Record
    <3>3. Y = [Z EXCEPT ![t] = y]
      BY <2>2
    <3> HIDE DEF y
    <3>4. QED
      BY <2>2, <3>2, <3>3
  <2> HIDE DEF Y
  <2>5. \A i \in Slot : /\ task'[i].at = Y[i].at /\ task'[i].pid = Y[i].pid
                        /\ task'[i].wait = Y[i].wait /\ task'[i].father = Y[i].father
                        /\ Y[i].signal \subseteq task'[i].signal
    BY <2>3, <2>4 DEF do_kill, Record
  <2>6. \A i \in Slot \ {0} : Alive(i) /\ task[i].pid = f => "CHLD" \in task'[i].signal
    <3> SUFFICES ASSUME NEW i \in Slot \ {0}, Alive(i), task[i].pid = f
                 PROVE  "CHLD" \in task'[i].signal
      OBVIOUS
    <3>1. i > 0 /\ Killed(t, f, i)
      BY DEF Slot, Killed, Pid
    <3>2. task'[i] = [Y[i] EXCEPT !.signal = @ \union {"CHLD"}] /\ Y[i] \in Record
      BY <2>3, <2>4, <3>1 DEF do_kill
    <3>3. QED
      BY <3>2 DEF Record
  <2>7. \A i \in Slot : Asleep(i)' => HasLooked(i)
    BY <2>4, <2>5 DEF Asleep, HasLooked
  <2>8. \A i \in Slot \ {t} : task'[i].at = "zombie" => IsNoticed(i)
    BY <2>4, <2>5 DEF IsNoticed
  <2>9. IsNoticed(t)
    <3>1. ASSUME NEW u \in Slot, Asleep(u)' PROVE task'[u].pid # task'[t].father
      <4>1. u # t /\ task[u].at = "wait" /\ task'[u].pid = task[u].pid /\ task'[t].father = f
        BY <2>1, <2>4, <2>5, <3>1 DEF Asleep
      <4>2. Alive(u) /\ u # 0
        BY <4>1 DEF Alive, Used, Inductive
      <4>3. QED
        BY <2>6, <3>1, <4>1, <4>2 DEF Asleep
    <3>2. QED
      BY <3>1 DEF IsNoticed
  <2>10. QED
    BY <2>7, <2>8, <2>9, StillNoneMissed
<1>3. CASE task[t].father = 0
  <2>1. task' = [task EXCEPT ![t] = NoTask] /\ NoTask.at = "none"
    BY <1>3 DEF exited, release, NoTask
  <2>2. \A i \in Slot : MakesNoZombie(i)
    BY <1>1, <2>1 DEF MakesNoZombie
  <2>3. QED
    BY <2>2, NoZombieNoneMissed
<1>4. QED
  BY <1>2, <1>3

LEMMA ScanMissesNone ==
  ASSUME Inductive, Inductive', NoChildMissed, NEW t \in Slot \ {0},
         NEW pid \in Arguments \union {0}, NEW flag, NEW nohang, scan(t, pid, flag, nohang)
  PROVE  NoChildMissed'
<1>1. task \in [Slot -> Record]
  BY DEF Inductive
<1> DEFINE left == task[t].signal \ (IF flag THEN {"CHLD"} ELSE {})
           C == [task EXCEPT ![t].signal = left]
           now == [C EXCEPT ![t].wait = 0]
           Like(T) == /\ T \in [Slot -> Record] /\ T[t].pid = task[t].pid
                      /\ \A i \in Slot \ {t} : T[i] = task[i]
<1>2. left \in SUBSET {"INT", "CHLD"}
  BY <1>1 DEF Record
<1>3. task' = IF Zombies(t, pid) # {}
              THEN Returned([now EXCEPT ![Max(Zombies(t, pid))] = NoTask], t)
              ELSE IF (flag \/ \E p \in Slot : Waited(t, pid, p)) /\ ~ nohang
              THEN [now EXCEPT ![t].at = "wait", ![t].wait = pid]
              ELSE Returned(now, t)
  BY DEF scan
<1> HIDE DEF left
<1>4. Like(C)
  BY <1>1, <1>2 DEF Record
<1> HIDE DEF C
<1>5. Like(now)
  BY <1>4 DEF Record
<1> HIDE DEF now
<1>6. CASE Zombies(t, pid) # {}
  <2> DEFINE p == Max(Zombies(t, pid))
             R == [now EXCEPT ![p] = NoTask]
  <2> HIDE DEF p
  <2>1. NoTask \in Record /\ NoTask.at = "none"
    BY DEF NoTask, Record
  <2>2. R \in [Slot -> Record] /\ \A i \in Slot : R[i] = now[i] \/ R[i].at = "none"
    BY <1>5, <2>1
  <2>3. task' = Returned(R, t)
    BY <1>3, <1>6 DEF p
  <2> HIDE DEF R
  <2>4. \A i \in Slot \ {t} : R[i] = task[i] \/ R[i].at \notin {"wait", "zombie"}
    BY <1>5, <2>2
  <2>5. \A i \in Slot : MakesNoZombie(i)
    BY <1>1, <2>2, <2>3, <2>4, ReturnMakesNoZombie
  <2>6. QED
    BY <2>5, NoZombieNoneMissed
<1>7. CASE Zombies(t, pid) = {} /\ task' = [now EXCEPT ![t].at = "wait", ![t].wait = pid]
  <2> DEFINE W == [now EXCEPT ![t].at = "wait"]
  <2>1. Like(W) /\ W[t].at = "wait"
    BY <1>5 DEF Record, Running
  <2>2. task' = [W EXCEPT ![t].wait = pid]
    BY <1>7
  <2> HIDE DEF W
  <2>3. Like(task') /\ task'[t].at = "wait" /\ task'[t].wait = pid
    BY <2>1, <2>2 DEF Record
  <2>4. \A i \in Slot : Asleep(i)' => HasLooked(i)
    BY <1>7, <2>3 DEF Asleep, HasLooked
  <2>5. \A i \in Slot : task'[i].at = "zombie" => IsNoticed(i)
    BY <2>3 DEF IsNoticed
  <2>6. QED
    BY <2>4, <2>5, StillNoneMissed
<1>8. CASE task' = Returned(now, t)
  BY <1>1, <1>5, <1>8, ReturnMakesNoZombie, NoZombieNoneMissed
<1>9. QED
  BY <1>3, <1>6, <1>7, <1>8

LEMMA WaitMissesNone ==
  ASSUME Inductive, Inductive', NoChildMissed, NEW t \in Slot \ {0},
         \/ \E pid \in Arguments, nohang \in BOOLEAN : sys_waitpid(t, pid, nohang)
         \/ wait_on(t)
  PROVE  NoChildMissed'
<1>1. task \in [Slot -> Record]
  BY DEF Inductive
<1>2. CASE \E pid \in Arguments, nohang \in BOOLEAN : sys_waitpid(t, pid, nohang)
  BY <1>2, ScanMissesNone DEF sys_waitpid
<1>3. CASE wait_on(t) /\ task[t].signal = {"CHLD"}
  <2>1. task[t].wait \in Arguments \union {0} /\ scan(t, task[t].wait, TRUE, FALSE)
    BY <1>1, <1>3 DEF wait_on, Record
  <2>2. QED
    BY <2>1, ScanMissesNone
<1>4. CASE wait_on(t) /\ task[t].signal # {"CHLD"}
  <2>1. task' = [task EXCEPT ![t].at = "ret", ![t].wait = 0, ![t].signal = @ \ {"CHLD"}]
    BY <1>4 DEF wait_on
  <2>2. task'[t].at = "ret" /\ \A i \in Slot \ {t} : task'[i] = task[i]
    BY <1>1, <2>1 DEF Record
  <2>3. \A i \in Slot : MakesNoZombie(i)
    BY <2>2 DEF MakesNoZombie
  <2>4. QED
    BY <2>3, NoZombieNoneMissed
<1>5. QED
  BY <1>2, <1>3, <1>4

LEMMA OwnReturnMissesNone ==
  ASSUME Inductive, Inductive', NoChildMissed, NEW t \in Slot \ {0}, ret_from_sys_call(t)
  PROVE  NoChildMissed'
<1>1. task \in [Slot -> Record]
  BY DEF Inductive
<1> DEFINE S == [task EXCEPT ![t].signal = @ \ {"INT"}]
           F == [S EXCEPT ![t].sig_fn = "default"]
           U == [task EXCEPT ![t].at = "user"]
           Like(T) == T \in [Slot -> Record] /\ \A i \in Slot \ {t} : T[i] = task[i]
<1>2. CASE do_exit(t)
  BY <1>2, ExitMissesNone
<1>3. CASE task' = Returned(F, t)
  <2>1. Like(S)
    BY <1>1 DEF Record
  <2> HIDE DEF S
  <2>2. Like(F)
    BY <2>1 DEF Record
  <2> HIDE DEF F
  <2>3. QED
    BY <1>1, <1>3, <2>2, ReturnMakesNoZombie, NoZombieNoneMissed
<1>4. CASE task' = [U EXCEPT ![t].signal = {}]
  <2>1. Like(U) /\ U[t].at = "user"
    BY <1>1 DEF Record, Running
  <2> HIDE DEF U
  <2>2. Like(task') /\ task'[t].at = "user"
    BY <1>4, <2>1 DEF Record
  <2>3. \A i \in Slot : MakesNoZombie(i)
    BY <2>2 DEF MakesNoZombie
  <2>4. QED
    BY <2>3, NoZombieNoneMissed
<1>5. /\ [[task EXCEPT ![t].signal = @ \ {"INT"}] EXCEPT ![t].sig_fn = "default"] = F
      /\ [[task EXCEPT ![t].at = "user"] EXCEPT ![t].signal = {}] = [U EXCEPT ![t].signal = {}]
  OBVIOUS
<1>6. QED
  BY <1>2, <1>3, <1>4, <1>5, Zenon DEF ret_from_sys_call

\* A change of the group is none of the numbers.
LEMMA GroupMissesNone ==
  ASSUME Inductive, Inductive', NoChildMissed, NEW t \in Slot \ {0},
         \/ \E p \in Slot : \E pgid \in {0, task[t].pgrp} : sys_setpgid(t, task[p].pid, pgid)
         \/ sys_setsid(t) \/ open_tty(t)
  PROVE  NoChildMissed'
<1>1. task \in [Slot -> Record] /\ task[t].at = "user"
  BY DEF Inductive, sys_setpgid, sys_setsid, open_tty
<1>2. CASE \E p \in Slot : \E pgid \in {0, task[t].pgrp} : sys_setpgid(t, task[p].pid, pgid)
  <2>1. PICK p \in Slot, pgid \in {0, task[t].pgrp} : sys_setpgid(t, task[p].pid, pgid)
    BY <1>2
  <2> DEFINE n == IF task[p].pid = 0 THEN task[t].pid ELSE task[p].pid
             g == IF pgid = 0 THEN n ELSE pgid
  <2>2. g \in Nat
    BY <1>1 DEF Record
  <2>3. PICK i \in Slot : task' = Returned([task EXCEPT ![i].pgrp = g], t)
    BY <2>1 DEF sys_setpgid
  <2> HIDE DEF g
  <2> DEFINE G == [task EXCEPT ![i].pgrp = g]
  <2>4. /\ G \in [Slot -> Record]
        /\ \A j \in Slot : /\ G[j].at = task[j].at /\ G[j].pid = task[j].pid
                           /\ G[j].wait = task[j].wait /\ G[j].father = task[j].father
                           /\ task[j].signal \subseteq G[j].signal
    BY <1>1, <2>2 DEF Record
  <2> HIDE DEF G
  <2>5. task' = Returned(G, t)
    BY <2>3 DEF G
  <2>6. QED
    BY <1>1, <2>4, <2>5, ReturnMakesNoZombie, NoZombieNoneMissed
<1>3. CASE sys_setsid(t)
  <2> DEFINE L == [task EXCEPT ![t].leader = TRUE]
             S == [L EXCEPT ![t].session = task[t].pid]
             G == [S EXCEPT ![t].pgrp = task[t].pid]
             Y == [G EXCEPT ![t].tty = FALSE]
             Like(T) == T \in [Slot -> Record] /\ \A i \in Slot \ {t} : T[i] = task[i]
  <2>1. task[t].pid \in Nat
    BY <1>1 DEF Record
  <2>2. Like(L)
    <3>1. task[t] \in Record
      BY <1>1
    <3>2. [task[t] EXCEPT !.leader = TRUE] \in Record
      BY <3>1 DEF Record
    <3>3. QED
      BY <1>1, <3>2
  <2>3. task' = Returned(Y, t)
    BY <1>3 DEF sys_setsid
  <2> HIDE DEF L
  <2>4. Like(S)
    BY <2>1, <2>2 DEF Record
  <2> HIDE DEF S
  <2>5. Like(G)
    BY <2>1, <2>4 DEF Record
  <2> HIDE DEF G
  <2>6. Like(Y)
    <3>1. [G[t] EXCEPT !.tty = FALSE] \in Record
      <4>1. G[t] \in Record
        BY <2>5
      <4>2. QED
        BY <4>1 DEF Record
    <3>2. QED
      BY <2>5, <3>1
  <2> HIDE DEF Y
  <2>7. QED
    BY <1>1, <2>3, <2>6, ReturnMakesNoZombie, NoZombieNoneMissed
<1>4. CASE open_tty(t)
  <2> DEFINE Y == [task EXCEPT ![t].tty = TRUE]
  <2>1. Y \in [Slot -> Record] /\ \A i \in Slot \ {t} : Y[i] = task[i]
    <3>1. [task[t] EXCEPT !.tty = TRUE] \in Record
      <4>1. task[t] \in Record
        BY <1>1
      <4>2. QED
        BY <4>1 DEF Record
    <3>2. QED
      BY <1>1, <3>1
  <2>2. task' = Returned(Y, t)
    BY <1>4 DEF open_tty
  <2> HIDE DEF Y
  <2>3. QED
    BY <1>1, <2>1, <2>2, ReturnMakesNoZombie, NoZombieNoneMissed
<1>5. QED
  BY <1>2, <1>3, <1>4

LEMMA NextMissesNone == Inductive /\ Inductive' /\ NoChildMissed /\ [Next]_vars => NoChildMissed'
<1> SUFFICES ASSUME Inductive, Inductive', NoChildMissed, [Next]_vars PROVE NoChildMissed'
  OBVIOUS
<1> 1 \in Slot \ {0}
  BY DEF Slot
<1>1. ASSUME NEW t \in Slot \ {0},
             \/ sys_fork(t) \/ sys_exit(t) \/ exited(t)
             \/ \E pid \in Arguments : sys_kill(t, pid)
             \/ \E pid \in Arguments, nohang \in BOOLEAN : sys_waitpid(t, pid, nohang)
             \/ wait_on(t) \/ sys_pause(t) \/ pause_ends(t) \/ ret_from_sys_call(t)
             \/ \E f \in {"default", "handler"} : sys_signal(t, f)
             \/ \E p \in Slot : Used(p) /\ \E pgid \in {0, task[t].pgrp} : sys_setpgid(t, task[p].pid, pgid)
             \/ sys_setsid(t) \/ open_tty(t)
      PROVE  NoChildMissed'
  <2>1. CASE sys_fork(t)
    BY <2>1, ForkMissesNone
  <2>2. CASE sys_exit(t)
    BY <2>2, ExitMissesNone DEF sys_exit
  <2>3. CASE exited(t)
    BY <2>3, ExitedMissesNone
  <2>4. CASE \/ \E pid \in Arguments : sys_kill(t, pid)
             \/ \E f \in {"default", "handler"} : sys_signal(t, f)
             \/ sys_pause(t) \/ pause_ends(t)
    BY <2>4, SignalMissesNone
  <2>5. CASE \/ \E pid \in Arguments, nohang \in BOOLEAN : sys_waitpid(t, pid, nohang)
             \/ wait_on(t)
    BY <2>5, WaitMissesNone
  <2>6. CASE ret_from_sys_call(t)
    BY <2>6, OwnReturnMissesNone
  <2>7. CASE \/ \E p \in Slot : Used(p) /\ \E pgid \in {0, task[t].pgrp} : sys_setpgid(t, task[p].pid, pgid)
             \/ sys_setsid(t) \/ open_tty(t)
    BY <2>7, GroupMissesNone
  <2>8. QED
    BY <1>1, <2>1, <2>2, <2>3, <2>4, <2>5, <2>6, <2>7
<1>2. CASE tty_intr
  BY <1>2, SignalMissesNone
<1>3. CASE UNCHANGED vars
  <2>1. \A i \in Slot : MakesNoZombie(i)
    BY <1>3 DEF vars, MakesNoZombie
  <2>2. QED
    BY <2>1, NoZombieNoneMissed
<1>4. QED
  BY <1>1, <1>2, <1>3 DEF Next

-------------------------------------------------------------------------------
\* However often the numbers come round, a number names one process, and the
\* father a process remembers is alive and not a stranger that has got the
\* number since (find_empty_process, do_exit, sys_waitpid).
THEOREM FathersAlwaysLive == Spec => []FathersLive
<1>1. Inductive => FathersLive
  BY DEF Inductive
<1>2. QED
  BY InitInductive, NextInductive, <1>1, PTL DEF Spec

\* SIGINT from the keyboard reaches the group of a leader that is there and has
\* this terminal, in every order of fork, setsid, open, setpgid and exit.
THEOREM TtyGroupAlwaysLed == Spec => []TtyGroupLed
<1>1. Inductive => TtyGroupLed
  BY DEF Inductive
<1>2. QED
  BY InitInductive, NextInductive, <1>1, PTL DEF Spec

\* No SIGCHLD is lost between the scan of waitpid and its pause, and one stands
\* for any number of children: the scan and the change of state are one step of
\* a kernel that is not preempted, and the zombie's father is in the table
\* whenever it is signalled (sys_waitpid, do_exit).
THEOREM NoChildIsMissed == Spec => []NoChildMissed
<1>1. Init => NoChildMissed
  <2> SUFFICES ASSUME Init, NEW t \in Slot, task[t].at = "wait" PROVE FALSE
    BY DEF NoChildMissed
  <2>1. task[t] \in {FirstTask, InitTask, NoTask}
    BY DEF Init
  <2>2. FirstTask.at # "wait" /\ InitTask.at # "wait" /\ NoTask.at # "wait"
    BY DEF FirstTask, InitTask, NoTask
  <2>3. QED
    BY <2>1, <2>2
<1>2. QED
  BY InitInductive, NextInductive, NextMissesNone, <1>1, PTL DEF Spec

-------------------------------------------------------------------------------
(* The scheduler. *)

USE SchedulerAssumption DEF NotIdle, NoAlarm, Expired

-------------------------------------------------------------------------------
(* The choice of the next task. *)

\* The search of schedule() finds one of the runnable tasks, with the largest
\* counter.
LEMMA BestIsBest ==
  ASSUME NEW B \in Nat, NEW c \in [NotIdle -> 0..B], NEW R \in SUBSET NotIdle, R # {}
  PROVE  /\ Best(R, c) \in R
         /\ \A j \in R : c[j] <= c[Best(R, c)]
<1>1. \A j \in R : c[j] \in 0..B /\ j \in 1..NR_TASKS - 1
  OBVIOUS
<1>2. PICK m \in R : \A j \in R : c[j] <= c[m]
  <2> DEFINE gap(j) == B - c[j]
             Gap == {gap(j) : j \in R}
  <2>1. \A j \in R : gap(j) \in Nat
    BY <1>1
  <2>2. \A j, k \in R : gap(j) <= gap(k) => c[k] <= c[j]
    BY <1>1
  <2> HIDE DEF gap
  <2>3. Gap \in SUBSET Nat /\ Gap # {}
    BY <2>1
  <2>4. PICK g \in Gap : \A h \in Gap : g <= h
    BY <2>3, LeastNatural
  <2>5. PICK m \in R : g = gap(m)
    OBVIOUS
  <2>6. \A j \in R : gap(m) <= gap(j)
    BY <2>4, <2>5
  <2>7. QED
    BY <2>2, <2>6
<1> DEFINE Ties == {j \in R : c[j] = c[m]}
<1>3. PICK i \in Ties : \A j \in Ties : j <= i
  <2> DEFINE above(j) == NR_TASKS - j
             Above == {above(j) : j \in Ties}
  <2>1. \A j \in Ties : above(j) \in Nat
    BY <1>1
  <2>2. \A j, k \in Ties : above(j) <= above(k) => k <= j
    BY <1>1
  <2>3. Ties # {}
    BY <1>2
  <2> HIDE DEF above, Ties
  <2>4. Above \in SUBSET Nat /\ Above # {}
    BY <2>1, <2>3
  <2>5. PICK d \in Above : \A e \in Above : d <= e
    BY <2>4, LeastNatural
  <2>6. PICK i \in Ties : d = above(i)
    OBVIOUS
  <2>7. \A j \in Ties : above(i) <= above(j)
    BY <2>5, <2>6
  <2>8. QED
    BY <2>2, <2>7
<1>4. i \in R /\ \A j \in R : c[j] < c[i] \/ (c[j] = c[i] /\ j <= i)
  <2>1. i \in R /\ c[i] = c[m]
    BY <1>3
  <2>2. ASSUME NEW j \in R
        PROVE  c[j] < c[i] \/ (c[j] = c[i] /\ j <= i)
    <3>1. c[j] <= c[i] /\ c[j] \in Int /\ c[i] \in Int
      BY <1>1, <1>2, <2>1
    <3>2. c[j] = c[i] => j <= i
      BY <1>3, <2>1
    <3>3. QED
      BY <3>1, <3>2
  <2>3. QED
    BY <2>1, <2>2
<1>5. /\ Best(R, c) \in R
      /\ \A j \in R : \/ c[j] < c[Best(R, c)]
                      \/ c[j] = c[Best(R, c)] /\ j <= Best(R, c)
  BY <1>4 DEF Best
<1>6. ASSUME NEW j \in R
      PROVE  c[j] <= c[Best(R, c)]
  <2>1. c[j] \in Int /\ c[Best(R, c)] \in Int
    <3>1. \A k \in R : c[k] \in Int
      BY <1>1
    <3>2. QED
      BY <1>5, <3>1
  <2>2. c[j] < c[Best(R, c)] \/ c[j] = c[Best(R, c)]
    BY <1>5
  <2>3. QED
    BY <2>1, <2>2
<1>7. QED
  BY <1>5, <1>6

-------------------------------------------------------------------------------
(* schedule() *)

\* Half of what is left and the priority on top stays below twice the
\* largest priority, and is positive.
LEMMA RecalculatedBounds ==
  ASSUME TypeOK, NEW st, NEW c \in [NotIdle -> 0..2 * MaxPriority - 1]
  PROVE  /\ Recalculated(st, c) \in [NotIdle -> 0..2 * MaxPriority - 1]
         /\ \A i \in NotIdle : st[i] # "none" => Recalculated(st, c)[i] > 0
<1> DEFINE Turn(i) == IF st[i] = "none" THEN c[i] ELSE c[i] \div 2 + priority[i]
<1>1. \A n \in 0..2 * MaxPriority - 1, p \in 1..MaxPriority :
        n \div 2 + p \in 1..2 * MaxPriority - 1
  OBVIOUS
<1>2. ASSUME NEW i \in NotIdle
      PROVE  /\ Turn(i) \in 0..2 * MaxPriority - 1
             /\ st[i] # "none" => Turn(i) > 0
  <2>1. c[i] \in 0..2 * MaxPriority - 1 /\ priority[i] \in 1..MaxPriority
    BY DEF TypeOK
  <2>2. c[i] \div 2 + priority[i] \in 1..2 * MaxPriority - 1
    BY <1>1, <2>1
  <2>3. QED
    BY <2>1, <2>2
<1>3. Recalculated(st, c) = [i \in NotIdle |-> Turn(i)]
  BY DEF Recalculated
<1> HIDE DEF Turn
<1>4. QED
  BY <1>2, <1>3

\* One more turn of the loop in schedule() is enough: once the counters are
\* recalculated, or if they need not be, the task found has time left; task 0
\* is next only if there is none to find.
LEMMA RecalculationEndsLoop ==
  ASSUME TypeOK,
         NEW st \in [NotIdle -> {"none", "running", "interruptible", "uninterruptible"}],
         NEW c \in [NotIdle -> 0..2 * MaxPriority - 1],
         NEW al \in [NotIdle -> NoAlarm..MaxAlarm],
         schedule(st, c, al)
  PROVE  /\ IF current' = 0 THEN \A i \in NotIdle : state'[i] # "running"
                            ELSE counter'[current'] > 0
         /\ current' \in NotIdle \cup {0}
         /\ state' \in [NotIdle -> {"none", "running", "interruptible", "uninterruptible"}]
         /\ counter' \in [NotIdle -> 0..2 * MaxPriority - 1]
         /\ alarm' \in [NotIdle -> NoAlarm..MaxAlarm]
         /\ signal' \in [NotIdle -> BOOLEAN]
<1> DEFINE due == {i \in NotIdle : st[i] # "none" /\ al[i] = Expired}
           sig == [i \in NotIdle |-> signal[i] \/ i \in due]
           woken == [i \in NotIdle |->
                       IF sig[i] /\ st[i] = "interruptible" THEN "running" ELSE st[i]]
           runnable == {i \in NotIdle : woken[i] = "running"}
           spent == runnable # {} /\ \A i \in runnable : c[i] = 0
           left == IF spent THEN Recalculated(st, c) ELSE c
<1>1. /\ signal' = sig
      /\ alarm' = [i \in NotIdle |-> IF i \in due THEN NoAlarm ELSE al[i]]
      /\ state' = woken
      /\ counter' = left
      /\ current' = IF runnable = {} THEN 0 ELSE Best(runnable, left)
  BY DEF schedule
<1>2. left \in [NotIdle -> 0..2 * MaxPriority - 1]
  BY RecalculatedBounds
<1>3. woken \in [NotIdle -> {"none", "running", "interruptible", "uninterruptible"}]
  OBVIOUS
<1>4. runnable \in SUBSET NotIdle
  OBVIOUS
<1>5. alarm' \in [NotIdle -> NoAlarm..MaxAlarm]
  BY <1>1
<1>6. sig \in [NotIdle -> BOOLEAN]
  BY Zenon DEF TypeOK
<1>7. \A i \in runnable : st[i] # "none"
  OBVIOUS
<1>8. /\ \A i \in runnable : state'[i] = "running"
      /\ \A i \in NotIdle \ runnable : state'[i] # "running"
  BY <1>1
<1>9. ~ spent /\ runnable # {} => \E i \in runnable : c[i] > 0
  <2>1. \A i \in NotIdle : c[i] # 0 => c[i] > 0
    OBVIOUS
  <2>2. spent <=> runnable # {} /\ \A i \in runnable : c[i] = 0
    OBVIOUS
  <2> HIDE DEF spent, runnable
  <2>3. QED
    BY <1>4, <2>1, <2>2
<1>10. spent => runnable # {}
  OBVIOUS
<1>11. left = IF spent THEN Recalculated(st, c) ELSE c
  OBVIOUS
<1> HIDE DEF left, spent, runnable, woken, sig
<1>12. CASE runnable = {}
  BY <1>1, <1>2, <1>3, <1>5, <1>6, <1>8, <1>12
<1>13. CASE runnable # {}
  <2>1. \E i \in runnable : left[i] > 0
    <3>1. CASE spent
      <4>1. PICK i \in runnable : TRUE
        BY <1>13
      <4>2. i \in NotIdle /\ st[i] # "none"
        BY <1>4, <1>7
      <4>3. left[i] > 0
        BY <1>11, <3>1, <4>2, RecalculatedBounds
      <4>4. QED
        BY <4>3
    <3>2. CASE ~ spent
      BY <1>9, <1>11, <1>13, <3>2
    <3>3. QED
      BY <3>1, <3>2
  <2>2. 2 * MaxPriority - 1 \in Nat
    OBVIOUS
  <2>3. /\ Best(runnable, left) \in runnable
        /\ \A j \in runnable : left[j] <= left[Best(runnable, left)]
    BY <1>2, <1>4, <1>13, <2>2, BestIsBest
  <2>4. left[Best(runnable, left)] > 0 /\ Best(runnable, left) # 0
    <3>1. PICK i \in runnable : left[i] > 0
      BY <2>1
    <3>2. /\ left[i] \in Int
          /\ left[Best(runnable, left)] \in Int
          /\ Best(runnable, left) # 0
      <4>1. i \in NotIdle /\ Best(runnable, left) \in NotIdle
        BY <1>4, <2>3
      <4>2. \A j \in NotIdle : left[j] \in Int /\ j # 0
        BY <1>2
      <4>3. QED
        BY <4>1, <4>2
    <3>3. left[i] <= left[Best(runnable, left)]
      BY <2>3
    <3>4. QED
      BY <3>1, <3>2, <3>3
  <2>5. current' = Best(runnable, left)
    BY <1>1, <1>13
  <2>6. QED
    BY <1>1, <1>2, <1>3, <1>4, <1>5, <1>6, <2>3, <2>4, <2>5
<1>14. QED
  BY <1>12, <1>13

-------------------------------------------------------------------------------
(* Every step *)

LEMMA TickType ==
  ASSUME TypeOK
  PROVE  /\ Ticked \in [NotIdle -> 0..2 * MaxPriority - 1]
         /\ Passed \in [NotIdle -> NoAlarm..MaxAlarm]
<1>1. \A n \in 0..2 * MaxPriority - 1 : n > 0 => n - 1 \in 0..2 * MaxPriority - 1
  OBVIOUS
<1>2. \A i \in NotIdle : /\ counter[i] \in 0..2 * MaxPriority - 1
                      /\ alarm[i] \in NoAlarm..MaxAlarm
  BY DEF TypeOK
<1>3. QED
  BY <1>1, <1>2 DEF Ticked, Passed

LEMMA SchedTypeNext ==
  ASSUME TypeOK, [SchedNext]_sched_vars
  PROVE  TypeOK'
<1> HIDE DEF NotIdle
<1>1. CASE timer_interrupt
  <2>1. UNCHANGED priority
    BY <1>1 DEF timer_interrupt
  <2>2. CASE schedule(state, Ticked, Passed) /\ mode' = [mode EXCEPT ![current] = "leaving"]
    BY <2>1, <2>2, TickType, RecalculationEndsLoop DEF TypeOK
  <2>3. CASE /\ counter' = Ticked
             /\ alarm' = Passed
             /\ TakesSignals(current) \/ UNCHANGED signal
             /\ UNCHANGED <<state, mode, current>>
    <3>1. signal' \in [NotIdle -> BOOLEAN]
      BY <2>3, Zenon DEF TakesSignals, TypeOK
    <3>2. QED
      BY <2>1, <2>3, <3>1, TickType DEF TypeOK
  <2>4. QED
    BY <1>1, <2>2, <2>3 DEF timer_interrupt
<1>2. CASE idle
  BY <1>2, RecalculationEndsLoop DEF idle, TypeOK
<1>3. ASSUME NEW i \in NotIdle, system_call(i)
      PROVE  TypeOK'
  BY <1>3 DEF system_call, TypeOK
<1>4. ASSUME NEW i \in NotIdle, NEW st \in {"interruptible", "uninterruptible"}, sleep(i, st)
      PROVE  TypeOK'
  <2>1. [state EXCEPT ![i] = st]
          \in [NotIdle -> {"none", "running", "interruptible", "uninterruptible"}]
    BY DEF TypeOK
  <2>2. QED
    BY <1>4, <2>1, RecalculationEndsLoop DEF sleep, TypeOK
<1>5. ASSUME NEW i \in NotIdle, reschedule(i)
      PROVE  TypeOK'
  BY <1>5, RecalculationEndsLoop DEF reschedule, TypeOK
<1>6. ASSUME NEW i \in NotIdle, to_user_mode(i)
      PROVE  TypeOK'
  <2>1. signal' \in [NotIdle -> BOOLEAN]
    BY <1>6, Zenon DEF to_user_mode, TakesSignals, TypeOK
  <2>2. QED
    BY <1>6, <2>1 DEF to_user_mode, TypeOK
<1>7. ASSUME NEW i \in NotIdle, NEW increment \in {-1, 1}, sys_nice(i, increment)
      PROVE  TypeOK'
  <2>1. priority[i] - increment \in 1..MaxPriority
    BY <1>7 DEF sys_nice, TypeOK
  <2>2. QED
    BY ONLY TypeOK, <1>7, <2>1 DEF sys_nice, TypeOK
<1>8. ASSUME NEW i \in NotIdle, NEW ticks \in 0..MaxAlarm, sys_alarm(i, ticks)
      PROVE  TypeOK'
  <2>1. (IF ticks > 0 THEN ticks ELSE NoAlarm) \in NoAlarm..MaxAlarm
    OBVIOUS
  <2>2. QED
    BY ONLY TypeOK, <1>8, <2>1 DEF sys_alarm, TypeOK
<1>9. ASSUME NEW i \in NotIdle, NEW child \in NotIdle, fork(i, child)
      PROVE  TypeOK'
  <2>1. priority[i] \in 1..MaxPriority /\ priority[i] \in 0..2 * MaxPriority - 1
    BY DEF TypeOK
  <2>2. NoAlarm \in NoAlarm..MaxAlarm
    OBVIOUS
  <2>3. QED
    BY ONLY TypeOK, <1>9, <2>1, <2>2 DEF fork, TypeOK
<1>10. ASSUME NEW i \in NotIdle, exit(i)
       PROVE  TypeOK'
  <2>1. /\ [state EXCEPT ![i] = "none"]
             \in [NotIdle -> {"none", "running", "interruptible", "uninterruptible"}]
        /\ [counter EXCEPT ![i] = 0] \in [NotIdle -> 0..2 * MaxPriority - 1]
        /\ [alarm EXCEPT ![i] = NoAlarm] \in [NotIdle -> NoAlarm..MaxAlarm]
    BY DEF TypeOK
  <2>2. /\ priority' \in [NotIdle -> 1..MaxPriority]
        /\ mode' \in [NotIdle -> {"user", "kernel", "leaving"}]
    <3>1. MaxPriority \in 1..MaxPriority
      OBVIOUS
    <3>2. QED
      BY ONLY TypeOK, <1>10, <3>1 DEF exit, TypeOK
  <2>3. schedule([state EXCEPT ![i] = "none"], [counter EXCEPT ![i] = 0],
                 [alarm EXCEPT ![i] = NoAlarm])
    BY <1>10 DEF exit
  <2>4. QED
    BY <2>1, <2>2, <2>3, RecalculationEndsLoop DEF TypeOK
<1>11. ASSUME NEW i \in NotIdle, wake_up(i)
       PROVE  TypeOK'
  BY <1>11 DEF wake_up, TypeOK
<1>12. CASE UNCHANGED sched_vars
  BY <1>12 DEF sched_vars, TypeOK
<1>13. QED
  BY <1>1, <1>2, <1>3, <1>4, <1>5, <1>6, <1>7, <1>8, <1>9, <1>10, <1>11, <1>12
     DEF SchedNext, EndOfCall

\* The types are right, and what a task saves up while it sleeps stays below
\* twice the largest priority (schedule(), sched.c:113-116).
THEOREM SchedTypeCorrect == SchedSpec => []TypeOK
<1>1. SchedInit => TypeOK
  BY DEF SchedInit, TypeOK
<1>2. TypeOK /\ [SchedNext]_sched_vars => TypeOK'
  BY SchedTypeNext
<1>3. QED
  BY <1>1, <1>2, PTL DEF SchedSpec

\* schedule() gives the processor to a task with time left, and to task 0 only
\* when no task can run, for every history of slices, sleeps, alarms, signals
\* and changes of priority: its loop (sched.c:101-117) is left.
THEOREM AlwaysPickedHasTime == SchedSpec => PickedHasTime
<1> DEFINE Picked == current' # current =>
                       IF current' = 0 THEN \A i \in NotIdle : state'[i] # "running"
                                       ELSE counter'[current'] > 0
<1> HIDE DEF NotIdle
<1>1. ASSUME TypeOK, SchedNext
      PROVE  Picked
  <2>1. \/ current' = current
        \/ \E st \in [NotIdle -> {"none", "running", "interruptible", "uninterruptible"}],
              c \in [NotIdle -> 0..2 * MaxPriority - 1],
              al \in [NotIdle -> NoAlarm..MaxAlarm] : schedule(st, c, al)
    <3> DEFINE Scheduled ==
                 \E st \in [NotIdle -> {"none", "running", "interruptible", "uninterruptible"}],
                    c \in [NotIdle -> 0..2 * MaxPriority - 1],
                    al \in [NotIdle -> NoAlarm..MaxAlarm] : schedule(st, c, al)
    <3> SUFFICES ASSUME current' # current PROVE Scheduled
      OBVIOUS
    <3>1. CASE timer_interrupt
      <4>1. schedule(state, Ticked, Passed)
        BY <3>1 DEF timer_interrupt
      <4>2. QED
        BY <1>1, <4>1, TickType DEF TypeOK
    <3>2. CASE idle
      BY <1>1, <3>2 DEF idle, TypeOK
    <3>3. ASSUME NEW i \in NotIdle, NEW st \in {"interruptible", "uninterruptible"}, sleep(i, st)
          PROVE  Scheduled
      <4>1. [state EXCEPT ![i] = st]
              \in [NotIdle -> {"none", "running", "interruptible", "uninterruptible"}]
        BY <1>1 DEF TypeOK
      <4>2. schedule([state EXCEPT ![i] = st], counter, alarm)
        BY <3>3 DEF sleep
      <4>3. counter \in [NotIdle -> 0..2 * MaxPriority - 1] /\ alarm \in [NotIdle -> NoAlarm..MaxAlarm]
        BY <1>1 DEF TypeOK
      <4>4. QED
        BY ONLY <4>1, <4>2, <4>3
    <3>4. ASSUME NEW i \in NotIdle, reschedule(i)
          PROVE  Scheduled
      BY <1>1, <3>4 DEF reschedule, TypeOK
    <3>5. ASSUME NEW i \in NotIdle, exit(i)
          PROVE  Scheduled
      <4>1. /\ [state EXCEPT ![i] = "none"]
                 \in [NotIdle -> {"none", "running", "interruptible", "uninterruptible"}]
            /\ [counter EXCEPT ![i] = 0] \in [NotIdle -> 0..2 * MaxPriority - 1]
            /\ [alarm EXCEPT ![i] = NoAlarm] \in [NotIdle -> NoAlarm..MaxAlarm]
        BY <1>1 DEF TypeOK
      <4>2. QED
        BY <3>5, <4>1 DEF exit
    <3> HIDE DEF Scheduled
    <3>6. QED
      BY <1>1, <3>1, <3>2, <3>3, <3>4, <3>5
         DEF SchedNext, EndOfCall, system_call, to_user_mode, sys_nice, sys_alarm,
             fork, wake_up
  <2>2. QED
    BY <1>1, <2>1, RecalculationEndsLoop
<1>2. TypeOK /\ [SchedNext]_sched_vars => [Picked]_sched_vars
  BY <1>1
<1>3. QED
  BY <1>2, SchedTypeCorrect, PTL DEF SchedSpec, PickedHasTime
===============================================================================
