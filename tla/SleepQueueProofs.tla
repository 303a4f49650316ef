--------------------------- MODULE SleepQueueProofs --------------------------
(***************************************************************************)
(* Theorems about SleepQueue.tla and SleepQueueWaitSet.tla, for every set  *)
(* of tasks and of queues: type correctness, NoLostSleeper, and that the   *)
(* queues are wait sets (the safety part of IsWaitSet, and ChainSound).    *)
(***************************************************************************)
EXTENDS SleepQueueWaitSet, FiniteSetTheorems, TLAPS

USE QueueAssumption DEF Queue

-------------------------------------------------------------------------------
(* Type correctness. *)

\* schedule(s) leaves a state table and a current task of the right type.
LEMMA ScheduleType ==
  ASSUME NEW s \in [Task -> State], schedule(s)
  PROVE  /\ state' \in [Task -> State]
         /\ current' \in Task \cup {NoTask}
BY DEF schedule, WakeSignalled, State

\* Writing "running" through a pointer, null or not, keeps the state table.
LEMMA SetRunningType ==
  ASSUME NEW s \in [Task -> State], NEW t
  PROVE  SetRunning(s, t) \in [Task -> State]
BY DEF SetRunning, State

LEMMA TypeNext == TypeOK /\ [Next]_vars => TypeOK'
<1> SUFFICES ASSUME TypeOK, [Next]_vars
             PROVE  TypeOK'
  OBVIOUS
<1> USE DEF TypeOK, Place
<1>1. ASSUME NEW t \in Task, NEW q \in UQueue, sleep_on(t, q)
      PROVE  TypeOK'
  <2>1. [state EXCEPT ![t] = "uninterruptible"] \in [Task -> State]
    BY DEF State
  <2>2. QED
    BY <1>1, <2>1, ScheduleType DEF sleep_on
<1>2. ASSUME NEW t \in Task, sleep_on_return(t)
      PROVE  TypeOK'
  BY <1>2, SetRunningType DEF sleep_on_return
<1>3. ASSUME NEW t \in Task, NEW q \in IQueue, interruptible_sleep_on(t, q)
      PROVE  TypeOK'
  <2>1. [state EXCEPT ![t] = "interruptible"] \in [Task -> State]
    BY DEF State
  <2>2. QED
    BY <1>3, <2>1, ScheduleType DEF interruptible_sleep_on
<1>4. ASSUME NEW t \in Task, interruptible_repeat(t)
      PROVE  TypeOK'
  <2>1. [SetRunning(state, wq[where[t]]) EXCEPT ![t] = "interruptible"]
           \in [Task -> State]
    BY SetRunningType DEF State
  <2>2. QED
    BY <1>4, <2>1, ScheduleType DEF interruptible_repeat
<1>5. ASSUME NEW t \in Task, interruptible_return(t)
      PROVE  TypeOK'
  BY <1>5, SetRunningType DEF interruptible_return
<1>6. ASSUME NEW q \in Queue, wake_up(q) \/ rs_wake(q)
      PROVE  TypeOK'
  BY <1>6, SetRunningType DEF wake_up, rs_wake
<1>7. ASSUME NEW t \in Task, sys_pause(t) \/ do_exit(t)
      PROVE  TypeOK'
  <2>1. /\ [state EXCEPT ![t] = "interruptible"] \in [Task -> State]
        /\ [state EXCEPT ![t] = "zombie"] \in [Task -> State]
    BY DEF State
  <2>2. QED
    BY <1>7, <2>1, ScheduleType DEF sys_pause, do_exit
<1>8. ASSUME NEW t \in Task,
             pause_return(t) \/ exit_return(t) \/ send_sig(t) \/ deliver_signal(t)
      PROVE  TypeOK'
  BY <1>8 DEF pause_return, exit_return, send_sig, deliver_signal
<1>9. ASSUME do_timer
      PROVE  TypeOK'
  BY <1>9, ScheduleType DEF do_timer
<1>10. ASSUME UNCHANGED vars
       PROVE  TypeOK'
  BY <1>10 DEF vars
<1>11. QED
  BY <1>1, <1>2, <1>3, <1>4, <1>5, <1>6, <1>7, <1>8, <1>9, <1>10
     DEF Next, TaskStep

\* The variables keep their types: in particular no step writes through a
\* null task pointer.
THEOREM TypeCorrect == Spec => []TypeOK
<1>1. Init => TypeOK
  BY DEF Init, TypeOK, State, Place
<1>2. QED
  BY <1>1, TypeNext, PTL DEF Spec

-------------------------------------------------------------------------------
(* No sleeper is lost. *)

\* A step that changes neither queue pointers nor suspended sleep_on calls,
\* and puts nobody to uninterruptible sleep, keeps the invariant: the
\* sleepers after the step were sleepers before it.
LEMMA Undisturbed ==
  ASSUME NoLostSleeper,
         NEW q \in UQueue,
         Asleep(q)' \subseteq Asleep(q),
         \A t \in Asleep(q)' : wq[q] = t => wq'[q] = t,
         \A u \in Task : pc[u] = "sleep_on" /\ where[u] = q =>
           \/ pc'[u] = "sleep_on" /\ where'[u] = q /\ tmp'[u] = tmp[u]
           \/ tmp[u] \notin Asleep(q)',
         NEW X \in SUBSET Asleep(q)', X # {}
  PROVE  \E t \in X : Attached(t, q, X)'
<1>1. PICK t \in X : Attached(t, q, X)
  BY DEF NoLostSleeper
<1>2. CASE wq[q] = t
  BY <1>2 DEF Attached
<1>3. CASE \E u \in Task \ X : pc[u] = "sleep_on" /\ where[u] = q /\ tmp[u] = t
  BY <1>3 DEF Attached
<1>4. QED
  BY <1>1, <1>2, <1>3 DEF Attached

LEMMA SleepKeeps ==
  ASSUME TypeOK, NoLostSleeper,
         NEW t \in Task, NEW q \in UQueue, sleep_on(t, q)
  PROVE  NoLostSleeper'
<1> USE DEF TypeOK, sleep_on, OnCpu
<1>1. \A r \in UQueue : Asleep(r)' \subseteq Asleep(r) \cup (IF r = q THEN {t} ELSE {})
  BY DEF Asleep, schedule, WakeSignalled
<1> SUFFICES ASSUME NEW r \in UQueue, NEW X \in SUBSET Asleep(r)', X # {}
             PROVE  \E v \in X : Attached(v, r, X)'
  BY DEF NoLostSleeper
<1>2. CASE r # q
  <2>1. wq'[r] = wq[r]
    BY <1>2
  <2>2. \A u \in Task : pc[u] = "sleep_on" => 
          pc'[u] = "sleep_on" /\ where'[u] = where[u] /\ tmp'[u] = tmp[u]
    OBVIOUS
  <2>3. QED
    BY <1>1, <1>2, <2>1, <2>2, Undisturbed
<1>3. CASE r = q /\ t \in X
  BY <1>3 DEF Attached
<1>4. CASE r = q /\ t \notin X
  <2>1. X \in SUBSET Asleep(q)
    BY <1>1, <1>4
  <2>2. PICK v \in X : Attached(v, q, X)
    BY <1>4, <2>1 DEF NoLostSleeper
  <2>3. CASE wq[q] = v
    \* t now remembers v.
    BY <1>4, <2>3 DEF Attached
  <2>4. CASE \E u \in Task \ X : pc[u] = "sleep_on" /\ where[u] = q /\ tmp[u] = v
    BY <1>4, <2>4 DEF Attached
  <2>5. QED
    BY <2>2, <2>3, <2>4 DEF Attached
<1>5. QED
  BY <1>2, <1>3, <1>4

\* A call of interruptible_sleep_on sleeps on an interruptible queue, so it
\* never clears the pointer of an uninterruptible one.
InterruptibleWhere ==
  \A t \in Task : pc[t] = "interruptible_sleep_on" => where[t] \in IQueue

LEMMA InterruptibleWhereNext ==
  TypeOK /\ InterruptibleWhere /\ [Next]_vars => InterruptibleWhere'
<1> SUFFICES ASSUME TypeOK, InterruptibleWhere, [Next]_vars
             PROVE  InterruptibleWhere'
  OBVIOUS
<1>1. \/ \E t \in Task, q \in IQueue :
           pc' = [pc EXCEPT ![t] = "interruptible_sleep_on"] /\ where' = [where EXCEPT ![t] = q]
      \/ \E t \in Task, p \in Place, q \in Queue \cup {NoTask} :
           /\ p # "interruptible_sleep_on" /\ pc' = [pc EXCEPT ![t] = p]
           /\ where' = [where EXCEPT ![t] = q]
      \/ \E t \in Task, p \in Place :
           p # "interruptible_sleep_on" /\ pc' = [pc EXCEPT ![t] = p] /\ where' = where
      \/ pc' = pc /\ where' = where
  <2>1. ASSUME NEW t \in Task, TaskStep(t)
        PROVE  <1>1!:
    <3>1. ASSUME NEW q \in IQueue, interruptible_sleep_on(t, q)
          PROVE  <1>1!:
      BY <3>1 DEF interruptible_sleep_on
    <3>2. ASSUME NEW q \in UQueue, sleep_on(t, q)
          PROVE  <1>1!:
      BY <3>2 DEF sleep_on, Place, Queue
    <3>3. CASE sleep_on_return(t) \/ interruptible_return(t)
      BY <3>3 DEF sleep_on_return, interruptible_return, Place
    <3>4. CASE sys_pause(t) \/ pause_return(t) \/ do_exit(t) \/ exit_return(t)
      BY <3>4 DEF sys_pause, pause_return, do_exit, exit_return, Place
    <3>5. CASE interruptible_repeat(t) \/ send_sig(t) \/ deliver_signal(t)
      BY <3>5 DEF interruptible_repeat, send_sig, deliver_signal
    <3>6. QED
      BY ONLY <2>1, <3>1, <3>2, <3>3, <3>4, <3>5 DEF TaskStep
  <2>2. CASE (\E q \in Queue : wake_up(q) \/ rs_wake(q)) \/ do_timer \/ UNCHANGED vars
    BY <2>2 DEF wake_up, rs_wake, do_timer, vars
  <2>3. QED
    BY <2>1, <2>2 DEF Next
<1>2. QED
  BY <1>1 DEF TypeOK, InterruptibleWhere

LEMMA NoLostSleeperNext ==
  TypeOK /\ InterruptibleWhere /\ NoLostSleeper /\ [Next]_vars => NoLostSleeper'
<1> SUFFICES ASSUME TypeOK, InterruptibleWhere, NoLostSleeper, [Next]_vars
             PROVE  NoLostSleeper'
  OBVIOUS
<1> USE DEF TypeOK, OnCpu
<1>1. ASSUME NEW t \in Task, NEW q \in UQueue, sleep_on(t, q)
      PROVE  NoLostSleeper'
  BY <1>1, SleepKeeps
<1>2. ASSUME NEW t \in Task, sleep_on_return(t)
      PROVE  NoLostSleeper'
  \* The task that only t remembered is awake now.
  <2>1. \A r \in UQueue : Asleep(r)' \subseteq Asleep(r) /\ tmp[t] \notin Asleep(r)'
    BY <1>2 DEF sleep_on_return, Asleep, SetRunning
  <2>2. \A u \in Task \ {t} : /\ pc'[u] = pc[u]
                              /\ where'[u] = where[u]
                              /\ tmp'[u] = tmp[u]
    BY <1>2 DEF sleep_on_return
  <2>3. UNCHANGED wq
    BY <1>2 DEF sleep_on_return
  <2>4. QED
    BY <2>1, <2>2, <2>3, Undisturbed DEF NoLostSleeper
<1>3. ASSUME NEW q \in Queue, wake_up(q) \/ rs_wake(q)
      PROVE  NoLostSleeper'
  \* The task that only the pointer named is awake now.
  <2>1. \A r \in UQueue : Asleep(r)' \subseteq Asleep(r) /\ wq[q] \notin Asleep(r)'
    BY <1>3 DEF wake_up, rs_wake, Asleep, SetRunning
  <2>2. UNCHANGED <<pc, where, tmp>>
    BY <1>3 DEF wake_up, rs_wake
  <2>3. \A r \in Queue : wq'[r] = wq[r] \/ r = q
    BY <1>3 DEF wake_up, rs_wake
  <2>4. QED
    BY <2>1, <2>2, <2>3, Undisturbed DEF NoLostSleeper
<1>4. ASSUME NEW t \in Task,
             \/ \E q \in IQueue : interruptible_sleep_on(t, q)
             \/ sys_pause(t) \/ do_exit(t)
      PROVE  NoLostSleeper'
  <2>1. \A r \in UQueue : Asleep(r)' \subseteq Asleep(r)
    BY <1>4 DEF interruptible_sleep_on, sys_pause, do_exit, Asleep, schedule,
                WakeSignalled
  <2>2. \A u \in Task : pc[u] = "sleep_on" => /\ pc'[u] = pc[u]
                                              /\ where'[u] = where[u]
                                              /\ tmp'[u] = tmp[u]
    BY <1>4 DEF interruptible_sleep_on, sys_pause, do_exit
  <2>3. \A r \in UQueue : wq'[r] = wq[r]
    BY <1>4 DEF interruptible_sleep_on, sys_pause, do_exit
  <2>4. QED
    BY <2>1, <2>2, <2>3, Undisturbed DEF NoLostSleeper
<1>5. ASSUME NEW t \in Task, interruptible_repeat(t)
      PROVE  NoLostSleeper'
  <2>1. \A r \in UQueue : Asleep(r)' \subseteq Asleep(r)
    BY <1>5 DEF interruptible_repeat, Asleep, schedule, WakeSignalled, SetRunning
  <2>2. UNCHANGED <<pc, where, tmp, wq>>
    BY <1>5 DEF interruptible_repeat
  <2>3. QED
    BY <2>1, <2>2, Undisturbed DEF NoLostSleeper
<1>6. ASSUME NEW t \in Task, interruptible_return(t), where[t] \notin UQueue
      PROVE  NoLostSleeper'
  <2>1. \A r \in UQueue : Asleep(r)' \subseteq Asleep(r)
    BY <1>6 DEF interruptible_return, Asleep, SetRunning
  <2>2. \A u \in Task : pc[u] = "sleep_on" => /\ pc'[u] = pc[u]
                                              /\ where'[u] = where[u]
                                              /\ tmp'[u] = tmp[u]
    BY <1>6 DEF interruptible_return
  <2>3. \A r \in UQueue : wq'[r] = wq[r]
    BY <1>6 DEF interruptible_return
  <2>4. QED
    BY <2>1, <2>2, <2>3, Undisturbed DEF NoLostSleeper
<1>7. ASSUME NEW t \in Task,
             pause_return(t) \/ exit_return(t) \/ send_sig(t) \/ deliver_signal(t)
      PROVE  NoLostSleeper'
  <2>1. \A r \in UQueue : Asleep(r)' \subseteq Asleep(r)
    BY <1>7 DEF pause_return, exit_return, send_sig, deliver_signal, Asleep
  <2>2. \A u \in Task : pc[u] = "sleep_on" => pc'[u] = pc[u]
    BY <1>7 DEF pause_return, exit_return, send_sig, deliver_signal
  <2>3. UNCHANGED <<where, tmp, wq>>
    BY <1>7 DEF pause_return, exit_return, send_sig, deliver_signal
  <2>4. QED
    BY <2>1, <2>2, <2>3, Undisturbed DEF NoLostSleeper
<1>8. ASSUME do_timer \/ UNCHANGED vars
      PROVE  NoLostSleeper'
  <2>1. \A r \in UQueue : Asleep(r)' \subseteq Asleep(r)
    BY <1>8 DEF do_timer, vars, Asleep, schedule, WakeSignalled
  <2>2. UNCHANGED <<pc, where, tmp, wq>>
    BY <1>8 DEF do_timer, vars
  <2>3. QED
    BY <2>1, <2>2, Undisturbed DEF NoLostSleeper
<1>9. \A t \in Task : interruptible_return(t) => where[t] \notin UQueue
  BY DEF InterruptibleWhere, interruptible_return
<1>10. QED
  BY <1>1, <1>2, <1>3, <1>4, <1>5, <1>6, <1>7, <1>8, <1>9 DEF Next, TaskStep

\* For every set of tasks and of queues, with signals, stale wake-ups through
\* interruptible queues, exits and serial interrupts: a task in sleep_on is
\* always named by its queue's pointer or by a task asleep before it.
THEOREM SleepersAreKept == Spec => []NoLostSleeper
<1>1. Init => InterruptibleWhere /\ NoLostSleeper
  BY DEF Init, InterruptibleWhere, NoLostSleeper, Asleep
<1>2. InterruptibleWhere /\ NoLostSleeper /\ TypeOK /\ [Next]_vars
        => InterruptibleWhere' /\ NoLostSleeper'
  BY InterruptibleWhereNext, NoLostSleeperNext
<1>3. QED
  BY <1>1, <1>2, TypeCorrect, PTL DEF Spec

-------------------------------------------------------------------------------
(* Wait sets. *)

\* One pointer at most names a task: every wake-up has one way to come.
NamedOnce ==
  /\ \A q, r \in UQueue : wq[q] = wq[r] /\ wq[q] # NoTask => q = r
  /\ \A u, v \in Task : tmp[u] = tmp[v] /\ tmp[u] # NoTask => u = v
  /\ \A q \in UQueue, u \in Task : wq[q] = tmp[u] => wq[q] = NoTask

\* A task that is named sleeps, on the queue of the one that names it.
NamedAsleep ==
  /\ \A q \in UQueue : wq[q] # NoTask => wq[q] \in Asleep(q)
  /\ \A u \in Task : tmp[u] # NoTask =>
       pc[u] = "sleep_on" /\ \E q \in UQueue : where[u] = q /\ tmp[u] \in Asleep(q)

NoneInterruptible ==
  /\ \A q \in IQueue : wq[q] = NoTask
  /\ \A t \in Task : pc[t] # "interruptible_sleep_on"

CurrentRuns == current # NoTask => state[current] = "running"

Sound == NamedOnce /\ NamedAsleep /\ NoneInterruptible /\ CurrentRuns
Inductive == plain => Sound

-------------------------------------------------------------------------------
(* Chains.                                                                 *)

\* The chain is closed itself, and contained in every closed set.
LEMMA ChainIsClosed ==
  ASSUME TypeOK, NEW q \in UQueue
  PROVE  /\ Chain(q) \in SUBSET Task /\ ClosedFrom(q, Chain(q))
         /\ \A S \in SUBSET Task : ClosedFrom(q, S) => Chain(q) \subseteq S
<1>1. wq[q] # NoTask => wq[q] \in Chain(q)
  BY DEF Chain, ClosedFrom, TypeOK
<1>2. ASSUME NEW u \in Chain(q), tmp[u] # NoTask
      PROVE  tmp[u] \in Chain(q)
  <2>1. u \in Task /\ tmp[u] \in Task
    BY <1>2 DEF Chain, TypeOK
  <2>2. ASSUME NEW S \in SUBSET Task, ClosedFrom(q, S)
        PROVE  tmp[u] \in S
    <3>1. u \in S
      BY <2>2 DEF Chain
    <3>2. QED
      BY <1>2, <2>2, <3>1 DEF ClosedFrom
  <2>3. QED
    BY <2>1, <2>2 DEF Chain
<1>3. Chain(q) \in SUBSET Task
  BY DEF Chain
<1>4. ClosedFrom(q, Chain(q))
  BY <1>1, <1>2 DEF ClosedFrom
<1>5. \A S \in SUBSET Task : ClosedFrom(q, S) => Chain(q) \subseteq S
  BY DEF Chain
<1>6. QED
  BY <1>3, <1>4, <1>5

LEMMA ChainAsleep ==
  ASSUME TypeOK, NamedAsleep, NEW q \in UQueue
  PROVE  Chain(q) \subseteq Asleep(q)
<1>1. Asleep(q) \in SUBSET Task
  BY DEF Asleep
<1>2. ASSUME NEW u \in Asleep(q)
      PROVE  tmp[u] \in Asleep(q) \cup {NoTask}
  <2>1. u \in Task /\ where[u] = q
    BY DEF Asleep
  <2>2. QED
    BY <2>1 DEF NamedAsleep
<1>3. ClosedFrom(q, Asleep(q))
  BY <1>2 DEF ClosedFrom, NamedAsleep
<1>4. QED
  BY <1>1, <1>3, ChainIsClosed

\* What a task that is not asleep on q remembers does not touch the chain of q.
LEMMA ChainKept ==
  ASSUME TypeOK, NamedAsleep, NEW q \in UQueue, NEW t \in Task,
         t \notin Asleep(q), wq'[q] = wq[q], \A u \in Task \ {t} : tmp'[u] = tmp[u]
  PROVE  Chain(q)' = Chain(q)
<1>1. PICK C \in SUBSET Task : C = Chain(q)
  BY ChainIsClosed
<1>2. C \subseteq Asleep(q) /\ ClosedFrom(q, C)
  BY <1>1, ChainAsleep, ChainIsClosed
<1>3. ClosedFrom(q, C)'
  BY <1>2 DEF ClosedFrom
<1>4. ASSUME NEW S \in SUBSET Task, ClosedFrom(q, S)'
      PROVE  C \subseteq S
  <2>1. ClosedFrom(q, C \cap S)
    BY <1>2, <1>4 DEF ClosedFrom
  <2>2. C \cap S \in SUBSET Task
    OBVIOUS
  <2>3. QED
    BY <1>1, <2>1, <2>2, ChainIsClosed
<1>5. Chain(q)' = {u \in Task : \A S \in SUBSET Task : ClosedFrom(q, S)' => u \in S}
  BY DEF Chain
<1>6. QED
  BY <1>1, <1>3, <1>4, <1>5

-------------------------------------------------------------------------------
(* Steps of the kernel, and what they are to the wait sets.                *)

Waits == [q \in UQueue |-> IF plain THEN Chain(q) ELSE {}]
Due == {t \in Task : plain /\ pc[t] = "sleep_on" /\ t \notin Chained}

LEMMA Scheduled ==
  ASSUME NEW s \in [Task -> State], schedule(s)
  PROVE  /\ \A u \in Task : s[u] = "uninterruptible" => state'[u] = "uninterruptible"
         /\ CurrentRuns'
BY DEF schedule, WakeSignalled, CurrentRuns

\* A step that is nothing to the queues.
LEMMA Elsewhere ==
  ASSUME TypeOK, TypeOK', Sound, plain, plain', UNCHANGED <<wq, tmp, where>>,
         \A u \in Task : \/ pc'[u] = pc[u]
                         \/ pc[u] # "sleep_on" /\ pc'[u] \notin {"sleep_on", "interruptible_sleep_on"},
         \A u \in Task : pc[u] = "sleep_on" /\ state[u] = "uninterruptible"
                           => state'[u] = "uninterruptible",
         CurrentRuns'
  PROVE  Sound' /\ Waits' = Waits /\ Due' = Due
<1>1. \A q \in UQueue : Asleep(q) \subseteq Asleep(q)'
  BY DEF Asleep
<1>2. NamedOnce'
  BY DEF Sound, NamedOnce
<1>3. NamedAsleep'
  BY <1>1 DEF Sound, NamedAsleep
<1>4. NoneInterruptible'
  BY DEF Sound, NoneInterruptible
<1>5. \A q \in UQueue : Chain(q)' = Chain(q)
  BY DEF Chain, ClosedFrom
<1>6. Chained' = Chained
  BY <1>5 DEF Chained
<1>7. QED
  BY <1>2, <1>3, <1>4, <1>5, <1>6 DEF Sound, Waits, Due

LEMMA SleepStep ==
  ASSUME TypeOK, TypeOK', Sound, plain, plain', NEW t \in Task, NEW q \in UQueue, sleep_on(t, q)
  PROVE  /\ Sound'
         /\ \A r \in UQueue : t \notin Chain(r)
         /\ t \notin Due
         /\ Waits' = [Waits EXCEPT ![q] = @ \cup {t}]
         /\ Due' = Due
<1>1. /\ pc[t] = "run" /\ state[t] = "running" /\ t # NoTask
      /\ tmp' = [tmp EXCEPT ![t] = wq[q]] /\ wq' = [wq EXCEPT ![q] = t]
      /\ pc' = [pc EXCEPT ![t] = "sleep_on"] /\ where' = [where EXCEPT ![t] = q]
      /\ schedule([state EXCEPT ![t] = "uninterruptible"])
  BY DEF sleep_on, OnCpu, Sound, CurrentRuns
<1>2. /\ \A r \in UQueue : t \notin Asleep(r)
      /\ tmp[t] = NoTask
  BY <1>1 DEF Asleep, Sound, NamedAsleep
<1>3. /\ \A r \in UQueue : wq[r] # t
      /\ \A u \in Task : tmp[u] # t
  BY <1>1, <1>2 DEF Sound, NamedAsleep
<1>4. CurrentRuns' /\ \A r \in UQueue : Asleep(r)' = Asleep(r) \cup (IF r = q THEN {t} ELSE {})
  <2>1. PICK s \in [Task -> State] : s = [state EXCEPT ![t] = "uninterruptible"]
    BY DEF TypeOK, State
  <2>2. schedule(s)
    BY <1>1, <2>1
  <2>3. /\ CurrentRuns'
        /\ \A u \in Task : s[u] = "uninterruptible" <=> state'[u] = "uninterruptible"
    BY <2>2 DEF schedule, WakeSignalled, CurrentRuns
  <2>4. \A u \in Task : state'[u] = "uninterruptible" <=> state[u] = "uninterruptible" \/ u = t
    BY <2>1, <2>3 DEF TypeOK
  <2>5. QED
    BY <1>1, <1>2, <2>3, <2>4 DEF Asleep, TypeOK
<1>5. NamedOnce'
  BY <1>1, <1>2, <1>3 DEF Sound, NamedOnce, TypeOK
<1>6. NamedAsleep'
  <2>1. \A r \in UQueue : wq'[r] # NoTask => wq'[r] \in Asleep(r)'
    BY <1>1, <1>4 DEF Sound, NamedAsleep, TypeOK
  <2>2. wq[q] # NoTask => wq[q] \in Asleep(q)'
    BY <1>4 DEF Sound, NamedAsleep
  <2>3. ASSUME NEW u \in Task, tmp'[u] # NoTask
        PROVE  pc'[u] = "sleep_on" /\ \E r \in UQueue : where'[u] = r /\ tmp'[u] \in Asleep(r)'
    <3>1. CASE u = t
      BY <1>1, <2>2, <2>3, <3>1 DEF TypeOK
    <3>2. CASE u # t
      <4>1. /\ tmp'[u] = tmp[u] /\ pc'[u] = pc[u] /\ where'[u] = where[u]
        BY <1>1, <3>2 DEF TypeOK
      <4>2. pc[u] = "sleep_on" /\ \E r \in UQueue : where[u] = r /\ tmp[u] \in Asleep(r)
        BY <2>3, <4>1 DEF Sound, NamedAsleep
      <4>3. QED
        BY <1>4, <4>1, <4>2
    <3>3. QED
      BY <3>1, <3>2
  <2>4. QED
    BY <2>1, <2>3 DEF NamedAsleep
<1>7. NoneInterruptible'
  BY <1>1 DEF Sound, NoneInterruptible, TypeOK
<1>8. \A r \in UQueue : t \notin Chain(r)
  BY <1>2, ChainAsleep DEF Sound
<1>9. \A r \in UQueue \ {q} : Chain(r)' = Chain(r)
  BY <1>1, <1>2, ChainKept DEF Sound, TypeOK
<1>10. Chain(q)' = Chain(q) \cup {t}
  <2>1. PICK C \in SUBSET Task : C = Chain(q)
    BY ChainIsClosed
  <2>2. ClosedFrom(q, C) /\ t \notin C
    BY <1>8, <2>1, ChainIsClosed
  <2>3. ClosedFrom(q, C \cup {t})'
    BY <1>1, <2>2 DEF ClosedFrom, TypeOK
  <2>4. ASSUME NEW S \in SUBSET Task, ClosedFrom(q, S)'
        PROVE  C \cup {t} \subseteq S
    <3>1. t \in S /\ wq[q] \in S \cup {NoTask}
      BY <1>1, <2>4 DEF ClosedFrom, TypeOK
    <3>2. \A u \in S : tmp[u] \in S \cup {NoTask}
      BY <1>1, <1>2, <2>4 DEF ClosedFrom, TypeOK
    <3>3. ClosedFrom(q, S)
      BY <3>1, <3>2 DEF ClosedFrom
    <3>4. QED
      BY <2>1, <3>1, <3>3, ChainIsClosed
  <2>5. Chain(q)' = {u \in Task : \A S \in SUBSET Task : ClosedFrom(q, S)' => u \in S}
    BY DEF Chain
  <2>6. C \cup {t} \in SUBSET Task
    OBVIOUS
  <2>7. QED
    BY <2>1, <2>3, <2>4, <2>5, <2>6
<1>11. Chained' = Chained \cup {t}
  BY <1>9, <1>10 DEF Chained
<1>12. t \notin Due /\ Due' = Due
  BY <1>1, <1>11 DEF Due, TypeOK
<1>13. Waits' = [Waits EXCEPT ![q] = @ \cup {t}]
  BY <1>9, <1>10 DEF Waits
<1>14. QED
  BY <1>4, <1>5, <1>6, <1>7, <1>8, <1>12, <1>13 DEF Sound

\* A pointer may be dropped and the task it named woken, nobody else names it.
LEMMA ResumeStep ==
  ASSUME TypeOK, TypeOK', Sound, plain, plain', NEW t \in Task, sleep_on_return(t)
  PROVE  Sound' /\ t \in Due /\ Waits' = Waits /\ Due' = Due \ {t}
<1>1. /\ pc[t] = "sleep_on" /\ state[t] = "running" /\ t # NoTask
      /\ state' = [u \in Task |-> IF u = tmp[t] THEN "running" ELSE state[u]]
      /\ pc' = [pc EXCEPT ![t] = "run"] /\ tmp' = [tmp EXCEPT ![t] = NoTask]
      /\ where' = [where EXCEPT ![t] = NoTask]
      /\ UNCHANGED <<wq, current>>
  BY DEF sleep_on_return, OnCpu, SetRunning, Sound, CurrentRuns
<1>2. \A r \in UQueue : t \notin Asleep(r)
  BY <1>1 DEF Asleep
<1>3. \A r \in UQueue : Asleep(r)' = Asleep(r) \ {tmp[t]}
  BY <1>1, <1>2 DEF Asleep, TypeOK
<1>4. /\ \A r \in UQueue : wq[r] = tmp[t] => wq[r] = NoTask
      /\ \A u \in Task \ {t} : tmp[u] = tmp[t] => tmp[u] = NoTask
  BY DEF Sound, NamedOnce
<1>5. NamedOnce'
  BY <1>1 DEF Sound, NamedOnce, TypeOK
<1>6. NamedAsleep'
  <2>1. \A r \in UQueue : wq'[r] # NoTask => wq'[r] \in Asleep(r)'
    BY <1>1, <1>3, <1>4 DEF Sound, NamedAsleep
  <2>2. ASSUME NEW u \in Task, tmp'[u] # NoTask
        PROVE  pc'[u] = "sleep_on" /\ \E r \in UQueue : where'[u] = r /\ tmp'[u] \in Asleep(r)'
    <3>1. u # t /\ tmp'[u] = tmp[u] /\ pc'[u] = pc[u] /\ where'[u] = where[u]
      BY <1>1, <2>2 DEF TypeOK
    <3>2. pc[u] = "sleep_on" /\ \E r \in UQueue : where[u] = r /\ tmp[u] \in Asleep(r)
      BY <2>2, <3>1 DEF Sound, NamedAsleep
    <3>3. tmp[u] # tmp[t]
      BY <1>4, <2>2, <3>1
    <3>4. QED
      BY <1>3, <3>1, <3>2, <3>3
  <2>3. QED
    BY <2>1, <2>2 DEF NamedAsleep
<1>7. NoneInterruptible' /\ CurrentRuns'
  BY <1>1 DEF Sound, NoneInterruptible, CurrentRuns, TypeOK
<1>8. \A r \in UQueue : Chain(r)' = Chain(r)
  BY <1>1, <1>2, ChainKept DEF Sound, TypeOK
<1>9. Chained' = Chained /\ t \notin Chained
  BY <1>2, <1>8, ChainAsleep DEF Chained, Sound
<1>10. t \in Due /\ Due' = Due \ {t}
  BY <1>1, <1>9 DEF Due, TypeOK
<1>11. Waits' = Waits
  BY <1>8 DEF Waits
<1>12. QED
  BY <1>5, <1>6, <1>7, <1>10, <1>11 DEF Sound

\* wake_up drops the pointer: the chain is empty, and those on it are due.
LEMMA WakeStep ==
  ASSUME TypeOK, TypeOK', Sound, plain, plain', NEW q \in Queue, wake_up(q)
  PROVE  /\ Sound' /\ q \in UQueue
         /\ Due' = Due \cup Waits[q] /\ Waits' = [Waits EXCEPT ![q] = {}]
<1>1. /\ q \in UQueue /\ wq[q] # NoTask
      /\ state' = [u \in Task |-> IF u = wq[q] THEN "running" ELSE state[u]]
      /\ wq' = [wq EXCEPT ![q] = NoTask]
      /\ UNCHANGED <<pc, where, tmp, current>>
  BY DEF wake_up, SetRunning, Sound, NoneInterruptible
<1>2. \A r \in UQueue : Asleep(r)' = Asleep(r) \ {wq[q]}
  BY <1>1 DEF Asleep, TypeOK
<1>3. /\ \A r \in UQueue \ {q} : wq[r] = wq[q] => wq[r] = NoTask
      /\ \A u \in Task : tmp[u] # wq[q]
  BY <1>1 DEF Sound, NamedOnce
<1>4. NamedOnce'
  BY <1>1 DEF Sound, NamedOnce, TypeOK
<1>5. NamedAsleep'
  <2>1. \A r \in UQueue : wq'[r] # NoTask => wq'[r] \in Asleep(r)'
    BY <1>1, <1>2, <1>3 DEF Sound, NamedAsleep, TypeOK
  <2>2. \A u \in Task : tmp'[u] # NoTask =>
          pc'[u] = "sleep_on" /\ \E r \in UQueue : where'[u] = r /\ tmp'[u] \in Asleep(r)'
    BY <1>1, <1>2, <1>3 DEF Sound, NamedAsleep
  <2>3. QED
    BY <2>1, <2>2 DEF NamedAsleep
<1>6. NoneInterruptible' /\ CurrentRuns'
  BY <1>1 DEF Sound, NoneInterruptible, CurrentRuns, TypeOK
<1>7. \A r \in UQueue \ {q} : Chain(r)' = Chain(r)
  BY <1>1 DEF Chain, ClosedFrom, TypeOK
<1>8. Chain(q)' = {}
  <2>1. ClosedFrom(q, {})'
    BY <1>1 DEF ClosedFrom, TypeOK
  <2>2. QED
    BY <2>1 DEF Chain
<1>9. \A r \in UQueue \ {q}, u \in Task : ~ (u \in Chain(r) /\ u \in Chain(q))
  BY <1>1, ChainAsleep DEF Sound, Asleep
<1>10. Chained' = Chained \ Chain(q)
  BY <1>1, <1>7, <1>8, <1>9 DEF Chained, Chain
<1>11. \A u \in Chain(q) : u \in Task /\ pc[u] = "sleep_on" /\ u \in Chained
  BY <1>1, ChainAsleep DEF Sound, Asleep, Chained
<1>12. Due' = Due \cup Chain(q)
  BY <1>1, <1>10, <1>11 DEF Due
<1>13. Waits' = [Waits EXCEPT ![q] = {}] /\ Waits[q] = Chain(q)
  BY <1>1, <1>7, <1>8 DEF Waits
<1>14. QED
  BY <1>1, <1>4, <1>5, <1>6, <1>12, <1>13 DEF Sound

\* One of the steps of a wait set, or none.
SleepsOn(t, q) == /\ t \notin Due /\ \A r \in UQueue : t \notin Waits[r]
                  /\ Waits' = [Waits EXCEPT ![q] = @ \cup {t}]
                  /\ Due' = Due
Wakes(q) == Due' = Due \cup Waits[q] /\ Waits' = [Waits EXCEPT ![q] = {}]
Resumes(t) == t \in Due /\ Due' = Due \ {t} /\ Waits' = Waits
Allowed ==
  \/ \E t \in Task, q \in UQueue : SleepsOn(t, q)
  \/ \E q \in UQueue : Wakes(q)
  \/ \E t \in Task : Resumes(t)
  \/ Waits' = Waits /\ Due' = Due

LEMMA PlainStep ==
  ASSUME TypeOK, TypeOK', Sound, plain, plain', Next, \A t \in Task : where'[t] \notin IQueue
  PROVE  Sound' /\ Allowed
<1>1. ASSUME NEW t \in Task, NEW q \in UQueue, sleep_on(t, q)
      PROVE  Sound' /\ SleepsOn(t, q)
  BY <1>1, SleepStep DEF SleepsOn, Waits
<1>2. ASSUME NEW t \in Task, sleep_on_return(t)
      PROVE  Sound' /\ Resumes(t)
  BY <1>2, ResumeStep DEF Resumes
<1>3. ASSUME NEW q \in Queue, wake_up(q)
      PROVE  Sound' /\ q \in UQueue /\ Wakes(q)
  BY <1>3, WakeStep DEF Wakes
<1>4. ASSUME NEW t \in Task, NEW q \in IQueue, interruptible_sleep_on(t, q)
      PROVE  FALSE
  BY <1>4 DEF interruptible_sleep_on, TypeOK
<1>5. ASSUME NEW t \in Task, interruptible_repeat(t) \/ interruptible_return(t)
      PROVE  FALSE
  BY <1>5 DEF interruptible_repeat, interruptible_return, OnCpu, Sound, NoneInterruptible
<1>6. ASSUME NEW q \in Queue, rs_wake(q)
      PROVE  FALSE
  BY <1>6 DEF rs_wake, Sound, NoneInterruptible
<1>7. ASSUME NEW t \in Task, sys_pause(t) \/ do_exit(t)
      PROVE  Sound' /\ Waits' = Waits /\ Due' = Due
  <2>1. PICK s \in [Task -> State] :
          /\ s = [state EXCEPT ![t] = "interruptible"] \/ s = [state EXCEPT ![t] = "zombie"]
          /\ schedule(s)
    BY <1>7 DEF sys_pause, do_exit, TypeOK, State
  <2>2. /\ UNCHANGED <<wq, tmp, where>> /\ pc[t] = "run"
        /\ \A u \in Task : pc'[u] = pc[u] \/ (u = t /\ pc'[u] \in {"pause", "exited"})
    BY <1>7 DEF sys_pause, do_exit, OnCpu, TypeOK
  <2>3. /\ CurrentRuns'
        /\ \A u \in Task : pc[u] = "sleep_on" /\ state[u] = "uninterruptible"
                           => state'[u] = "uninterruptible"
    BY <2>1, <2>2, Scheduled DEF TypeOK
  <2>4. QED
    BY <2>2, <2>3, Elsewhere
<1>8. ASSUME NEW t \in Task, pause_return(t) \/ send_sig(t) \/ deliver_signal(t) \/ exit_return(t)
      PROVE  Sound' /\ Waits' = Waits /\ Due' = Due
  <2>1. /\ UNCHANGED <<wq, tmp, where, state, current>>
        /\ \A u \in Task : pc'[u] = pc[u] \/ (pc[u] # "sleep_on" /\ pc'[u] = "run")
    BY <1>8 DEF pause_return, send_sig, deliver_signal, exit_return, OnCpu, TypeOK
  <2>2. CurrentRuns'
    BY <2>1 DEF Sound, CurrentRuns
  <2>3. QED
    BY <2>1, <2>2, Elsewhere
<1>9. ASSUME do_timer
      PROVE  Sound' /\ Waits' = Waits /\ Due' = Due
  <2>1. UNCHANGED <<wq, tmp, where, pc>> /\ schedule(state)
    BY <1>9 DEF do_timer
  <2>2. /\ CurrentRuns'
        /\ \A u \in Task : state[u] = "uninterruptible" => state'[u] = "uninterruptible"
    BY <2>1, Scheduled DEF TypeOK
  <2>3. QED
    BY <2>1, <2>2, Elsewhere
<1>10. QED
  BY <1>1, <1>2, <1>3, <1>4, <1>5, <1>6, <1>7, <1>8, <1>9 DEF Next, TaskStep, Allowed

LEMMA RegimeStep ==
  ASSUME TypeOK, TypeOK', Inductive, plain \in BOOLEAN, [RegimeNext]_<<vars, plain>>
  PROVE  Inductive' /\ plain' \in BOOLEAN /\ Allowed
<1>1. plain' = plain
  BY DEF RegimeNext
<1>2. CASE UNCHANGED <<vars, plain>>
  <2>1. Inductive'
    BY <1>2 DEF Inductive, Sound, NamedOnce, NamedAsleep, NoneInterruptible, CurrentRuns,
                Asleep, vars
  <2>2. Waits' = Waits /\ Due' = Due
    BY <1>2 DEF Waits, Due, Chained, Chain, ClosedFrom, vars
  <2>3. QED
    BY <1>1, <2>1, <2>2 DEF Allowed
<1>3. CASE RegimeNext /\ plain
  <2>1. Next /\ \A t \in Task : where'[t] \notin IQueue
    BY <1>3 DEF RegimeNext, Unused
  <2>2. QED
    BY <1>1, <1>3, <2>1, PlainStep DEF Inductive
<1>4. CASE ~ plain
  BY <1>1, <1>4 DEF Inductive, Waits, Due, Allowed
<1>5. QED
  BY <1>2, <1>3, <1>4

LEMMA RegimeAlways == RegimeSpec => [](TypeOK /\ Inductive /\ plain \in BOOLEAN)
<1>1. RegimeInit => Init /\ Inductive /\ plain \in BOOLEAN
  BY DEF RegimeInit, Init, Inductive, Sound, NamedOnce, NamedAsleep, NoneInterruptible,
         CurrentRuns
<1>2. [RegimeNext]_<<vars, plain>> => [Next]_vars
  BY DEF RegimeNext
<1>3. RegimeSpec => []TypeOK
  BY <1>1, <1>2, TypeCorrect, PTL DEF RegimeSpec, Spec
<1>4. TypeOK /\ TypeOK' /\ Inductive /\ plain \in BOOLEAN /\ [RegimeNext]_<<vars, plain>>
      => Inductive' /\ (plain \in BOOLEAN)'
  BY RegimeStep
<1>5. QED
  BY <1>1, <1>3, <1>4, PTL DEF RegimeSpec

-------------------------------------------------------------------------------
\* In the plain regime the queues are in sound condition whenever kernel code
\* runs, for every set of tasks and of queues (kernel/sched.c, sleep_on, wake_up).
THEOREM ChainsAreSound == RegimeSpec => []ChainSound
<1>1. ASSUME TypeOK, Inductive
      PROVE  ChainSound
  <2>1. SUFFICES ASSUME plain PROVE ChainSound
    BY DEF ChainSound
  <2>2. ASSUME NEW t \in Task
        PROVE  Cardinality({q \in UQueue : wq[q] = t} \cup {u \in Task : tmp[u] = t}) <= 1
    <3> DEFINE Names == {q \in UQueue : wq[q] = t} \cup {u \in Task : tmp[u] = t}
    <3>1. CASE Names = {}
      BY <3>1, FS_EmptySet
    <3>2. CASE Names # {}
      <4>1. t # NoTask
        OBVIOUS
      <4>2. PICK x : x \in Names
        BY <3>2
      <4>3. Names = {x}
        BY <1>1, <2>1, <4>1, <4>2 DEF Inductive, Sound, NamedOnce
      <4>4. Cardinality({x}) = 1
        BY FS_Singleton
      <4>5. QED
        BY <4>3, <4>4
    <3>3. QED
      BY <3>1, <3>2
  <2>3. QED
    BY <1>1, <2>1, <2>2, ChainAsleep DEF Inductive, Sound, ChainSound
<1>2. QED
  BY <1>1, RegimeAlways, PTL

\* The queues of kernel/sched.c implement wait sets, for every set of tasks and
\* of queues: a wake_up releases everybody who is asleep on the queue and nobody
\* else, and only who was released goes on. (That everybody released does go on
\* is the liveness part of IsWaitSet.)
THEOREM ImplementsWaitSet == RegimeSpec => WS!Init /\ [][WS!Next]_(WS!vars)
<1>1. RegimeInit => WS!Init
  <2>1. SUFFICES ASSUME RegimeInit PROVE WS!Init
    OBVIOUS
  <2>2. \A q \in UQueue : Chain(q) = {}
    <3>1. \A q \in UQueue : ClosedFrom(q, {})
      BY <2>1 DEF RegimeInit, Init, ClosedFrom
    <3>2. QED
      BY <3>1 DEF Chain
  <2>3. QED
    BY <2>1, <2>2 DEF RegimeInit, Init, WS!Init
<1>2. ASSUME TypeOK, TypeOK', Inductive, plain \in BOOLEAN, [RegimeNext]_<<vars, plain>>
      PROVE  [WS!Next]_(WS!vars)
  <2>1. Allowed
    BY <1>2, RegimeStep
  <2>2. ASSUME NEW t \in Task, NEW q \in UQueue, SleepsOn(t, q)
        PROVE  WS!Sleep(t, q)
    BY <2>2 DEF SleepsOn, WS!Sleep, WS!Idle, Waits, Due
  <2>3. ASSUME NEW q \in UQueue, Wakes(q)
        PROVE  WS!WakeAll(q)
    BY <2>3 DEF Wakes, WS!WakeAll, Waits, Due
  <2>4. ASSUME NEW t \in Task, Resumes(t)
        PROVE  WS!Resume(t)
    BY <2>4 DEF Resumes, WS!Resume, Waits, Due
  <2>5. ASSUME Waits' = Waits, Due' = Due
        PROVE  UNCHANGED WS!vars
    BY <2>5 DEF WS!vars, Waits, Due
  <2>6. QED
    BY <2>1, <2>2, <2>3, <2>4, <2>5 DEF Allowed, WS!Next
<1>3. QED
  BY <1>1, <1>2, RegimeAlways, PTL DEF RegimeSpec
==============================================================================
