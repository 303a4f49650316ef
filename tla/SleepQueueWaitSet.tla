-------------------------- MODULE SleepQueueWaitSet --------------------------
(***************************************************************************)
(* The queues of SleepQueue.tla in two regimes.  As long as nobody sleeps  *)
(* interruptibly (`plain') they implement WaitSet.tla: one wake_up         *)
(* releases, one after the other, every task that was asleep on the queue, *)
(* and nobody else.  In the other regime the interruptible queues, whose   *)
(* stale pointers wake tasks that sleep elsewhere, are used as well.       *)
(***************************************************************************)
EXTENDS SleepQueue, Naturals

CONSTANT Spare    \* bound: uninterruptible queues left out in the other regime

VARIABLE plain

Unused == IF plain THEN IQueue ELSE Spare

RegimeInit == Init /\ plain \in BOOLEAN
RegimeNext == Next /\ UNCHANGED plain /\ \A t \in Task : where'[t] \notin Unused
RegimeSpec == RegimeInit /\ [][RegimeNext]_<<vars, plain>> /\ Fairness

\* S holds the head of q and, with each task, the one it remembers in tmp.
ClosedFrom(q, S) == /\ wq[q] \in S \cup {NoTask}
                    /\ \A t \in S : tmp[t] \in S \cup {NoTask}

\* The tasks that can be reached from the pointer of q: the smallest such S.
Chain(q) == {t \in Task : \A S \in SUBSET Task : ClosedFrom(q, S) => t \in S}

Chained == UNION {Chain(q) : q \in UQueue}

WS == INSTANCE WaitSet WITH
        Queue <- UQueue,
        waiting <- [q \in UQueue |-> IF plain THEN Chain(q) ELSE {}],
        due <- {t \in Task : plain /\ pc[t] = "sleep_on" /\ t \notin Chained}

\* The queues are wait sets: sleeping joins one, a wake_up empties it, every
\* released task runs.  (sched.c:142-156, 178-184)
IsWaitSet == WS!Spec

\* The queue is in sound condition whenever kernel code runs: it names only
\* tasks asleep on it, and a task asleep is remembered in one place at most,
\* so no wake-up reaches a task that waits for something else.
ChainSound ==
  plain => /\ \A q \in UQueue : Chain(q) \subseteq Asleep(q)
           /\ \A t \in Task :
                Cardinality({q \in UQueue : wq[q] = t} \cup {u \in Task : tmp[u] = t}) <= 1
==============================================================================
