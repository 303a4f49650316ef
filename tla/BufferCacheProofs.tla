-------------------------- MODULE BufferCacheProofs --------------------------
(***************************************************************************)
(* One buffer per block and exact reference counts, for every number of    *)
(* tasks, buffers and blocks, whatever the disk does; then the locks of    *)
(* the buffers, and the block of a buffer that is in use, as long as the   *)
(* disk has failed no request; the free list, which stays one ring; and    *)
(* that what was written once is on the disk or marked dirty.              *)
(***************************************************************************)
EXTENDS BufferCache, FiniteSetTheorems, TLAPS

USE CacheAssumption DEF Buffer, NoBlock, Null

Reading == {"hash_wait", "got", "read_wait"}
Searching == {"getblk", "scan_wait", "sleep", "woken", "update"}
Syncing == {"sync", "sync_wait", "write_wait"}

Typed ==
  /\ blk \in [Buffer -> Block \cup {NoBlock}]
  /\ b_count \in [Buffer -> Int]
  /\ hashed \subseteq Buffer
  /\ pc \in [Task -> Reading \cup Searching \cup Syncing \cup {"idle"}]
  /\ goal \in [Task -> Block \cup {NoBlock}]
  /\ tmp \in [Task -> Buffer \cup {Null}]
  /\ held \in [Task -> SUBSET Buffer]

\* What a task has at hand where it is.
Placed(t) ==
  /\ pc[t] \in Reading \cup Searching => goal[t] # NoBlock
  /\ pc[t] \in Reading \cup {"scan_wait", "update"} => tmp[t] \in Buffer
  /\ pc[t] \in Syncing /\ goal[t] # NoBlock => tmp[t] \in Buffer
  /\ pc[t] = "idle" => goal[t] = NoBlock

\* A taken buffer is off the hash queues, and one task has it.
Private == \A t \in Task, b \in Buffer : Takes(t, b) =>
             /\ b \notin hashed
             /\ \A u \in Task : Takes(u, b) => u = t

\* A task never asks for a block that it holds.
Apart == \A t \in Task : goal[t] # NoBlock => \A b \in held[t] : blk[b] # goal[t]

PinnedIn == \A k \in Pinned : \E b \in hashed : blk[b] = k

\* CountMatchesUsers leaves nobody at a buffer with b_count = 0; Private says
\* that only the taker can see the buffer whose block is changed; PinnedIn that
\* a Pinned block never gets a second buffer.
Inductive ==
  /\ Typed /\ \A t \in Task : Placed(t)
  /\ Private /\ Apart /\ PinnedIn
  /\ OneBufferPerBlock
  /\ CountMatchesUsers

-------------------------------------------------------------------------------
(* Counting.                                                               *)

Holders(b) == {t \in Task : b \in held[t]}
Counters(b) == {t \in Task : Counts(t, b)}
PinCount(b) == IF b \in hashed /\ blk[b] \in Pinned THEN 1 ELSE 0
Exact(b) == b_count[b] = Cardinality(Holders(b)) + Cardinality(Counters(b)) + PinCount(b)

LEMMA CountDef == CountMatchesUsers <=> \A b \in Buffer : Exact(b)
BY DEF CountMatchesUsers, Exact, Holders, Counters, PinCount

LEMMA CountDefNext ==
  ASSUME \A b \in Buffer : Exact(b)'
  PROVE  CountMatchesUsers'
BY DEF CountMatchesUsers, Exact, Holders, Counters, PinCount

LEMMA FiniteUsers ==
  ASSUME NEW b \in Buffer
  PROVE  /\ IsFiniteSet(Holders(b)) /\ Cardinality(Holders(b)) \in Nat
         /\ IsFiniteSet(Counters(b)) /\ Cardinality(Counters(b)) \in Nat
         /\ PinCount(b) \in {0, 1}
<1>1. Holders(b) \in SUBSET Task /\ Counters(b) \in SUBSET Task
  BY DEF Holders, Counters
<1>2. IsFiniteSet(Holders(b)) /\ IsFiniteSet(Counters(b))
  BY <1>1, FS_Subset
<1>3. QED
  BY <1>2, FS_CardinalityType DEF PinCount

LEMMA FiniteUsersNext ==
  ASSUME NEW b \in Buffer
  PROVE  /\ IsFiniteSet(Holders(b)') /\ Cardinality(Holders(b)') \in Nat
         /\ IsFiniteSet(Counters(b)') /\ Cardinality(Counters(b)') \in Nat
         /\ PinCount(b)' \in {0, 1}
<1>1. Holders(b)' \in SUBSET Task /\ Counters(b)' \in SUBSET Task
  BY DEF Holders, Counters
<1>2. IsFiniteSet(Holders(b)') /\ IsFiniteSet(Counters(b)')
  BY <1>1, FS_Subset
<1>3. QED
  BY <1>2, FS_CardinalityType DEF PinCount

\* Nobody is at a buffer that is not counted.
LEMMA ZeroMeansNobody ==
  ASSUME CountMatchesUsers, NEW b \in Buffer, b_count[b] = 0
  PROVE  Holders(b) = {} /\ Counters(b) = {} /\ PinCount(b) = 0
<1>1. Exact(b)
  BY CountDef
<1>2. Cardinality(Holders(b)) = 0 /\ Cardinality(Counters(b)) = 0 /\ PinCount(b) = 0
  BY <1>1, FiniteUsers DEF Exact
<1>3. QED
  BY <1>2, FiniteUsers, FS_EmptySet

LEMMA SameUsers ==
  ASSUME NEW b \in Buffer, Exact(b), b_count'[b] = b_count[b],
         Holders(b)' = Holders(b), Counters(b)' = Counters(b), PinCount(b)' = PinCount(b)
  PROVE  Exact(b)'
BY DEF Exact

LEMMA CountsOnce ==
  ASSUME NEW b \in Buffer, NEW t \in Task, Exact(b), b_count'[b] = b_count[b] + 1,
         Holders(b)' = Holders(b), t \notin Counters(b), Counters(b)' = Counters(b) \cup {t},
         PinCount(b)' = PinCount(b)
  PROVE  Exact(b)'
<1>1. Cardinality(Counters(b)') = Cardinality(Counters(b)) + 1
  BY FiniteUsers, FS_AddElement
<1>2. QED
  BY <1>1, FiniteUsers DEF Exact

LEMMA CountsNoMore ==
  ASSUME NEW b \in Buffer, NEW t \in Task, Exact(b), b_count'[b] = b_count[b] - 1,
         Holders(b)' = Holders(b), t \in Counters(b), Counters(b)' = Counters(b) \ {t},
         PinCount(b)' = PinCount(b)
  PROVE  Exact(b)'
<1>1. Cardinality(Counters(b)') = Cardinality(Counters(b)) - 1
  BY FiniteUsers, FS_RemoveElement
<1>2. QED
  BY <1>1, FiniteUsers DEF Exact

LEMMA HoldsNoMore ==
  ASSUME NEW b \in Buffer, NEW t \in Task, Exact(b), b_count'[b] = b_count[b] - 1,
         Counters(b)' = Counters(b), t \in Holders(b), Holders(b)' = Holders(b) \ {t},
         PinCount(b)' = PinCount(b)
  PROVE  Exact(b)'
<1>1. Cardinality(Holders(b)') = Cardinality(Holders(b)) - 1
  BY FiniteUsers, FS_RemoveElement
<1>2. QED
  BY <1>1, FiniteUsers DEF Exact

\* The count that bread made on its way becomes the caller's.
LEMMA HandedOver ==
  ASSUME NEW b \in Buffer, NEW t \in Task, Exact(b), b_count'[b] = b_count[b],
         t \notin Holders(b), Holders(b)' = Holders(b) \cup {t},
         t \in Counters(b), Counters(b)' = Counters(b) \ {t},
         PinCount(b)' = PinCount(b)
  PROVE  Exact(b)'
<1>1. Cardinality(Holders(b)') = Cardinality(Holders(b)) + 1
  <2>1. IsFiniteSet(Holders(b)) /\ t \notin Holders(b) /\ Holders(b)' = Holders(b) \cup {t}
    BY FiniteUsers
  <2>2. QED
    BY ONLY <2>1, FS_AddElement
<1>2. Cardinality(Counters(b)') = Cardinality(Counters(b)) - 1
  <2>1. IsFiniteSet(Counters(b)) /\ t \in Counters(b) /\ Counters(b)' = Counters(b) \ {t}
    BY FiniteUsers
  <2>2. QED
    BY ONLY <2>1, FS_RemoveElement
<1>3. QED
  BY <1>1, <1>2, FiniteUsers DEF Exact

-------------------------------------------------------------------------------
(* A step in which nobody gets, takes or gives up a buffer.                *)

LEMMA Moved ==
  ASSUME Inductive, Typed', \A u \in Task : Placed(u)',
         UNCHANGED <<blk, b_count, hashed, held>>,
         \A u \in Task, b \in Buffer : /\ Counts(u, b)' <=> Counts(u, b)
                                       /\ Takes(u, b)' <=> Takes(u, b),
         \A u \in Task : goal'[u] = goal[u] \/ \A b \in held[u] : blk[b] # goal'[u],
         \A u \in Task : pc'[u] \in Reading =>
                           pc[u] \in Reading /\ tmp'[u] = tmp[u] /\ goal'[u] = goal[u]
  PROVE  Inductive'
<1>1. Private' /\ Apart' /\ PinnedIn'
  BY DEF Inductive, Private, Apart, PinnedIn
<1>2. OneBufferPerBlock'
  BY DEF Inductive, OneBufferPerBlock, Reading
<1>3. ASSUME NEW b \in Buffer
      PROVE  Exact(b)'
  <2>1. Holders(b)' = Holders(b) /\ Counters(b)' = Counters(b) /\ PinCount(b)' = PinCount(b)
    BY DEF Holders, Counters, PinCount
  <2>2. QED
    BY <2>1, CountDef, SameUsers DEF Inductive
<1>4. CountMatchesUsers'
  BY <1>3, CountDefNext
<1>5. QED
  BY <1>1, <1>2, <1>4 DEF Inductive

-------------------------------------------------------------------------------
(* The tasks, one lemma per kind of step.                                  *)

LEMMA BreadKeeps ==
  ASSUME Inductive, NEW t \in Task, NEW k \in Block, bread(t, k)
  PROVE  Inductive'
<1>1. /\ pc[t] = "idle" /\ pc' = [pc EXCEPT ![t] = "getblk"]
      /\ goal' = [goal EXCEPT ![t] = k] /\ \A b \in held[t] : blk[b] # k
      /\ UNCHANGED <<blk, b_count, hashed, tmp, held>>
  BY DEF bread, Goto, queues
<1>2. Typed'
  BY <1>1 DEF Inductive, Typed, Searching
<1>3. /\ pc'[t] = "getblk" /\ goal'[t] = k
      /\ \A u \in Task \ {t} : pc'[u] = pc[u] /\ goal'[u] = goal[u]
  BY <1>1 DEF Inductive, Typed
<1>4. ASSUME NEW u \in Task
      PROVE  Placed(u)'
  BY <1>1, <1>3 DEF Inductive, Placed, Searching, Reading, Syncing
<1>5. ASSUME NEW u \in Task, NEW b \in Buffer
      PROVE  (Counts(u, b)' <=> Counts(u, b)) /\ (Takes(u, b)' <=> Takes(u, b))
  BY <1>1, <1>3 DEF Counts, Takes
<1>6. QED
  BY <1>1, <1>2, <1>3, <1>4, <1>5, Moved DEF Reading

Place == Reading \cup Searching \cup Syncing \cup {"idle"}

\* t goes on to p and looks at x, keeping the count it has, if any.
Step(t, p, x) ==
  /\ pc' = [pc EXCEPT ![t] = p] /\ tmp' = [tmp EXCEPT ![t] = x]
  /\ UNCHANGED <<blk, b_count, hashed, goal, held>>
  /\ \/ /\ {pc[t], p} \subseteq Searching \ {"update"}
        /\ p = "scan_wait" => x # Null
     \/ {pc[t], p} \subseteq Reading /\ x = tmp[t]
     \/ /\ goal[t] # NoBlock /\ {pc[t], p} \subseteq Syncing \cup {"update"}
        /\ x = tmp[t]
     \/ /\ goal[t] = NoBlock /\ {pc[t], p} \subseteq Syncing \cup {"idle"}
        /\ x = tmp[t]

LEMMA StepKeeps ==
  ASSUME Inductive, NEW t \in Task, NEW p \in Place, NEW x \in Buffer \cup {Null},
         Step(t, p, x)
  PROVE  Inductive'
<1>1. Typed'
  BY DEF Inductive, Typed, Step, Place
<1>2. /\ pc'[t] = p /\ tmp'[t] = x
      /\ \A u \in Task \ {t} : pc'[u] = pc[u] /\ tmp'[u] = tmp[u]
  BY DEF Inductive, Typed, Step
<1>3. ASSUME NEW u \in Task
      PROVE  Placed(u)'
  <2>1. CASE u = t
    BY <1>2, <2>1 DEF Inductive, Placed, Step, Searching, Reading, Syncing
  <2>2. CASE u # t
    BY <1>2, <2>2 DEF Inductive, Placed, Step
  <2>3. QED
    BY <2>1, <2>2
<1>4. ASSUME NEW u \in Task, NEW b \in Buffer
      PROVE  (Counts(u, b)' <=> Counts(u, b)) /\ (Takes(u, b)' <=> Takes(u, b))
  <2>1. CASE u = t
    BY <1>2, <2>1 DEF Step, Counts, Takes, Searching, Reading, Syncing
  <2>2. CASE u # t
    BY <1>2, <2>2 DEF Step, Counts, Takes
  <2>3. QED
    BY <2>1, <2>2
<1>5. ASSUME NEW u \in Task, pc'[u] \in Reading
      PROVE  pc[u] \in Reading /\ tmp'[u] = tmp[u] /\ goal'[u] = goal[u]
  BY <1>2, <1>5 DEF Step, Reading, Searching, Syncing
<1>6. QED
  BY <1>1, <1>3, <1>4, <1>5, Moved DEF Step

LEMMA HashWaitedKeeps ==
  ASSUME Inductive, NEW t \in Task, hash_waited(t)
  PROVE  Inductive'
<1>1. pc[t] = "hash_wait" /\ blk[tmp[t]] = goal[t]
  BY DEF Inductive, OneBufferPerBlock, hash_waited, Wakes
<1>2. Step(t, "got", tmp[t])
  BY <1>1 DEF Inductive, Typed, Step, Reading, hash_waited, queues
<1>3. tmp[t] \in Buffer \cup {Null} /\ "got" \in Place
  BY DEF Inductive, Typed, Place, Reading
<1>4. QED
  BY <1>2, <1>3, StepKeeps

LEMMA UnheldType ==
  ASSUME NEW b
  PROVE  Unheld(b) \in Buffer \cup {Null}
BY DEF Unheld

LEMMA ScanKeeps ==
  ASSUME Inductive, NEW t \in Task, getblk_miss(t) \/ scan_on(t)
  PROVE  Inductive'
<1>1. PICK b \in Buffer \cup {Null} : ScanResult(t, b)
  BY UnheldType DEF getblk_miss, scan_on
<1>2. PICK p \in {"sleep", "scan_wait"} : pc' = [pc EXCEPT ![t] = p] /\ (p = "scan_wait" => b # Null)
  BY <1>1 DEF ScanResult, WaitFor, Sleep, Goto
<1>3. tmp' = [tmp EXCEPT ![t] = b]
  BY <1>1 DEF ScanResult
<1>4. pc[t] \in {"getblk", "scan_wait"} /\ UNCHANGED <<blk, b_count, hashed, goal, held>>
  BY DEF getblk_miss, scan_on, Runs, Wakes, queues
<1>5. Step(t, p, b)
  BY <1>2, <1>3, <1>4 DEF Step, Searching
<1>6. QED
  BY <1>5, StepKeeps DEF Place, Searching

LEMMA LocalKeeps ==
  ASSUME Inductive, NEW t \in Task,
         \/ getblk_again(t) \/ got_read(t) \/ sys_sync(t)
         \/ sync_next(t) \/ sync_clean(t) \/ sync_write(t) \/ sync_written(t) \/ sync_end(t)
  PROVE  Inductive'
<1> DEFINE To(p) == pc' = [pc EXCEPT ![t] = p]
<1>1. UNCHANGED <<blk, b_count, hashed, goal, tmp, held>>
  BY DEF getblk_again, got_read, sys_sync, sync_next, sync_clean, sync_write, sync_written,
         sync_end, local, queues
<1>2. \E p \in Place : To(p) /\
        \/ pc[t] = "woken" /\ p = "getblk"
        \/ pc[t] = "got" /\ p = "read_wait"
        \/ pc[t] \in Syncing /\ p \in Syncing
        \/ pc[t] = "idle" /\ p = "sync"
        \/ pc[t] = "sync" /\ p = "idle" /\ goal[t] = NoBlock
        \/ pc[t] = "sync" /\ p = "update" /\ goal[t] # NoBlock
  <2>1. CASE getblk_again(t)
    BY <2>1 DEF getblk_again, Goto, Place, Searching
  <2>2. CASE got_read(t)
    BY <2>2 DEF got_read, Runs, Sleep, Place, Reading
  <2>3. CASE sys_sync(t)
    BY <2>3 DEF sys_sync, Goto, Place, Syncing
  <2>4. CASE sync_next(t)
    <3>1. pc[t] = "sync" /\ (pc' = pc \/ To("sync_wait") \/ To("sync"))
      BY <2>4 DEF sync_next, Runs, WaitFor, Sleep, Goto
    <3>2. pc[t] = "sync" /\ (To("sync_wait") \/ To("sync"))
      BY <3>1 DEF Inductive, Typed
    <3>3. QED
      BY <3>2 DEF Place, Syncing
  <2>5. CASE sync_clean(t)
    BY <2>5 DEF sync_clean, Wakes, Goto, Place, Syncing
  <2>6. CASE sync_write(t)
    BY <2>6 DEF sync_write, Wakes, Sleep, Place, Syncing
  <2>7. CASE sync_written(t)
    BY <2>7 DEF sync_written, Wakes, Goto, Place, Syncing
  <2>8. CASE sync_end(t)
    BY <2>8 DEF sync_end, Runs, Leave, Goto, Place, Searching
  <2>9. QED
    BY <2>1, <2>2, <2>3, <2>4, <2>5, <2>6, <2>7, <2>8
<1>3. tmp' = [tmp EXCEPT ![t] = tmp[t]] /\ tmp[t] \in Buffer \cup {Null}
  BY <1>1 DEF Inductive, Typed
<1>4. pc[t] = "idle" => goal[t] = NoBlock
  BY DEF Inductive, Placed
<1>5. \E p \in Place : Step(t, p, tmp[t])
  BY <1>1, <1>2, <1>3, <1>4 DEF Step, Searching, Reading, Syncing
<1>6. QED
  BY <1>3, <1>5, StepKeeps

-------------------------------------------------------------------------------
(* Steps that count, take, fill or give up a buffer.                       *)

LEMMA FoundBuffer ==
  ASSUME NEW k
  PROVE  /\ find_buffer(k) # Null => find_buffer(k) \in hashed /\ blk[find_buffer(k)] = k
         /\ find_buffer(k) = Null /\ hashed \subseteq Buffer => \A b \in hashed : blk[b] # k
BY DEF find_buffer

LEMMA HitKeeps ==
  ASSUME Inductive, NEW t \in Task, getblk_hit(t)
  PROVE  Inductive'
<1>1. PICK b \in hashed : /\ blk[b] = goal[t]
                          /\ b_count' = [b_count EXCEPT ![b] = @ + 1]
                          /\ tmp' = [tmp EXCEPT ![t] = b]
                          /\ pc' = [pc EXCEPT ![t] = "hash_wait"]
  BY FoundBuffer DEF getblk_hit, WaitFor, Sleep, Goto
<1>2. pc[t] = "getblk" /\ UNCHANGED <<blk, hashed, goal, held>>
  BY DEF getblk_hit, Runs, queues
<1>3. Typed'
  BY <1>1, <1>2 DEF Inductive, Typed, Reading
<1>4. /\ pc'[t] = "hash_wait" /\ tmp'[t] = b /\ b \in Buffer
      /\ b_count[b] \in Int /\ b_count'[b] = b_count[b] + 1
      /\ \A c \in Buffer \ {b} : b_count'[c] = b_count[c]
      /\ \A u \in Task \ {t} : pc'[u] = pc[u] /\ tmp'[u] = tmp[u]
  BY <1>1, <1>2 DEF Inductive, Typed
<1>5. \A u \in Task : Placed(u)'
  BY <1>2, <1>4 DEF Inductive, Placed, Reading, Searching, Syncing
<1>6. \A u \in Task, c \in Buffer : Takes(u, c)' <=> Takes(u, c)
  BY <1>2, <1>4 DEF Takes
<1>7. Private' /\ Apart' /\ PinnedIn'
  BY <1>2, <1>6 DEF Inductive, Private, Apart, PinnedIn
<1>8. OneBufferPerBlock'
  <2>1. \A u \in Task : pc'[u] \in Reading => tmp'[u] \in hashed /\ blk[tmp'[u]] = goal[u]
    BY <1>1, <1>4 DEF Inductive, OneBufferPerBlock, Reading
  <2>2. QED
    BY <1>2, <2>1 DEF Inductive, OneBufferPerBlock, Reading
<1>9. ASSUME NEW c \in Buffer
      PROVE  Exact(c)'
  <2>1. Holders(c)' = Holders(c) /\ PinCount(c)' = PinCount(c) /\ Exact(c)
    BY <1>2, CountDef DEF Holders, PinCount, Inductive
  <2>2. CASE c = b
    <3>1. t \notin Counters(b)
      BY <1>2 DEF Counters, Counts, Takes
    <3>2. \A u \in Task : Counts(u, b)' <=> Counts(u, b) \/ u = t
      BY <1>2, <1>4 DEF Counts, Takes
    <3>3. Counters(b)' = Counters(b) \cup {t}
      BY <3>2 DEF Counters
    <3>4. QED
      BY <1>4, <2>1, <2>2, <3>1, <3>3, CountsOnce
  <2>3. CASE c # b
    <3>1. \A u \in Task : Counts(u, c)' <=> Counts(u, c)
      BY <1>2, <1>4, <2>3 DEF Counts, Takes
    <3>2. Counters(c)' = Counters(c)
      BY <3>1 DEF Counters
    <3>3. QED
      BY <1>4, <2>1, <2>3, <3>2, SameUsers
  <2>4. QED
    BY <2>2, <2>3
<1>10. QED
  BY <1>3, <1>5, <1>7, <1>8, <1>9, CountDefNext DEF Inductive

LEMMA TakeKeeps ==
  ASSUME Inductive, NEW t \in Task, take(t)
  PROVE  Inductive'
<1>a. pc[t] = "scan_wait" /\ tmp[t] \in Buffer /\ goal[t] # NoBlock
  BY DEF Inductive, Placed, Searching, take, Wakes
<1>b. PICK b \in Buffer : b = tmp[t]
  BY <1>a
<1>1. /\ pc[t] = "scan_wait" /\ b_count[b] = 0
      /\ b_count' = [b_count EXCEPT ![b] = 1] /\ hashed' = hashed \ {b}
      /\ UNCHANGED <<blk, goal, tmp, held>>
  BY <1>a, <1>b DEF take, remove_from_queues
<1>2. PICK p \in {"sync", "update"} : pc' = [pc EXCEPT ![t] = p]
  BY DEF take, Goto
<1>3. b \in Buffer /\ goal[t] # NoBlock
  BY <1>a
<1>4. Typed'
  BY <1>1, <1>2, <1>3 DEF Inductive, Typed, Searching, Syncing
<1>5. /\ pc'[t] = p /\ tmp[t] = b /\ b_count'[b] = 1
      /\ \A c \in Buffer \ {b} : b_count'[c] = b_count[c]
      /\ \A u \in Task \ {t} : pc'[u] = pc[u]
  BY <1>b, <1>1, <1>2, <1>3 DEF Inductive, Typed
<1>6. ASSUME NEW u \in Task
      PROVE  Placed(u)'
  BY <1>1, <1>3, <1>5 DEF Inductive, Placed, Reading, Searching, Syncing
<1>7. Holders(b) = {} /\ Counters(b) = {} /\ PinCount(b) = 0
  BY <1>1, <1>3, ZeroMeansNobody DEF Inductive
<1>8. ASSUME NEW u \in Task, NEW c \in Buffer
      PROVE  /\ Takes(u, c)' <=> Takes(u, c) \/ (u = t /\ c = b)
             /\ Counts(u, c)' <=> Counts(u, c) \/ (u = t /\ c = b)
  <2>1. CASE u = t
    BY <1>1, <1>2, <1>3, <1>5, <2>1 DEF Takes, Counts
  <2>2. CASE u # t
    BY <1>1, <1>5, <2>2 DEF Takes, Counts
  <2>3. QED
    BY <2>1, <2>2
<1>9. \A u \in Task : ~ Counts(u, b) /\ ~ Takes(u, b) /\ b \notin held[u]
  BY <1>7 DEF Holders, Counters, Counts
<1>10. Private'
  BY <1>1, <1>3, <1>8, <1>9 DEF Inductive, Private
<1>11. Apart' /\ PinnedIn'
  BY <1>1, <1>7 DEF Inductive, Apart, PinnedIn, PinCount
<1>12. OneBufferPerBlock'
  <2>1. \A u \in Task : pc'[u] \in Reading => pc[u] = pc'[u] /\ tmp[u] # b
    BY <1>2, <1>5, <1>9 DEF Reading, Counts
  <2>2. QED
    BY <1>1, <1>9, <2>1 DEF Inductive, OneBufferPerBlock, Reading
<1>13. ASSUME NEW c \in Buffer
       PROVE  Exact(c)'
  <2>1. Holders(c)' = Holders(c) /\ Exact(c)
    BY <1>1, CountDef DEF Holders, Inductive
  <2>2. CASE c = b
    <3>1. Counters(b)' = {t}
      BY <1>3, <1>8, <1>9 DEF Counters
    <3>2. PinCount(b)' = 0
      BY <1>1 DEF PinCount
    <3>3. Cardinality(Holders(b)') = 0 /\ Cardinality(Counters(b)') = 1
      BY <1>7, <2>1, <2>2, <3>1, FS_EmptySet, FS_Singleton
    <3>4. QED
      BY <1>5, <2>2, <3>2, <3>3 DEF Exact
  <2>3. CASE c # b
    <3>1. Counters(c)' = Counters(c) /\ PinCount(c)' = PinCount(c)
      BY <1>1, <1>8, <2>3 DEF Counters, PinCount
    <3>2. QED
      BY <1>5, <2>1, <2>3, <3>1, SameUsers
  <2>4. QED
    BY <2>2, <2>3
<1>14. QED
  BY <1>4, <1>6, <1>10, <1>11, <1>12, <1>13, CountDefNext DEF Inductive

LEMMA UpdateKeeps ==
  ASSUME Inductive, NEW t \in Task, update(t)
  PROVE  Inductive'
<1>1. pc[t] = "update" /\ tmp[t] \in Buffer /\ goal[t] \in Block
  BY DEF Inductive, Typed, Placed, Searching, update, Runs
<1>2. PICK b \in Buffer : b = tmp[t]
  BY <1>1
<1>3. /\ blk' = [blk EXCEPT ![b] = goal[t]] /\ hashed' = hashed \cup {b}
      /\ pc' = [pc EXCEPT ![t] = "got"]
      /\ UNCHANGED <<b_count, goal, tmp, held>>
  BY <1>1, <1>2 DEF update, insert_into_queues, Goto, local
<1>4. \A c \in hashed : blk[c] # goal[t]
  BY FoundBuffer DEF update, Inductive, Typed
<1>5. Typed'
  BY <1>1, <1>3 DEF Inductive, Typed, Reading
<1>6. /\ pc'[t] = "got" /\ blk'[b] = goal[t]
      /\ \A c \in Buffer \ {b} : blk'[c] = blk[c]
      /\ \A u \in Task \ {t} : pc'[u] = pc[u]
  BY <1>1, <1>3 DEF Inductive, Typed
<1>7. Takes(t, b) /\ b \notin hashed /\ \A u \in Task : Takes(u, b) => u = t
  BY <1>1, <1>2 DEF Inductive, Private, Takes
<1>8. ASSUME NEW u \in Task
      PROVE  Placed(u)'
  BY <1>1, <1>2, <1>3, <1>6 DEF Inductive, Placed, Reading, Searching, Syncing
<1>9. ASSUME NEW u \in Task, NEW c \in Buffer
      PROVE  /\ Takes(u, c)' <=> Takes(u, c) /\ u # t
             /\ Counts(u, c)' <=> Counts(u, c)
  <2>1. CASE u = t
    BY <1>1, <1>3, <1>6, <2>1 DEF Takes, Counts
  <2>2. CASE u # t
    BY <1>3, <1>6, <2>2 DEF Takes, Counts
  <2>3. QED
    BY <2>1, <2>2
<1>10. Private'
  BY <1>3, <1>7, <1>9 DEF Inductive, Private
<1>11. \A u \in Task : held[u] \subseteq hashed
  BY DEF Inductive, OneBufferPerBlock
<1>12. Apart'
  BY <1>3, <1>6, <1>7, <1>11 DEF Inductive, Typed, Apart
<1>13. PinnedIn'
  BY <1>3, <1>6, <1>7 DEF Inductive, Typed, PinnedIn
<1>14. OneBufferPerBlock'
  <2>1. \A c, d \in hashed' : blk'[c] = blk'[d] => c = d
    BY <1>3, <1>4, <1>6, <1>7 DEF Inductive, Typed, OneBufferPerBlock
  <2>2. \A u \in Task : held'[u] \subseteq hashed'
    BY <1>3, <1>11
  <2>3. ASSUME NEW u \in Task, pc'[u] \in Reading
        PROVE  tmp'[u] \in hashed' /\ blk'[tmp'[u]] = goal'[u]
    <3>1. CASE u = t
      BY <1>2, <1>3, <1>6, <3>1
    <3>2. CASE u # t
      <4>1. tmp[u] \in hashed /\ blk[tmp[u]] = goal[u]
        BY <1>6, <2>3, <3>2 DEF Inductive, OneBufferPerBlock, Reading
      <4>2. QED
        BY <1>3, <1>6, <1>7, <4>1 DEF Inductive, Typed
    <3>3. QED
      BY <3>1, <3>2
  <2>4. QED
    BY <2>1, <2>2, <2>3 DEF OneBufferPerBlock, Reading
<1>15. ASSUME NEW c \in Buffer
       PROVE  Exact(c)'
  <2>1. Holders(c)' = Holders(c) /\ Counters(c)' = Counters(c) /\ Exact(c)
    BY <1>3, <1>9, CountDef DEF Holders, Counters, Inductive
  <2>2. goal[t] \notin Pinned
    BY <1>4 DEF Inductive, PinnedIn
  <2>3. PinCount(c)' = PinCount(c)
    BY <1>3, <1>6, <1>7, <2>2 DEF PinCount
  <2>4. QED
    BY <1>3, <2>1, <2>3, SameUsers
<1>16. QED
  BY <1>5, <1>8, <1>10, <1>12, <1>13, <1>14, <1>15, CountDefNext DEF Inductive

LEMMA BeatenKeeps ==
  ASSUME Inductive, NEW t \in Task, update_beaten(t)
  PROVE  Inductive'
<1>1. pc[t] = "update" /\ tmp[t] \in Buffer /\ goal[t] # NoBlock
  BY DEF Inductive, Placed, Searching, update_beaten, Runs
<1>2. PICK b \in Buffer : b = tmp[t]
  BY <1>1
<1>3. /\ blk' = [blk EXCEPT ![b] = NoBlock] /\ b_count' = [b_count EXCEPT ![b] = 0]
      /\ pc' = [pc EXCEPT ![t] = "getblk"] /\ tmp' = [tmp EXCEPT ![t] = Null]
      /\ UNCHANGED <<hashed, goal, held>>
  BY <1>2 DEF update_beaten, insert_into_queues, Goto
<1>4. Typed'
  BY <1>3 DEF Inductive, Typed, Searching
<1>5. /\ pc'[t] = "getblk" /\ tmp'[t] = Null /\ b_count'[b] = 0
      /\ \A c \in Buffer \ {b} : blk'[c] = blk[c] /\ b_count'[c] = b_count[c]
      /\ \A u \in Task \ {t} : pc'[u] = pc[u] /\ tmp'[u] = tmp[u]
  BY <1>2, <1>3 DEF Inductive, Typed
<1>6. b \notin hashed /\ \A u \in Task : Takes(u, b) => u = t
  BY <1>1, <1>2 DEF Inductive, Private, Takes
<1>7. ASSUME NEW u \in Task
      PROVE  Placed(u)'
  BY <1>1, <1>3, <1>5 DEF Inductive, Placed, Reading, Searching, Syncing
<1>8. ASSUME NEW u \in Task, NEW c \in Buffer
      PROVE  /\ Takes(u, c)' <=> Takes(u, c) /\ u # t
             /\ Counts(u, c)' <=> Counts(u, c) /\ u # t
             /\ u = t /\ Counts(u, c) => c = b
  <2>1. CASE u = t
    BY <1>1, <1>2, <1>3, <1>5, <2>1 DEF Takes, Counts
  <2>2. CASE u # t
    BY <1>3, <1>5, <2>2 DEF Takes, Counts
  <2>3. QED
    BY <2>1, <2>2
<1>9. Private'
  BY <1>3, <1>8 DEF Inductive, Private
<1>10. \A u \in Task : held[u] \subseteq hashed
  BY DEF Inductive, OneBufferPerBlock
<1>11. Apart'
  BY <1>3, <1>5, <1>6, <1>10 DEF Inductive, Typed, Apart
<1>12. PinnedIn'
  BY <1>3, <1>5, <1>6 DEF Inductive, Typed, PinnedIn
<1>13. \A u \in Task : pc[u] \in Reading => tmp[u] \in hashed /\ blk[tmp[u]] = goal[u]
  BY DEF Inductive, OneBufferPerBlock, Reading
<1>14. OneBufferPerBlock'
  <2>1. \A c, d \in hashed' : blk'[c] = blk'[d] => c = d
    BY <1>3, <1>5, <1>6 DEF Inductive, Typed, OneBufferPerBlock
  <2>2. \A u \in Task : held'[u] \subseteq hashed'
    BY <1>3, <1>10
  <2>3. ASSUME NEW u \in Task, pc'[u] \in Reading
        PROVE  tmp'[u] \in hashed' /\ blk'[tmp'[u]] = goal'[u]
    <3>1. u # t
      BY <1>5, <2>3 DEF Reading
    <3>2. QED
      BY <1>3, <1>5, <1>6, <1>13, <2>3, <3>1 DEF Inductive, Typed
  <2>4. QED
    BY <2>1, <2>2, <2>3 DEF OneBufferPerBlock, Reading
<1>15. ASSUME NEW c \in Buffer
       PROVE  Exact(c)'
  <2>1. Holders(c)' = Holders(c) /\ Exact(c)
    BY <1>3, CountDef DEF Holders, Inductive
  <2>2. CASE c = b
    <3>1. Holders(b) = {}
      BY <1>6, <1>10 DEF Holders
    <3>2. \A u \in Task : Counts(u, b) => u = t
      BY <1>6, <1>13 DEF Counts, Reading
    <3>3. Counters(b)' = {}
      BY <1>8, <3>2 DEF Counters
    <3>4. PinCount(b)' = 0
      BY <1>3, <1>6 DEF PinCount
    <3>5. Cardinality(Holders(b)') = 0 /\ Cardinality(Counters(b)') = 0
      BY <2>1, <2>2, <3>1, <3>3, FS_EmptySet
    <3>6. QED
      BY <1>5, <2>2, <3>4, <3>5 DEF Exact
  <2>3. CASE c # b
    <3>1. Counters(c)' = Counters(c)
      BY <1>8, <2>3 DEF Counters
    <3>2. PinCount(c)' = PinCount(c)
      BY <1>3, <1>5, <2>3 DEF PinCount
    <3>3. QED
      BY <1>5, <2>1, <2>3, <3>1, <3>2, SameUsers
  <2>4. QED
    BY <2>2, <2>3
<1>16. QED
  BY <1>4, <1>7, <1>9, <1>11, <1>12, <1>14, <1>15, CountDefNext DEF Inductive

LEMMA KeepKeeps ==
  ASSUME Inductive, NEW t \in Task, got_uptodate(t) \/ read_done(t)
  PROVE  Inductive'
<1>1. /\ pc[t] \in {"got", "read_wait"} /\ Keep(t)
      /\ UNCHANGED <<blk, b_count, hashed>>
  BY DEF got_uptodate, read_done, Runs, Wakes, queues
<1>2. tmp[t] \in Buffer /\ goal[t] # NoBlock
  BY <1>1 DEF Inductive, Placed, Reading
<1>3. PICK b \in Buffer : b = tmp[t]
  BY <1>2
<1>4. /\ held' = [held EXCEPT ![t] = @ \cup {b}] /\ pc' = [pc EXCEPT ![t] = "idle"]
      /\ goal' = [goal EXCEPT ![t] = NoBlock] /\ tmp' = [tmp EXCEPT ![t] = Null]
  BY <1>1, <1>3 DEF Keep, Leave, Forget
<1>5. Typed'
  BY <1>1, <1>4 DEF Inductive, Typed
<1>6. /\ held'[t] = held[t] \cup {b} /\ pc'[t] = "idle" /\ goal'[t] = NoBlock
      /\ \A u \in Task \ {t} : /\ held'[u] = held[u] /\ pc'[u] = pc[u]
                               /\ goal'[u] = goal[u] /\ tmp'[u] = tmp[u]
  BY <1>4 DEF Inductive, Typed
<1>7. ASSUME NEW u \in Task
      PROVE  Placed(u)'
  BY <1>6 DEF Inductive, Placed, Reading, Searching, Syncing
<1>8. ASSUME NEW u \in Task, NEW c \in Buffer
      PROVE  /\ Takes(u, c)' <=> Takes(u, c)
             /\ Counts(u, c)' <=> Counts(u, c) /\ u # t
             /\ Counts(t, c) <=> c = b
  <2>1. CASE u = t
    BY <1>1, <1>3, <1>6, <2>1 DEF Takes, Counts
  <2>2. CASE u # t
    BY <1>1, <1>3, <1>6, <2>2 DEF Takes, Counts
  <2>3. QED
    BY <2>1, <2>2
<1>9. Private' /\ PinnedIn'
  BY <1>1, <1>8 DEF Inductive, Private, PinnedIn
<1>10. b \in hashed /\ blk[b] = goal[t]
  BY <1>1, <1>3 DEF Inductive, OneBufferPerBlock
<1>11. Apart'
  BY <1>1, <1>6 DEF Inductive, Apart
<1>12. OneBufferPerBlock'
  <2>1. \A u \in Task : held'[u] \subseteq hashed'
    BY <1>1, <1>6, <1>10 DEF Inductive, OneBufferPerBlock
  <2>2. \A u \in Task : pc'[u] \in Reading => tmp'[u] \in hashed' /\ blk'[tmp'[u]] = goal'[u]
    BY <1>1, <1>6 DEF Inductive, OneBufferPerBlock, Reading
  <2>3. QED
    BY <1>1, <2>1, <2>2 DEF Inductive, OneBufferPerBlock, Reading
<1>13. ASSUME NEW c \in Buffer
       PROVE  Exact(c)'
  <2>1. PinCount(c)' = PinCount(c) /\ Exact(c) /\ b_count'[c] = b_count[c]
    BY <1>1, CountDef DEF PinCount, Inductive
  <2>2. CASE c = b
    <3>1. t \notin Holders(b)
      BY <1>2, <1>10 DEF Holders, Inductive, Apart
    <3>2. Holders(b)' = Holders(b) \cup {t}
      BY <1>6 DEF Holders
    <3>3. t \in Counters(b) /\ Counters(b)' = Counters(b) \ {t}
      BY <1>8 DEF Counters
    <3>4. QED
      BY <2>1, <2>2, <3>1, <3>2, <3>3, HandedOver
  <2>3. CASE c # b
    <3>1. Holders(c)' = Holders(c)
      BY <1>6, <2>3 DEF Holders
    <3>2. Counters(c)' = Counters(c)
      BY <1>8, <2>3 DEF Counters
    <3>3. QED
      BY <2>1, <3>1, <3>2, SameUsers
  <2>4. QED
    BY <2>2, <2>3
<1>14. QED
  BY <1>5, <1>7, <1>9, <1>11, <1>12, <1>13, CountDefNext DEF Inductive

\* wake_up(&buffer_wait): a task that is woken is where it was.
Woken(p, q) == q = p \/ (p = "sleep" /\ q = "woken")

LEMMA WakeUp ==
  ASSUME NEW p \in [Task -> Place]
  PROVE  /\ WakeBufferWait(p) \in [Task -> Place]
         /\ \A u \in Task : Woken(p[u], WakeBufferWait(p)[u])
BY DEF WakeBufferWait, Woken, Place, Searching

LEMMA ReadFailedKeeps ==
  ASSUME Inductive, NEW t \in Task, read_failed(t)
  PROVE  Inductive'
<1>1. pc[t] = "read_wait" /\ tmp[t] \in Buffer
  BY DEF Inductive, Placed, Reading, read_failed, Wakes
<1>2. PICK b \in Buffer : b = tmp[t]
  BY <1>1
<1>3. /\ b_count' = [b_count EXCEPT ![b] = @ - 1]
      /\ goal' = [goal EXCEPT ![t] = NoBlock] /\ tmp' = [tmp EXCEPT ![t] = Null]
      /\ UNCHANGED <<blk, hashed, held>>
  BY <1>2 DEF read_failed, Forget, queues
<1>4. /\ pc' \in [Task -> Place]
      /\ \A u \in Task : Woken([pc EXCEPT ![t] = "idle"][u], pc'[u])
  BY WakeUp DEF read_failed, Inductive, Typed, Place
<1>5. Typed'
  <2>1. pc' \in [Task -> Reading \cup Searching \cup Syncing \cup {"idle"}]
    BY <1>4 DEF Place
  <2>2. b_count' \in [Buffer -> Int]
    BY <1>3 DEF Inductive, Typed
  <2>3. /\ goal' \in [Task -> Block \cup {NoBlock}]
        /\ tmp' \in [Task -> Buffer \cup {Null}]
    BY <1>3 DEF Inductive, Typed
  <2>4. QED
    BY <1>3, <2>1, <2>2, <2>3 DEF Inductive, Typed
<1>6. /\ pc'[t] = "idle" /\ goal'[t] = NoBlock
      /\ b_count[b] \in Int /\ b_count'[b] = b_count[b] - 1
      /\ \A c \in Buffer \ {b} : b_count'[c] = b_count[c]
      /\ \A u \in Task \ {t} : /\ Woken(pc[u], pc'[u])
                               /\ goal'[u] = goal[u] /\ tmp'[u] = tmp[u]
  BY <1>3, <1>4 DEF Inductive, Typed, Woken
<1>7. ASSUME NEW u \in Task
      PROVE  Placed(u)'
  BY <1>6 DEF Inductive, Placed, Reading, Searching, Syncing, Woken
<1>8. ASSUME NEW u \in Task, NEW c \in Buffer
      PROVE  /\ Takes(u, c)' <=> Takes(u, c)
             /\ Counts(u, c)' <=> Counts(u, c) /\ u # t
             /\ Counts(t, c) <=> c = b
  <2>1. CASE u = t
    BY <1>1, <1>2, <1>6, <2>1 DEF Takes, Counts
  <2>2. CASE u # t
    BY <1>1, <1>2, <1>6, <2>2 DEF Takes, Counts, Woken
  <2>3. QED
    BY <2>1, <2>2
<1>9. Private' /\ PinnedIn'
  BY <1>3, <1>8 DEF Inductive, Private, PinnedIn
<1>10. Apart'
  BY <1>3, <1>6 DEF Inductive, Apart
<1>11. OneBufferPerBlock'
  <2>1. \A u \in Task : pc'[u] \in Reading => tmp'[u] \in hashed' /\ blk'[tmp'[u]] = goal'[u]
    BY <1>3, <1>6 DEF Inductive, OneBufferPerBlock, Reading, Woken
  <2>2. QED
    BY <1>3, <2>1 DEF Inductive, OneBufferPerBlock, Reading
<1>12. ASSUME NEW c \in Buffer
       PROVE  Exact(c)'
  <2>1. Holders(c)' = Holders(c) /\ PinCount(c)' = PinCount(c) /\ Exact(c)
    BY <1>3, CountDef DEF Holders, PinCount, Inductive
  <2>2. CASE c = b
    <3>1. t \in Counters(b) /\ Counters(b)' = Counters(b) \ {t}
      BY <1>8 DEF Counters
    <3>2. QED
      BY <1>6, <2>1, <2>2, <3>1, CountsNoMore
  <2>3. CASE c # b
    <3>1. Counters(c)' = Counters(c)
      BY <1>8, <2>3 DEF Counters
    <3>2. QED
      BY <1>6, <2>1, <2>3, <3>1, SameUsers
  <2>4. QED
    BY <2>2, <2>3
<1>13. QED
  BY <1>5, <1>7, <1>9, <1>10, <1>11, <1>12, CountDefNext DEF Inductive

LEMMA BrelseKeeps ==
  ASSUME Inductive, NEW t \in Task, NEW b \in Buffer, brelse(t, b)
  PROVE  Inductive'
<1>1. /\ b \in held[t] /\ held' = [held EXCEPT ![t] = @ \ {b}]
      /\ b_count' = [b_count EXCEPT ![b] = @ - 1]
      /\ UNCHANGED <<blk, hashed, goal, tmp>>
  BY DEF brelse, queues, local
<1>2. pc' \in [Task -> Place] /\ \A u \in Task : Woken(pc[u], pc'[u])
  BY WakeUp DEF brelse, Inductive, Typed, Place
<1>3. Typed'
  <2>1. pc' \in [Task -> Reading \cup Searching \cup Syncing \cup {"idle"}]
    BY <1>2 DEF Place
  <2>2. b_count' \in [Buffer -> Int] /\ held' \in [Task -> SUBSET Buffer]
    BY <1>1 DEF Inductive, Typed
  <2>3. QED
    BY <1>1, <2>1, <2>2 DEF Inductive, Typed
<1>4. /\ b_count[b] \in Int /\ b_count'[b] = b_count[b] - 1
      /\ \A c \in Buffer \ {b} : b_count'[c] = b_count[c]
      /\ held'[t] = held[t] \ {b} /\ \A u \in Task \ {t} : held'[u] = held[u]
  BY <1>1 DEF Inductive, Typed
<1>5. ASSUME NEW u \in Task
      PROVE  Placed(u)'
  BY <1>1, <1>2 DEF Inductive, Placed, Reading, Searching, Syncing, Woken
<1>6. ASSUME NEW u \in Task, NEW c \in Buffer
      PROVE  (Takes(u, c)' <=> Takes(u, c)) /\ (Counts(u, c)' <=> Counts(u, c))
  BY <1>1, <1>2 DEF Takes, Counts, Woken
<1>7. Private' /\ PinnedIn'
  BY <1>1, <1>6 DEF Inductive, Private, PinnedIn
<1>8. \A u \in Task : held'[u] \subseteq held[u]
  BY <1>4
<1>9. Apart'
  BY <1>1, <1>8 DEF Inductive, Apart
<1>10. OneBufferPerBlock'
  <2>1. \A u \in Task : pc'[u] \in Reading => pc[u] = pc'[u]
    BY <1>2 DEF Woken, Reading
  <2>2. QED
    BY <1>1, <1>8, <2>1 DEF Inductive, OneBufferPerBlock, Reading
<1>11. ASSUME NEW c \in Buffer
       PROVE  Exact(c)'
  <2>1. Counters(c)' = Counters(c) /\ PinCount(c)' = PinCount(c) /\ Exact(c)
    BY <1>1, <1>6, CountDef DEF Counters, PinCount, Inductive
  <2>2. CASE c = b
    <3>1. t \in Holders(b) /\ Holders(b)' = Holders(b) \ {t}
      BY <1>1, <1>4 DEF Holders
    <3>2. QED
      BY <1>4, <2>1, <2>2, <3>1, HoldsNoMore
  <2>3. CASE c # b
    <3>1. Holders(c)' = Holders(c)
      BY <1>4, <2>3 DEF Holders
    <3>2. QED
      BY <1>4, <2>1, <2>3, <3>1, SameUsers
  <2>4. QED
    BY <2>2, <2>3
<1>12. QED
  BY <1>3, <1>5, <1>7, <1>9, <1>10, <1>11, CountDefNext DEF Inductive

-------------------------------------------------------------------------------
(* The theorems.                                                           *)

LEMMA InitInductive == Init => Inductive
<1> SUFFICES ASSUME Init
             PROVE  Inductive
  OBVIOUS
<1> DEFINE N == Cardinality(Pinned)
<1>1. N \in Nat /\ N <= NR_BUFFERS /\ ExistsBijection(1..N, Pinned)
  BY FS_CardinalityType
<1>2. PICK pin \in Bijection(1..N, Pinned) :
        /\ blk = [b \in Buffer |-> IF b \in DOMAIN pin THEN pin[b] ELSE NoBlock]
        /\ b_count = [b \in Buffer |-> IF b \in DOMAIN pin THEN 1 ELSE 0]
        /\ hashed = DOMAIN pin
  BY <1>1 DEF Init, ExistsBijection
<1>3. /\ DOMAIN pin = 1..N /\ \A i \in 1..N : pin[i] \in Pinned
      /\ \A i, j \in 1..N : pin[i] = pin[j] => i = j
      /\ \A k \in Pinned : \E i \in 1..N : pin[i] = k
  BY <1>2 DEF Bijection, Injection, Surjection, IsInjective
<1> HIDE DEF N
<1>4. 1..N \subseteq Buffer
  BY <1>1
<1>5. /\ pc = [t \in Task |-> "idle"] /\ goal = [t \in Task |-> NoBlock]
      /\ tmp = [t \in Task |-> Null] /\ held = [t \in Task |-> {}]
  BY DEF Init
<1>6. Typed /\ \A t \in Task : Placed(t)
  <2>1. blk \in [Buffer -> Block \cup {NoBlock}]
    BY <1>2, <1>3
  <2>2. b_count \in [Buffer -> Int] /\ hashed \subseteq Buffer
    BY <1>2, <1>3, <1>4
  <2>3. Typed
    BY <1>5, <2>1, <2>2 DEF Typed
  <2>4. QED
    BY <1>5, <2>3 DEF Placed, Reading, Searching, Syncing
<1>7. Private /\ Apart /\ OneBufferPerBlock /\ PinnedIn
  BY <1>2, <1>3, <1>4, <1>5 DEF Private, Takes, Apart, OneBufferPerBlock, PinnedIn
<1>8. ASSUME NEW b \in Buffer
      PROVE  Exact(b)
  <2>1. Holders(b) = {} /\ Counters(b) = {}
    BY <1>5 DEF Holders, Counters, Counts, Takes
  <2>2. PinCount(b) = b_count[b]
    BY <1>2, <1>3, <1>4 DEF PinCount
  <2>3. PinCount(b) \in Nat
    BY FiniteUsers
  <2>4. Cardinality(Holders(b)) = 0 /\ Cardinality(Counters(b)) = 0
    BY <2>1, FS_EmptySet
  <2>5. QED
    BY <2>2, <2>3, <2>4 DEF Exact
<1>9. QED
  BY <1>6, <1>7, <1>8, CountDef DEF Inductive

LEMMA FrameKeeps ==
  ASSUME Inductive, UNCHANGED <<blk, b_count, hashed, pc, goal, tmp, held>>
  PROVE  Inductive'
<1>1. Typed'
  BY DEF Inductive, Typed
<1>2. ASSUME NEW u \in Task
      PROVE  Placed(u)'
  BY DEF Inductive, Placed
<1>3. ASSUME NEW u \in Task, NEW b \in Buffer
      PROVE  (Counts(u, b)' <=> Counts(u, b)) /\ (Takes(u, b)' <=> Takes(u, b))
  BY DEF Counts, Takes
<1>4. QED
  BY <1>1, <1>2, <1>3, Moved

LEMMA NextInductive == Inductive /\ [Next]_vars => Inductive'
<1> SUFFICES ASSUME Inductive, [Next]_vars
             PROVE  Inductive'
  OBVIOUS
<1>1. ASSUME NEW t \in Task, Proceed(t)
      PROVE  Inductive'
  BY <1>1, HashWaitedKeeps, HitKeeps, ScanKeeps, LocalKeeps, TakeKeeps, UpdateKeeps,
     BeatenKeeps, KeepKeeps, ReadFailedKeeps DEF Proceed
<1>2. ASSUME NEW t \in Task, NEW k \in Block, bread(t, k)
      PROVE  Inductive'
  BY <1>2, BreadKeeps
<1>3. ASSUME NEW t \in Task, sys_sync(t)
      PROVE  Inductive'
  BY <1>3, LocalKeeps
<1>4. ASSUME NEW t \in Task, NEW b \in Buffer, modify(t, b)
      PROVE  Inductive'
  BY <1>4, FrameKeeps DEF modify, queues, local
<1>5. ASSUME NEW t \in Task, Release(t)
      PROVE  Inductive'
  BY <1>5, BrelseKeeps DEF Release
<1>6. ASSUME NEW b \in Buffer, write_start(b) \/ end_request(b) \/ io_error(b)
      PROVE  Inductive'
  BY <1>6, FrameKeeps DEF write_start, end_request, io_error, queues, local
<1>7. CASE UNCHANGED vars
  BY <1>7, FrameKeeps DEF vars, queues, local
<1>8. QED
  BY <1>1, <1>2, <1>3, <1>4, <1>5, <1>6, <1>7 DEF Next

\* Tasks that sleep in getblk, in bread or in sys_sync never end with two
\* buffers for one block, or with the buffer of another (buffer.c:116-190).
THEOREM BlockHasOneBuffer == Spec => []OneBufferPerBlock
<1>1. Inductive => OneBufferPerBlock
  BY DEF Inductive
<1>2. QED
  BY <1>1, InitInductive, NextInductive, PTL DEF Spec

\* b_count is the number of those who hold the buffer or are about to, so that
\* brelse never meets a zero (buffer.c:201-202) and getblk takes only buffers
\* that are nobody's.
THEOREM CountsAreExact == Spec => []CountMatchesUsers
<1>1. Inductive => CountMatchesUsers
  BY DEF Inductive
<1>2. QED
  BY <1>1, InitInductive, NextInductive, PTL DEF Spec

-------------------------------------------------------------------------------
(* Locks. *)

\* Places where a task does not give up the processor.
AtWork == {"getblk", "sync", "update", "got"}

Quiet(b) == ~ b_lock[b] /\ ~ b_dirt[b]

\* A task that is past the buffer it has taken, in sync_dev, leaves it clean and
\* unlocked; the one that asks for a transfer has an unlocked buffer.
Clear(t) ==
  /\ \A b \in Buffer : Takes(t, b) =>
       /\ pc[t] = "update" \/ index[t] > b => Quiet(b)
       /\ pc[t] = "write_wait" /\ index[t] = b => b_lock[b] \/ ~ b_dirt[b]
  /\ pc[t] = "got" => ~ b_lock[tmp[t]]

Settled ==
  /\ b_lock \in [Buffer -> BOOLEAN] /\ b_dirt \in [Buffer -> BOOLEAN]
  /\ index \in [Task -> Int]
  /\ \A t \in Task : pc[t] \in AtWork => cpu = t
  /\ ~ failed => /\ \A b \in Buffer : blk[b] = NoBlock => Quiet(b)
                 /\ \A t \in Task : Clear(t)

-------------------------------------------------------------------------------
(* Steps that leave the buffers' blocks and flags alone.                   *)

\* What a step of t leaves of the other tasks: they may be woken.
OthersStay(t) ==
  \A u \in Task \ {t} : /\ Woken(pc[u], pc'[u])
                        /\ UNCHANGED <<goal[u], tmp[u], index[u]>>

LEMMA Local ==
  ASSUME Settled, NEW t \in Task, UNCHANGED <<blk, b_lock, b_dirt, failed>>,
         cpu \in {t, NoTask}, pc'[t] \in AtWork => cpu' = t,
         OthersStay(t), index' \in [Task -> Int], ~ failed => Clear(t)'
  PROVE  Settled'
<1>1. \A u \in Task \ {t} : cpu # u
  OBVIOUS
<1>2. ASSUME NEW u \in Task, pc'[u] \in AtWork
      PROVE  cpu' = u
  BY <1>1, <1>2 DEF Settled, OthersStay, Woken, AtWork
<1>3. ASSUME NEW u \in Task, ~ failed
      PROVE  Clear(u)'
  <2>1. CASE u = t
    BY <1>3, <2>1
  <2>2. CASE u # t
    <3>1. /\ pc'[u] = pc[u] \/ (pc[u] = "sleep" /\ pc'[u] = "woken")
          /\ goal'[u] = goal[u] /\ tmp'[u] = tmp[u] /\ index'[u] = index[u]
      BY <2>2 DEF OthersStay, Woken
    <3>2. Clear(u)
      BY <1>3 DEF Settled
    <3>3. QED
      BY <3>1, <3>2 DEF Clear, Quiet, Takes
  <2>3. QED
    BY <2>1, <2>2
<1>4. QED
  BY <1>2, <1>3 DEF Settled, Quiet

LEMMA Places ==
  ASSUME Typed, NEW t \in Task, NEW p, pc' = [pc EXCEPT ![t] = p]
  PROVE  pc'[t] = p /\ \A u \in Task \ {t} : Woken(pc[u], pc'[u])
BY DEF Typed, Woken

LEMMA SearchSettled ==
  ASSUME Inductive, Settled, NEW t \in Task, UNCHANGED failed,
         \/ \E k \in Block : bread(t, k)
         \/ getblk_hit(t) \/ hash_waited(t) \/ getblk_miss(t) \/ scan_on(t) \/ getblk_again(t)
  PROVE  Settled'
<1>1. PICK p \in {"getblk", "hash_wait", "got", "scan_wait", "sleep"} :
        /\ pc' = [pc EXCEPT ![t] = p]
        /\ p \in AtWork => cpu' = t
        /\ p = "got" => ~ b_lock[tmp[t]] /\ UNCHANGED tmp
  <2>1. CASE \E k \in Block : bread(t, k)
    BY <2>1 DEF bread, Goto
  <2>2. CASE getblk_hit(t)
    BY <2>2 DEF getblk_hit, WaitFor, Goto, Sleep, AtWork
  <2>3. CASE hash_waited(t)
    <3>1. blk[tmp[t]] = goal[t]
      BY <2>3 DEF Inductive, OneBufferPerBlock, hash_waited, Wakes
    <3>2. QED
      BY <2>3, <3>1 DEF hash_waited, Wakes
  <2>4. CASE getblk_miss(t) \/ scan_on(t)
    BY <2>4 DEF getblk_miss, scan_on, ScanResult, WaitFor, Goto, Sleep, AtWork
  <2>5. CASE getblk_again(t)
    BY <2>5 DEF getblk_again, Goto
  <2>6. QED
    BY <2>1, <2>2, <2>3, <2>4, <2>5
<1>2. /\ UNCHANGED <<blk, b_lock, b_dirt, index>> /\ cpu \in {t, NoTask}
      /\ \A u \in Task \ {t} : UNCHANGED <<goal[u], tmp[u]>>
  BY DEF bread, getblk_hit, hash_waited, getblk_miss, scan_on, getblk_again, ScanResult,
         Runs, Wakes, flags, lock, local, Inductive, Typed
<1>3. pc'[t] = p /\ OthersStay(t)
  BY <1>1, <1>2, Places DEF Inductive, OthersStay
<1>4. Clear(t)'
  BY <1>1, <1>2, <1>3 DEF Clear, Takes
<1>5. QED
  BY <1>1, <1>2, <1>3, <1>4, Local DEF Settled

LEMMA SyncSettled ==
  ASSUME Inductive, Settled, NEW t \in Task, UNCHANGED failed,
         \/ sys_sync(t) \/ sync_next(t) \/ sync_clean(t) \/ sync_written(t) \/ sync_end(t)
         \/ take(t)
  PROVE  Settled'
<1>1. /\ UNCHANGED <<blk, b_lock, b_dirt, goal, tmp>> /\ cpu \in {t, NoTask}
      /\ \E i \in Int : index' = [index EXCEPT ![t] = i]
  BY DEF sys_sync, sync_next, sync_clean, sync_written, sync_end, take, Runs, Wakes,
         flags, lock, Settled
<1>2. PICK p \in Syncing \cup {"idle", "update"} :
        pc' = [pc EXCEPT ![t] = p] /\ (p \in AtWork => cpu' = t)
  BY DEF sys_sync, sync_next, sync_clean, sync_written, sync_end, take, WaitFor, Runs,
         Goto, Sleep, Leave, Syncing, AtWork, Inductive, Typed
<1>3. OthersStay(t) /\ pc'[t] = p /\ index' \in [Task -> Int]
  <2>1. pc'[t] = p /\ \A u \in Task \ {t} : Woken(pc[u], pc'[u])
    <3>1. Typed
      BY DEF Inductive
    <3>2. pc' = [pc EXCEPT ![t] = p]
      BY <1>2
    <3>3. QED
      BY ONLY <3>1, <3>2, Places
  <2>2. index' \in [Task -> Int] /\ \A u \in Task \ {t} : index'[u] = index[u]
    <3>1. index \in [Task -> Int]
      BY DEF Settled
    <3>2. PICK i \in Int : index' = [index EXCEPT ![t] = i]
      BY <1>1
    <3>3. QED
      BY ONLY <3>1, <3>2
  <2>3. ASSUME NEW u \in Task \ {t}
        PROVE  UNCHANGED <<goal[u], tmp[u], index[u]>>
    BY ONLY <1>1, <2>2, u \in Task \ {t}
  <2>4. QED
    BY ONLY <2>1, <2>2, <2>3 DEF OthersStay
<1>4. ASSUME ~ failed
      PROVE  Clear(t)'
  <2>1. Clear(t) /\ \A b \in Buffer : blk[b] = NoBlock => Quiet(b)
    BY <1>4 DEF Settled
  <2>2. pc'[t] # "got"
    BY <1>3 DEF Syncing
  <2>3. ASSUME NEW b \in Buffer, Takes(t, b)'
        PROVE  /\ pc'[t] = "update" \/ index'[t] > b => Quiet(b)
               /\ pc'[t] = "write_wait" /\ index'[t] = b => b_lock[b] \/ ~ b_dirt[b]
    <3>1. goal[t] # NoBlock /\ tmp[t] = b
      BY <1>1, <2>3 DEF Takes
    <3>2. CASE take(t)
      <4>1. /\ ~ b_lock[b]
            /\ \/ pc'[t] = "sync" /\ index'[t] = 1
               \/ pc'[t] = "update" /\ ~ b_dirt[b]
        <5>1. CASE b_dirt[b]
          <6>1. /\ ~ b_lock[b] /\ index' = [index EXCEPT ![t] = 1]
                /\ pc' = [pc EXCEPT ![t] = "sync"]
            BY <3>1, <3>2, <5>1 DEF take, Wakes, Goto
          <6>2. QED
            BY <6>1 DEF Settled, Inductive, Typed
        <5>2. CASE ~ b_dirt[b]
          BY <1>2, <3>1, <3>2, <5>2 DEF take, Wakes, Goto, Settled, Inductive, Typed
        <5>3. QED
          BY <5>1, <5>2
      <4>2. QED
        BY <4>1 DEF Quiet
    <3>3. CASE sys_sync(t)
      BY <3>1, <3>3 DEF sys_sync, Inductive, Placed
    <3>4. CASE sync_next(t)
      <4>1. /\ Takes(t, b) /\ index[t] \in Int
            /\ \/ index'[t] = index[t] + 1 /\ blk[index[t]] = NoBlock /\ pc'[t] = "sync"
               \/ index'[t] = index[t] /\ pc'[t] = "sync_wait"
        BY <3>1, <3>4 DEF sync_next, Runs, Takes, WaitFor, Goto, Sleep, Settled, Inductive, Typed
      <4>2. QED
        BY <2>1, <4>1 DEF Clear
    <3>5. CASE sync_clean(t)
      <4>1. /\ Takes(t, b) /\ index[t] \in Int /\ index'[t] = index[t] + 1
            /\ pc'[t] = "sync" /\ Quiet(index[t])
        BY <3>1, <3>5 DEF sync_clean, Wakes, Takes, Goto, Settled, Inductive, Typed, Quiet
      <4>2. QED
        BY <2>1, <4>1 DEF Clear
    <3>6. CASE sync_written(t)
      <4>1. /\ Takes(t, b) /\ index[t] \in Int /\ index'[t] = index[t] + 1
            /\ pc[t] = "write_wait" /\ pc'[t] = "sync" /\ ~ b_lock[index[t]]
        BY <3>1, <3>6 DEF sync_written, Wakes, Takes, Goto, Settled, Inductive, Typed
      <4>2. QED
        BY <2>1, <4>1 DEF Clear, Quiet
    <3>7. CASE sync_end(t)
      <4>1. Takes(t, b) /\ index[t] > NR_BUFFERS /\ index'[t] = 0 /\ index[t] \in Int
        BY <3>1, <3>7 DEF sync_end, Runs, Takes, Settled, Inductive, Typed
      <4>2. QED
        BY <2>1, <4>1 DEF Clear
    <3>8. QED
      BY <3>2, <3>3, <3>4, <3>5, <3>6, <3>7
  <2>4. QED
    BY <1>1, <2>2, <2>3 DEF Clear, Quiet
<1>5. QED
  BY <1>1, <1>2, <1>3, <1>4, Local

LEMMA KeepSettled ==
  ASSUME Inductive, Settled, NEW t \in Task, UNCHANGED failed,
         got_uptodate(t) \/ read_done(t) \/ read_failed(t)
  PROVE  Settled'
<1>1. /\ UNCHANGED <<blk, b_lock, b_dirt>> /\ cpu \in {t, NoTask}
      /\ goal' = [goal EXCEPT ![t] = NoBlock] /\ tmp' = [tmp EXCEPT ![t] = Null]
      /\ index' = [index EXCEPT ![t] = 0]
  BY DEF got_uptodate, read_done, read_failed, Keep, Forget, Runs, Wakes, flags, lock
<1>2. pc'[t] = "idle" /\ \A u \in Task \ {t} : Woken(pc[u], pc'[u])
  <2>1. CASE got_uptodate(t) \/ read_done(t)
    BY <2>1, Places DEF got_uptodate, read_done, Keep, Leave, Inductive
  <2>2. CASE read_failed(t)
    <3>1. [pc EXCEPT ![t] = "idle"] \in [Task -> Place]
      BY DEF Inductive, Typed, Place
    <3>2. \A u \in Task : Woken([pc EXCEPT ![t] = "idle"][u], pc'[u])
      BY <2>2, <3>1, WakeUp DEF read_failed
    <3>3. QED
      BY <3>2 DEF Inductive, Typed, Woken
  <2>3. QED
    BY <2>1, <2>2
<1>3. OthersStay(t) /\ goal'[t] = NoBlock /\ index' \in [Task -> Int]
  BY <1>1, <1>2 DEF OthersStay, Inductive, Typed, Settled
<1>4. Clear(t)'
  BY <1>2, <1>3 DEF Clear, Takes
<1>5. QED
  BY <1>1, <1>2, <1>3, <1>4, Local DEF AtWork

LEMMA BrelseSettled ==
  ASSUME Inductive, Settled, NEW t \in Task, NEW b \in Buffer, brelse(t, b), UNCHANGED failed
  PROVE  Settled'
<1>1. /\ UNCHANGED <<blk, b_lock, b_dirt, goal, tmp, index>> /\ cpu = NoTask
      /\ pc[t] = "idle"
  BY DEF brelse, flags, lock, local
<1>2. \A u \in Task : Woken(pc[u], pc'[u])
  BY WakeUp DEF brelse, Inductive, Typed, Place
<1>3. OthersStay(t) /\ pc'[t] = "idle"
  BY <1>1, <1>2 DEF OthersStay, Inductive, Typed, Woken
<1>4. Clear(t)'
  BY <1>1, <1>3 DEF Clear, Takes
<1>5. QED
  BY <1>1, <1>3, <1>4, Local DEF AtWork, Settled

-------------------------------------------------------------------------------
(* Steps that lock, unlock, write or rename a buffer.                      *)

LEMMA ReadSettled ==
  ASSUME Inductive, Settled, NEW t \in Task, UNCHANGED failed, got_read(t)
  PROVE  Settled'
<1>1. pc[t] = "got" /\ tmp[t] \in Buffer /\ goal[t] # NoBlock
  BY DEF got_read, Runs, Inductive, Placed, Reading
<1>2. PICK b \in Buffer : b = tmp[t]
  BY <1>1
<1>3. /\ b_lock' = [b_lock EXCEPT ![b] = TRUE] /\ pc' = [pc EXCEPT ![t] = "read_wait"]
      /\ cpu = t /\ cpu' = NoTask /\ UNCHANGED <<blk, b_dirt, goal, tmp, index>>
  BY <1>2 DEF got_read, Runs, rw_hd, Sleep, flags, local
<1>4. /\ b \in hashed /\ blk[b] # NoBlock
      /\ \A u \in Task : ~ Takes(u, b)
  BY <1>1, <1>2 DEF Inductive, OneBufferPerBlock, Private
<1>5. pc'[t] = "read_wait" /\ \A u \in Task \ {t} : pc'[u] = pc[u] /\ pc[u] \notin AtWork
  BY <1>3 DEF Inductive, Typed, Settled
<1>6. /\ b_lock' \in [Buffer -> BOOLEAN]
      /\ \A c \in Buffer \ {b} : b_lock'[c] = b_lock[c]
  BY <1>3 DEF Settled
<1>7. \A u \in Task : pc'[u] \notin AtWork
  BY <1>5 DEF AtWork
<1>8. ASSUME NEW u \in Task, Clear(u)
      PROVE  Clear(u)'
  <2>1. ASSUME NEW c \in Buffer, Takes(u, c)'
        PROVE  Takes(u, c) /\ c # b /\ pc'[u] = pc[u]
    BY <1>3, <1>4, <1>5, <2>1 DEF Takes
  <2>2. QED
    BY <1>3, <1>6, <1>7, <1>8, <2>1 DEF Clear, Quiet, AtWork
<1>9. QED
  BY <1>3, <1>4, <1>6, <1>7, <1>8 DEF Settled, Quiet

LEMMA WriteSettled ==
  ASSUME Inductive, Settled, NEW t \in Task, UNCHANGED failed, sync_write(t)
  PROVE  Settled'
<1>1. PICK b : b = index[t]
  OBVIOUS
<1>2. /\ b_lock' = [b_lock EXCEPT ![b] = TRUE] /\ pc' = [pc EXCEPT ![t] = "write_wait"]
      /\ cpu \in {t, NoTask} /\ cpu' = NoTask /\ UNCHANGED <<blk, b_dirt, goal, tmp, index>>
      /\ b_dirt[b] /\ pc[t] = "sync_wait"
  BY <1>1 DEF sync_write, Wakes, rw_hd, Sleep, flags, local
<1>3. pc'[t] = "write_wait" /\ \A u \in Task \ {t} : pc'[u] = pc[u] /\ pc[u] \notin AtWork
  BY <1>2 DEF Inductive, Typed, Settled
<1>4. /\ b_lock' \in [Buffer -> BOOLEAN] /\ (b \in Buffer => b_lock'[b])
      /\ \A c \in Buffer \ {b} : b_lock'[c] = b_lock[c]
  BY <1>2 DEF Settled
<1>5. \A u \in Task : pc'[u] \notin AtWork
  BY <1>3 DEF AtWork
<1>6. ASSUME NEW u \in Task, Clear(u)
      PROVE  Clear(u)'
  <2>1. ASSUME NEW c \in Buffer, Takes(u, c)'
        PROVE  Takes(u, c) /\ (pc'[u] = pc[u] \/ u = t)
    BY <1>2, <1>3, <2>1 DEF Takes
  <2>2. QED
    BY <1>1, <1>2, <1>3, <1>4, <1>5, <1>6, <2>1 DEF Clear, Quiet, AtWork
<1>7. QED
  BY <1>2, <1>4, <1>5, <1>6 DEF Settled, Quiet

\* What a step that changes the block of a buffer knows of it.
LEMMA TakenQuiet ==
  ASSUME Inductive, Settled, NEW t \in Task, pc[t] = "update", ~ failed
  PROVE  Quiet(tmp[t])
<1>1. Takes(t, tmp[t]) /\ tmp[t] \in Buffer
  BY DEF Inductive, Placed, Searching, Takes
<1>2. QED
  BY <1>1 DEF Settled, Clear

LEMMA UpdateSettled ==
  ASSUME Inductive, Settled, NEW t \in Task, UNCHANGED failed, update(t) \/ update_beaten(t)
  PROVE  Settled'
<1>1. pc[t] = "update" /\ tmp[t] \in Buffer /\ goal[t] # NoBlock
  BY DEF update, update_beaten, Runs, Inductive, Placed, Searching
<1>2. PICK b \in Buffer : b = tmp[t]
  BY <1>1
<1>3. /\ b_dirt' = [b_dirt EXCEPT ![b] = FALSE] /\ cpu = t /\ cpu' = t
      /\ UNCHANGED <<b_lock, goal, index>>
  BY <1>2 DEF update, update_beaten, Runs, Goto, lock, local
<1>4. PICK p \in {"got", "getblk"}, x \in Buffer \cup {Null} :
        /\ pc' = [pc EXCEPT ![t] = p] /\ tmp' = [tmp EXCEPT ![t] = x] /\ (p = "got" => x = b)
  <2>1. CASE update(t)
    <3>1. pc' = [pc EXCEPT ![t] = "got"] /\ tmp' = [tmp EXCEPT ![t] = b]
      BY <1>2, <2>1 DEF update, Goto, local, Inductive, Typed
    <3>2. QED
      BY <3>1
  <2>2. CASE update_beaten(t)
    BY <2>2 DEF update_beaten, Goto
  <2>3. QED
    BY <2>1, <2>2
<1>5. \E k \in Block \cup {NoBlock} : blk' = [blk EXCEPT ![b] = k]
  BY <1>2 DEF update, update_beaten, Inductive, Typed
<1>6. /\ pc'[t] = p /\ tmp'[t] = x
      /\ \A u \in Task \ {t} : pc'[u] = pc[u] /\ tmp'[u] = tmp[u] /\ pc[u] \notin AtWork
  BY <1>3, <1>4 DEF Inductive, Typed, Settled
<1>7. /\ b_dirt' \in [Buffer -> BOOLEAN] /\ ~ b_dirt'[b]
      /\ \A c \in Buffer \ {b} : b_dirt'[c] = b_dirt[c] /\ blk'[c] = blk[c]
  BY <1>3, <1>5 DEF Settled, Inductive, Typed
<1>8. ~ failed => ~ b_lock[b]
  BY <1>1, <1>2, TakenQuiet DEF Quiet
<1>9. ASSUME NEW u \in Task, Clear(u), ~ failed
      PROVE  Clear(u)'
  <2>1. CASE u = t
    BY <1>3, <1>4, <1>6, <1>8, <1>9, <2>1 DEF Clear, Takes
  <2>2. CASE u # t
    <3>1. \A c \in Buffer : Takes(u, c)' <=> Takes(u, c)
      BY <1>3, <1>6, <2>2 DEF Takes
    <3>2. pc'[u] = pc[u] /\ pc[u] # "got" /\ pc[u] # "update"
      BY <1>6, <2>2 DEF AtWork
    <3>3. QED
      BY <1>3, <1>7, <1>9, <3>1, <3>2 DEF Clear, Quiet
  <2>3. QED
    BY <2>1, <2>2
<1>10. ASSUME NEW c \in Buffer, blk'[c] = NoBlock, ~ failed
       PROVE  Quiet(c)'
  BY <1>3, <1>7, <1>8, <1>10 DEF Settled, Quiet
<1>11. \A u \in Task : pc'[u] \in AtWork => cpu' = u
  BY <1>3, <1>6
<1>12. QED
  BY <1>3, <1>7, <1>9, <1>10, <1>11 DEF Settled

LEMMA ModifySettled ==
  ASSUME Inductive, Settled, NEW t \in Task, NEW b \in Buffer, modify(t, b), UNCHANGED failed
  PROVE  Settled'
<1>1. /\ b_dirt' = [b_dirt EXCEPT ![b] = TRUE] /\ blk[b] # NoBlock
      /\ UNCHANGED <<blk, b_lock, cpu, pc, goal, tmp, index>>
  BY DEF modify, lock, local
<1>2. b \in hashed
  BY DEF modify, Inductive, OneBufferPerBlock
<1>3. \A u \in Task : ~ Takes(u, b)
  BY <1>2 DEF Inductive, Private
<1>4. /\ b_dirt' \in [Buffer -> BOOLEAN]
      /\ \A c \in Buffer \ {b} : b_dirt'[c] = b_dirt[c]
  BY <1>1 DEF Settled
<1>5. ASSUME NEW u \in Task, Clear(u)
      PROVE  Clear(u)'
  <2>1. ASSUME NEW c \in Buffer, Takes(u, c)'
        PROVE  Takes(u, c) /\ c # b
    BY <1>1, <1>3, <2>1 DEF Takes
  <2>2. QED
    BY <1>1, <1>4, <1>5, <2>1 DEF Clear, Quiet
<1>6. QED
  BY <1>1, <1>4, <1>5 DEF Settled, Quiet

LEMMA DiskSettled ==
  ASSUME Inductive, Settled, NEW b \in Buffer,
         \/ (write_start(b) \/ end_request(b)) /\ UNCHANGED failed
         \/ io_error(b)
  PROVE  Settled'
<1>1. UNCHANGED <<blk, cpu, pc, goal, tmp, index>>
  BY DEF write_start, end_request, io_error, local
<1>2. CASE io_error(b)
  <2>1. failed' /\ b_lock' \in [Buffer -> BOOLEAN] /\ UNCHANGED b_dirt
    BY <1>2 DEF io_error, Settled
  <2>2. QED
    BY <1>1, <2>1 DEF Settled
<1>3. CASE (write_start(b) \/ end_request(b)) /\ UNCHANGED failed
  <2>1. /\ b_lock' \in [Buffer -> BOOLEAN] /\ b_dirt' \in [Buffer -> BOOLEAN]
        /\ \A c \in Buffer : \/ b_lock'[c] = b_lock[c] /\ b_dirt'[c] = b_dirt[c]
                             \/ ~ b_lock'[c] /\ ~ b_dirt'[c]
    BY <1>3 DEF write_start, end_request, Settled, flags
  <2>2. ASSUME NEW u \in Task, Clear(u)
        PROVE  Clear(u)'
    <3>1. pc[u] = "got" => tmp[u] \in Buffer
      BY DEF Inductive, Placed, Reading
    <3>2. \A c \in Buffer : Takes(u, c)' <=> Takes(u, c)
      BY <1>1 DEF Takes
    <3>3. QED
      BY <1>1, <2>1, <2>2, <3>1, <3>2 DEF Clear, Quiet
  <2>3. QED
    BY <1>1, <1>3, <2>1, <2>2 DEF Settled, Quiet
<1>4. QED
  BY <1>2, <1>3

-------------------------------------------------------------------------------
(* The theorems.                                                           *)

LEMMA InitSettled == Init => Settled
BY DEF Init, Settled, Quiet, Clear, Takes, AtWork

LEMMA SettledFrame ==
  ASSUME Settled, UNCHANGED vars
  PROVE  Settled'
<1>1. ASSUME NEW u \in Task, Clear(u)
      PROVE  Clear(u)'
  BY <1>1 DEF vars, flags, lock, local, Clear, Quiet, Takes
<1>2. QED
  BY <1>1 DEF vars, flags, lock, local, Settled, Quiet

LEMMA NextSettled == Inductive /\ Settled /\ [Next]_vars => Settled'
<1> SUFFICES ASSUME Inductive, Settled, [Next]_vars
             PROVE  Settled'
  OBVIOUS
<1>1. ASSUME NEW t \in Task, Proceed(t), UNCHANGED failed
      PROVE  Settled'
  BY <1>1, SearchSettled, SyncSettled, KeepSettled, ReadSettled, WriteSettled, UpdateSettled
     DEF Proceed
<1>2. ASSUME NEW t \in Task, NEW k \in Block, bread(t, k), UNCHANGED failed
      PROVE  Settled'
  BY <1>2, SearchSettled
<1>3. ASSUME NEW t \in Task, sys_sync(t), UNCHANGED failed
      PROVE  Settled'
  BY <1>3, SyncSettled
<1>4. ASSUME NEW t \in Task, NEW b \in Buffer, modify(t, b), UNCHANGED failed
      PROVE  Settled'
  BY <1>4, ModifySettled
<1>5. ASSUME NEW t \in Task, Release(t), UNCHANGED failed
      PROVE  Settled'
  BY <1>5, BrelseSettled DEF Release
<1>6. ASSUME NEW b \in Buffer,
             \/ (write_start(b) \/ end_request(b)) /\ UNCHANGED failed
             \/ io_error(b)
      PROVE  Settled'
  BY <1>6, DiskSettled
<1>7. CASE UNCHANGED vars
  BY <1>7, SettledFrame
<1>8. QED
  BY <1>1, <1>2, <1>3, <1>4, <1>5, <1>6, <1>7 DEF Next

\* hd.c:94-95 "buffer multiply locked" is never printed as long as the disk
\* does not fail: whoever asks for a transfer finds the buffer unlocked.
THEOREM NeverMultiplyLocked == Spec => []NotMultiplyLocked
<1>1. Settled => NotMultiplyLocked
  BY DEF Settled, Clear, NotMultiplyLocked
<1>2. QED
  BY <1>1, InitInductive, NextInductive, InitSettled, NextSettled, PTL DEF Spec

\* getblk gives a buffer to another block only when nobody holds it and no
\* request for it is on its way (buffer.c:169-173), as long as the disk does
\* not fail.
THEOREM HeldBufferKeepsBlock == Spec => HeldKeepsBlock
<1> DEFINE Kept == ~ failed =>
             \A b \in Buffer :
               (b_lock[b] \/ \E t \in Task : b \in held[t]) => blk'[b] = blk[b]
<1>1. Inductive /\ Settled /\ Next => Kept
  <2> SUFFICES ASSUME Inductive, Settled, Next, ~ failed, NEW b \in Buffer,
                      b_lock[b] \/ \E t \in Task : b \in held[t]
               PROVE  blk'[b] = blk[b]
    OBVIOUS
  <2>1. CASE \E t \in Task : update(t) \/ update_beaten(t)
    <3>1. PICK t \in Task : update(t) \/ update_beaten(t)
      BY <2>1
    <3>2. pc[t] = "update" /\ Takes(t, tmp[t]) /\ tmp[t] \in Buffer
      BY <3>1 DEF update, update_beaten, Runs, Takes, Inductive, Placed, Searching
    <3>3. Quiet(tmp[t]) /\ tmp[t] \notin hashed
      BY <3>2, TakenQuiet DEF Inductive, Private
    <3>4. b # tmp[t]
      BY <3>3 DEF Quiet, Inductive, OneBufferPerBlock
    <3>5. QED
      BY <3>1, <3>2, <3>4 DEF update, update_beaten, Inductive, Typed
  <2>2. CASE ~ \E t \in Task : update(t) \/ update_beaten(t)
    BY <2>2 DEF Next, Proceed, Release, bread, getblk_hit, hash_waited, getblk_miss, scan_on,
       getblk_again, take, got_uptodate, got_read, read_done, read_failed, sys_sync, sync_next,
       sync_clean, sync_write, sync_written, sync_end, modify, brelse, write_start, end_request,
       io_error
  <2>3. QED
    BY <2>1, <2>2
<1>2. Inductive /\ Settled /\ [Next]_vars => [Kept]_vars
  BY <1>1
<1>3. QED
  BY <1>2, InitInductive, NextInductive, InitSettled, NextSettled, PTL DEF Spec, HeldKeepsBlock

-------------------------------------------------------------------------------
(* The free list.                                                          *)

\* The buffers of S are one ring, linked both ways, with f on it: to follow
\* next from anywhere leads through all of S.
OneRing(S, next, prev, f) ==
  /\ S \subseteq Buffer /\ f \in S
  /\ next \in [Buffer -> Buffer] /\ prev \in [Buffer -> Buffer]
  /\ \A b \in S : next[b] \in S /\ prev[b] \in S /\ prev[next[b]] = b /\ next[prev[b]] = b
  /\ \A C \in SUBSET S : C # {} /\ (\A b \in C : next[b] \in C) => C = S

Untaken == {b \in Buffer : \A t \in Task : ~ Takes(t, b)}
Queued == OneRing(Untaken, next_free, prev_free, free_list)

\* b leaves the ring (S, n, p, f), and (R, n2, p2, f2) is left.
Unlinked(b, S, n, p, f, R, n2, p2, f2) ==
  /\ b \in S /\ R = S \ {b} /\ R # {}
  /\ n2 = [n EXCEPT ![p[b]] = n[b]]
  /\ p2 = [p EXCEPT ![n[b]] = p[b]]
  /\ f2 = IF f = b THEN n[b] ELSE f

LEMMA RemoveFromRing ==
  ASSUME NEW S, NEW n, NEW p, NEW f, OneRing(S, n, p, f), NEW b, NEW R, NEW n2, NEW p2, NEW f2,
         Unlinked(b, S, n, p, f, R, n2, p2, f2)
  PROVE  OneRing(R, n2, p2, f2)
<1> /\ b \in S /\ R = S \ {b} /\ R # {}
    /\ n2 = [n EXCEPT ![p[b]] = n[b]]
    /\ p2 = [p EXCEPT ![n[b]] = p[b]]
    /\ f2 = IF f = b THEN n[b] ELSE f
  BY DEF Unlinked
<1>1. /\ S \subseteq Buffer /\ f \in S /\ n \in [Buffer -> Buffer] /\ p \in [Buffer -> Buffer]
      /\ \A c \in S : n[c] \in S /\ p[c] \in S /\ p[n[c]] = c /\ n[p[c]] = c
  BY DEF OneRing
<1>2. \A C \in SUBSET S : C # {} /\ (\A c \in C : n[c] \in C) => C = S
  BY DEF OneRing
<1>3. n[b] # b
  <2> SUFFICES ASSUME n[b] = b PROVE {b} = S
    BY <1>1
  <2>1. {b} \in SUBSET S /\ {b} # {} /\ \A c \in {b} : n[c] \in {b}
    OBVIOUS
  <2>2. QED
    BY ONLY <1>2, <2>1
<1>4. p[b] # b /\ p[b] \in R /\ n[b] \in R
  BY <1>1, <1>3
<1>5. /\ n2 \in [Buffer -> Buffer] /\ p2 \in [Buffer -> Buffer]
      /\ n2[p[b]] = n[b] /\ \A c \in S \ {p[b]} : n2[c] = n[c]
      /\ p2[n[b]] = p[b] /\ \A c \in S \ {n[b]} : p2[c] = p[c]
  BY <1>1
<1>6. f2 \in R /\ R \subseteq Buffer
  BY <1>1, <1>4
<1>7. \A c \in R : n2[c] \in R /\ p2[c] \in R /\ p2[n2[c]] = c /\ n2[p2[c]] = c
  <2> SUFFICES ASSUME NEW c \in R
               PROVE  n2[c] \in R /\ p2[c] \in R /\ p2[n2[c]] = c /\ n2[p2[c]] = c
    OBVIOUS
  <2>0. c \in S /\ c # b
    OBVIOUS
  <2>1. n2[c] \in R /\ p2[n2[c]] = c
    <3>1. CASE c = p[b]
      BY <1>1, <1>4, <1>5, <3>1
    <3>2. CASE c # p[b]
      <4>1. n2[c] = n[c] /\ n[c] \in S
        BY <1>1, <1>5, <2>0, <3>2
      <4>2. n[c] # b /\ n[c] # n[b]
        BY <1>1, <2>0, <3>2
      <4>3. QED
        BY <1>1, <1>5, <2>0, <4>1, <4>2
    <3>3. QED
      BY <3>1, <3>2
  <2>2. p2[c] \in R /\ n2[p2[c]] = c
    <3>1. CASE c = n[b]
      BY <1>1, <1>4, <1>5, <3>1
    <3>2. CASE c # n[b]
      <4>1. p2[c] = p[c] /\ p[c] \in S
        BY <1>1, <1>5, <2>0, <3>2
      <4>2. p[c] # b /\ p[c] # p[b]
        BY <1>1, <2>0, <3>2
      <4>3. QED
        BY <1>1, <1>5, <2>0, <4>1, <4>2
    <3>3. QED
      BY <3>1, <3>2
  <2>3. QED
    BY <2>1, <2>2
<1>8. ASSUME NEW C \in SUBSET R, C # {}, \A c \in C : n2[c] \in C
      PROVE  C = R
  <2>1. CASE p[b] \in C
    <3> DEFINE D == C \cup {b}
    <3>1. D \in SUBSET S /\ D # {}
      OBVIOUS
    <3>2. \A c \in D : n[c] \in D
      <4> SUFFICES ASSUME NEW c \in D PROVE n[c] \in D
        OBVIOUS
      <4>1. CASE c = b
        BY <1>5, <1>8, <2>1, <4>1
      <4>2. CASE c = p[b]
        BY <1>1, <4>2
      <4>3. CASE c # b /\ c # p[b]
        BY <1>5, <1>8, <4>3
      <4>4. QED
        BY <4>1, <4>2, <4>3
    <3>3. D = S
      BY ONLY <1>2, <3>1, <3>2
    <3>4. QED
      BY <3>3
  <2>2. CASE p[b] \notin C
    <3>1. C \in SUBSET S /\ \A c \in C : n[c] \in C
      BY <1>5, <1>8, <2>2
    <3>2. C = S
      BY ONLY <1>2, <1>8, <3>1
    <3>3. QED
      BY <3>2
  <2>3. QED
    BY <2>1, <2>2
<1>9. QED
  BY ONLY <1>5, <1>6, <1>7, <1>8 DEF OneRing

LEMMA InsertInRing ==
  ASSUME NEW S, NEW n, NEW p, NEW f, OneRing(S, n, p, f), NEW b \in Buffer, b \notin S,
         NEW l, l = p[f],
         NEW n2, n2 = [n EXCEPT ![b] = f, ![l] = b],
         NEW p2, p2 = [p EXCEPT ![b] = l, ![f] = b],
         NEW R, R = S \cup {b}
  PROVE  OneRing(R, n2, p2, f)
<1>1. /\ S \subseteq Buffer /\ f \in S /\ n \in [Buffer -> Buffer] /\ p \in [Buffer -> Buffer]
      /\ \A c \in S : n[c] \in S /\ p[c] \in S /\ p[n[c]] = c /\ n[p[c]] = c
  BY DEF OneRing
<1>2. \A C \in SUBSET S : C # {} /\ (\A c \in C : n[c] \in C) => C = S
  BY DEF OneRing
<1>3. l \in S /\ l # b /\ f # b /\ n[l] = f
  BY <1>1
<1>4. /\ n2 \in [Buffer -> Buffer] /\ n2[b] = f /\ n2[l] = b
      /\ \A c \in S \ {l} : n2[c] = n[c]
  BY <1>1, <1>3
<1>5. /\ p2 \in [Buffer -> Buffer] /\ p2[b] = l /\ p2[f] = b
      /\ \A c \in S \ {f} : p2[c] = p[c]
  BY <1>1, <1>3
<1>6. f \in R /\ R \subseteq Buffer
  BY <1>1
<1>7. \A c \in R : n2[c] \in R /\ p2[c] \in R /\ p2[n2[c]] = c /\ n2[p2[c]] = c
  <2> SUFFICES ASSUME NEW c \in R
               PROVE  n2[c] \in R /\ p2[c] \in R /\ p2[n2[c]] = c /\ n2[p2[c]] = c
    OBVIOUS
  <2>1. n2[c] \in R /\ p2[n2[c]] = c
    <3>1. CASE c = b
      BY <1>4, <1>5, <1>6, <3>1
    <3>2. CASE c = l
      BY <1>3, <1>4, <1>5, <3>2
    <3>3. CASE c \in S \ {l}
      <4>1. n2[c] = n[c] /\ n[c] \in S /\ n[c] # f
        BY <1>1, <1>3, <1>4, <3>3
      <4>2. QED
        BY <1>1, <1>5, <3>3, <4>1
    <3>4. QED
      BY <3>1, <3>2, <3>3
  <2>2. p2[c] \in R /\ n2[p2[c]] = c
    <3>1. CASE c = b
      BY <1>3, <1>4, <1>5, <3>1
    <3>2. CASE c = f
      BY <1>3, <1>4, <1>5, <3>2
    <3>3. CASE c \in S \ {f}
      <4>0. p[c] \in S /\ n[p[c]] = c /\ c # f
        BY <1>1, <3>3
      <4>1. p2[c] = p[c] /\ p[c] \in S /\ p[c] # l
        BY <1>3, <1>5, <3>3, <4>0
      <4>2. QED
        BY <1>1, <1>4, <3>3, <4>1
    <3>4. QED
      BY <3>1, <3>2, <3>3
  <2>3. QED
    BY <2>1, <2>2
<1>8. ASSUME NEW C \in SUBSET R, C # {}, \A c \in C : n2[c] \in C
      PROVE  C = R
  <2> DEFINE D == C \ {b}
  <2>1. D \in SUBSET S
    OBVIOUS
  <2>2. D # {}
    <3>1. CASE b \in C
      BY <1>3, <1>4, <1>8, <3>1
    <3>2. CASE b \notin C
      BY <1>8, <3>2
    <3>3. QED
      BY <3>1, <3>2
  <2>3. \A c \in D : n[c] \in D
    <3> SUFFICES ASSUME NEW c \in D PROVE n[c] \in D
      OBVIOUS
    <3>1. CASE c = l
      BY <1>3, <1>4, <1>8, <3>1
    <3>2. CASE c # l
      <4>1. n2[c] = n[c] /\ n[c] \in S /\ n2[c] \in C
        BY <1>1, <1>4, <1>8, <3>2
      <4>2. QED
        BY <4>1
    <3>3. QED
      BY <3>1, <3>2
  <2>4. D = S
    BY ONLY <1>2, <2>1, <2>2, <2>3
  <2>5. b \in C
    <3>1. l \in C
      BY <1>3, <2>4
    <3>2. QED
      BY <1>4, <1>8, <3>1
  <2>6. QED
    BY <2>4, <2>5
<1>9. QED
  BY ONLY <1>4, <1>5, <1>6, <1>7, <1>8 DEF OneRing

LEMMA LeastNatural ==
  ASSUME NEW S \in SUBSET Nat, S # {}
  PROVE  \E m \in S : \A j \in S : m <= j
<1>1. PICK m \in S : \A j \in S : ~ (<<j, m>> \in OpToRel(<, Nat))
  BY NatLessThanWellFounded, WFMin
<1>2. \A j \in S : ~ (j < m)
  BY <1>1 DEF OpToRel
<1>3. QED
  BY <1>2

\* g is nth of FreeListIsRing: n steps from f.
IsWalk(g, N, next, f) == g = [n \in 0..N |-> IF n = 0 THEN f ELSE next[g[n - 1]]]

LEMMA WalkExists ==
  ASSUME NEW next, NEW f, NEW N \in Nat
  PROVE  \E g : IsWalk(g, N, next, f)
<1> DEFINE S == {n \in Nat : ~ \E g : IsWalk(g, n, next, f)}
<1> SUFFICES ASSUME S # {}
             PROVE  FALSE
  OBVIOUS
<1>1. S \in SUBSET Nat
  OBVIOUS
<1> HIDE DEF S
<1>2. PICK n \in S : \A m \in S : n <= m
  BY <1>1, LeastNatural
<1> USE DEF S
<1>3. CASE n = 0
  <2>1. IsWalk([m \in 0..0 |-> f], 0, next, f)
    BY DEF IsWalk
  <2>2. QED
    BY <1>2, <1>3, <2>1
<1>4. CASE n # 0
  <2>1. n - 1 \in Nat /\ n \in Nat /\ n - 1 \notin S
    BY <1>2, <1>4
  <2>2. PICK g : IsWalk(g, n - 1, next, f)
    BY <2>1
  <2> DEFINE h == [m \in 0..n |-> IF m = n THEN next[g[n - 1]] ELSE g[m]]
  <2>3. \A m \in 0..n - 1 : g[m] = IF m = 0 THEN f ELSE next[g[m - 1]]
    BY <2>1, <2>2 DEF IsWalk
  <2>4. ASSUME NEW m \in 0..n
        PROVE  h[m] = IF m = 0 THEN f ELSE next[h[m - 1]]
    <3>1. CASE m = n
      <4>1. n - 1 \in 0..n /\ h[n - 1] = g[n - 1] /\ h[n] = next[g[n - 1]]
        BY <1>4, <2>1
      <4>2. QED
        BY <1>4, <3>1, <4>1
    <3>2. CASE m # n /\ m # 0
      <4>1. m \in 0..n - 1 /\ m - 1 \in 0..n /\ m - 1 # n
        BY <2>1, <3>2
      <4>2. h[m] = g[m] /\ h[m - 1] = g[m - 1]
        BY <3>2, <4>1
      <4>3. QED
        BY <2>3, <3>2, <4>1, <4>2
    <3>3. CASE m # n /\ m = 0
      <4>1. m \in 0..n - 1 /\ h[m] = g[m]
        BY <2>1, <3>3
      <4>2. QED
        BY <2>3, <3>3, <4>1
    <3>4. QED
      BY <3>1, <3>2, <3>3
  <2>5. h = [m \in 0..n |-> h[m]]
    OBVIOUS
  <2> HIDE DEF h
  <2>6. IsWalk(h, n, next, f)
    BY <2>4, <2>5 DEF IsWalk
  <2>7. QED
    BY <1>2, <2>6
<1>5. QED
  BY <1>3, <1>4

\* There are NR_BUFFERS + 1 places on the walk, so it comes back to one, and
\* what lies between is closed under next: it is the ring.
LEMMA WalkIsRing ==
  ASSUME NEW S, NEW next, NEW prev, NEW f, OneRing(S, next, prev, f),
         NEW g, IsWalk(g, NR_BUFFERS, next, f)
  PROVE  {g[n] : n \in 0..NR_BUFFERS} = S
<1>1. /\ S \subseteq Buffer /\ f \in S /\ \A b \in S : next[b] \in S
      /\ \A C \in SUBSET S : C # {} /\ (\A b \in C : next[b] \in C) => C = S
  BY DEF OneRing
<1>2. \A n \in 0..NR_BUFFERS : g[n] = IF n = 0 THEN f ELSE next[g[n - 1]]
  BY DEF IsWalk
<1> DEFINE Off == {n \in 0..NR_BUFFERS : g[n] \notin S}
<1>3. Off = {}
  <2> SUFFICES ASSUME Off # {} PROVE FALSE
    OBVIOUS
  <2>1. Off \in SUBSET Nat
    OBVIOUS
  <2> HIDE DEF Off
  <2>2. PICK n \in Off : \A m \in Off : n <= m
    BY <2>1, LeastNatural
  <2> USE DEF Off
  <2>3. n # 0
    BY <1>1, <1>2, <2>2
  <2>4. n - 1 \in 0..NR_BUFFERS /\ n - 1 \notin Off
    BY <2>2, <2>3
  <2>5. g[n] = next[g[n - 1]] /\ g[n - 1] \in S
    BY <1>2, <2>2, <2>3, <2>4
  <2>6. g[n] \in S
    BY <1>1, <2>5
  <2>7. QED
    BY <2>2, <2>6
<1>4. \A n \in 0..NR_BUFFERS : g[n] \in S
  BY <1>3
<1>5. PICK i, j \in 0..NR_BUFFERS : i < j /\ g[i] = g[j]
  <2> DEFINE Turns == 0..NR_BUFFERS
  <2>1. /\ IsFiniteSet(Turns) /\ Cardinality(Turns) = NR_BUFFERS + 1
        /\ IsFiniteSet(1..NR_BUFFERS) /\ Cardinality(1..NR_BUFFERS) = NR_BUFFERS
    BY FS_Interval
  <2>2. g \in [Turns -> 1..NR_BUFFERS]
    BY <1>1, <1>4 DEF IsWalk
  <2>3. Cardinality(1..NR_BUFFERS) < Cardinality(Turns)
    BY <2>1
  <2> HIDE DEF Turns
  <2>4. PICK x, y \in Turns : x # y /\ g[x] = g[y]
    BY <2>1, <2>2, <2>3, FS_PigeonHole
  <2>5. x < y \/ y < x
    BY <2>4 DEF Turns
  <2>6. QED
    BY <2>4, <2>5 DEF Turns
<1> DEFINE C == {g[n] : n \in 0..j - 1}
<1>6. C \in SUBSET S /\ C # {}
  <2>1. 0 \in 0..j - 1 /\ \A n \in 0..j - 1 : n \in 0..NR_BUFFERS
    BY <1>5
  <2>2. QED
    BY <1>4, <2>1
<1>7. \A b \in C : next[b] \in C
  <2> SUFFICES ASSUME NEW n \in 0..j - 1 PROVE next[g[n]] \in C
    OBVIOUS
  <2>1. n + 1 \in 0..NR_BUFFERS /\ n + 1 # 0 /\ (n + 1) - 1 = n
    BY <1>5
  <2>2. g[n + 1] = next[g[n]]
    BY <1>2, <2>1
  <2>3. CASE n + 1 = j
    <3>1. i \in 0..j - 1 /\ next[g[n]] = g[i]
      BY <1>5, <2>2, <2>3
    <3>2. QED
      BY <3>1
  <2>4. CASE n + 1 # j
    <3>1. n + 1 \in 0..j - 1
      BY <2>4
    <3>2. QED
      BY <2>2, <3>1
  <2>5. QED
    BY <2>3, <2>4
<1>8. C = S
  <2> HIDE DEF C
  <2>1. QED
    BY <1>1, <1>6, <1>7
<1>9. \A b \in S : b \in {g[n] : n \in 0..NR_BUFFERS}
  BY <1>5, <1>8
<1>10. QED
  BY <1>4, <1>9

LEMMA RingMeansRing ==
  ASSUME Queued
  PROVE  FreeListIsRing
<1> DEFINE nth == CHOOSE g : IsWalk(g, NR_BUFFERS, next_free, free_list)
<1>1. \E g : IsWalk(g, NR_BUFFERS, next_free, free_list)
  BY WalkExists
<1>2. IsWalk(nth, NR_BUFFERS, next_free, free_list)
  BY <1>1
<1> DEFINE ring == {nth[n] : n \in 0..NR_BUFFERS}
<1>3. FreeListIsRing <=>
        /\ ring = {b \in Buffer : \A t \in Task : ~ Takes(t, b)}
        /\ \A b \in ring : prev_free[next_free[b]] = b
  BY DEF FreeListIsRing, IsWalk
<1> HIDE DEF nth
<1>4. ring = Untaken
  BY <1>2, WalkIsRing DEF Queued
<1>5. QED
  BY <1>3, <1>4 DEF Queued, OneRing, Untaken

-------------------------------------------------------------------------------
(* The steps.                                                              *)

LEMMA QueuedFrame ==
  ASSUME Queued, UNCHANGED <<next_free, prev_free, free_list>>,
         \A u \in Task, b \in Buffer : Takes(u, b)' <=> Takes(u, b)
  PROVE  Queued'
<1>1. Untaken' = Untaken
  BY DEF Untaken
<1>2. QED
  BY <1>1 DEF Queued

Holding == {"sync", "sync_wait", "write_wait", "update"}

\* t goes from a place to another and takes no buffer there.
LEMMA TakesSame ==
  ASSUME Typed, NEW t \in Task, NEW p,
         \/ pc' = [pc EXCEPT ![t] = p]
         \/ pc' = WakeBufferWait([pc EXCEPT ![t] = p]) /\ p # "sleep",
         \A u \in Task \ {t} : goal'[u] = goal[u] /\ tmp'[u] = tmp[u],
         \/ pc[t] \notin Holding /\ p \notin Holding
         \/ pc[t] \in Holding /\ p \in Holding /\ goal'[t] = goal[t] /\ tmp'[t] = tmp[t]
         \/ goal[t] = NoBlock /\ goal'[t] = NoBlock
  PROVE  \A u \in Task, b \in Buffer : Takes(u, b)' <=> Takes(u, b)
<1>1. pc'[t] = p /\ \A u \in Task \ {t} : Woken(pc[u], pc'[u])
  <2>1. CASE pc' = [pc EXCEPT ![t] = p]
    BY <2>1, Places
  <2>2. CASE pc' = WakeBufferWait([pc EXCEPT ![t] = p]) /\ p # "sleep"
    BY <2>2 DEF WakeBufferWait, Woken, Typed
  <2>3. QED
    BY <2>1, <2>2
<1> SUFFICES ASSUME NEW u \in Task, NEW b \in Buffer
             PROVE  Takes(u, b)' <=> Takes(u, b)
  OBVIOUS
<1>2. CASE u = t
  BY <1>1, <1>2 DEF Takes, Holding
<1>3. CASE u # t
  BY <1>1, <1>3 DEF Takes, Woken
<1>4. QED
  BY <1>2, <1>3

LEMMA SearchQueued ==
  ASSUME Inductive, Queued, NEW t \in Task,
         \/ \E k \in Block : bread(t, k)
         \/ getblk_hit(t) \/ hash_waited(t) \/ getblk_miss(t) \/ scan_on(t) \/ getblk_again(t)
  PROVE  Queued'
<1>1. PICK p \in {"getblk", "hash_wait", "got", "scan_wait", "sleep"} :
        /\ pc' = [pc EXCEPT ![t] = p]
        /\ pc[t] \in {"idle", "getblk", "hash_wait", "scan_wait", "woken"}
  <2>1. CASE \E k \in Block : bread(t, k)
    BY <2>1 DEF bread, Goto
  <2>2. CASE getblk_hit(t)
    BY <2>2 DEF getblk_hit, WaitFor, Goto, Sleep, Runs
  <2>3. CASE hash_waited(t)
    <3>1. blk[tmp[t]] = goal[t]
      BY <2>3 DEF Inductive, OneBufferPerBlock, hash_waited, Wakes
    <3>2. QED
      BY <2>3, <3>1 DEF hash_waited, Wakes
  <2>4. CASE getblk_miss(t) \/ scan_on(t)
    BY <2>4 DEF getblk_miss, scan_on, ScanResult, WaitFor, Goto, Sleep, Runs, Wakes
  <2>5. CASE getblk_again(t)
    BY <2>5 DEF getblk_again, Goto
  <2>6. QED
    BY <2>1, <2>2, <2>3, <2>4, <2>5
<1>2. /\ UNCHANGED <<next_free, prev_free, free_list>>
      /\ \A u \in Task \ {t} : goal'[u] = goal[u] /\ tmp'[u] = tmp[u]
  BY DEF bread, getblk_hit, hash_waited, getblk_miss, scan_on, getblk_again, ScanResult,
         queues, local, Inductive, Typed
<1>3. pc[t] \notin Holding /\ p \notin Holding
  BY <1>1 DEF Holding
<1>4. \A u \in Task, b \in Buffer : Takes(u, b)' <=> Takes(u, b)
  BY <1>1, <1>2, <1>3, TakesSame DEF Inductive
<1>5. QED
  BY <1>2, <1>4, QueuedFrame

LEMMA ReadQueued ==
  ASSUME Inductive, Queued, NEW t \in Task,
         \/ got_uptodate(t) \/ got_read(t) \/ read_done(t) \/ read_failed(t)
         \/ Release(t) \/ \E b \in Buffer : modify(t, b)
  PROVE  Queued'
<1>0. pc = [pc EXCEPT ![t] = pc[t]]
  BY DEF Inductive, Typed
<1>1. PICK p \in {"read_wait", "idle"} :
        /\ \/ pc' = [pc EXCEPT ![t] = p]
           \/ pc' = WakeBufferWait([pc EXCEPT ![t] = p])
        /\ pc[t] \in {"got", "read_wait", "idle"}
  <2>1. CASE got_uptodate(t) \/ read_done(t)
    BY <2>1 DEF got_uptodate, read_done, Keep, Leave, Runs, Wakes
  <2>2. CASE got_read(t)
    BY <2>2 DEF got_read, Sleep, Runs
  <2>3. CASE read_failed(t)
    BY <2>3 DEF read_failed, Wakes
  <2>4. CASE Release(t)
    BY <1>0, <2>4 DEF Release, brelse
  <2>5. CASE \E b \in Buffer : modify(t, b)
    BY <1>0, <2>5 DEF modify
  <2>6. QED
    BY <2>1, <2>2, <2>3, <2>4, <2>5
<1>2. /\ UNCHANGED <<next_free, prev_free, free_list>>
      /\ \A u \in Task \ {t} : goal'[u] = goal[u] /\ tmp'[u] = tmp[u]
  <2>1. CASE got_uptodate(t) \/ read_done(t) \/ read_failed(t)
    BY <2>1 DEF got_uptodate, read_done, read_failed, Keep, Forget, queues, Inductive, Typed
  <2>2. CASE got_read(t) \/ Release(t) \/ \E b \in Buffer : modify(t, b)
    BY <2>2 DEF got_read, Release, brelse, modify, queues, local
  <2>3. QED
    BY <2>1, <2>2
<1>3. pc[t] \notin Holding /\ p \notin Holding /\ p # "sleep"
  BY <1>1 DEF Holding
<1>4. \A u \in Task, b \in Buffer : Takes(u, b)' <=> Takes(u, b)
  BY <1>1, <1>2, <1>3, TakesSame DEF Inductive
<1>5. QED
  BY <1>2, <1>4, QueuedFrame

LEMMA SyncQueued ==
  ASSUME Inductive, Queued, NEW t \in Task,
         \/ sync_next(t) \/ sync_clean(t) \/ sync_write(t) \/ sync_written(t) \/ sync_end(t)
         \/ sys_sync(t)
  PROVE  Queued'
<1>0. pc = [pc EXCEPT ![t] = pc[t]] /\ (pc[t] = "idle" => goal[t] = NoBlock)
  BY DEF Inductive, Typed, Placed
<1>1. PICK p \in {"sync", "sync_wait", "write_wait", "update", "idle"} :
        /\ pc' = [pc EXCEPT ![t] = p]
        /\ {pc[t], p} \subseteq Holding \/ goal[t] = NoBlock
  <2>1. CASE sync_next(t)
    BY <1>0, <2>1 DEF sync_next, Runs, WaitFor, Sleep, Goto, Holding
  <2>2. CASE sync_clean(t) \/ sync_written(t)
    BY <2>2 DEF sync_clean, sync_written, Wakes, Goto, Holding
  <2>3. CASE sync_write(t)
    BY <2>3 DEF sync_write, Wakes, Sleep, Holding
  <2>4. CASE sync_end(t)
    BY <2>4 DEF sync_end, Runs, Leave, Goto, Holding
  <2>5. CASE sys_sync(t)
    BY <1>0, <2>5 DEF sys_sync, Goto
  <2>6. QED
    BY <2>1, <2>2, <2>3, <2>4, <2>5
<1>2. UNCHANGED <<next_free, prev_free, free_list, goal, tmp>>
  BY DEF sync_next, sync_clean, sync_write, sync_written, sync_end, sys_sync, queues, local
<1>3. \A u \in Task, b \in Buffer : Takes(u, b)' <=> Takes(u, b)
  BY <1>1, <1>2, TakesSame DEF Inductive
<1>4. QED
  BY <1>2, <1>3, QueuedFrame

\* remove_from_queues: the Pinned buffers stay behind, so the list is not empty.
LEMMA TakeQueued ==
  ASSUME Pinned # {}, Inductive, Inductive', Queued, NEW t \in Task, take(t)
  PROVE  Queued'
<1>1. PICK b \in Buffer : b = tmp[t]
  BY DEF Inductive, Placed, take, Wakes
<1>2. /\ pc[t] = "scan_wait" /\ goal[t] # NoBlock /\ b_count[b] = 0
      /\ next_free' = [next_free EXCEPT ![prev_free[b]] = next_free[b]]
      /\ prev_free' = [prev_free EXCEPT ![next_free[b]] = prev_free[b]]
      /\ free_list' = IF free_list = b THEN next_free[b] ELSE free_list
      /\ UNCHANGED <<goal, tmp>>
  BY <1>1 DEF take, Wakes, remove_from_queues, Inductive, Placed, Searching
<1>3. PICK p \in {"sync", "update"} : pc' = [pc EXCEPT ![t] = p]
  BY DEF take, Goto
<1>4. pc'[t] = p /\ \A u \in Task \ {t} : pc'[u] = pc[u]
  BY <1>3 DEF Inductive, Typed
<1>5. \A u \in Task : ~ Takes(u, b)
  <2>1. Counters(b) = {}
    BY <1>2, ZeroMeansNobody DEF Inductive
  <2>2. QED
    BY <2>1 DEF Counters, Counts
<1>6. \A u \in Task, c \in Buffer : Takes(u, c)' <=> Takes(u, c) \/ (u = t /\ c = b)
  <2> SUFFICES ASSUME NEW u \in Task, NEW c \in Buffer
               PROVE  Takes(u, c)' <=> Takes(u, c) \/ (u = t /\ c = b)
    OBVIOUS
  <2>1. CASE u = t
    BY <1>1, <1>2, <1>3, <1>4, <2>1 DEF Takes
  <2>2. CASE u # t
    BY <1>2, <1>4, <2>2 DEF Takes
  <2>3. QED
    BY <2>1, <2>2
<1>7. b \in Untaken /\ Untaken' = Untaken \ {b}
  BY <1>5, <1>6 DEF Untaken
<1>8. Untaken' # {}
  <2>1. PICK k \in Pinned : TRUE
    OBVIOUS
  <2>2. PICK c \in Buffer : c \in hashed'
    BY <2>1 DEF Inductive, PinnedIn, Typed
  <2>3. Private'
    BY DEF Inductive
  <2>4. ASSUME NEW u \in Task
        PROVE  ~ Takes(u, c)'
    <3>1. Takes(u, c)' => c \notin hashed'
      BY ONLY <2>3, c \in Buffer, u \in Task DEF Private
    <3>2. QED
      BY ONLY <2>2, <3>1
  <2>5. QED
    BY ONLY <2>4, c \in Buffer DEF Untaken
<1>9. OneRing(Untaken', next_free', prev_free', free_list')
  <2>1. Unlinked(b, Untaken, next_free, prev_free, free_list,
                 Untaken', next_free', prev_free', free_list')
    BY ONLY <1>2, <1>7, <1>8 DEF Unlinked
  <2>2. OneRing(Untaken, next_free, prev_free, free_list)
    BY DEF Queued
  <2>3. QED
    BY ONLY <2>1, <2>2, RemoveFromRing
<1>10. QED
  BY <1>9 DEF Queued

\* insert_into_queues, with the block or without.
LEMMA UpdateQueued ==
  ASSUME Inductive, Queued, NEW t \in Task, update(t) \/ update_beaten(t)
  PROVE  Queued'
<1>1. pc[t] = "update" /\ tmp[t] \in Buffer /\ goal[t] # NoBlock
  BY DEF Inductive, Placed, Searching, update, update_beaten, Runs
<1>2. PICK b \in Buffer : b = tmp[t]
  BY <1>1
<1>3. PICK l : l = prev_free[free_list]
  OBVIOUS
<1>4. /\ next_free' = [next_free EXCEPT ![b] = free_list, ![l] = b]
      /\ prev_free' = [prev_free EXCEPT ![b] = l, ![free_list] = b]
      /\ free_list' = free_list /\ goal' = goal
  BY <1>2, <1>3 DEF update, update_beaten, insert_into_queues, local
<1>5. PICK p \in {"got", "getblk"} : pc' = [pc EXCEPT ![t] = p]
  BY DEF update, update_beaten, Goto
<1>6. /\ pc'[t] = p /\ \A u \in Task \ {t} : pc'[u] = pc[u] /\ tmp'[u] = tmp[u]
  BY <1>5 DEF Inductive, Typed, update, update_beaten, local
<1>7. Takes(t, b) /\ \A u \in Task : Takes(u, b) => u = t
  BY <1>1, <1>2 DEF Inductive, Private, Takes
<1>8. \A u \in Task, c \in Buffer : Takes(u, c)' <=> Takes(u, c) /\ ~ (u = t /\ c = b)
  <2> SUFFICES ASSUME NEW u \in Task, NEW c \in Buffer
               PROVE  Takes(u, c)' <=> Takes(u, c) /\ ~ (u = t /\ c = b)
    OBVIOUS
  <2>1. CASE u = t
    BY <1>2, <1>5, <1>6, <2>1 DEF Takes
  <2>2. CASE u # t
    BY <1>4, <1>6, <2>2 DEF Takes
  <2>3. QED
    BY <2>1, <2>2
<1>9. b \notin Untaken /\ Untaken' = Untaken \cup {b}
  BY <1>7, <1>8 DEF Untaken
<1>10. OneRing(Untaken', next_free', prev_free', free_list')
  BY <1>3, <1>4, <1>9, InsertInRing DEF Queued
<1>11. QED
  BY <1>10 DEF Queued

LEMMA InitQueued == Init => Queued
<1> SUFFICES ASSUME Init PROVE Queued
  OBVIOUS
<1>1. /\ next_free = [b \in Buffer |-> IF b = NR_BUFFERS THEN 1 ELSE b + 1]
      /\ prev_free = [b \in Buffer |-> IF b = 1 THEN NR_BUFFERS ELSE b - 1]
      /\ free_list = (Cardinality(Pinned) % NR_BUFFERS) + 1
      /\ pc = [t \in Task |-> "idle"]
  BY DEF Init
<1>2. Untaken = Buffer
  BY <1>1 DEF Untaken, Takes
<1>3. free_list \in Buffer
  <2>1. Cardinality(Pinned) \in Nat
    BY FS_CardinalityType
  <2>2. PICK n \in Nat : n = Cardinality(Pinned)
    BY <2>1
  <2>3. n % NR_BUFFERS \in 0..NR_BUFFERS - 1
    OBVIOUS
  <2>4. QED
    BY <1>1, <2>2, <2>3
<1>4. \A b \in Buffer : /\ next_free[b] \in Buffer /\ prev_free[b] \in Buffer
                        /\ prev_free[next_free[b]] = b /\ next_free[prev_free[b]] = b
  BY <1>1
<1>5. next_free \in [Buffer -> Buffer] /\ prev_free \in [Buffer -> Buffer]
  BY <1>1, <1>4
<1>6. ASSUME NEW C \in SUBSET Buffer, C # {}, \A b \in C : next_free[b] \in C
      PROVE  C = Buffer
  <2>1. C \in SUBSET Nat
    OBVIOUS
  <2>2. NR_BUFFERS \in C
    <3> DEFINE Left == {NR_BUFFERS - b : b \in C}
    <3>0. \A b \in C : NR_BUFFERS - b \in Nat
      OBVIOUS
    <3>1. Left \in SUBSET Nat /\ Left # {}
      BY <1>6, <3>0
    <3> HIDE DEF Left
    <3>2. PICK m \in Left : \A k \in Left : m <= k
      BY <3>1, LeastNatural
    <3> USE DEF Left
    <3>3. PICK b \in C : m = NR_BUFFERS - b
      BY <3>2
    <3>4. CASE b # NR_BUFFERS
      <4>1. b + 1 \in C
        BY <1>1, <1>6, <3>4
      <4>2. NR_BUFFERS - (b + 1) \in Left
        BY <4>1
      <4>3. m <= NR_BUFFERS - (b + 1)
        BY <3>2, <4>2
      <4>4. QED
        BY <3>3, <4>3
    <3>5. QED
      BY <3>4
  <2>3. 1 \in C
    BY <1>1, <1>6, <2>2
  <2>4. Buffer \ C = {}
    <3> SUFFICES ASSUME Buffer \ C # {} PROVE FALSE
      OBVIOUS
    <3>1. PICK b \in Buffer \ C : \A c \in Buffer \ C : b <= c
      <4>1. Buffer \ C \in SUBSET Nat
        OBVIOUS
      <4>2. QED
        BY <4>1, LeastNatural
    <3>2. b - 1 \in C
      BY <2>3, <3>1
    <3>3. next_free[b - 1] = b
      BY <1>1, <3>1, <3>2
    <3>4. QED
      BY <1>6, <3>1, <3>2, <3>3
  <2>5. QED
    BY <2>4
<1>7. QED
  BY <1>2, <1>3, <1>4, <1>5, <1>6 DEF Queued, OneRing

LEMMA NextQueued ==
  ASSUME Pinned # {}, Inductive, Inductive', Queued, [Next]_vars
  PROVE  Queued'
<1>1. ASSUME NEW t \in Task, Proceed(t)
      PROVE  Queued'
  BY <1>1, SearchQueued, ReadQueued, SyncQueued, TakeQueued, UpdateQueued DEF Proceed
<1>2. ASSUME NEW t \in Task, NEW k \in Block, bread(t, k)
      PROVE  Queued'
  BY <1>2, SearchQueued
<1>3. ASSUME NEW t \in Task, sys_sync(t)
      PROVE  Queued'
  BY <1>3, SyncQueued
<1>4. ASSUME NEW t \in Task, NEW b \in Buffer, modify(t, b)
      PROVE  Queued'
  BY <1>4, ReadQueued
<1>5. ASSUME NEW t \in Task, Release(t)
      PROVE  Queued'
  BY <1>5, ReadQueued
<1>6. ASSUME NEW b \in Buffer, write_start(b) \/ end_request(b) \/ io_error(b)
      PROVE  Queued'
  BY <1>6, QueuedFrame DEF write_start, end_request, io_error, queues, local, Takes
<1>7. CASE UNCHANGED vars
  BY <1>7, QueuedFrame DEF vars, queues, local, Takes
<1>8. QED
  BY <1>1, <1>2, <1>3, <1>4, <1>5, <1>6, <1>7 DEF Next

\* remove_from_queues and insert_into_queues keep the free list one ring of all
\* the buffers that getblk has not taken, in whatever order tasks take, fill
\* and give back (buffer.c:71-104). It must not run empty, because free_list
\* would be left on a taken buffer: mount_root keeps the bitmaps, one of each
\* kind at least (super.c:41-60), so it does not.
THEOREM FreeListIsAlwaysRing ==
  ASSUME Pinned # {}
  PROVE  Spec => []FreeListIsRing
<1>1. Queued => FreeListIsRing
  BY RingMeansRing
<1>2. Inductive /\ Inductive' /\ Queued /\ [Next]_vars => Queued'
  BY NextQueued
<1>3. QED
  BY <1>1, <1>2, InitInductive, NextInductive, InitQueued, PTL DEF Spec

-------------------------------------------------------------------------------
(* What was written is not lost. *)

\* A buffer that is marked dirty has the last version of its block; a read is
\* on its way only for a buffer without contents, and a write for a dirty one,
\* with its block.
Fresh(b) ==
  /\ b_dirt[b] => /\ blk[b] \in Block /\ b_uptodate[b]
                  /\ data[b] = MaxVersion /\ latest[blk[b]] = MaxVersion
  /\ io[b].op = "read" => ~ b_uptodate[b] /\ io[b].blk \in Block
  /\ io[b].op \in {"write", "writing"} => b_dirt[b] /\ io[b].blk = blk[b]
  /\ io[b].op = "writing" => disk[blk[b]] = latest[blk[b]]

OnItsWay(k) == disk[k] = latest[k] \/ \E b \in Buffer : blk[b] = k /\ b_dirt[b]

\* What may be modified is up to date.
Readable == /\ \A t \in Task : \A b \in held[t] : b_uptodate[b]
            /\ \A b \in hashed : blk[b] \in Pinned => b_uptodate[b]

Kept ==
  /\ b_uptodate \in [Buffer -> BOOLEAN]
  /\ io \in [Buffer -> [op : {"none", "read", "write", "writing"},
                        blk : Block \cup {NoBlock}]]
  /\ data \in [Buffer -> 0..MaxVersion]
  /\ disk \in [Block -> 0..MaxVersion]
  /\ latest \in [Block -> 0..MaxVersion]
  /\ \A b \in Buffer : Fresh(b)
  /\ \A k \in Block : OnItsWay(k)
  /\ Readable

\* Steps that leave the buffers and the disk alone.
LEMMA QuietKept ==
  ASSUME Inductive, Kept, UNCHANGED <<blk, flags, io, content>>,
         hashed' \subseteq hashed,
         \A t \in Task : \A b \in held'[t] : b \in held[t] \/ b_uptodate[b]
  PROVE  Kept'
<1>1. \A b \in Buffer : Fresh(b)'
  BY DEF Kept, Fresh, flags, content
<1>2. \A k \in Block : OnItsWay(k)'
  BY DEF Kept, OnItsWay, flags, content
<1>3. Readable'
  BY DEF Kept, Readable, flags
<1>4. QED
  BY <1>1, <1>2, <1>3 DEF Kept, flags, content

\* A task that keeps its buffer has found it up to date; takers, and those who
\* release, only make the cache and their hands emptier.
LEMMA TaskKept ==
  ASSUME Inductive, Kept, NEW t \in Task,
         \/ \E k \in Block : bread(t, k)
         \/ getblk_hit(t) \/ hash_waited(t) \/ getblk_miss(t) \/ scan_on(t)
         \/ getblk_again(t) \/ take(t)
         \/ got_uptodate(t) \/ read_done(t) \/ read_failed(t)
         \/ sync_next(t) \/ sync_clean(t) \/ sync_written(t) \/ sync_end(t)
         \/ sys_sync(t) \/ Release(t)
  PROVE  Kept'
<1>1. /\ UNCHANGED <<blk, flags, io, content>> /\ hashed' \subseteq hashed
      /\ \/ UNCHANGED held
         \/ b_uptodate[tmp[t]] /\ held' = [held EXCEPT ![t] = @ \cup {tmp[t]}]
         \/ \E b \in Buffer : held' = [held EXCEPT ![t] = @ \ {b}]
  <2>1. CASE \/ \E k \in Block : bread(t, k)
             \/ getblk_hit(t) \/ hash_waited(t) \/ getblk_miss(t) \/ scan_on(t)
             \/ getblk_again(t)
    BY <2>1 DEF bread, getblk_hit, hash_waited, getblk_miss, scan_on, getblk_again, lock, queues
  <2>2. CASE take(t)
    BY <2>2 DEF take, remove_from_queues, lock
  <2>3. CASE got_uptodate(t) \/ read_done(t) \/ read_failed(t)
    BY <2>3 DEF got_uptodate, read_done, read_failed, Keep, lock, queues
  <2>4. CASE sync_next(t) \/ sync_clean(t) \/ sync_written(t) \/ sync_end(t) \/ sys_sync(t)
    BY <2>4 DEF sync_next, sync_clean, sync_written, sync_end, sys_sync, lock, queues
  <2>5. CASE Release(t)
    BY <2>5 DEF Release, brelse, lock, queues
  <2>6. QED
    BY <2>1, <2>2, <2>3, <2>4, <2>5
<1>2. held \in [Task -> SUBSET Buffer]
  BY DEF Inductive, Typed
<1>3. \A u \in Task : \A b \in held'[u] : b \in held[u] \/ b_uptodate[b]
  <2>1. CASE UNCHANGED held
    BY <2>1
  <2>2. CASE b_uptodate[tmp[t]] /\ held' = [held EXCEPT ![t] = @ \cup {tmp[t]}]
    BY <1>2, <2>2
  <2>3. CASE \E b \in Buffer : held' = [held EXCEPT ![t] = @ \ {b}]
    BY <1>2, <2>3
  <2>4. QED
    BY <1>1, <2>1, <2>2, <2>3
<1>4. QED
  BY <1>1, <1>3, QuietKept

\* A request is made for a buffer that has no contents, or for a dirty one.
LEMMA RequestKept ==
  ASSUME Inductive, Settled, Kept, ~ failed, NEW t \in Task, got_read(t) \/ sync_write(t)
  PROVE  Kept'
<1>1. PICK b, rw :
        /\ io' = [io EXCEPT ![b] = [op |-> rw, blk |-> blk[b]]]
        /\ \/ rw = "read" /\ b = tmp[t] /\ pc[t] = "got" /\ ~ b_uptodate[b]
           \/ rw = "write" /\ b = index[t] /\ b_dirt[b]
  BY DEF got_read, sync_write, rw_hd, Runs, Wakes
<1>2. UNCHANGED <<blk, flags, hashed, held, content>>
  BY DEF got_read, sync_write, queues
<1>3. CASE b \notin Buffer
  <2>1. UNCHANGED io
    BY <1>1, <1>3 DEF Kept
  <2>2. QED
    BY <1>2, <2>1, QuietKept
<1>4. CASE b \in Buffer
  <2>1. blk[b] \in Block
    <3>1. CASE rw = "read"
      BY <1>1, <1>4, <3>1 DEF Inductive, Typed, Placed, OneBufferPerBlock, Reading
    <3>2. CASE rw = "write"
      BY <1>1, <1>4, <3>2 DEF Kept, Fresh
    <3>3. QED
      BY <1>1, <3>1, <3>2
  <2>2. PICK q : q = [op |-> rw, blk |-> blk[b]]
    OBVIOUS
  <2>3. /\ q \in [op : {"none", "read", "write", "writing"}, blk : Block \cup {NoBlock}]
        /\ q.op = rw /\ q.blk = blk[b]
    BY <1>1, <2>1, <2>2
  <2>4. /\ io' \in [Buffer -> [op : {"none", "read", "write", "writing"},
                               blk : Block \cup {NoBlock}]]
        /\ io'[b] = q /\ \A c \in Buffer \ {b} : io'[c] = io[c]
    BY <1>1, <1>4, <2>2, <2>3 DEF Kept
  <2>5. ASSUME NEW c \in Buffer
        PROVE  Fresh(c)'
    <3>1. Fresh(c)
      BY DEF Kept
    <3>2. CASE c = b
      BY <1>1, <1>2, <2>1, <2>3, <2>4, <3>1, <3>2 DEF Fresh, flags, content
    <3>3. CASE c # b
      BY <1>2, <2>4, <3>1, <3>3 DEF Fresh, flags, content
    <3>4. QED
      BY <3>2, <3>3
  <2>6. (\A k \in Block : OnItsWay(k)') /\ Readable'
    BY <1>2 DEF Kept, OnItsWay, Readable, flags, content
  <2>7. QED
    BY <1>2, <2>4, <2>5, <2>6 DEF Kept, flags, content
<1>5. QED
  BY <1>3, <1>4

\* The buffer that changes its block is clean, nobody holds it, and the block
\* it gets is not a Pinned one.
LEMMA UpdateKept ==
  ASSUME Inductive, Settled, Kept, ~ failed, NEW t \in Task, update(t) \/ update_beaten(t)
  PROVE  Kept'
<1>1. pc[t] = "update" /\ tmp[t] \in Buffer /\ goal[t] \in Block /\ Takes(t, tmp[t])
  BY DEF update, update_beaten, Runs, Inductive, Typed, Placed, Searching, Takes
<1>2. PICK b \in Buffer : b = tmp[t]
  BY <1>1
<1>3. ~ b_dirt[b] /\ b \notin hashed /\ \A u \in Task : b \notin held[u]
  BY <1>1, <1>2, TakenQuiet DEF Quiet, Inductive, Private, OneBufferPerBlock
<1>4. /\ b_dirt' = [b_dirt EXCEPT ![b] = FALSE] /\ b_uptodate' = [b_uptodate EXCEPT ![b] = FALSE]
      /\ UNCHANGED <<io, data, disk, latest, held>>
  BY <1>2 DEF update, update_beaten, content, lock
<1>5. PICK k \in Block \cup {NoBlock} :
        /\ blk' = [blk EXCEPT ![b] = k]
        /\ \/ hashed' = hashed
           \/ hashed' = hashed \cup {b} /\ k \notin Pinned
  <2>1. CASE update(t)
    <3>1. goal[t] \notin Pinned
      <4>1. \A c \in hashed : blk[c] # goal[t]
        BY <2>1, FoundBuffer DEF update, Inductive, Typed
      <4>2. QED
        BY <4>1 DEF Inductive, PinnedIn
    <3>2. QED
      BY <1>1, <1>2, <2>1, <3>1 DEF update, insert_into_queues
  <2>2. CASE update_beaten(t)
    BY <1>2, <2>2 DEF update_beaten, insert_into_queues
  <2>3. QED
    BY <2>1, <2>2
<1>6. /\ b_dirt' \in [Buffer -> BOOLEAN] /\ b_uptodate' \in [Buffer -> BOOLEAN]
      /\ ~ b_dirt'[b] /\ ~ b_uptodate'[b]
      /\ \A c \in Buffer \ {b} : /\ b_dirt'[c] = b_dirt[c] /\ b_uptodate'[c] = b_uptodate[c]
                                 /\ blk'[c] = blk[c]
      /\ blk'[b] = k
  BY <1>4, <1>5 DEF Settled, Kept, Inductive, Typed
<1>7. ASSUME NEW c \in Buffer
      PROVE  Fresh(c)'
  <2>1. Fresh(c)
    BY DEF Kept
  <2>2. CASE c = b
    BY <1>3, <1>4, <1>6, <2>1, <2>2 DEF Fresh
  <2>3. CASE c # b
    BY <1>4, <1>6, <2>1, <2>3 DEF Fresh
  <2>4. QED
    BY <2>2, <2>3
<1>8. ASSUME NEW j \in Block
      PROVE  OnItsWay(j)'
  <2>1. CASE disk[j] = latest[j]
    BY <1>4, <2>1 DEF OnItsWay
  <2>2. CASE \E c \in Buffer : blk[c] = j /\ b_dirt[c]
    <3>1. PICK c \in Buffer \ {b} : blk[c] = j /\ b_dirt[c]
      BY <1>3, <2>2
    <3>2. QED
      BY <1>6, <3>1 DEF OnItsWay
  <2>3. QED
    BY <2>1, <2>2 DEF Kept, OnItsWay
<1>9. Readable'
  <2>1. \A u \in Task : held[u] \subseteq Buffer
    BY DEF Inductive, Typed
  <2>2. \A c \in hashed' : c = b \/ c \in hashed
    BY <1>5
  <2>3. hashed \subseteq Buffer
    BY DEF Inductive, Typed
  <2>4. b \in hashed' => k \notin Pinned
    BY <1>3, <1>5
  <2>5. \A u \in Task : \A c \in held'[u] : b_uptodate'[c]
    BY <1>3, <1>4, <1>6, <2>1 DEF Kept, Readable
  <2>6. ASSUME NEW c \in hashed', blk'[c] \in Pinned
        PROVE  b_uptodate'[c]
    <3>1. c \in hashed /\ c \in Buffer \ {b}
      BY <1>3, <1>6, <2>2, <2>3, <2>4, <2>6
    <3>2. QED
      BY <1>6, <2>6, <3>1 DEF Kept, Readable
  <2>7. QED
    BY <2>5, <2>6 DEF Readable
<1>10. QED
  BY <1>4, <1>6, <1>7, <1>8, <1>9 DEF Kept

\* A block is written to once: no other buffer of it is dirty yet, and no
\* request for one is on its way.
LEMMA ModifyKept ==
  ASSUME MaxVersion <= 1, Inductive, Settled, Kept, NEW t \in Task, NEW b \in Buffer,
         modify(t, b)
  PROVE  Kept'
<1>1. PICK k : k = blk[b]
  OBVIOUS
<1>2. k \in Block /\ (MaxVersion > 0 => latest[k] < MaxVersion)
  BY <1>1 DEF modify
<1>3. b_uptodate[b]
  BY DEF modify, Kept, Readable
<1>4. latest[k] \in 0..MaxVersion /\ MaxVersion \in 0..1
  BY <1>2 DEF Kept
<1>5. PICK v : v = IF MaxVersion = 0 THEN 0 ELSE latest[k] + 1
  OBVIOUS
<1>6. v = MaxVersion
  BY <1>2, <1>4, <1>5
<1>7. /\ data' = [data EXCEPT ![b] = v] /\ latest' = [latest EXCEPT ![k] = v]
      /\ b_dirt' = [b_dirt EXCEPT ![b] = TRUE]
      /\ UNCHANGED <<blk, b_uptodate, hashed, disk, io, held>>
  BY <1>1, <1>5 DEF modify, queues, lock
<1>8. /\ data' \in [Buffer -> 0..MaxVersion] /\ latest' \in [Block -> 0..MaxVersion]
      /\ b_dirt' \in [Buffer -> BOOLEAN]
      /\ data'[b] = MaxVersion /\ latest'[k] = MaxVersion /\ b_dirt'[b]
      /\ \A c \in Buffer \ {b} : data'[c] = data[c] /\ b_dirt'[c] = b_dirt[c]
      /\ \A j \in Block \ {k} : latest'[j] = latest[j]
  BY <1>2, <1>6, <1>7 DEF Kept, Settled
<1>9. latest[k] = MaxVersion => latest'[k] = latest[k]
  BY <1>8
<1>10. ASSUME NEW c \in Buffer
       PROVE  Fresh(c)'
  <2>1. Fresh(c) /\ b_dirt[c] \in BOOLEAN
    BY DEF Kept, Settled
  <2>2. /\ b_dirt'[c] => /\ blk'[c] \in Block /\ b_uptodate'[c]
                         /\ data'[c] = MaxVersion /\ latest'[blk'[c]] = MaxVersion
    <3>1. CASE c = b
      BY <1>1, <1>2, <1>3, <1>7, <1>8, <3>1
    <3>2. CASE c # b
      BY <1>7, <1>8, <1>9, <2>1, <3>2 DEF Fresh
    <3>3. QED
      BY <3>1, <3>2
  <2>3. io'[c].op = "read" => ~ b_uptodate'[c] /\ io'[c].blk \in Block
    BY <1>7, <2>1 DEF Fresh
  <2>4. io'[c].op \in {"write", "writing"} => b_dirt'[c] /\ io'[c].blk = blk'[c]
    BY <1>7, <1>8, <2>1 DEF Fresh
  <2>5. io'[c].op = "writing" => disk'[blk'[c]] = latest'[blk'[c]]
    BY <1>7, <1>8, <1>9, <2>1 DEF Fresh
  <2>6. QED
    BY <2>2, <2>3, <2>4, <2>5 DEF Fresh
<1>11. ASSUME NEW j \in Block
       PROVE  OnItsWay(j)'
  <2>1. CASE j = k
    BY <1>1, <1>7, <1>8, <2>1 DEF OnItsWay
  <2>2. CASE j # k
    <3>1. CASE disk[j] = latest[j]
      BY <1>7, <1>8, <2>2, <3>1 DEF OnItsWay
    <3>2. CASE \E c \in Buffer : blk[c] = j /\ b_dirt[c]
      BY <1>7, <1>8, <3>2 DEF OnItsWay
    <3>3. QED
      BY <3>1, <3>2 DEF Kept, OnItsWay
  <2>3. QED
    BY <2>1, <2>2
<1>12. Readable'
  BY <1>7 DEF Kept, Readable
<1>13. QED
  BY <1>7, <1>8, <1>10, <1>11, <1>12 DEF Kept

\* The data that goes to the disk is the last version of the block.
LEMMA WriteKept ==
  ASSUME Inductive, Settled, Kept, NEW b \in Buffer, write_start(b)
  PROVE  Kept'
<1>1. PICK k : k = blk[b]
  OBVIOUS
<1>2. /\ io[b].blk = k /\ k \in Block /\ b_dirt[b]
      /\ data[b] = MaxVersion /\ latest[k] = MaxVersion
  BY <1>1 DEF write_start, Kept, Fresh
<1>3. /\ disk' = [disk EXCEPT ![k] = MaxVersion]
      /\ io' = [io EXCEPT ![b].op = "writing"]
      /\ UNCHANGED <<blk, flags, hashed, data, latest, held>>
  BY <1>2 DEF write_start, queues
<1>4. /\ disk' \in [Block -> 0..MaxVersion] /\ disk'[k] = latest[k]
      /\ \A j \in Block \ {k} : disk'[j] = disk[j]
  BY <1>2, <1>3 DEF Kept
<1>5. PICK p : p = io[b]
  OBVIOUS
<1>6. p \in [op : {"none", "read", "write", "writing"}, blk : Block \cup {NoBlock}]
  BY <1>5 DEF Kept
<1>7. PICK q : q = [p EXCEPT !.op = "writing"]
  OBVIOUS
<1>8. /\ q \in [op : {"none", "read", "write", "writing"}, blk : Block \cup {NoBlock}]
      /\ q.op = "writing" /\ q.blk = p.blk
  BY <1>6, <1>7
<1>9. io' = [io EXCEPT ![b] = q]
  BY <1>3, <1>5, <1>7
<1>10. /\ io' \in [Buffer -> [op : {"none", "read", "write", "writing"},
                              blk : Block \cup {NoBlock}]]
       /\ io'[b] = q /\ \A c \in Buffer \ {b} : io'[c] = io[c]
  BY <1>8, <1>9 DEF Kept
<1>11. ASSUME NEW c \in Buffer
       PROVE  Fresh(c)'
  <2>1. Fresh(c) /\ UNCHANGED <<blk, b_dirt, b_uptodate, data, latest>>
    BY <1>3 DEF Kept, flags
  <2>2. CASE c = b
    BY <1>1, <1>2, <1>4, <1>5, <1>8, <1>10, <2>1, <2>2 DEF Fresh
  <2>3. CASE c # b
    <3>1. io[c].op = "writing" => blk[c] \in Block
      BY <2>1 DEF Fresh
    <3>2. io'[c] = io[c]
      BY <1>10, <2>3
    <3>3. io[c].op = "writing" => disk'[blk[c]] = latest[blk[c]]
      BY <1>4, <2>1, <3>1 DEF Fresh
    <3>4. QED
      BY <2>1, <3>2, <3>3 DEF Fresh
  <2>4. QED
    BY <2>2, <2>3
<1>12. ASSUME NEW j \in Block
       PROVE  OnItsWay(j)'
  BY <1>3, <1>4 DEF Kept, OnItsWay, flags
<1>13. Readable'
  BY <1>3 DEF Kept, Readable, flags
<1>14. QED
  BY <1>3, <1>4, <1>10, <1>11, <1>12, <1>13 DEF Kept, flags

\* The interrupt marks a buffer clean whose contents are on the disk, or were
\* read from there.
LEMMA EndKept ==
  ASSUME Inductive, Settled, Kept, NEW b \in Buffer, end_request(b)
  PROVE  Kept'
<1>1. /\ b_uptodate' = [b_uptodate EXCEPT ![b] = TRUE]
      /\ b_dirt' = [b_dirt EXCEPT ![b] = FALSE]
      /\ io' = [io EXCEPT ![b] = NoIo]
      /\ UNCHANGED <<blk, hashed, disk, latest, held>>
  BY DEF end_request, queues
<1>2. io[b].op \in {"read", "writing"} /\ (io[b].op = "read" => io[b].blk \in Block)
  BY DEF end_request, Kept, Fresh
<1>3. /\ data' \in [Buffer -> 0..MaxVersion]
      /\ \A c \in Buffer \ {b} : data'[c] = data[c]
  BY <1>2 DEF end_request, Kept
<1>4. /\ NoIo \in [op : {"none", "read", "write", "writing"}, blk : Block \cup {NoBlock}]
      /\ NoIo.op = "none"
  BY DEF NoIo
<1>5. /\ io' \in [Buffer -> [op : {"none", "read", "write", "writing"},
                             blk : Block \cup {NoBlock}]]
      /\ io'[b] = NoIo /\ \A c \in Buffer \ {b} : io'[c] = io[c]
  BY <1>1, <1>4 DEF Kept
<1>6. /\ b_uptodate' \in [Buffer -> BOOLEAN] /\ b_uptodate'[b]
      /\ b_dirt' \in [Buffer -> BOOLEAN] /\ ~ b_dirt'[b]
      /\ \A c \in Buffer \ {b} : b_uptodate'[c] = b_uptodate[c] /\ b_dirt'[c] = b_dirt[c]
  BY <1>1 DEF Kept, Settled
<1>7. ASSUME NEW c \in Buffer
      PROVE  Fresh(c)'
  <2>1. Fresh(c)
    BY DEF Kept
  <2>2. CASE c = b
    BY <1>4, <1>5, <1>6, <2>2 DEF Fresh
  <2>3. CASE c # b
    BY <1>1, <1>3, <1>5, <1>6, <2>1, <2>3 DEF Fresh
  <2>4. QED
    BY <2>2, <2>3
<1>8. b_dirt[b] => disk[blk[b]] = latest[blk[b]]
  BY <1>2 DEF Kept, Fresh
<1>9. ASSUME NEW j \in Block
      PROVE  OnItsWay(j)'
  BY <1>1, <1>6, <1>8 DEF Kept, OnItsWay
<1>10. Readable'
  <2>1. hashed \subseteq Buffer /\ \A u \in Task : held[u] \subseteq Buffer
    BY DEF Inductive, Typed
  <2>2. \A c \in Buffer : b_uptodate[c] => b_uptodate'[c]
    BY <1>6
  <2>3. QED
    BY <1>1, <2>1, <2>2 DEF Kept, Readable
<1>11. QED
  BY <1>1, <1>3, <1>5, <1>6, <1>7, <1>9, <1>10 DEF Kept

LEMMA InitKept == Init => Kept
<1> SUFFICES ASSUME Init PROVE Kept
  OBVIOUS
<1>1. /\ b_dirt = [b \in Buffer |-> FALSE] /\ io = [b \in Buffer |-> NoIo]
      /\ data = [b \in Buffer |-> 0] /\ disk = [k \in Block |-> 0]
      /\ latest = [k \in Block |-> 0] /\ held = [t \in Task |-> {}]
  BY DEF Init
<1>2. /\ b_uptodate \in [Buffer -> BOOLEAN]
      /\ hashed \subseteq Buffer /\ \A b \in hashed : b_uptodate[b]
  <2>1. hashed \subseteq Buffer
    BY InitInductive DEF Inductive, Typed
  <2> DEFINE pin == CHOOSE f \in Bijection(1..Cardinality(Pinned), Pinned) : TRUE
  <2>2. hashed = DOMAIN pin
    BY DEF Init
  <2>3. b_uptodate = [b \in Buffer |-> b \in DOMAIN pin]
    BY DEF Init
  <2> HIDE DEF pin
  <2>4. b_uptodate \in [Buffer -> BOOLEAN]
    <3>1. \A b \in Buffer : (b \in DOMAIN pin) \in BOOLEAN
      OBVIOUS
    <3>2. [b \in Buffer |-> b \in DOMAIN pin] \in [Buffer -> BOOLEAN]
      BY <3>1, Zenon
    <3>3. QED
      BY <2>3, <3>2, Zenon
  <2>5. \A b \in hashed : b_uptodate[b]
    BY <2>1, <2>2, <2>3, Zenon
  <2>6. QED
    BY <2>1, <2>4, <2>5
<1>3. \A b \in Buffer : Fresh(b)
  BY <1>1 DEF Fresh, NoIo
<1>4. /\ io \in [Buffer -> [op : {"none", "read", "write", "writing"},
                           blk : Block \cup {NoBlock}]]
      /\ data \in [Buffer -> 0..MaxVersion] /\ disk \in [Block -> 0..MaxVersion]
      /\ latest \in [Block -> 0..MaxVersion]
  BY <1>1 DEF NoIo
<1>5. (\A k \in Block : OnItsWay(k)) /\ Readable
  BY <1>1, <1>2 DEF OnItsWay, Readable
<1>6. QED
  BY <1>2, <1>3, <1>4, <1>5 DEF Kept

LEMMA NextKept ==
  ASSUME MaxVersion <= 1, Inductive, Settled, ~ failed => Kept, [Next]_vars, ~ failed'
  PROVE  Kept'
<1>0. CASE \E b \in Buffer : io_error(b)
  BY <1>0 DEF io_error
<1>1. ASSUME NEW t \in Task, Proceed(t), UNCHANGED failed
      PROVE  Kept'
  BY <1>1, TaskKept, RequestKept, UpdateKept DEF Proceed
<1>2. ASSUME NEW t \in Task, UNCHANGED failed,
             (\E k \in Block : bread(t, k)) \/ sys_sync(t) \/ Release(t)
      PROVE  Kept'
  BY <1>2, TaskKept
<1>3. ASSUME NEW t \in Task, NEW b \in Buffer, modify(t, b), UNCHANGED failed
      PROVE  Kept'
  BY <1>3, ModifyKept
<1>4. ASSUME NEW b \in Buffer, write_start(b) \/ end_request(b), UNCHANGED failed
      PROVE  Kept'
  BY <1>4, WriteKept, EndKept
<1>5. CASE UNCHANGED vars
  BY <1>5, QuietKept DEF vars, flags, lock, content, queues
<1>6. QED
  BY <1>0, <1>1, <1>2, <1>3, <1>4, <1>5 DEF Next

\* What a task has written to a block is on the disk or in the block's dirty
\* buffer, whoever reuses, reads or syncs buffers in the meantime
\* (buffer.c:175-180, hd.c:277-303), as long as the disk does not fail and the
\* block is written to once: a second time may fall between the copy to the
\* controller and the interrupt that marks the buffer clean.
THEOREM NothingIsLost ==
  ASSUME MaxVersion <= 1
  PROVE  Spec => []NothingLost
<1>1. (~ failed => Kept) => NothingLost
  <2> SUFFICES ASSUME ~ failed, Kept, NEW k \in Block
               PROVE  \/ disk[k] = latest[k]
                      \/ \E b \in Buffer : blk[b] = k /\ data[b] = latest[k] /\ b_dirt[b]
    BY DEF NothingLost
  <2>1. \A b \in Buffer : b_dirt[b] => data[b] = latest[blk[b]]
    BY DEF Kept, Fresh
  <2>2. QED
    BY <2>1 DEF Kept, OnItsWay
<1>2. Inductive /\ Settled /\ (~ failed => Kept) /\ [Next]_vars => (~ failed => Kept)'
  BY NextKept
<1>3. QED
  BY <1>1, <1>2, InitInductive, NextInductive, InitSettled, NextSettled, InitKept, PTL DEF Spec
==============================================================================
