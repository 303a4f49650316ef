------------------------------ MODULE BufferCache ----------------------------
(***************************************************************************)
(* The buffer cache, fs/buffer.c: getblk, bread, brelse, sync_dev and      *)
(* sys_sync, the free list with its pointers, the flags of a buffer, and   *)
(* the disk (HardDisk.tla in detail) as something that carries out the     *)
(* request each locked buffer has, in any order, and sets the flags from   *)
(* an interrupt.                                                           *)
(*                                                                         *)
(* cpu is the task in the middle of kernel code.  It keeps the processor   *)
(* until it waits for a locked buffer or sleeps on buffer_wait; interrupts *)
(* come at any time.  Waiting for a buffer is a guard on its lock          *)
(* (SleepQueueWaitSet.tla: the wake-up reaches all the sleepers).  There   *)
(* is one device; a block stands for (b_dev, b_blocknr) and NoBlock for    *)
(* b_dev = 0.  Hash collisions are left out: hashed is the set of buffers  *)
(* on the hash queues.  Data is a version number per block.                *)
(***************************************************************************)
EXTENDS Integers, FiniteSets, Functions

CONSTANTS
  Task, NoTask,
  NR_BUFFERS,
  Block,
  Pinned,       \* blocks whose buffers are never released: the bitmaps
  Written,      \* blocks that tasks write to
  MaxHold,      \* buffers a task holds at once
  MaxVersion,   \* bound on the versions of a block; 0: contents not modelled
  IoErrors      \* whether the disk may fail a request

Buffer == 1..NR_BUFFERS
NoBlock == 0
Null == 0

ASSUME CacheAssumption ==
  /\ IsFiniteSet(Task) /\ NoTask \notin Task
  /\ NR_BUFFERS \in Nat \ {0}
  /\ Block \subseteq Nat \ {NoBlock}
  /\ Pinned \subseteq Block /\ IsFiniteSet(Pinned) /\ Cardinality(Pinned) <= NR_BUFFERS
  /\ Written \subseteq Block
  /\ MaxHold \in Nat
  /\ MaxVersion \in Nat
  /\ IoErrors \in BOOLEAN

VARIABLES
  blk, b_count, b_lock, b_dirt, b_uptodate,
  hashed, next_free, prev_free, free_list,
  io,           \* the request for a locked buffer
  data,         \* the version in the buffer
  disk,         \* the version of a block on the disk
  latest,       \* the version last written to a buffer of the block
  cpu, pc,
  goal,         \* the block a task is after; NoBlock in sys_sync
  tmp,          \* the buffer it looks at, tmp or bh
  index,        \* i of sync_dev and sys_sync
  held,         \* the buffers it has got and not released
  failed        \* history: the disk has failed a request

flags == <<b_dirt, b_uptodate>>
queues == <<hashed, next_free, prev_free, free_list>>
content == <<data, disk, latest>>
lock == <<b_lock, io>>
NoIo == [op |-> "none", blk |-> NoBlock]
local == <<goal, tmp, index>>
vars == <<blk, b_count, flags, queues, content, lock, cpu, pc, local, held, failed>>

\* buffer_init, mount_root and nothing else in the cache: the Pinned blocks
\* are in the first buffers, and getblk has put those at the end of the list.
Init ==
  LET pin == CHOOSE f \in Bijection(1..Cardinality(Pinned), Pinned) : TRUE
  IN
  /\ blk = [b \in Buffer |-> IF b \in DOMAIN pin THEN pin[b] ELSE NoBlock]
  /\ b_count = [b \in Buffer |-> IF b \in DOMAIN pin THEN 1 ELSE 0]
  /\ b_lock = [b \in Buffer |-> FALSE]
  /\ b_dirt = [b \in Buffer |-> FALSE]
  /\ b_uptodate = [b \in Buffer |-> b \in DOMAIN pin]
  /\ hashed = DOMAIN pin
  /\ next_free = [b \in Buffer |-> IF b = NR_BUFFERS THEN 1 ELSE b + 1]
  /\ prev_free = [b \in Buffer |-> IF b = 1 THEN NR_BUFFERS ELSE b - 1]
  /\ free_list = (Cardinality(Pinned) % NR_BUFFERS) + 1
  /\ io = [b \in Buffer |-> NoIo]
  /\ data = [b \in Buffer |-> 0]
  /\ disk = [k \in Block |-> 0]
  /\ latest = [k \in Block |-> 0]
  /\ cpu = NoTask
  /\ pc = [t \in Task |-> "idle"]
  /\ goal = [t \in Task |-> NoBlock]
  /\ tmp = [t \in Task |-> Null]
  /\ index = [t \in Task |-> 0]
  /\ held = [t \in Task |-> {}]
  /\ failed = FALSE

(***************************************************************************)
(* Control.                                                                *)
(***************************************************************************)
Goto(t, place) == pc' = [pc EXCEPT ![t] = place] /\ cpu' = t
Sleep(t, place) == pc' = [pc EXCEPT ![t] = place] /\ cpu' = NoTask
Leave(t) == pc' = [pc EXCEPT ![t] = "idle"] /\ cpu' = NoTask

\* wait_on_buffer: gives way only if the buffer is locked.
WaitFor(t, b, place) == IF b_lock[b] THEN Sleep(t, place) ELSE Goto(t, place)

Runs(t, place) == cpu = t /\ pc[t] = place
Wakes(t, place, b) == cpu \in {t, NoTask} /\ pc[t] = place /\ ~ b_lock[b]

Forget(t) == /\ goal' = [goal EXCEPT ![t] = NoBlock]
             /\ tmp' = [tmp EXCEPT ![t] = Null]
             /\ index' = [index EXCEPT ![t] = 0]

(***************************************************************************)
(* The queues.                                                             *)
(***************************************************************************)
\* Null or the buffer of block k on the hash queues.
find_buffer(k) ==
  IF \E b \in hashed : blk[b] = k THEN CHOOSE b \in hashed : blk[b] = k ELSE Null

\* (Faulty variant: free_list may be left on the buffer taken.)
remove_not_head(b) ==
  /\ hashed' = hashed \ {b}
  /\ next_free' = [next_free EXCEPT ![prev_free[b]] = next_free[b]]
  /\ prev_free' = [prev_free EXCEPT ![next_free[b]] = prev_free[b]]
  /\ UNCHANGED free_list

remove_from_queues(b) ==
  /\ hashed' = hashed \ {b}
  /\ next_free' = [next_free EXCEPT ![prev_free[b]] = next_free[b]]
  /\ prev_free' = [prev_free EXCEPT ![next_free[b]] = prev_free[b]]
  /\ free_list' = IF free_list = b THEN next_free[b] ELSE free_list

\* At the end of the free list; on a hash queue if it has a device.
insert_into_queues(b, k) ==
  LET last == prev_free[free_list]
  IN /\ next_free' = [next_free EXCEPT ![b] = free_list, ![last] = b]
     /\ prev_free' = [prev_free EXCEPT ![b] = last, ![free_list] = b]
     /\ hashed' = IF k = NoBlock THEN hashed ELSE hashed \cup {b}
     /\ UNCHANGED free_list

\* The first buffer that nobody holds from b on, going round to free_list.
\* (b need not be on the list any more.)
Unheld(b) ==
  LET nth[n \in Nat] == IF n = 0 THEN b ELSE next_free[nth[n - 1]]
      Good(n) == b_count[nth[n]] = 0
      Stop(n) == n > 0 /\ nth[n] = free_list
      found == {c \in Buffer :
                  \E n \in 0..2 * NR_BUFFERS :
                    /\ nth[n] = c /\ Good(n) /\ ~ Stop(n)
                    /\ \A m \in 0..n - 1 : ~ (Good(m) \/ Stop(m))}
  IN IF found = {} THEN Null ELSE CHOOSE c \in found : TRUE

(***************************************************************************)
(* getblk and bread.                                                       *)
(***************************************************************************)
bread(t, k) ==
  /\ cpu = NoTask
  /\ pc[t] = "idle"
  /\ Cardinality(held[t]) < MaxHold
  /\ \A b \in held[t] : blk[b] # k
  /\ goal' = [goal EXCEPT ![t] = k]
  /\ Goto(t, "getblk")
  /\ UNCHANGED <<blk, b_count, flags, queues, content, lock, tmp, index, held>>

\* (Faulty variant: does not wait for the buffer.)
getblk_hit_hasty(t) ==
  /\ Runs(t, "getblk")
  /\ LET b == find_buffer(goal[t])
     IN /\ b # Null
        /\ b_count' = [b_count EXCEPT ![b] = @ + 1]
        /\ tmp' = [tmp EXCEPT ![t] = b]
        /\ Goto(t, "got")
  /\ UNCHANGED <<blk, flags, queues, content, lock, goal, index, held>>

\* get_hash_table has found the block.
getblk_hit(t) ==
  /\ Runs(t, "getblk")
  /\ LET b == find_buffer(goal[t])
     IN /\ b # Null
        /\ b_count' = [b_count EXCEPT ![b] = @ + 1]
        /\ tmp' = [tmp EXCEPT ![t] = b]
        /\ WaitFor(t, b, "hash_wait")
  /\ UNCHANGED <<blk, flags, queues, content, lock, goal, index, held>>

WakeBufferWait(p) == [u \in Task |-> IF p[u] = "sleep" THEN "woken" ELSE p[u]]

\* get_hash_table after its wait: "something might happen to [the buffer] while
\* we sleep"; if so, brelse it and try again.
hash_waited(t) ==
  /\ Wakes(t, "hash_wait", tmp[t])
  /\ cpu' = t
  /\ IF blk[tmp[t]] = goal[t]
       THEN /\ pc' = [pc EXCEPT ![t] = "got"]
            /\ UNCHANGED <<b_count, tmp>>
       ELSE /\ b_count' = [b_count EXCEPT ![tmp[t]] = @ - 1]
            /\ pc' = WakeBufferWait([pc EXCEPT ![t] = "getblk"])
            /\ tmp' = [tmp EXCEPT ![t] = Null]
  /\ UNCHANGED <<blk, flags, queues, content, lock, goal, index, held>>

\* The walk along the free list stops at b, or has found nothing.
ScanResult(t, b) ==
  IF b = Null
    THEN /\ Sleep(t, "sleep")
         /\ tmp' = [tmp EXCEPT ![t] = Null]
    ELSE /\ WaitFor(t, b, "scan_wait")
         /\ tmp' = [tmp EXCEPT ![t] = b]

getblk_miss(t) ==
  /\ Runs(t, "getblk")
  /\ find_buffer(goal[t]) = Null
  /\ ScanResult(t, Unheld(free_list))
  /\ UNCHANGED <<blk, b_count, flags, queues, content, lock, goal, index, held>>

\* Somebody took it while t waited: walk on from it.
scan_on(t) ==
  /\ Wakes(t, "scan_wait", tmp[t])
  /\ b_count[tmp[t]] > 0
  /\ LET b == next_free[tmp[t]]
     IN ScanResult(t, IF b = free_list THEN Null ELSE Unheld(b))
  /\ UNCHANGED <<blk, b_count, flags, queues, content, lock, goal, index, held>>

\* sleep_on(&buffer_wait) is over.
getblk_again(t) ==
  /\ cpu = NoTask
  /\ pc[t] = "woken"
  /\ Goto(t, "getblk")
  /\ UNCHANGED <<blk, b_count, flags, queues, content, lock, local, held>>

\* (Faulty variant: does not look at b_count again after the wait.)
take_blindly(t) ==
  /\ Wakes(t, "scan_wait", tmp[t])
  /\ b_count' = [b_count EXCEPT ![tmp[t]] = 1]
  /\ remove_from_queues(tmp[t])
  /\ Goto(t, "update")
  /\ UNCHANGED <<blk, flags, content, lock, local, held>>

\* (Faulty variant: a dirty buffer is reused as it is.)
take_dirty(t) ==
  /\ Wakes(t, "scan_wait", tmp[t])
  /\ b_count[tmp[t]] = 0
  /\ b_count' = [b_count EXCEPT ![tmp[t]] = 1]
  /\ remove_from_queues(tmp[t])
  /\ Goto(t, "update")
  /\ UNCHANGED <<blk, flags, content, lock, local, held>>

take(t) ==
  /\ Wakes(t, "scan_wait", tmp[t])
  /\ b_count[tmp[t]] = 0
  /\ b_count' = [b_count EXCEPT ![tmp[t]] = 1]
  /\ remove_from_queues(tmp[t])
  /\ IF b_dirt[tmp[t]]
       THEN Goto(t, "sync") /\ index' = [index EXCEPT ![t] = 1]
       ELSE Goto(t, "update") /\ UNCHANGED index
  /\ UNCHANGED <<blk, flags, content, lock, goal, tmp, held>>

\* (Faulty variant: does not look for the block again.)
update_blindly(t) ==
  /\ Runs(t, "update")
  /\ blk' = [blk EXCEPT ![tmp[t]] = goal[t]]
  /\ insert_into_queues(tmp[t], goal[t])
  /\ b_dirt' = [b_dirt EXCEPT ![tmp[t]] = FALSE]
  /\ b_uptodate' = [b_uptodate EXCEPT ![tmp[t]] = FALSE]
  /\ Goto(t, "got")
  /\ UNCHANGED <<b_count, content, lock, local, held>>

\* The taken buffer becomes the block's, unless somebody has got the block
\* in the meantime.
update(t) ==
  /\ Runs(t, "update")
  /\ find_buffer(goal[t]) = Null
  /\ blk' = [blk EXCEPT ![tmp[t]] = goal[t]]
  /\ insert_into_queues(tmp[t], goal[t])
  /\ b_dirt' = [b_dirt EXCEPT ![tmp[t]] = FALSE]
  /\ b_uptodate' = [b_uptodate EXCEPT ![tmp[t]] = FALSE]
  /\ Goto(t, "got")
  /\ UNCHANGED <<b_count, content, lock, local, held>>

\* (Faulty variant: the buffer stays counted.)
update_beaten_kept(t) ==
  /\ Runs(t, "update")
  /\ find_buffer(goal[t]) # Null
  /\ blk' = [blk EXCEPT ![tmp[t]] = NoBlock]
  /\ insert_into_queues(tmp[t], NoBlock)
  /\ b_dirt' = [b_dirt EXCEPT ![tmp[t]] = FALSE]
  /\ b_uptodate' = [b_uptodate EXCEPT ![tmp[t]] = FALSE]
  /\ tmp' = [tmp EXCEPT ![t] = Null]
  /\ Goto(t, "getblk")
  /\ UNCHANGED <<b_count, content, lock, goal, index, held>>

update_beaten(t) ==
  /\ Runs(t, "update")
  /\ find_buffer(goal[t]) # Null
  /\ blk' = [blk EXCEPT ![tmp[t]] = NoBlock]
  /\ b_count' = [b_count EXCEPT ![tmp[t]] = 0]
  /\ insert_into_queues(tmp[t], NoBlock)
  /\ b_dirt' = [b_dirt EXCEPT ![tmp[t]] = FALSE]
  /\ b_uptodate' = [b_uptodate EXCEPT ![tmp[t]] = FALSE]
  /\ tmp' = [tmp EXCEPT ![t] = Null]
  /\ Goto(t, "getblk")
  /\ UNCHANGED <<content, lock, goal, index, held>>

\* lock_buffer and the request.  (That the lock was set is a message only.)
rw_hd(b, rw) == /\ b_lock' = [b_lock EXCEPT ![b] = TRUE]
                /\ io' = [io EXCEPT ![b] = [op |-> rw, blk |-> blk[b]]]

\* bread has the buffer: done, or the block must be read.
Keep(t) == /\ held' = [held EXCEPT ![t] = @ \cup {tmp[t]}]
           /\ Leave(t)
           /\ Forget(t)

got_uptodate(t) ==
  /\ Runs(t, "got")
  /\ b_uptodate[tmp[t]]
  /\ Keep(t)
  /\ UNCHANGED <<blk, b_count, flags, queues, content, lock>>

got_read(t) ==
  /\ Runs(t, "got")
  /\ ~ b_uptodate[tmp[t]]
  /\ rw_hd(tmp[t], "read")
  /\ Sleep(t, "read_wait")
  /\ UNCHANGED <<blk, b_count, flags, queues, content, local, held>>

read_done(t) ==
  /\ Wakes(t, "read_wait", tmp[t])
  /\ b_uptodate[tmp[t]]
  /\ Keep(t)
  /\ UNCHANGED <<blk, b_count, flags, queues, content, lock>>

\* brelse, and bread returns NULL.
read_failed(t) ==
  /\ Wakes(t, "read_wait", tmp[t])
  /\ ~ b_uptodate[tmp[t]]
  /\ b_count' = [b_count EXCEPT ![tmp[t]] = @ - 1]
  /\ pc' = WakeBufferWait([pc EXCEPT ![t] = "idle"])
  /\ cpu' = NoTask
  /\ Forget(t)
  /\ UNCHANGED <<blk, flags, queues, content, lock, held>>

(***************************************************************************)
(* sync_dev, for a taken buffer, and sys_sync.                             *)
(***************************************************************************)
sys_sync(t) ==
  /\ cpu = NoTask
  /\ pc[t] = "idle"
  /\ index' = [index EXCEPT ![t] = 1]
  /\ Goto(t, "sync")
  /\ UNCHANGED <<blk, b_count, flags, queues, content, lock, goal, tmp, held>>

sync_next(t) ==
  /\ Runs(t, "sync")
  /\ index[t] <= NR_BUFFERS
  /\ IF blk[index[t]] = NoBlock       \* another device's, or never used
       THEN index' = [index EXCEPT ![t] = @ + 1] /\ UNCHANGED <<pc, cpu>>
       ELSE WaitFor(t, index[t], "sync_wait") /\ UNCHANGED index
  /\ UNCHANGED <<blk, b_count, flags, queues, content, lock, goal, tmp, held>>

sync_clean(t) ==
  /\ Wakes(t, "sync_wait", index[t])
  /\ ~ b_dirt[index[t]]
  /\ index' = [index EXCEPT ![t] = @ + 1]
  /\ Goto(t, "sync")
  /\ UNCHANGED <<blk, b_count, flags, queues, content, lock, goal, tmp, held>>

sync_write(t) ==
  /\ Wakes(t, "sync_wait", index[t])
  /\ b_dirt[index[t]]
  /\ rw_hd(index[t], "write")
  /\ Sleep(t, "write_wait")
  /\ UNCHANGED <<blk, b_count, flags, queues, content, local, held>>

sync_written(t) ==
  /\ Wakes(t, "write_wait", index[t])
  /\ index' = [index EXCEPT ![t] = @ + 1]
  /\ Goto(t, "sync")
  /\ UNCHANGED <<blk, b_count, flags, queues, content, lock, goal, tmp, held>>

sync_end(t) ==
  /\ Runs(t, "sync")
  /\ index[t] > NR_BUFFERS
  /\ index' = [index EXCEPT ![t] = 0]
  /\ IF goal[t] = NoBlock THEN Leave(t) ELSE Goto(t, "update")
  /\ UNCHANGED <<blk, b_count, flags, queues, content, lock, goal, tmp, held>>

(***************************************************************************)
(* What the file system does with a buffer it holds.                       *)
(***************************************************************************)
modify(t, b) ==
  /\ cpu = NoTask
  /\ pc[t] = "idle"
  /\ b \in held[t] \/ (b \in hashed /\ blk[b] \in Pinned)
  /\ blk[b] \in Written
  /\ MaxVersion > 0 => latest[blk[b]] < MaxVersion
  /\ LET v == IF MaxVersion = 0 THEN 0 ELSE latest[blk[b]] + 1
     IN /\ data' = [data EXCEPT ![b] = v]
        /\ latest' = [latest EXCEPT ![blk[b]] = v]
  /\ b_dirt' = [b_dirt EXCEPT ![b] = TRUE]
  /\ UNCHANGED <<blk, b_count, b_uptodate, queues, disk, lock, cpu, pc, local, held>>

\* (Faulty variant: the caller does not know that it has released.)
brelse_again(t, b) ==
  /\ cpu = NoTask
  /\ pc[t] = "idle"
  /\ b \in held[t]
  /\ ~ b_lock[b]
  /\ b_count' = [b_count EXCEPT ![b] = @ - 1]
  /\ pc' = WakeBufferWait(pc)
  /\ UNCHANGED <<blk, flags, queues, content, lock, cpu, local, held>>

\* (Faulty variant: wakes nobody.)
brelse_quietly(t, b) ==
  /\ cpu = NoTask
  /\ pc[t] = "idle"
  /\ b \in held[t]
  /\ ~ b_lock[b]
  /\ b_count' = [b_count EXCEPT ![b] = @ - 1]
  /\ held' = [held EXCEPT ![t] = @ \ {b}]
  /\ UNCHANGED <<blk, flags, queues, content, lock, cpu, pc, local>>

brelse(t, b) ==
  /\ cpu = NoTask
  /\ pc[t] = "idle"
  /\ b \in held[t]
  /\ ~ b_lock[b]
  /\ b_count' = [b_count EXCEPT ![b] = @ - 1]
  /\ held' = [held EXCEPT ![t] = @ \ {b}]
  /\ pc' = WakeBufferWait(pc)
  /\ UNCHANGED <<blk, flags, queues, content, lock, cpu, local>>

(***************************************************************************)
(* The disk.  A write takes the data when it starts; the flags are set by  *)
(* the interrupt that ends the request (read_intr, write_intr,             *)
(* bad_rw_intr).  The request has a copy of the block number.              *)
(***************************************************************************)
write_start(b) ==
  /\ io[b].op = "write"
  /\ disk' = [disk EXCEPT ![io[b].blk] = data[b]]
  /\ io' = [io EXCEPT ![b].op = "writing"]
  /\ UNCHANGED <<blk, b_count, flags, queues, data, latest, b_lock, cpu, pc, local, held>>

end_request(b) ==
  /\ io[b].op \in {"read", "writing"}
  /\ io' = [io EXCEPT ![b] = NoIo]
  /\ b_lock' = [b_lock EXCEPT ![b] = FALSE]
  /\ b_uptodate' = [b_uptodate EXCEPT ![b] = TRUE]
  /\ b_dirt' = [b_dirt EXCEPT ![b] = FALSE]
  /\ data' = IF io[b].op = "read" THEN [data EXCEPT ![b] = disk[io[b].blk]] ELSE data
  /\ UNCHANGED <<blk, b_count, queues, disk, latest, cpu, pc, local, held>>

io_error(b) ==
  /\ IoErrors
  /\ io[b].op \in {"read", "write"}
  /\ io' = [io EXCEPT ![b] = NoIo]
  /\ b_lock' = [b_lock EXCEPT ![b] = FALSE]
  /\ b_uptodate' = [b_uptodate EXCEPT ![b] = FALSE]
  /\ failed' = TRUE
  /\ UNCHANGED <<blk, b_count, b_dirt, queues, content, cpu, pc, local, held>>

Proceed(t) ==
  \/ getblk_hit(t) \/ hash_waited(t)
  \/ getblk_miss(t) \/ scan_on(t) \/ getblk_again(t) \/ take(t)
  \/ update(t) \/ update_beaten(t)
  \/ got_uptodate(t) \/ got_read(t) \/ read_done(t) \/ read_failed(t)
  \/ sync_next(t) \/ sync_clean(t) \/ sync_write(t) \/ sync_written(t) \/ sync_end(t)

Release(t) == \E b \in Buffer : brelse(t, b)

Next ==
  \/ /\ \/ \E t \in Task :
             \/ Proceed(t)
             \/ \E k \in Block : bread(t, k)
             \/ sys_sync(t)
             \/ \E b \in Buffer : modify(t, b)
             \/ Release(t)
        \/ \E b \in Buffer : write_start(b) \/ end_request(b)
     /\ UNCHANGED failed
  \/ \E b \in Buffer : io_error(b)

\* Tasks that can go on do, holders release, the disk answers.
Fairness ==
  /\ \A t \in Task : /\ SF_vars(Proceed(t) /\ UNCHANGED failed)
                     /\ SF_vars(Release(t) /\ UNCHANGED failed)
  /\ \A b \in Buffer : /\ WF_vars(write_start(b) /\ UNCHANGED failed)
                       /\ WF_vars(end_request(b) /\ UNCHANGED failed)

Spec == Init /\ [][Next]_vars
FairSpec == Spec /\ Fairness

(***************************************************************************)
(* Properties.                                                             *)
(***************************************************************************)
Inside == {"getblk", "hash_wait", "scan_wait", "sleep", "woken", "sync",
           "sync_wait", "write_wait", "update", "got", "read_wait"}

TypeOK ==
  /\ blk \in [Buffer -> Block \cup {NoBlock}]
  /\ b_count \in [Buffer -> 0..2 * Cardinality(Task) + 1]
  /\ b_lock \in [Buffer -> BOOLEAN]
  /\ b_dirt \in [Buffer -> BOOLEAN]
  /\ b_uptodate \in [Buffer -> BOOLEAN]
  /\ hashed \subseteq Buffer
  /\ next_free \in [Buffer -> Buffer]
  /\ prev_free \in [Buffer -> Buffer]
  /\ free_list \in Buffer
  /\ io \in [Buffer -> [op : {"none", "read", "write", "writing"},
                       blk : Block \cup {NoBlock}]]
  /\ data \in [Buffer -> 0..MaxVersion]
  /\ disk \in [Block -> 0..MaxVersion]
  /\ latest \in [Block -> 0..MaxVersion]
  /\ cpu \in Task \cup {NoTask}
  /\ pc \in [Task -> Inside \cup {"idle"}]
  /\ goal \in [Task -> Block \cup {NoBlock}]
  /\ tmp \in [Task -> Buffer \cup {Null}]
  /\ index \in [Task -> 0..NR_BUFFERS + 1]
  /\ held \in [Task -> SUBSET Buffer]
  /\ failed \in BOOLEAN

\* The buffer t has taken off the queues to make it its own.
Takes(t, b) == /\ goal[t] # NoBlock
               /\ tmp[t] = b
               /\ pc[t] \in {"sync", "sync_wait", "write_wait", "update"}

\* The buffer t has counted on its way through bread.
Counts(t, b) == \/ Takes(t, b)
                \/ tmp[t] = b /\ pc[t] \in {"hash_wait", "got", "read_wait"}

\* However tasks race for a block in getblk, the cache never has it twice,
\* and every buffer that somebody holds can be found by the others; neither
\* the wait in get_hash_table nor the read in bread ends with the buffer of
\* another block.  (buffer.c:116-136, 181-190)
OneBufferPerBlock ==
  /\ \A b, c \in hashed : blk[b] = blk[c] => b = c
  /\ \A t \in Task :
       /\ held[t] \subseteq hashed
       /\ pc[t] \in {"hash_wait", "got", "read_wait"} =>
            tmp[t] \in hashed /\ blk[tmp[t]] = goal[t]

\* A buffer belongs to its block as long as somebody holds it or a request
\* for it is on its way: "nobody can get to" the one whose block is changed
\* (169-173).  (After a failed write, which leaves the buffer dirty, somebody
\* can: the sync of another task.)
HeldKeepsBlock ==
  [][~ failed =>
       \A b \in Buffer :
         (b_lock[b] \/ \E t \in Task : b \in held[t]) => blk'[b] = blk[b]]_vars

\* b_count counts the tasks that hold the buffer or are about to: brelse
\* never meets a zero ("Trying to free free buffer", buffer.c:201-202) and
\* no buffer is kept from reuse by a count that nobody will take back.
CountMatchesUsers ==
  \A b \in Buffer :
    b_count[b] = Cardinality({t \in Task : b \in held[t]})
                 + Cardinality({t \in Task : Counts(t, b)})
                 + IF b \in hashed /\ blk[b] \in Pinned THEN 1 ELSE 0

\* The free list is one ring, linked both ways, of all the buffers nobody has
\* taken; free_list is on it.  (Walkers that slept hold pointers into it.)
FreeListIsRing ==
  LET nth[n \in 0..NR_BUFFERS] ==
        IF n = 0 THEN free_list ELSE next_free[nth[n - 1]]
      ring == {nth[n] : n \in 0..NR_BUFFERS}
  IN /\ ring = {b \in Buffer : \A t \in Task : ~ Takes(t, b)}
     /\ \A b \in ring : prev_free[next_free[b]] = b

\* hd.c:94-95 "buffer multiply locked" is never printed: a task that asks for
\* a transfer finds the buffer unlocked.  (Not so after a failed read, when all
\* the tasks that waited for the buffer start it again.)
NotMultiplyLocked ==
  ~ failed => \A t \in Task : pc[t] = "got" /\ ~ b_uptodate[tmp[t]] => ~ b_lock[tmp[t]]

\* A task asleep on buffer_wait is woken in the end, though it looked for a
\* free buffer long before it fell asleep and update_beaten frees one without
\* a wake_up.
NoWaiterForgotten == \A t \in Task : pc[t] = "sleep" ~> pc[t] # "sleep"

\* What was written to a buffer (once) is on the disk, or in a buffer of the
\* block that is marked dirty, or on its way.
NothingLost ==
  ~ failed => \A k \in Block :
    \/ disk[k] = latest[k]
    \/ \E b \in Buffer : /\ blk[b] = k
                         /\ data[b] = latest[k]
                         /\ b_dirt[b]

\* "bread() reads a specified block and returns the buffer that contains it"
\* (206-209), and the dirty buffer that is written out on reuse is safe:
\* "we can sleep here without fear of race-conditions" (170-173).
ReadersSeeLatest ==
  \A t \in Task : \A b \in held[t] : data[b] = latest[blk[b]]
==============================================================================
