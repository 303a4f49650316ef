-------------------------------- MODULE Inode --------------------------------
(***************************************************************************)
(* The inode table and the two bitmaps: iget, iput, get_empty_inode,       *)
(* read_inode, write_inode, sync_inodes (fs/inode.c), new_inode,           *)
(* free_inode, new_block, free_block (fs/bitmap.c) and truncate            *)
(* (fs/truncate.c), for one device and two direct zones of an inode.       *)
(* Kernel code gives up the processor only where it sleeps: a task that    *)
(* runs goes on, `running', until it waits for a lock or calls bread,      *)
(* getblk or get_hash_table, each of which may sleep.  A task is a stack   *)
(* of calls, the innermost first.                                          *)
(* inode_table[].i_pipe belongs to Files.tla.                              *)
(***************************************************************************)
EXTENDS Integers, Sequences, FiniteSets, FiniteSetsExt

CONSTANTS Task, Nobody,
          NR_INODE,       \* slots of inode_table
          NInodes,        \* sb->s_ninodes
          NBlocks,        \* the zones of the device are 1..NBlocks
          DIR_ENTRIES_PER_BLOCK

ASSUME InodeAssumption ==
  /\ IsFiniteSet(Task) /\ Nobody \notin Task
  /\ {NR_INODE, NInodes, NBlocks, DIR_ENTRIES_PER_BLOCK} \subseteq Nat \ {0}

VARIABLES inode_table, last_allocated_inode,
          d_inode,        \* the inodes as the buffers of the inode blocks have them
          imap, zmap,     \* the numbers whose bit is set
          data,           \* the zones, as the buffers have them
          slips,          \* history: the races below that have been lost
          running,        \* the task that has the processor, or Nobody
          stack,          \* the calls of each task
          halted          \* "no", or the panic that stopped the machine

Slot == 0..NR_INODE - 1
Null == -1
Zone == 0..1

(* struct m_inode: i_num is 0 in a slot that is not in use. *)
memset0 == [num |-> 0, count |-> 0, lock |-> FALSE, dirt |-> FALSE,
            nlinks |-> 0, mode |-> "none", size |-> 0, zone |-> [z \in Zone |-> 0]]

(* Its first part, struct d_inode, and m with d for that part. *)
Stored(m) == [nlinks |-> m.nlinks, mode |-> m.mode, size |-> m.size, zone |-> m.zone]
Loaded(m, d) == [m EXCEPT !.nlinks = d.nlinks, !.mode = d.mode, !.size = d.size, !.zone = d.zone]

(* struct dir_entry, and its address: bh is the zone the address lies in.  *)
EmptyBlock == [k \in 0..DIR_ENTRIES_PER_BLOCK - 1 |-> [inode |-> 0, name |-> ""]]

(* A call: the label it is at, its locals, the value its last call gave.   *)
(* dir and ino are references (i_count) that the call has, bh the buffer   *)
(* it has (b_count); i, the inode it works on, may be its caller's.        *)
Frame(label) == [at |-> label, i |-> Null, dir |-> Null, ino |-> Null,
                 bh |-> 0, de |-> 0, n |-> 0, path |-> <<>>, v |-> 0]

table == <<inode_table, last_allocated_inode>>
disk == <<d_inode, imap, zmap, data, slips>>
vars == <<table, disk, running, stack, halted>>

Top(t) == Head(stack[t])
At(t, label) == /\ halted = "no"
                /\ running \in {t, Nobody}
                /\ stack[t] # <<>>
                /\ Top(t).at = label

Becomes(t, frames) == stack' = [stack EXCEPT ![t] = frames \o Tail(@)]
Goto(t, f) == Becomes(t, <<f>>)
Call(t, f, back) == Becomes(t, <<f, back>>)
Return(t, value) ==
  stack' = [stack EXCEPT ![t] = <<[Head(Tail(@)) EXCEPT !.v = value]>> \o Tail(Tail(@))]

RunsOn(t) == running' = t /\ UNCHANGED halted
MaySleep == running' = Nobody /\ UNCHANGED halted
Panic(why) == halted' = why /\ UNCHANGED <<stack, running>>

Put(i, m) == inode_table' = [inode_table EXCEPT ![i] = m]
Unlocked(i) == ~ inode_table[i].lock

(* wait_on_inode and lock_inode come first at these labels; the task that  *)
(* finds the inode locked sleeps on i_wait until unlock_inode wakes it and *)
(* looks again.                                                            *)
Waiting == {"iput", "iput_repeat", "write_inode", "read_inode", "empty_wait",
            "iget_wait", "sync_wait"}
sleep_on(t) ==
  /\ running = t
  /\ stack[t] # <<>> /\ Top(t).at \in Waiting /\ ~ Unlocked(Top(t).i)
  /\ MaySleep
  /\ UNCHANGED <<table, disk, stack>>

(***************************************************************************)
(* write_inode and read_inode.                                             *)
(***************************************************************************)
write_inode(t) ==
  /\ At(t, "write_inode") /\ Unlocked(Top(t).i)
  /\ Put(Top(t).i, [inode_table[Top(t).i] EXCEPT !.lock = TRUE])
  /\ Goto(t, [Top(t) EXCEPT !.at = "write_copy"])
  /\ MaySleep
  /\ UNCHANGED <<last_allocated_inode, disk>>

write_copy(t) ==
  LET i == Top(t).i
      m == inode_table[i]
  IN /\ At(t, "write_copy")
     /\ d_inode' = [d_inode EXCEPT ![m.num] = Stored(m)]
     /\ Put(i, [m EXCEPT !.dirt = FALSE, !.lock = FALSE])
     /\ Return(t, 0)
     /\ RunsOn(t)
     /\ UNCHANGED <<last_allocated_inode, imap, zmap, data, slips>>

read_inode(t) ==
  /\ At(t, "read_inode") /\ Unlocked(Top(t).i)
  /\ Put(Top(t).i, [inode_table[Top(t).i] EXCEPT !.lock = TRUE])
  /\ Goto(t, [Top(t) EXCEPT !.at = "read_copy"])
  /\ MaySleep
  /\ UNCHANGED <<last_allocated_inode, disk>>

read_copy(t) ==
  LET i == Top(t).i
      m == inode_table[i]
  IN /\ At(t, "read_copy")
     /\ Put(i, [Loaded(m, d_inode[m.num]) EXCEPT !.lock = FALSE])
     /\ Return(t, i)
     /\ RunsOn(t)
     /\ UNCHANGED <<last_allocated_inode, disk>>

(***************************************************************************)
(* get_empty_inode: round robin from last_allocated_inode; the slot found  *)
(* is written out first and may be taken meanwhile.                        *)
(***************************************************************************)
get_empty_inode(t) ==
  LET after(k) == (last_allocated_inode + k) % NR_INODE
      free == {k \in Slot : inode_table[after(k)].count = 0}
  IN /\ At(t, "get_empty_inode")
     /\ IF free = {}
        THEN Panic("No free inodes in mem") /\ UNCHANGED last_allocated_inode
        ELSE /\ last_allocated_inode' = after(Min(free))
             /\ Goto(t, [Frame("empty_wait") EXCEPT !.i = after(Min(free))])
             /\ RunsOn(t)
     /\ UNCHANGED <<inode_table, disk>>

empty_wait(t) ==
  LET i == Top(t).i
      m == inode_table[i]
  IN /\ At(t, "empty_wait") /\ Unlocked(i)
     /\ IF m.dirt
        THEN Call(t, [Frame("write_inode") EXCEPT !.i = i], Top(t)) /\ UNCHANGED inode_table
        ELSE IF m.count # 0
        THEN Goto(t, Frame("get_empty_inode")) /\ UNCHANGED inode_table
        ELSE Put(i, [memset0 EXCEPT !.count = 1]) /\ Return(t, i)
     /\ RunsOn(t)
     /\ UNCHANGED <<last_allocated_inode, disk>>

(***************************************************************************)
(* iget: ino is the empty inode, n the number, i the slot looked at.  The  *)
(* caller has slept since it read the number: it may have been freed.      *)
(***************************************************************************)
Iget(nr) == <<Frame("get_empty_inode"), [Frame("iget") EXCEPT !.n = nr]>>

igetUsed(t) ==                         \* faulty: only slots in use are looked at
  LET empty == IF At(t, "iget") THEN Top(t).v ELSE Top(t).ino
      found == {j \in Slot : inode_table[j].num = Top(t).n /\ inode_table[j].count > 0}
  IN /\ At(t, "iget") \/ At(t, "iget_scan")
     /\ IF found # {}
        THEN /\ Goto(t, [Top(t) EXCEPT !.at = "iget_wait", !.ino = empty, !.i = Min(found)])
             /\ UNCHANGED <<inode_table, slips>>
        ELSE /\ Put(empty, [inode_table[empty] EXCEPT !.num = Top(t).n])
             /\ slips' = slips \cup IF Top(t).n \in imap THEN {} ELSE {"freed inode read"}
             /\ Goto(t, [Frame("read_inode") EXCEPT !.ino = empty, !.i = empty])
     /\ RunsOn(t)
     /\ UNCHANGED <<last_allocated_inode, d_inode, imap, zmap, data>>
iget(t) ==
  LET empty == IF At(t, "iget") THEN Top(t).v ELSE Top(t).ino
      found == {j \in Slot : inode_table[j].num = Top(t).n}
  IN /\ At(t, "iget") \/ At(t, "iget_scan")
     /\ IF found # {}
        THEN /\ Goto(t, [Top(t) EXCEPT !.at = "iget_wait", !.ino = empty, !.i = Min(found)])
             /\ UNCHANGED <<inode_table, slips>>
        ELSE /\ Put(empty, [inode_table[empty] EXCEPT !.num = Top(t).n])
             /\ slips' = slips \cup IF Top(t).n \in imap THEN {} ELSE {"freed inode read"}
             /\ Goto(t, [Frame("read_inode") EXCEPT !.ino = empty, !.i = empty])
     /\ RunsOn(t)
     /\ UNCHANGED <<last_allocated_inode, d_inode, imap, zmap, data>>

(* The slot may have changed while we slept.  iput(empty) does not sleep.  *)
iget_waitKeeps(t) ==                   \* faulty: the empty inode is not given back
  LET f == Top(t)
  IN /\ At(t, "iget_wait") /\ Unlocked(f.i)
     /\ IF inode_table[f.i].num # f.n
        THEN Goto(t, [f EXCEPT !.at = "iget_scan"]) /\ UNCHANGED inode_table
        ELSE /\ inode_table' = [inode_table EXCEPT ![f.i].count = @ + 1]
             /\ Return(t, f.i)
     /\ RunsOn(t)
     /\ UNCHANGED <<last_allocated_inode, disk>>
iget_wait(t) ==
  LET f == Top(t)
  IN /\ At(t, "iget_wait") /\ Unlocked(f.i)
     /\ IF inode_table[f.i].num # f.n
        THEN Goto(t, [f EXCEPT !.at = "iget_scan"]) /\ UNCHANGED inode_table
        ELSE /\ inode_table' = [inode_table EXCEPT ![f.i].count = @ + 1,
                                                   ![f.ino].count = @ - 1]
             /\ Return(t, f.i)
     /\ RunsOn(t)
     /\ UNCHANGED <<last_allocated_inode, disk>>

(***************************************************************************)
(* new_inode: a fresh number in a fresh slot, or NULL.                     *)
(***************************************************************************)
NewInode == <<Frame("get_empty_inode"), Frame("new_inode")>>

new_inode(t) ==
  LET i == Top(t).v
      free == (1..NInodes) \ imap
  IN /\ At(t, "new_inode")
     /\ IF free = {}
        THEN /\ Put(i, [inode_table[i] EXCEPT !.count = @ - 1])
             /\ Return(t, Null)
             /\ UNCHANGED imap
        ELSE /\ imap' = imap \cup {Min(free)}
             /\ Put(i, [inode_table[i] EXCEPT !.count = 1, !.nlinks = 1, !.dirt = TRUE,
                                              !.num = Min(free)])
             /\ Return(t, i)
     /\ RunsOn(t)
     /\ UNCHANGED <<last_allocated_inode, d_inode, zmap, data, slips>>

(***************************************************************************)
(* iput: the caller's reference is ino.  free_inode clears the whole slot, *)
(* its lock too: if somebody is writing the inode, that write goes astray. *)
(***************************************************************************)
Iput(i) == [Frame("iput") EXCEPT !.i = i, !.ino = i]

iput(t) ==
  LET i == Top(t).i
      m == inode_table[i]
  IN /\ At(t, "iput") /\ Unlocked(i)
     /\ IF m.count = 0
        THEN Panic("iput: trying to free free inode") /\ UNCHANGED inode_table
        ELSE /\ IF m.num = 0 \/ m.count > 1
                THEN Put(i, [m EXCEPT !.count = @ - 1]) /\ Return(t, 0)
                ELSE Goto(t, [Top(t) EXCEPT !.at = "iput_repeat"]) /\ UNCHANGED inode_table
             /\ RunsOn(t)
     /\ UNCHANGED <<last_allocated_inode, disk>>

iput_repeat(t) ==
  LET i == Top(t).i
      m == inode_table[i]
  IN /\ At(t, "iput_repeat") /\ Unlocked(i)
     /\ CASE m.nlinks = 0 ->
               /\ Call(t, [Frame("truncate") EXCEPT !.i = i], [Top(t) EXCEPT !.at = "free_inode"])
               /\ UNCHANGED inode_table
          [] m.nlinks # 0 /\ m.dirt ->
               /\ Call(t, [Frame("write_inode") EXCEPT !.i = i], Top(t))
               /\ UNCHANGED inode_table
          [] OTHER -> Put(i, [m EXCEPT !.count = @ - 1]) /\ Return(t, 0)
     /\ RunsOn(t)
     /\ UNCHANGED <<last_allocated_inode, disk>>

free_inode(t) ==
  LET i == Top(t).i
      m == inode_table[i]
  IN /\ At(t, "free_inode")
     /\ \/ /\ m.count > 1 \/ m.nlinks # 0
           /\ Panic("free_inode") /\ UNCHANGED <<inode_table, imap>>
        \/ /\ m.count <= 1 /\ m.nlinks = 0 /\ m.num \notin imap
           /\ Panic("free_inode: bit already cleared") /\ UNCHANGED <<inode_table, imap>>
        \/ /\ m.count <= 1 /\ m.nlinks = 0 /\ m.num \in imap
           /\ imap' = imap \ {m.num}
           /\ Put(i, memset0)
           /\ IF m.lock THEN Panic("locked inode freed")
                        ELSE Return(t, 0) /\ RunsOn(t)
     /\ UNCHANGED <<last_allocated_inode, d_inode, zmap, data, slips>>

(***************************************************************************)
(* truncate gives back the zones in order; n is the zone free_block is at. *)
(* get_hash_table sleeps while the buffer is locked; a buffer in use is    *)
(* left alone, its bit stays set.                                          *)
(***************************************************************************)
truncate(t) ==
  LET i == Top(t).i
      m == inode_table[i]
      left == {z \in Zone : m.zone[z] # 0}
  IN /\ At(t, "truncate")
     /\ CASE m.mode = "none" -> Return(t, 0) /\ RunsOn(t) /\ UNCHANGED inode_table
          [] m.mode # "none" /\ left # {} ->
               /\ Call(t, [Frame("free_block") EXCEPT !.n = m.zone[Min(left)]],
                          [Top(t) EXCEPT !.at = "truncated", !.n = Min(left)])
               /\ MaySleep /\ UNCHANGED inode_table
          [] OTHER -> Put(i, [m EXCEPT !.size = 0, !.dirt = TRUE]) /\ Return(t, 0) /\ RunsOn(t)
     /\ UNCHANGED <<last_allocated_inode, disk>>

truncated(t) ==
  /\ At(t, "truncated")
  /\ Put(Top(t).i, [inode_table[Top(t).i] EXCEPT !.zone[Top(t).n] = 0])
  /\ Goto(t, [Top(t) EXCEPT !.at = "truncate"])
  /\ RunsOn(t)
  /\ UNCHANGED <<last_allocated_inode, disk>>

InUse(b) == \E t \in Task : \E k \in DOMAIN stack[t] : stack[t][k].bh = b

free_block(t) ==
  LET b == Top(t).n
  IN /\ At(t, "free_block")
     /\ IF b \notin zmap /\ ~ InUse(b)
        THEN Panic("free_block: bit already cleared") /\ UNCHANGED zmap
        ELSE /\ zmap' = IF InUse(b) THEN zmap ELSE zmap \ {b}
             /\ Return(t, 0)
             /\ RunsOn(t)
     /\ UNCHANGED <<table, d_inode, imap, data, slips>>

(* new_block sets the bit, then getblk may sleep; 0 when the disk is full. *)
new_block(t) ==
  LET free == (1..NBlocks) \ zmap
  IN /\ At(t, "new_block")
     /\ IF free = {}
        THEN Return(t, 0) /\ RunsOn(t) /\ UNCHANGED zmap
        ELSE /\ zmap' = zmap \cup {Min(free)}
             /\ Goto(t, [Frame("clear_block") EXCEPT !.n = Min(free)])
             /\ MaySleep
     /\ UNCHANGED <<table, d_inode, imap, data, slips>>

clear_block(t) ==
  /\ At(t, "clear_block")
  /\ data' = [data EXCEPT ![Top(t).n] = EmptyBlock]
  /\ IF InUse(Top(t).n) THEN Panic("new block: count is != 1")
                        ELSE Return(t, Top(t).n) /\ RunsOn(t)
  /\ UNCHANGED <<table, d_inode, imap, zmap, slips>>

(* create_block for zone n of inode i. *)
create_block(t) ==
  LET here == inode_table[Top(t).i].zone[Top(t).n]
  IN /\ At(t, "create_block")
     /\ IF here # 0 THEN Return(t, here)
                    ELSE Call(t, Frame("new_block"), [Top(t) EXCEPT !.at = "created"])
     /\ RunsOn(t)
     /\ UNCHANGED <<table, disk>>

created(t) ==
  LET f == Top(t)
      m == inode_table[f.i]
  IN /\ At(t, "created")
     /\ Put(f.i, [m EXCEPT !.zone[f.n] = f.v, !.dirt = @ \/ f.v # 0])
     /\ slips' = slips \cup IF m.zone[f.n] # 0 THEN {"zone overwritten"} ELSE {}
     /\ Return(t, f.v)
     /\ RunsOn(t)
     /\ UNCHANGED <<last_allocated_inode, d_inode, imap, zmap, data>>

(***************************************************************************)
(* sync_inodes, as a call of its own: i is the slot the loop has come to.  *)
(***************************************************************************)
sync_inodes(t) ==
  LET i == Top(t).i
      next == IF i = NR_INODE - 1 THEN Frame("end")
                                  ELSE [Frame("sync_wait") EXCEPT !.i = i + 1]
  IN /\ At(t, "sync_wait") /\ Unlocked(i)
     /\ IF inode_table[i].dirt
        THEN Call(t, [Frame("write_inode") EXCEPT !.i = i], next)
        ELSE Goto(t, next)
     /\ RunsOn(t)
     /\ UNCHANGED <<table, disk>>

InodeStep(t) ==
  \/ sleep_on(t)
  \/ write_inode(t) \/ write_copy(t) \/ read_inode(t) \/ read_copy(t)
  \/ get_empty_inode(t) \/ empty_wait(t)
  \/ iget(t) \/ iget_wait(t)
  \/ new_inode(t)
  \/ iput(t) \/ iput_repeat(t) \/ free_inode(t)
  \/ truncate(t) \/ truncated(t) \/ free_block(t)
  \/ new_block(t) \/ clear_block(t) \/ create_block(t) \/ created(t)
  \/ sync_inodes(t)

==============================================================================
