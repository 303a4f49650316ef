-------------------------------- MODULE Namei --------------------------------
(***************************************************************************)
(* Directories and names (fs/namei.c) over the inode table of Inode.tla:   *)
(* open_namei, sys_mkdir, sys_rmdir, sys_unlink, sys_link, and close as an *)
(* iput.  All callers are the superuser, for whom permission() still says  *)
(* no to a deleted inode.  A path is a sequence of names from the root; it *)
(* is never empty and does not end in '/'.  Every bread may sleep.         *)
(***************************************************************************)
EXTENDS Inode, SequencesExt

CONSTANTS Path,           \* Path[t]: the paths task t uses when the tasks keep apart
          Common,         \* the paths they all use when they do not
          MaxCalls        \* bound: system calls in a behaviour

VARIABLES file,           \* file[t]: the inode t has open, or none, as a sequence
          calls,          \* how many calls have begun
          apart           \* the tasks use paths of their own (chosen at the start)

namei_vars == <<file, calls, apart>>
all_vars == <<vars, namei_vars>>

ROOT_INO == 1
Root == 0                 \* its slot: the mount and the tasks keep it in use

E == DIR_ENTRIES_PER_BLOCK
Entry(de) == data[de \div E][de % E]
BlockOf(de) == de \div E
SetEntry(de, nr) == data' = [data EXCEPT ![de \div E][de % E].inode = nr]
Deleted(i) == inode_table[i].nlinks = 0
IsDir(i) == inode_table[i].mode = "dir"

OnlyCalls == UNCHANGED <<table, disk, namei_vars>>
OnlyTable == UNCHANGED <<last_allocated_inode, disk, namei_vars>>
DataAndTable == UNCHANGED <<last_allocated_inode, d_inode, imap, zmap, slips, namei_vars>>

Find(dir, name) == [Frame("find_entry") EXCEPT !.i = dir, !.path = <<name>>]
Add(dir, name) == [Frame("add_entry") EXCEPT !.i = dir, !.path = <<name>>]
GetDir(path) == [Frame("get_dir") EXCEPT !.path = Front(path)]

(* The end of a call: iput these references in order, brelse bh.           *)
Drop(t, refs, bh) ==
  Becomes(t, [k \in DOMAIN refs |-> Iput(refs[k])] \o <<[Frame("end") EXCEPT !.bh = bh]>>)

end(t) ==
  /\ At(t, "end")
  /\ IF Len(stack[t]) > 1
     THEN Return(t, Null) /\ RunsOn(t)
     ELSE stack' = [stack EXCEPT ![t] = <<>>] /\ MaySleep
  /\ OnlyCalls

(***************************************************************************)
(* find_entry: the address of the entry, or 0.  n is the block, de the     *)
(* number of entries the directory had at the beginning.                   *)
(***************************************************************************)
find_entry(t) ==
  LET m == inode_table[Top(t).i]
  IN /\ At(t, "find_entry")
     /\ IF m.zone[0] = 0
        THEN Return(t, 0) /\ RunsOn(t)
        ELSE /\ Goto(t, [Top(t) EXCEPT !.at = "find_scan", !.bh = m.zone[0], !.de = m.size])
             /\ MaySleep
     /\ OnlyCalls

find_scan(t) ==
  LET f == Top(t)
      match == {k \in 0..E - 1 : /\ f.n * E + k < f.de
                                 /\ data[f.bh][k].inode # 0
                                 /\ data[f.bh][k].name = f.path[1]}
      next == IF f.n = 0 THEN inode_table[f.i].zone[1] ELSE 0
  IN /\ At(t, "find_scan")
     /\ CASE match # {} -> Return(t, f.bh * E + Min(match)) /\ RunsOn(t)
          [] match = {} /\ f.de > E /\ next # 0 ->
               Goto(t, [f EXCEPT !.n = 1, !.bh = next]) /\ MaySleep
          [] OTHER -> Return(t, 0) /\ RunsOn(t)
     /\ OnlyCalls

(***************************************************************************)
(* add_entry: the address of an entry with the name and inode 0, or 0.     *)
(* "You may not sleep between calling this and putting something into the  *)
(* entry".  A directory has two zones here.                                *)
(***************************************************************************)
add_entry(t) ==
  LET m == inode_table[Top(t).i]
  IN /\ At(t, "add_entry")
     /\ IF m.zone[0] = 0
        THEN Return(t, 0) /\ RunsOn(t)
        ELSE Goto(t, [Top(t) EXCEPT !.at = "add_scan", !.bh = m.zone[0]]) /\ MaySleep
     /\ OnlyCalls

add_scanSleeps(t) ==                   \* faulty: sleeps before the caller fills the entry
  LET f == Top(t)
      m == inode_table[f.i]
      free == {k \in 0..E - 1 : f.n * E + k >= m.size \/ data[f.bh][k].inode = 0}
      k == Min(free)
  IN /\ At(t, "add_scan")
     /\ IF free # {}
        THEN /\ data' = [data EXCEPT ![f.bh][k] = [inode |-> 0, name |-> f.path[1]]]
             /\ Put(f.i, IF f.n * E + k < m.size THEN m
                         ELSE [m EXCEPT !.size = f.n * E + k + 1, !.dirt = TRUE])
             /\ Return(t, f.bh * E + k) /\ MaySleep
        ELSE /\ IF f.n = 1
                THEN Return(t, 0)
                ELSE Call(t, [Frame("create_block") EXCEPT !.i = f.i, !.n = 1],
                             [f EXCEPT !.at = "add_block", !.bh = 0])
             /\ RunsOn(t) /\ UNCHANGED <<data, inode_table>>
     /\ DataAndTable
add_scan(t) ==
  LET f == Top(t)
      m == inode_table[f.i]
      free == {k \in 0..E - 1 : f.n * E + k >= m.size \/ data[f.bh][k].inode = 0}
      k == Min(free)
  IN /\ At(t, "add_scan")
     /\ IF free # {}
        THEN /\ data' = [data EXCEPT ![f.bh][k] = [inode |-> 0, name |-> f.path[1]]]
             /\ Put(f.i, IF f.n * E + k < m.size THEN m
                         ELSE [m EXCEPT !.size = f.n * E + k + 1, !.dirt = TRUE])
             /\ Return(t, f.bh * E + k)
        ELSE /\ IF f.n = 1
                THEN Return(t, 0)
                ELSE Call(t, [Frame("create_block") EXCEPT !.i = f.i, !.n = 1],
                             [f EXCEPT !.at = "add_block", !.bh = 0])
             /\ UNCHANGED <<data, inode_table>>
     /\ RunsOn(t)
     /\ DataAndTable

add_block(t) ==
  /\ At(t, "add_block")
  /\ IF Top(t).v = 0
     THEN Return(t, 0) /\ RunsOn(t)
     ELSE Goto(t, [Top(t) EXCEPT !.at = "add_scan", !.n = 1, !.bh = Top(t).v]) /\ MaySleep
  /\ OnlyCalls

(***************************************************************************)
(* get_dir: from the root along the path, to the inode or Null.  The name  *)
(* is looked up in dir, given back before the next inode is read.          *)
(***************************************************************************)
get_dir(t) ==
  /\ At(t, "get_dir")
  /\ Put(Root, [inode_table[Root] EXCEPT !.count = @ + 1])
  /\ Goto(t, [Top(t) EXCEPT !.at = "get_dir_next", !.dir = Root])
  /\ RunsOn(t)
  /\ OnlyTable

get_dir_next(t) ==
  LET f == Top(t)
  IN /\ At(t, "get_dir_next")
     /\ CASE ~ IsDir(f.dir) \/ Deleted(f.dir) -> Drop(t, <<f.dir>>, 0)
          [] IsDir(f.dir) /\ ~ Deleted(f.dir) /\ f.path = <<>> -> Return(t, f.dir)
          [] OTHER -> Call(t, Find(f.dir, f.path[1]), [f EXCEPT !.at = "get_dir_found"])
     /\ RunsOn(t)
     /\ OnlyCalls

(* The entry has been found: iput the directory, then iget the number.     *)
Enter(t, label) ==
  LET f == Top(t)
  IN Becomes(t, <<Iput(f.dir)>> \o Iget(Entry(f.v).inode)
                  \o <<[f EXCEPT !.at = label, !.dir = Null]>>)

get_dir_found(t) ==
  /\ At(t, "get_dir_found")
  /\ IF Top(t).v = 0 THEN Drop(t, <<Top(t).dir>>, 0) ELSE Enter(t, "get_dir_got")
  /\ RunsOn(t) /\ OnlyCalls

get_dir_got(t) ==
  /\ At(t, "get_dir_got")
  /\ Goto(t, [Top(t) EXCEPT !.at = "get_dir_next", !.dir = Top(t).v, !.path = Tail(@)])
  /\ RunsOn(t) /\ OnlyCalls

(* namei: path is the whole path, v the directory.                         *)
namei(t) ==
  LET f == Top(t)
  IN /\ At(t, "namei")
     /\ IF f.v = Null THEN Return(t, Null)
        ELSE Call(t, Find(f.v, Last(f.path)), [f EXCEPT !.at = "namei_found", !.dir = f.v])
     /\ RunsOn(t) /\ OnlyCalls

namei_found(t) ==
  /\ At(t, "namei_found")
  /\ IF Top(t).v = 0 THEN Drop(t, <<Top(t).dir>>, 0) ELSE Enter(t, "namei_got")
  /\ RunsOn(t) /\ OnlyCalls

namei_got(t) ==
  /\ At(t, "namei_got")
  /\ Put(Top(t).v, [inode_table[Top(t).v] EXCEPT !.dirt = TRUE])
  /\ Return(t, Top(t).v)
  /\ RunsOn(t) /\ OnlyTable

(***************************************************************************)
(* open_namei.  n = 0: O_RDONLY; n = 1: O_CREAT | O_TRUNC | O_WRONLY, as   *)
(* creat() has it.                                                         *)
(***************************************************************************)
open_dir(t) ==
  LET f == Top(t)
  IN /\ At(t, "open")
     /\ IF f.v = Null THEN Drop(t, <<>>, 0)
        ELSE Call(t, Find(f.v, Last(f.path)), [f EXCEPT !.at = "open_found", !.dir = f.v])
     /\ RunsOn(t) /\ OnlyCalls

open_found(t) ==
  LET f == Top(t)
  IN /\ At(t, "open_found")
     /\ CASE f.v # 0 -> Enter(t, "open_got")
          [] f.v = 0 /\ (f.n = 0 \/ Deleted(f.dir)) -> Drop(t, <<f.dir>>, 0)
          [] OTHER -> Becomes(t, NewInode \o <<[f EXCEPT !.at = "open_new"]>>)
     /\ RunsOn(t) /\ OnlyCalls

open_new(t) ==
  LET f == Top(t)
  IN /\ At(t, "open_new")
     /\ IF f.v = Null
        THEN Drop(t, <<f.dir>>, 0) /\ UNCHANGED inode_table
        ELSE /\ Put(f.v, [inode_table[f.v] EXCEPT !.mode = "reg", !.dirt = TRUE])
             /\ Call(t, Add(f.dir, Last(f.path)), [f EXCEPT !.at = "open_added", !.ino = f.v])
     /\ RunsOn(t) /\ OnlyTable

open_added(t) ==
  LET f == Top(t)
      m == inode_table[f.ino]
  IN /\ At(t, "open_added")
     /\ IF f.v = 0
        THEN /\ Put(f.ino, [m EXCEPT !.nlinks = @ - 1])
             /\ slips' = slips \cup IF m.dirt \/ m.nlinks = 1 THEN {} ELSE {"link unwritten"}
             /\ Drop(t, <<f.ino, f.dir>>, 0)
             /\ UNCHANGED data
        ELSE /\ SetEntry(f.v, m.num)
             /\ Call(t, Iput(f.dir), [f EXCEPT !.at = "opened", !.dir = Null])
             /\ UNCHANGED <<inode_table, slips>>
     /\ RunsOn(t)
     /\ UNCHANGED <<last_allocated_inode, d_inode, imap, zmap, namei_vars>>

open_got(t) ==
  LET f == Top(t)
  IN /\ At(t, "open_got")
     /\ CASE (IsDir(f.v) /\ f.n = 1) \/ Deleted(f.v) -> Drop(t, <<f.v>>, 0)
          [] ~ IsDir(f.v) /\ ~ Deleted(f.v) /\ f.n = 1 ->
               Call(t, [Frame("truncate") EXCEPT !.i = f.v], [f EXCEPT !.at = "opened", !.ino = f.v])
          [] OTHER -> Goto(t, [f EXCEPT !.at = "opened", !.ino = f.v])
     /\ RunsOn(t) /\ OnlyCalls

opened(t) ==
  /\ At(t, "opened")
  /\ file' = [file EXCEPT ![t] = <<Top(t).ino>>]
  /\ stack' = [stack EXCEPT ![t] = <<>>]
  /\ MaySleep
  /\ UNCHANGED <<table, disk, calls, apart>>

(***************************************************************************)
(* sys_mkdir.                                                              *)
(***************************************************************************)
mkdir_dir(t) ==
  LET f == Top(t)
  IN /\ At(t, "mkdir")
     /\ CASE f.v = Null -> Drop(t, <<>>, 0)
          [] f.v # Null /\ Deleted(f.v) -> Drop(t, <<f.v>>, 0)
          [] OTHER -> Call(t, Find(f.v, Last(f.path)), [f EXCEPT !.at = "mkdir_found", !.dir = f.v])
     /\ RunsOn(t) /\ OnlyCalls

mkdir_found(t) ==
  LET f == Top(t)
  IN /\ At(t, "mkdir_found")
     /\ IF f.v # 0 THEN Drop(t, <<f.dir>>, 0)
                   ELSE Becomes(t, NewInode \o <<[f EXCEPT !.at = "mkdir_new"]>>)
     /\ RunsOn(t) /\ OnlyCalls

mkdir_new(t) ==
  LET f == Top(t)
  IN /\ At(t, "mkdir_new")
     /\ IF f.v = Null
        THEN Drop(t, <<f.dir>>, 0) /\ UNCHANGED inode_table
        ELSE /\ Put(f.v, [inode_table[f.v] EXCEPT !.size = 2, !.dirt = TRUE])
             /\ Call(t, Frame("new_block"), [f EXCEPT !.at = "mkdir_block", !.ino = f.v])
     /\ RunsOn(t) /\ OnlyTable

mkdir_block(t) ==
  LET f == Top(t)
  IN /\ At(t, "mkdir_block")
     /\ Put(f.ino, [inode_table[f.ino] EXCEPT !.zone[0] = f.v, !.dirt = @ \/ f.v # 0])
     /\ IF f.v = 0
        THEN /\ Call(t, Iput(f.dir), [f EXCEPT !.at = "mkdir_undo", !.dir = Null])
             /\ RunsOn(t)
        ELSE Goto(t, [f EXCEPT !.at = "mkdir_fill"]) /\ MaySleep
     /\ OnlyTable

mkdir_fill(t) ==
  LET f == Top(t)
      m == inode_table[f.ino]
  IN /\ At(t, "mkdir_fill")
     /\ data' = [data EXCEPT ![m.zone[0]][0] = [inode |-> m.num, name |-> "."],
                             ![m.zone[0]][1] = [inode |-> inode_table[f.dir].num, name |-> ".."]]
     /\ Put(f.ino, [m EXCEPT !.nlinks = 2, !.mode = "dir", !.dirt = TRUE])
     /\ Call(t, Add(f.dir, Last(f.path)), [f EXCEPT !.at = "mkdir_added"])
     /\ RunsOn(t) /\ DataAndTable

mkdir_added(t) ==
  LET f == Top(t)
  IN /\ At(t, "mkdir_added")
     /\ IF f.v = 0
        THEN /\ Call(t, Iput(f.dir), [f EXCEPT !.at = "mkdir_free", !.dir = Null])
             /\ UNCHANGED <<data, inode_table>>
        ELSE /\ SetEntry(f.v, inode_table[f.ino].num)
             /\ Put(f.dir, [inode_table[f.dir] EXCEPT !.nlinks = @ + 1, !.dirt = TRUE])
             /\ Drop(t, <<f.dir, f.ino>>, BlockOf(f.v))
     /\ RunsOn(t) /\ DataAndTable

(* free_block(), of a zone that iput will free once more.                  *)
mkdir_free(t) ==
  /\ At(t, "mkdir_free")
  /\ Call(t, [Frame("free_block") EXCEPT !.n = inode_table[Top(t).ino].zone[0]],
             [Top(t) EXCEPT !.at = "mkdir_undo"])
  /\ slips' = slips \cup {"zone freed twice"}
  /\ MaySleep
  /\ UNCHANGED <<table, d_inode, imap, zmap, data, namei_vars>>

mkdir_undo(t) ==
  /\ At(t, "mkdir_undo")
  /\ Put(Top(t).ino, [inode_table[Top(t).ino] EXCEPT !.nlinks = 0])
  /\ Drop(t, <<Top(t).ino>>, 0)
  /\ RunsOn(t) /\ OnlyTable

(***************************************************************************)
(* sys_rmdir and sys_unlink: the entry de, in the buffer bh, is found      *)
(* before iget sleeps and cleared after.                                   *)
(***************************************************************************)
Removes == {"rmdir", "unlink"}
FoundAt == [rmdir |-> "rmdir_found", unlink |-> "unlink_found"]
GotAt == [rmdir |-> "rmdir_got", unlink |-> "unlink_got"]

remove_dir(t) ==
  LET f == Top(t)
  IN /\ \E op \in Removes :
          /\ At(t, op)
          /\ CASE f.v = Null -> Drop(t, <<>>, 0)
               [] f.v # Null /\ op = "unlink" /\ Deleted(f.v) -> Drop(t, <<f.v>>, 0)
               [] OTHER -> Call(t, Find(f.v, Last(f.path)),
                                [f EXCEPT !.at = FoundAt[op], !.dir = f.v])
     /\ RunsOn(t) /\ OnlyCalls

remove_found(t) ==
  LET f == Top(t)
  IN /\ \E op \in Removes :
          /\ At(t, FoundAt[op])
          /\ IF f.v = 0 \/ (op = "rmdir" /\ Deleted(f.dir))
             THEN Drop(t, <<f.dir>>, BlockOf(f.v))
             ELSE Becomes(t, Iget(Entry(f.v).inode)
                          \o <<[f EXCEPT !.at = GotAt[op], !.de = f.v, !.bh = BlockOf(f.v)]>>)
     /\ RunsOn(t) /\ OnlyCalls

rmdir_got(t) ==
  LET f == Top(t)
  IN /\ At(t, "rmdir_got")
     /\ IF f.v = f.dir \/ ~ IsDir(f.v)
        THEN Drop(t, <<f.v, f.dir>>, f.bh) /\ RunsOn(t)
        ELSE /\ Call(t, [Frame("empty_dir") EXCEPT !.i = f.v, !.de = inode_table[f.v].size,
                                                   !.bh = inode_table[f.v].zone[0]],
                        [f EXCEPT !.at = "rmdir_empty", !.ino = f.v])
             /\ MaySleep
     /\ OnlyCalls

(* empty_dir, after the bread of block n; de is the number of entries.     *)
empty_dir(t) ==
  LET f == Top(t)
      m == inode_table[f.i]
      bad == f.n = 0 /\ \/ f.de < 2
                        \/ f.bh = 0
                        \/ data[f.bh][0] # [inode |-> m.num, name |-> "."]
                        \/ data[f.bh][1].inode = 0
      used == {k \in 0..E - 1 : /\ f.n * E + k \in 2..f.de - 1
                                /\ data[f.bh][k].inode # 0}
  IN /\ At(t, "empty_dir")
     /\ CASE bad -> Return(t, 0) /\ RunsOn(t)
          [] ~ bad /\ used # {} -> Return(t, 0) /\ RunsOn(t)
          [] ~ bad /\ used = {} /\ f.n = 0 /\ f.de > E /\ m.zone[1] # 0 ->
               Goto(t, [f EXCEPT !.n = 1, !.bh = m.zone[1]]) /\ MaySleep
          [] OTHER -> Return(t, 1) /\ RunsOn(t)
     /\ OnlyCalls

rmdir_emptyClean(t) ==                 \* faulty: the parent is not marked dirty
  LET f == Top(t)
  IN /\ At(t, "rmdir_empty")
     /\ IF f.v = 0
        THEN /\ Drop(t, <<f.ino, f.dir>>, f.bh)
             /\ UNCHANGED <<data, inode_table>>
        ELSE /\ SetEntry(f.de, 0)
             /\ inode_table' = [inode_table EXCEPT
                  ![f.ino].nlinks = 0, ![f.ino].dirt = TRUE, ![f.dir].nlinks = @ - 1]
             /\ Drop(t, <<f.dir, f.ino>>, 0)
     /\ RunsOn(t) /\ DataAndTable
rmdir_empty(t) ==
  LET f == Top(t)
  IN /\ At(t, "rmdir_empty")
     /\ IF f.v = 0
        THEN /\ Drop(t, <<f.ino, f.dir>>, f.bh)
             /\ UNCHANGED <<data, inode_table>>
        ELSE /\ SetEntry(f.de, 0)
             /\ inode_table' = [inode_table EXCEPT
                  ![f.ino].nlinks = 0, ![f.ino].dirt = TRUE,
                  ![f.dir].nlinks = @ - 1, ![f.dir].dirt = TRUE]
             /\ Drop(t, <<f.dir, f.ino>>, 0)
     /\ RunsOn(t) /\ DataAndTable

unlink_got(t) ==
  LET f == Top(t)
      m == inode_table[f.v]
  IN /\ At(t, "unlink_got")
     /\ IF m.mode # "reg"
        THEN /\ Drop(t, <<f.v, f.dir>>, f.bh)
             /\ UNCHANGED <<data, inode_table>>
        ELSE /\ SetEntry(f.de, 0)
             /\ Put(f.v, [m EXCEPT !.nlinks = IF @ = 0 THEN 0 ELSE @ - 1, !.dirt = TRUE])
             /\ Drop(t, <<f.v, f.dir>>, 0)
     /\ RunsOn(t) /\ DataAndTable

(***************************************************************************)
(* sys_link: v is what namei(oldname) gave, path the new path.             *)
(***************************************************************************)
link_old(t) ==
  LET f == Top(t)
  IN /\ At(t, "link")
     /\ CASE f.v = Null -> Drop(t, <<>>, 0)
          [] f.v # Null /\ inode_table[f.v].mode # "reg" -> Drop(t, <<f.v>>, 0)
          [] OTHER -> Call(t, GetDir(f.path), [f EXCEPT !.at = "link_dir", !.ino = f.v])
     /\ RunsOn(t) /\ OnlyCalls

link_dir(t) ==
  LET f == Top(t)
  IN /\ At(t, "link_dir")
     /\ CASE f.v = Null -> Drop(t, <<f.ino>>, 0)
          [] f.v # Null /\ Deleted(f.v) -> Drop(t, <<f.v, f.ino>>, 0)
          [] OTHER -> Call(t, Find(f.v, Last(f.path)), [f EXCEPT !.at = "link_found", !.dir = f.v])
     /\ RunsOn(t) /\ OnlyCalls

link_found(t) ==
  LET f == Top(t)
  IN /\ At(t, "link_found")
     /\ IF f.v # 0
        THEN Drop(t, <<f.dir, f.ino>>, 0)
        ELSE Call(t, Add(f.dir, Last(f.path)), [f EXCEPT !.at = "link_added"])
     /\ RunsOn(t) /\ OnlyCalls

link_added(t) ==
  LET f == Top(t)
  IN /\ At(t, "link_added")
     /\ IF f.v = 0
        THEN Drop(t, <<f.dir, f.ino>>, 0) /\ UNCHANGED data
        ELSE /\ SetEntry(f.v, inode_table[f.ino].num)
             /\ Call(t, Iput(f.dir), [f EXCEPT !.at = "link_count", !.dir = Null])
     /\ RunsOn(t)
     /\ UNCHANGED inode_table /\ DataAndTable

link_count(t) ==
  LET i == Top(t).ino
  IN /\ At(t, "link_count")
     /\ Put(i, [inode_table[i] EXCEPT !.nlinks = @ + 1, !.dirt = TRUE])
     /\ Drop(t, <<i>>, 0)
     /\ RunsOn(t) /\ OnlyTable

(***************************************************************************)
(* System calls begin.                                                     *)
(***************************************************************************)
Begin(t, frames) ==
  /\ halted = "no" /\ running = Nobody /\ stack[t] = <<>> /\ calls < MaxCalls
  /\ stack' = [stack EXCEPT ![t] = frames]
  /\ calls' = calls + 1
  /\ RunsOn(t)
  /\ UNCHANGED <<table, disk, apart>>

MayUse(t) == IF apart THEN Path[t] ELSE Common

sys_call(t) ==
  /\ \E p \in MayUse(t) :
       \/ \E op \in Removes \cup {"mkdir"} :
            Begin(t, <<GetDir(p), [Frame(op) EXCEPT !.path = p]>>)
       \/ \E flag \in 0..1 :
            /\ file[t] = <<>>
            /\ Begin(t, <<GetDir(p), [Frame("open") EXCEPT !.path = p, !.n = flag]>>)
       \/ \E q \in MayUse(t) \ {p} :
            Begin(t, <<GetDir(p), [Frame("namei") EXCEPT !.path = p],
                       [Frame("link") EXCEPT !.path = q]>>)
  /\ UNCHANGED file

sys_sync(t) ==
  /\ Begin(t, <<[Frame("sync_wait") EXCEPT !.i = 0]>>)
  /\ UNCHANGED file

sys_close(t) ==
  /\ file[t] # <<>>
  /\ Begin(t, <<Iput(file[t][1]), Frame("end")>>)
  /\ file' = [file EXCEPT ![t] = <<>>]

NameiStep(t) ==
  \/ end(t)
  \/ find_entry(t) \/ find_scan(t) \/ add_entry(t) \/ add_scan(t) \/ add_block(t)
  \/ get_dir(t) \/ get_dir_next(t) \/ get_dir_found(t) \/ get_dir_got(t)
  \/ namei(t) \/ namei_found(t) \/ namei_got(t)
  \/ open_dir(t) \/ open_found(t) \/ open_new(t) \/ open_added(t) \/ open_got(t)
  \/ opened(t)
  \/ mkdir_dir(t) \/ mkdir_found(t) \/ mkdir_new(t) \/ mkdir_block(t) \/ mkdir_fill(t)
  \/ mkdir_added(t) \/ mkdir_free(t) \/ mkdir_undo(t)
  \/ remove_dir(t) \/ remove_found(t) \/ rmdir_got(t) \/ empty_dir(t) \/ rmdir_empty(t)
  \/ unlink_got(t)
  \/ link_old(t) \/ link_dir(t) \/ link_found(t) \/ link_added(t) \/ link_count(t)
  \/ sys_call(t) \/ sys_sync(t) \/ sys_close(t)

Next == \E t \in Task : (InodeStep(t) /\ UNCHANGED namei_vars) \/ NameiStep(t)

(***************************************************************************)
(* The device at the start: the root, in zone 1, and the inodes of `tree': *)
(* pairs of a name in the root and a mode; a directory's zone is its       *)
(* inode's number.                                                         *)
(***************************************************************************)
Dot(nr) == [EmptyBlock EXCEPT ![0] = [inode |-> nr, name |-> "."],
                              ![1] = [inode |-> ROOT_INO, name |-> ".."]]

Made(tree) ==
  LET nr(k) == k + 1
      dirs == {k \in DOMAIN tree : tree[k][2] = "dir"}
      stored(n) ==
        IF n = ROOT_INO
        THEN [nlinks |-> 2 + Cardinality(dirs), mode |-> "dir", size |-> 2 + Len(tree),
              zone |-> [z \in Zone |-> 1 - z]]
        ELSE IF n - 1 \in dirs
        THEN [nlinks |-> 2, mode |-> "dir", size |-> 2, zone |-> [z \in Zone |-> (1 - z) * n]]
        ELSE [Stored(memset0) EXCEPT
                !.nlinks = IF n - 1 \in DOMAIN tree THEN 1 ELSE 0,
                !.mode = IF n - 1 \in DOMAIN tree THEN "reg" ELSE "none"]
  IN /\ d_inode = [n \in 1..NInodes |-> stored(n)]
     /\ imap = {ROOT_INO} \cup {nr(k) : k \in DOMAIN tree}
     /\ zmap = {1} \cup {nr(k) : k \in dirs}
     /\ data = [b \in 1..NBlocks |->
          IF b = 1 THEN [k \in 0..E - 1 |->
                           IF k - 1 \in DOMAIN tree THEN [inode |-> nr(k - 1), name |-> tree[k - 1][1]]
                                                    ELSE Dot(1)[k]]
          ELSE IF b - 1 \in dirs THEN Dot(b) ELSE EmptyBlock]

CONSTANT Tree             \* the trees to start with

\* Their files have inodes, and their directories a block each.
ASSUME TreeAssumption ==
  \A tree \in Tree : /\ DOMAIN tree \subseteq 1..NInodes - 1
                      /\ \A k \in DOMAIN tree : tree[k][2] = "dir" => k < NBlocks

Init ==
  /\ \E tree \in Tree : Made(tree)
  /\ inode_table = [i \in Slot |->
       IF i # Root THEN memset0
       ELSE [Loaded(memset0, d_inode[ROOT_INO]) EXCEPT !.num = ROOT_INO, !.count = 1]]
  /\ last_allocated_inode = 0
  /\ slips = {}
  /\ running = Nobody
  /\ stack = [t \in Task |-> <<>>]
  /\ halted = "no"
  /\ file = [t \in Task |-> <<>>]
  /\ calls = 0
  /\ apart \in BOOLEAN

Spec == Init /\ [][Next]_all_vars

(***************************************************************************)
(* Properties.                                                             *)
(***************************************************************************)
Asleep == running = Nobody /\ halted = "no"
Quiet == Asleep /\ \A t \in Task : stack[t] = <<>>

\* Where the calls of stack s hold references to slot i.
Refs(s, i) == {r \in (DOMAIN s) \X {"dir", "ino"} : s[r[1]][r[2]] = i}

\* i_count is the number of references that calls, open files and the mount
\* have, whatever iput, iget and get_empty_inode slept on: an inode in use is
\* not given to somebody else, and one that nobody uses can be.  (inode.c:127-248)
CountMatchesUsers ==
  Asleep => \A i \in Slot :
    inode_table[i].count = Cardinality(UNION {{t} \X Refs(stack[t], i) : t \in Task})
                           + Cardinality({t \in Task : file[t] = <<i>>})
                           + IF i = Root THEN 1 ELSE 0

\* An inode is in one slot of the table at most, though iget sleeps between its
\* search of the table and the slot it claims, and the bitmap has it in use: the
\* number that new_inode takes from there is in no slot.  The exception is an
\* inode that was freed while the caller of iget slept.  (inode.c:218-264,
\* bitmap.c:97-145)
OneCopy ==
  "freed inode read" \notin slips => \A i \in Slot :
    inode_table[i].num # 0 =>
      /\ inode_table[i].num \in imap
      /\ \A j \in Slot \ {i} : inode_table[j].num # inode_table[i].num

\* No change is lost: the contents of a slot that is not being read or written,
\* not dirty and not deleted are what the disk has, but for that inode and for
\* one whose number was used again meanwhile, so that the caller of iget has
\* linked what open_namei could not name and takes a link from.
\* (inode.c:267-288, namei.c:345-353)
CleanCopy ==
  Asleep /\ slips \cap {"freed inode read", "link unwritten"} = {} => \A i \in Slot :
    LET m == inode_table[i]
    IN m.num # 0 => m.lock \/ m.dirt \/ m.nlinks = 0 \/ Stored(m) = d_inode[m.num]

(* What the tree is at rest, in memory or on disk.                         *)
Now(n) == LET held == {i \in Slot : inode_table[i].num = n}
          IN IF held = {} THEN d_inode[n] ELSE Stored(inode_table[Min(held)])
EntriesOf(n) == {de \in E..(NBlocks + 1) * E - 1 :
                   \E z \in Zone : /\ Now(n).zone[z] # 0 /\ Now(n).zone[z] = BlockOf(de)
                                   /\ z * E + (de % E) < Now(n).size
                                   /\ Entry(de).inode # 0}
Dirs == {n \in imap : Now(n).mode = "dir" /\ Now(n).nlinks > 0}
Names(n) == {de \in UNION {EntriesOf(d) : d \in Dirs} : Entry(de).inode = n}

\* When no call is under way the file system is what fsck wants: the bitmaps
\* mark exactly the inodes that have a name or are open and the zones that they
\* own, every inode counts its names, names in a directory differ.  Tasks may
\* interleave as they like as long as they do not use each other's paths, with
\* two exceptions that the code does not survive: two of them extend a directory
\* at the same time, and mkdir fails for want of a zone (both in the README).
TreeSound ==
  Quiet /\ apart /\ slips \cap {"zone overwritten", "zone freed twice"} = {} =>
    LET zones(n) == {Now(n).zone[z] : z \in Zone} \ {0}
        open == {inode_table[file[t][1]].num : t \in {u \in Task : file[u] # <<>>}}
    IN /\ \A n \in imap : Cardinality(Names(n)) = Now(n).nlinks
       /\ imap = {ROOT_INO} \cup open \cup {n \in 1..NInodes : Names(n) # {}}
       /\ zmap = UNION {zones(n) : n \in imap}
       /\ \A n, o \in imap : n # o => zones(n) \cap zones(o) = {}
       /\ \A d \in Dirs : \A e, g \in EntriesOf(d) : e # g => Entry(e).name # Entry(g).name
==============================================================================
