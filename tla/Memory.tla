-------------------------------- MODULE Memory -------------------------------
(***************************************************************************)
(* Memory management: mm/memory.c with the parts of fork, exit, waitpid    *)
(* and execve that use it.  fork copies the page tables of a task and      *)
(* makes the pages of both read-only; mem_map counts the users of a page;  *)
(* a write fault copies a page that has other users.  Kernel code writes   *)
(* to user memory regardless of the read-only bit (the 386 does not look   *)
(* at it in supervisor mode), so system calls ask verify_area to do beforehand *)
(* what the fault would have done; between that and the write a task may   *)
(* sleep.                                                                  *)
(*                                                                         *)
(* No function of mm/memory.c sleeps, so each is a part of one step.  A    *)
(* task sees Addr = DIRS page directory entries of PTRS pages each (16 of  *)
(* 1024 in the code).  Page 0 stands for all memory below LOW_MEM: mapped  *)
(* by task 0, not counted in mem_map.  The contents of a page is a value.  *)
(* Translations cached by the processor (invalidate()) are left out.       *)
(***************************************************************************)
EXTENDS Integers, FiniteSets

CONSTANTS
  NR_TASKS,
  PAGING_PAGES,
  DIRS, PTRS,
  Written       \* the pages that programs and system calls write to

ASSUME MemoryAssumption ==
  /\ NR_TASKS \in Nat /\ NR_TASKS > 1
  /\ PAGING_PAGES \in Nat
  /\ DIRS \in Nat \ {0}
  /\ PTRS \in Nat \ {0}
  /\ Written \subseteq 0..DIRS * PTRS - 1

Slot == 0..NR_TASKS - 1
Page == 1..PAGING_PAGES
LOW == 0
None == -1
Dir == 0..DIRS - 1
Addr == 0..DIRS * PTRS - 1
DirOf(a) == a \div PTRS
Top == DIRS * PTRS - 1            \* where execve puts the arguments
Val == {0, 1}                     \* get_free_page fills a page with 0
Stored == Val \ {0}               \* what programs and system calls write
Garbage == 1                      \* what nobody has put in order yet

VARIABLES
  mem_map,   \* the number of users of each page
  data,      \* its contents
  pg_dir,    \* pg_dir[t][d]: the page that holds the page table, or None
  pte,       \* pte[t][a]: the page table entry
  task,      \* the page of the task_struct
  father,
  pc,        \* where the kernel code of the task is suspended
  at,        \* the page that a system call is going to write to
  arg,       \* page[] of do_execve
  lost       \* history: pages that nobody remembers any more

vars == <<mem_map, data, pg_dir, pte, task, father, pc, at, arg, lost>>
tables == <<pg_dir, pte>>
tasks == <<task, father>>
call == <<pc, at, arg>>

NotPresent == [page |-> None, rw |-> FALSE]
Entry(p) == [page |-> p, rw |-> TRUE]
NoTables == [d \in Dir |-> None]
NoEntries == [a \in Addr |-> NotPresent]

\* The boot page table maps low memory for task 0, in its first directory.
Init ==
  /\ mem_map = [p \in Page |-> 0]
  /\ data = [p \in Page \cup {LOW} |-> IF p = LOW THEN 0 ELSE Garbage]
  /\ pg_dir = [t \in Slot |-> [d \in Dir |-> IF t = 0 /\ d = 0 THEN LOW ELSE None]]
  /\ pte = [t \in Slot |-> [a \in Addr |->
              IF t = 0 /\ DirOf(a) = 0 THEN Entry(LOW) ELSE NotPresent]]
  /\ task = [t \in Slot |-> IF t = 0 THEN LOW ELSE None]
  /\ father = [t \in Slot |-> 0]
  /\ pc = [t \in Slot |-> IF t = 0 THEN "user" ELSE "none"]
  /\ at = [t \in Slot |-> Top]
  /\ arg = [t \in Slot |-> None]
  /\ lost = {}

(***************************************************************************)
(* Pages.                                                                  *)
(***************************************************************************)
Free(map) == {p \in Page : map[p] = 0}

\* "Get physical address of first (actually last :-) free page".
get_free_page(map) == CHOOSE p \in Free(map) : \A q \in Free(map) : q <= p
Taken(map) == [map EXCEPT ![get_free_page(map)] = 1]
free_page(map, p) == IF p \in Page THEN [map EXCEPT ![p] = @ - 1] ELSE map

Mappings(entries, p) == Cardinality({a \in Addr : entries[a].page = p})

\* (Faulty variant: the page tables themselves are kept.)
tables_kept(map, dir, entries) == [p \in Page |-> map[p] - Mappings(entries, p)]

\* (Faulty variant: the entries are not cleared, so that the second call in
\* do_exit, for the data segment, finds them again.)
freed_twice(map, dir, entries) ==
  [p \in Page |-> map[p] - 2 * (Mappings(entries, p)
                                + Cardinality({d \in Dir : dir[d] = p}))]

\* mem_map after free_page_tables has released a task's pages and tables.
free_page_tables(map, dir, entries) ==
  [p \in Page |-> map[p] - Mappings(entries, p)
                         - Cardinality({d \in Dir : dir[d] = p})]

\* The contents becomes d; of what is in a page when it is free only this is
\* left, that it need not be 0.
Contents(d) == data' = [p \in DOMAIN d |-> IF p \in Free(mem_map') THEN Garbage ELSE d[p]]

\* (Faulty variant.)
StillWritable(e) == e

ReadOnly(e) == [e EXCEPT !.rw = FALSE]

(***************************************************************************)
(* copy_page_tables, one page directory entry after the other, until a     *)
(* table cannot be allocated.  New tables and entries are dir and new;     *)
(* the father's entries become old.  Low memory keeps its entry.           *)
(***************************************************************************)
CopyDir(m, d) ==
  IF ~ m.ok \/ m.from[d] = None
    THEN m
    ELSE IF Free(m.map) = {}
      THEN [m EXCEPT !.ok = FALSE]
      ELSE LET counted == Taken(m.map)
               inDir(a) == DirOf(a) = d
           IN [m EXCEPT
                !.dir[d] = get_free_page(m.map),
                !.new = [a \in Addr |-> IF inDir(a) THEN ReadOnly(m.old[a]) ELSE @[a]],
                !.old = [a \in Addr |-> IF inDir(a) /\ @[a].page # LOW
                                          THEN ReadOnly(@[a]) ELSE @[a]],
                !.map = [p \in Page |-> counted[p] + Cardinality(
                           {a \in Addr : inDir(a) /\ m.old[a].page = p})]]

copy_page_tables(map, from, old) ==
  LET copied[d \in 0..DIRS] ==
        IF d = 0
          THEN [ok |-> TRUE, map |-> map, from |-> from, old |-> old,
                dir |-> NoTables, new |-> NoEntries]
          ELSE CopyDir(copied[d - 1], d - 1)
  IN copied[DIRS]

(***************************************************************************)
(* Exit.                                                                   *)
(***************************************************************************)
\* do_exit when mem_map is map, until it closes the files, which may sleep:
\* the memory goes, children become orphans.  What page[] of an execve on the
\* kernel stack names is lost, as are the pages of more.
do_exit(t, map, more) ==
  /\ mem_map' = free_page_tables(map, pg_dir[t], pte[t])
  /\ Contents(data)
  /\ pg_dir' = [pg_dir EXCEPT ![t] = NoTables]
  /\ pte' = [pte EXCEPT ![t] = NoEntries]
  /\ father' = [u \in Slot |-> IF task[u] # None /\ father[u] = t THEN 0 ELSE father[u]]
  /\ pc' = [pc EXCEPT ![t] = "exit"]
  /\ at' = [at EXCEPT ![t] = Top]
  /\ arg' = [arg EXCEPT ![t] = None]
  /\ lost' = lost \cup more \cup ({arg[t]} \cap Page)
  /\ UNCHANGED task

\* The rest of it: a task with a father stays as a zombie; release() frees the
\* page of one that has none, whose kernel stack is in it, and schedules.
exit_done(t) ==
  /\ pc[t] = "exit"
  /\ IF father[t] # 0
       THEN /\ pc' = [pc EXCEPT ![t] = "zombie"]
            /\ UNCHANGED <<mem_map, data, task>>
       ELSE /\ pc' = [pc EXCEPT ![t] = "none"]
            /\ mem_map' = free_page(mem_map, task[t])
            /\ Contents(data)
            /\ task' = [task EXCEPT ![t] = None]
  /\ UNCHANGED <<tables, father, at, arg, lost>>

\* sys_exit, or a signal.
exit(t) == /\ t # 0
           /\ pc[t] = "user"
           /\ do_exit(t, mem_map, {})

(***************************************************************************)
(* Faults.                                                                 *)
(***************************************************************************)
Present(t, a) == pte[t][a].page # None
CanWrite(t, a) == Present(t, a) /\ pte[t][a].rw

\* put_page into the tables of t: with a table of its own if there is none.
\* map counts the page already.
put_page(t, p, a, map) ==
  IF pg_dir[t][DirOf(a)] # None
    THEN /\ pte' = [pte EXCEPT ![t][a] = Entry(p)]
         /\ mem_map' = map
         /\ UNCHANGED pg_dir
    ELSE /\ Free(map) # {}
         /\ pte' = [pte EXCEPT ![t][a] = Entry(p)]
         /\ mem_map' = Taken(map)
         /\ pg_dir' = [pg_dir EXCEPT ![t][DirOf(a)] = get_free_page(map)]

NoTableFor(t, a, map) == pg_dir[t][DirOf(a)] = None /\ Free(map) = {}

\* The page is not present, for the user or for the kernel.
do_no_page(t, a) ==
  LET new == get_free_page(mem_map) IN
  /\ t # 0
  /\ pc[t] = "user" \/ (pc[t] = "verified" /\ a = at[t])
  /\ ~ Present(t, a)
  /\ \/ /\ Free(mem_map) # {}
        /\ ~ NoTableFor(t, a, Taken(mem_map))
        /\ put_page(t, new, a, Taken(mem_map))
        /\ data' = [data EXCEPT ![new] = 0]
        /\ UNCHANGED <<tasks, call, lost>>
     \* put_page has returned 0; nobody frees the new page.
     \/ /\ Free(mem_map) # {}
        /\ NoTableFor(t, a, Taken(mem_map))
        /\ do_exit(t, Taken(mem_map), {new})
     \/ /\ Free(mem_map) = {}
        /\ do_exit(t, mem_map, {})

\* (Faulty variant: one other user is overlooked.)
AlmostAlone(p) == p # LOW /\ mem_map[p] <= 2

Alone(p) == p # LOW /\ mem_map[p] = 1

\* un_wp_page gives t a writable page, or there is none and t is killed.
\* next is where the task goes on.
un_wp_page(t, a, next) ==
  LET old == pte[t][a].page
      new == get_free_page(mem_map)
  IN \/ /\ Alone(old)
        /\ pte' = [pte EXCEPT ![t][a].rw = TRUE]
        /\ next
        /\ UNCHANGED <<mem_map, data, pg_dir, tasks, arg, lost>>
     \/ /\ ~ Alone(old)
        /\ Free(mem_map) # {}
        /\ mem_map' = free_page(Taken(mem_map), old)
        /\ pte' = [pte EXCEPT ![t][a] = Entry(new)]
        /\ data' = [data EXCEPT ![new] = data[old]]
        /\ next
        /\ UNCHANGED <<pg_dir, tasks, arg, lost>>
     \/ /\ ~ Alone(old)
        /\ Free(mem_map) = {}
        /\ do_exit(t, mem_map, {})

do_wp_page(t, a) ==
  /\ t # 0
  /\ pc[t] = "user"
  /\ Present(t, a) /\ ~ CanWrite(t, a)
  /\ un_wp_page(t, a, UNCHANGED <<pc, at>>)

(***************************************************************************)
(* What tasks do with their memory, in user mode and in system calls.      *)
(***************************************************************************)
write(t, a, v) ==
  /\ t # 0
  /\ pc[t] = "user"
  /\ CanWrite(t, a)
  /\ data' = [data EXCEPT ![pte[t][a].page] = v]
  /\ UNCHANGED <<mem_map, tables, tasks, call, lost>>

Enter(t, place, a) == /\ pc' = [pc EXCEPT ![t] = place]
                      /\ at' = [at EXCEPT ![t] = a]

\* (Faulty variant: looks at nothing.)
verify_nothing(t, a) ==
  /\ t # 0
  /\ pc[t] = "user"
  /\ Enter(t, "verified", a)
  /\ UNCHANGED <<mem_map, data, tables, tasks, arg, lost>>

\* A system call that is going to write to page a.
verify_area(t, a) ==
  /\ t # 0
  /\ pc[t] = "user"
  /\ IF Present(t, a) /\ ~ CanWrite(t, a)
       THEN un_wp_page(t, a, Enter(t, "verified", a))
       ELSE /\ Enter(t, "verified", a)
            /\ UNCHANGED <<mem_map, data, tables, tasks, arg, lost>>

\* The kernel writes.
PutFs(t, a, v) == /\ Present(t, a)
                  /\ Contents([data EXCEPT ![pte[t][a].page] = v])

put_fs(t, v) ==
  /\ pc[t] = "verified"
  /\ UNCHANGED <<mem_map, tables, tasks, arg, lost>>
  /\ PutFs(t, at[t], v)
  /\ Enter(t, "user", Top)

\* The call returns with nothing to write.
return(t) ==
  /\ pc[t] = "verified"
  /\ Enter(t, "user", Top)
  /\ UNCHANGED <<mem_map, data, tables, tasks, arg, lost>>

\* sys_pipe stores the descriptors without verify_area.  (It hardly ever sleeps;
\* if the page is not present, do_no_page comes first.)
sys_pipe(t, a, v) ==
  /\ t # 0
  /\ pc[t] = "user"
  /\ UNCHANGED <<mem_map, tables, tasks, call, lost>>
  /\ PutFs(t, a, v)

\* sys_waitpid finds the zombie z: it stores the status, then release(z).
sys_waitpid(t, z, v) ==
  /\ pc[t] = "verified"
  /\ pc[z] = "zombie" /\ father[z] = t
  /\ mem_map' = free_page(mem_map, task[z])
  /\ PutFs(t, at[t], v)
  /\ task' = [task EXCEPT ![z] = None]
  /\ father' = [father EXCEPT ![z] = 0]
  /\ pc' = [pc EXCEPT ![t] = "user", ![z] = "none"]
  /\ at' = [at EXCEPT ![t] = Top]
  /\ UNCHANGED <<tables, arg, lost>>

(***************************************************************************)
(* fork.  (Without a slot or a page for the task_struct it fails and       *)
(* changes nothing; task 0 forks once.)                                    *)
(***************************************************************************)
find_empty_process == CHOOSE n \in Slot : /\ task[n] = None
                                          /\ \A m \in 0..n - 1 : task[m] # None

fork(t) ==
  LET n == find_empty_process
      p == get_free_page(mem_map)
      c == copy_page_tables(Taken(mem_map), pg_dir[t], pte[t])
  IN
  /\ pc[t] = "user"
  /\ \E m \in Slot : task[m] = None
  /\ Free(mem_map) # {}
  /\ IF c.ok
       THEN /\ mem_map' = c.map
            /\ pg_dir' = [pg_dir EXCEPT ![n] = c.dir]
            /\ pte' = [pte EXCEPT ![n] = c.new, ![t] = c.old]
            /\ task' = [task EXCEPT ![n] = p]
            /\ father' = [father EXCEPT ![n] = t]
            /\ pc' = [pc EXCEPT ![n] = "user", ![t] = IF t = 0 THEN "pause" ELSE "user"]
       ELSE /\ mem_map' = free_page(free_page_tables(c.map, c.dir, c.new), p)
            /\ pte' = [pte EXCEPT ![t] = c.old]
            /\ pc' = [pc EXCEPT ![t] = IF t = 0 THEN "pause" ELSE "user"]
            /\ UNCHANGED <<pg_dir, tasks>>
  /\ UNCHANGED <<data, at, arg, lost>>

(***************************************************************************)
(* execve of a program with one page of arguments, which the caller has in *)
(* its page a, and no environment.                                         *)
(***************************************************************************)
copy_strings(t, a) ==
  /\ t # 0
  /\ pc[t] = "user"
  /\ Present(t, a)
  /\ Free(mem_map) # {}      \* otherwise execve fails and changes nothing
  /\ LET new == get_free_page(mem_map)
     IN /\ mem_map' = Taken(mem_map)
        /\ Contents([data EXCEPT ![new] = data[pte[t][a].page]])
        /\ arg' = [arg EXCEPT ![t] = new]
  /\ pc' = [pc EXCEPT ![t] = "exec"]
  /\ UNCHANGED <<tables, tasks, at, lost>>

\* After sys_close of the close_on_exec descriptors, which may sleep: the old
\* image goes, change_ldt puts the arguments in place.  Nobody looks at what
\* put_page returns.  The kernel then writes the new image as the program itself
\* might (do_no_page, write), or gives up (exit): no page of it is shared.
change_ldt(t) ==
  LET map == free_page_tables(mem_map, pg_dir[t], pte[t])
  IN
  /\ pc[t] = "exec"
  /\ IF Free(map) # {}
       THEN /\ mem_map' = Taken(map)
            /\ pg_dir' = [pg_dir EXCEPT ![t] =
                            [NoTables EXCEPT ![DirOf(Top)] = get_free_page(map)]]
            /\ pte' = [pte EXCEPT ![t] = [NoEntries EXCEPT ![Top] = Entry(arg[t])]]
            /\ UNCHANGED lost
       ELSE /\ mem_map' = map
            /\ pg_dir' = [pg_dir EXCEPT ![t] = NoTables]
            /\ pte' = [pte EXCEPT ![t] = NoEntries]
            /\ lost' = lost \cup {arg[t]}
  /\ arg' = [arg EXCEPT ![t] = None]
  /\ Contents(data)
  /\ pc' = [pc EXCEPT ![t] = "user"]
  /\ UNCHANGED <<tasks, at>>

Next ==
  \E t \in Slot :
    \/ fork(t)
    \/ exit(t)
    \/ exit_done(t)
    \/ \E a \in Addr : \/ do_no_page(t, a)
                       \/ do_wp_page(t, a)
                       \/ copy_strings(t, a)
    \/ change_ldt(t)
    \/ \E a \in Written : \/ verify_area(t, a)
                          \/ \E v \in Stored : write(t, a, v) \/ sys_pipe(t, a, v)
    \/ \E v \in Stored : put_fs(t, v) \/ \E z \in Slot : sys_waitpid(t, z, v)
    \/ return(t)

Spec == Init /\ [][Next]_vars

(***************************************************************************)
(* Properties.                                                             *)
(***************************************************************************)
\* Types.
TypeOK ==
  /\ mem_map \in [Page -> Nat]
  /\ data \in [Page \cup {LOW} -> Val]
  /\ pg_dir \in [Slot -> [Dir -> Page \cup {LOW, None}]]
  /\ pte \in [Slot -> [Addr -> [page : Page \cup {LOW, None}, rw : BOOLEAN]]]
  /\ task \in [Slot -> Page \cup {LOW, None}]
  /\ father \in [Slot -> Slot]
  /\ pc \in [Slot -> {"none", "user", "pause", "verified", "exec", "exit", "zombie"}]
  /\ at \in [Slot -> Addr]
  /\ arg \in [Slot -> Page \cup {None}]
  /\ lost \subseteq Page

\* mem_map says how many use a page: entries that map it, directory entries
\* for which it is a page table, the task_struct in it, an execve that holds
\* it.  (Pages that were lost when memory ran out keep their count of one.)
\* So no page is freed under a user or twice ("trying to free free page"), over
\* any sequence of forks, faults, programs and exits, with memory running out
\* half-way through any of them.
Users(p) == Cardinality({x \in Slot \X Addr : pte[x[1]][x[2]].page = p})
            + Cardinality({x \in Slot \X Dir : pg_dir[x[1]][x[2]] = p})
            + Cardinality({t \in Slot : task[t] = p})
            + Cardinality({t \in Slot : arg[t] = p})
            + Cardinality({p} \cap lost)

PageCounts == \A p \in Page : mem_map[p] = Users(p)

\* A page that somebody can write to is mapped once, and the kernel's memory
\* is writable for task 0 only.
WritableAlone ==
  \A t \in Slot, a \in Addr :
    CanWrite(t, a) => \/ t = 0
                      \/ Alone(pte[t][a].page)

\* A system call that had verify_area look at a page it will write to finds it
\* writable, or absent, when it comes to write, however long it has slept.
VerifiedStays ==
  \A t \in Slot :
    pc[t] = "verified" /\ Present(t, at[t]) => CanWrite(t, at[t])

\* What a task sees at a page: zeroes if nobody has written there.
Seen == [t \in Slot |-> [a \in Addr |->
           IF Present(t, a) THEN data[pte[t][a].page] ELSE 0]]

\* The kernel writes to a page that may have other users.
Intrusion == \E t \in Slot, a \in Addr, v \in Val :
               ~ CanWrite(t, a) /\ sys_pipe(t, a, v)

\* Every task has a memory of its own: copy on write cannot be noticed, and no
\* page, table or argument of one task ever shows up in another.  The one way
\* around it in the modelled code is the descriptors that sys_pipe stores
\* (pipe.c:89-90).
PM == INSTANCE PrivateMemory WITH Zero <- 0, mem <- Seen

IsPrivateMemory == PM!Init /\ [][PM!Next \/ Intrusion]_Seen
==============================================================================
