-------------------------------- MODULE Files --------------------------------
(***************************************************************************)
(* Descriptors, open files and pipes: fs/open.c, fs/fcntl.c, fs/pipe.c,    *)
(* the part of fs/read_write.c that leads to them, what fork, execve and   *)
(* exit do with descriptors, and iput and get_pipe_inode of fs/inode.c as  *)
(* far as pipes go.  Counts are kept on three levels: descriptors of tasks *)
(* point to files (f_count), files to inodes (i_count); a pipe is an inode *)
(* with two files and tells from its i_count whether both are still there. *)
(* Readers and writers of a pipe sleep on the same queue.                  *)
(*                                                                         *)
(* Kernel code runs until it sleeps: in open_namei and get_empty_inode,    *)
(* in iput (exit and execve close one descriptor per step) and in the      *)
(* pipe.  wake_up takes all sleepers off the queue at once                 *)
(* (SleepQueueWaitSet.tla).  All files that are not pipes are one inode,   *)
(* Regular; reading and writing it is left out, and so is waitpid: the     *)
(* slot of a task that has exited may be taken by the next fork.           *)
(***************************************************************************)
EXTENDS Integers, Sequences, FiniteSets

CONSTANTS
  Task,
  NR_OPEN,      \* descriptors of a task
  NR_FILE,      \* size of file_table
  Pipe,         \* inodes that may become pipes
  PAGE_SIZE,    \* of the ring of a pipe: a power of two
  Byte,
  Message,      \* what tasks write
  MaxCount      \* bound on the count of a read

ASSUME FilesAssumption ==
  /\ IsFiniteSet(Task)
  /\ NR_OPEN \in Nat \ {0}
  /\ NR_FILE \in Nat \ {0}
  /\ Pipe \subseteq Nat \ {0}
  /\ PAGE_SIZE \in Nat \ {0, 1}
  /\ 0 \in Byte
  /\ Message \subseteq Seq(Byte) \ {<<>>}
  /\ MaxCount \in Nat

Fd == 0..NR_OPEN - 1
File == 0..NR_FILE - 1
Regular == 0
Inode == Pipe \cup {Regular}
None == -1
Least(S) == CHOOSE n \in S : \A m \in S : n <= m

VARIABLES
  filp, close_on_exec,
  f_count, f_inode, f_mode,
  i_count, i_pipe,
  head, tail, ring,   \* PIPE_HEAD, PIPE_TAIL, the page
  pc, fds,            \* the call a task is in, the descriptors it is about
  count, buf,         \* what it still wants to read, or has to write
  asleep              \* tasks asleep on the queue of their pipe

descriptors == <<filp, close_on_exec>>
files == <<f_count, f_inode, f_mode>>
inodes == <<i_count, i_pipe>>
content == <<head, tail, ring>>
call == <<pc, fds, count, buf>>
vars == <<descriptors, files, inodes, content, call, asleep>>

\* One task, the first, with nothing open.
Init ==
  /\ filp = [t \in Task |-> [d \in Fd |-> None]]
  /\ close_on_exec = [t \in Task |-> {}]
  /\ f_count = [x \in File |-> 0]
  /\ f_inode = [x \in File |-> Regular]
  /\ f_mode = [x \in File |-> "file"]
  /\ i_count = [i \in Inode |-> 0]
  /\ i_pipe = [i \in Pipe |-> FALSE]
  /\ head = [i \in Pipe |-> 0]
  /\ tail = [i \in Pipe |-> 0]
  /\ ring = [i \in Pipe |-> [n \in 0..PAGE_SIZE - 1 |-> 0]]
  /\ \E first \in Task : pc = [t \in Task |-> IF t = first THEN "user" ELSE "none"]
  /\ fds = [t \in Task |-> {}]
  /\ count = [t \in Task |-> 0]
  /\ buf = [t \in Task |-> <<>>]
  /\ asleep = {}

(***************************************************************************)
(* Helpers.                                                                *)
(***************************************************************************)
Goto(t, place, S) == /\ pc' = [pc EXCEPT ![t] = place]
                     /\ fds' = [fds EXCEPT ![t] = S]

\* The call is over.
Return(t) == /\ Goto(t, "user", {})
             /\ count' = [count EXCEPT ![t] = 0]
             /\ buf' = [buf EXCEPT ![t] = <<>>]

FreeFd(t) == {d \in Fd : filp[t][d] = None}
FreeFile == {x \in File : f_count[x] = 0}

\* The inode of the pipe t reads or writes.
Using(t) == f_inode[filp[t][Least(fds[t])]]

\* The tasks that stay asleep when wake_up is called for inode i.
wake_up(i) == {t \in asleep : Using(t) # i}

\* (Faulty variant: tells nobody.)
iput_quietly(i) ==
  /\ i_count' = [i_count EXCEPT ![i] = @ - 1]
  /\ i_pipe' = IF i \in Pipe /\ i_count[i] = 1 THEN [i_pipe EXCEPT ![i] = FALSE] ELSE i_pipe
  /\ UNCHANGED asleep

iput(i) ==
  /\ i_count' = [i_count EXCEPT ![i] = @ - 1]
  /\ i_pipe' = IF i \in Pipe /\ i_count[i] = 1 THEN [i_pipe EXCEPT ![i] = FALSE] ELSE i_pipe
  /\ asleep' = wake_up(i)

(***************************************************************************)
(* open and pipe.  (Without a free descriptor or file they fail and leave  *)
(* things as they were.)                                                   *)
(***************************************************************************)
sys_open(t) ==
  /\ pc[t] = "user"
  /\ FreeFd(t) # {} /\ FreeFile # {}
  /\ LET d == Least(FreeFd(t))
     IN /\ filp' = [filp EXCEPT ![t][d] = Least(FreeFile)]
        /\ close_on_exec' = [close_on_exec EXCEPT ![t] = @ \ {d}]
        /\ Goto(t, "open", {d})
  /\ f_count' = [f_count EXCEPT ![Least(FreeFile)] = @ + 1]
  /\ UNCHANGED <<f_inode, f_mode, inodes, content, count, buf, asleep>>

\* open_namei has found the file.
open_done(t) ==
  /\ pc[t] = "open"
  /\ LET x == filp[t][Least(fds[t])]
     IN /\ f_count' = [f_count EXCEPT ![x] = 1]
        /\ f_inode' = [f_inode EXCEPT ![x] = Regular]
        /\ f_mode' = [f_mode EXCEPT ![x] = "file"]
  /\ i_count' = [i_count EXCEPT ![Regular] = @ + 1]
  /\ Return(t)
  /\ UNCHANGED <<descriptors, i_pipe, content, asleep>>

\* Taking back what a call that fails has reserved.
Undo(t) ==
  /\ filp' = [filp EXCEPT ![t] = [d \in Fd |-> IF d \in fds[t] THEN None ELSE @[d]]]
  /\ f_count' = [x \in File |-> IF \E d \in fds[t] : filp[t][d] = x THEN 0 ELSE f_count[x]]
  /\ Return(t)
  /\ UNCHANGED <<close_on_exec, f_inode, f_mode, inodes, content, asleep>>

open_failed(t) == pc[t] = "open" /\ Undo(t)

sys_pipe(t) ==
  /\ pc[t] = "user"
  /\ Cardinality(FreeFd(t)) > 1 /\ Cardinality(FreeFile) > 1
  /\ LET d0 == Least(FreeFd(t))
         d1 == Least(FreeFd(t) \ {d0})
         x0 == Least(FreeFile)
         x1 == Least(FreeFile \ {x0})
     IN /\ filp' = [filp EXCEPT ![t][d0] = x0, ![t][d1] = x1]
        /\ f_count' = [f_count EXCEPT ![x0] = @ + 1, ![x1] = @ + 1]
        /\ Goto(t, "pipe", {d0, d1})
  /\ UNCHANGED <<close_on_exec, f_inode, f_mode, inodes, content, count, buf, asleep>>

\* (Faulty variant: one count for the pipe, not one for each end.)
pipe_done_once(t) ==
  /\ pc[t] = "pipe"
  /\ \E i \in Pipe :
       LET x0 == filp[t][Least(fds[t])]
           x1 == filp[t][Least(fds[t] \ {Least(fds[t])})]
       IN /\ i_count[i] = 0
          /\ i_count' = [i_count EXCEPT ![i] = 1]
          /\ i_pipe' = [i_pipe EXCEPT ![i] = TRUE]
          /\ f_inode' = [f_inode EXCEPT ![x0] = i, ![x1] = i]
          /\ f_mode' = [f_mode EXCEPT ![x0] = "read", ![x1] = "write"]
  /\ Return(t)
  /\ UNCHANGED <<descriptors, f_count, content, asleep>>

\* get_pipe_inode has an inode and a page.
pipe_done(t) ==
  /\ pc[t] = "pipe"
  /\ \E i \in Pipe :
       LET x0 == filp[t][Least(fds[t])]
           x1 == filp[t][Least(fds[t] \ {Least(fds[t])})]
       IN /\ i_count[i] = 0
          /\ i_count' = [i_count EXCEPT ![i] = 2]
          /\ i_pipe' = [i_pipe EXCEPT ![i] = TRUE]
          /\ head' = [head EXCEPT ![i] = 0]
          /\ tail' = [tail EXCEPT ![i] = 0]
          /\ ring' = [ring EXCEPT ![i] = [n \in DOMAIN @ |-> 0]]
          /\ f_inode' = [f_inode EXCEPT ![x0] = i, ![x1] = i]
          /\ f_mode' = [f_mode EXCEPT ![x0] = "read", ![x1] = "write"]
  /\ Return(t)
  /\ UNCHANGED <<descriptors, f_count, asleep>>

pipe_failed(t) == pc[t] = "pipe" /\ Undo(t)

(***************************************************************************)
(* close, dup, dup2, fcntl.                                                *)
(***************************************************************************)
\* (Faulty variants: the inode is put with every descriptor; the flag stays.)
CloseFdAlways(t, d) ==
  LET x == filp[t][d]
  IN /\ filp' = [filp EXCEPT ![t][d] = None]
     /\ close_on_exec' = [close_on_exec EXCEPT ![t] = @ \ {d}]
     /\ f_count' = [f_count EXCEPT ![x] = @ - 1]
     /\ iput(f_inode[x])
     /\ UNCHANGED <<f_inode, f_mode, content>>

CloseFdFlagged(t, d) ==
  LET x == filp[t][d]
  IN /\ filp' = [filp EXCEPT ![t][d] = None]
     /\ UNCHANGED close_on_exec
     /\ f_count' = [f_count EXCEPT ![x] = @ - 1]
     /\ IF f_count[x] = 1 THEN iput(f_inode[x]) ELSE UNCHANGED <<inodes, asleep>>
     /\ UNCHANGED <<f_inode, f_mode, content>>

\* The close of descriptor d, whoever asks for it.
CloseFd(t, d) ==
  LET x == filp[t][d]
  IN /\ filp' = [filp EXCEPT ![t][d] = None]
     /\ close_on_exec' = [close_on_exec EXCEPT ![t] = @ \ {d}]
     /\ f_count' = [f_count EXCEPT ![x] = @ - 1]
     /\ IF f_count[x] = 1 THEN iput(f_inode[x]) ELSE UNCHANGED <<inodes, asleep>>
     /\ UNCHANGED <<f_inode, f_mode, content>>

sys_close(t, d) ==
  /\ pc[t] = "user"
  /\ filp[t][d] # None
  /\ CloseFd(t, d)
  /\ UNCHANGED call

\* dupfd for dup (least = 0) and F_DUPFD.
dupfd(t, d, least) ==
  /\ pc[t] = "user"
  /\ filp[t][d] # None
  /\ \E e \in FreeFd(t) :
       /\ e >= least /\ \A n \in FreeFd(t) : n >= least => e <= n
       /\ filp' = [filp EXCEPT ![t][e] = filp[t][d]]
       /\ close_on_exec' = [close_on_exec EXCEPT ![t] = @ \ {e}]
  /\ f_count' = [f_count EXCEPT ![filp[t][d]] = @ + 1]
  /\ UNCHANGED <<f_inode, f_mode, inodes, content, call, asleep>>

\* dup2 onto an open descriptor closes it first.  (Onto a free one it is dupfd;
\* onto itself it is a close and then fails.)
sys_dup2(t, d, e) ==
  LET x == filp[t][d]
      y == filp[t][e]
  IN
  /\ pc[t] = "user"
  /\ d # e /\ x # None /\ y # None
  /\ filp' = [filp EXCEPT ![t][e] = x]
  /\ close_on_exec' = [close_on_exec EXCEPT ![t] = @ \ {e}]
  /\ f_count' = IF x = y THEN f_count ELSE [f_count EXCEPT ![x] = @ + 1, ![y] = @ - 1]
  /\ IF f_count[y] = 1 THEN iput(f_inode[y]) ELSE UNCHANGED <<inodes, asleep>>
  /\ UNCHANGED <<f_inode, f_mode, content, call>>

\* F_SETFD.
sys_fcntl(t, d) ==
  /\ pc[t] = "user"
  /\ filp[t][d] # None
  /\ \/ close_on_exec' = [close_on_exec EXCEPT ![t] = @ \cup {d}]
     \/ close_on_exec' = [close_on_exec EXCEPT ![t] = @ \ {d}]
  /\ UNCHANGED <<filp, files, inodes, content, call, asleep>>

(***************************************************************************)
(* fork, execve, exit.                                                     *)
(***************************************************************************)
\* (Faulty variant: a file is counted once, however many descriptors name it.)
fork_once(t, u) ==
  /\ pc[t] = "user" /\ pc[u] = "none"
  /\ pc' = [pc EXCEPT ![u] = "user"]
  /\ filp' = [filp EXCEPT ![u] = filp[t]]
  /\ close_on_exec' = [close_on_exec EXCEPT ![u] = close_on_exec[t]]
  /\ f_count' = [x \in File |-> f_count[x] + IF \E d \in Fd : filp[t][d] = x THEN 1 ELSE 0]
  /\ UNCHANGED <<f_inode, f_mode, inodes, content, fds, count, buf, asleep>>

fork(t, u) ==
  /\ pc[t] = "user" /\ pc[u] = "none"
  /\ pc' = [pc EXCEPT ![u] = "user"]
  /\ filp' = [filp EXCEPT ![u] = filp[t]]
  /\ close_on_exec' = [close_on_exec EXCEPT ![u] = close_on_exec[t]]
  /\ f_count' = [x \in File |-> f_count[x] + Cardinality({d \in Fd : filp[t][d] = x})]
  /\ UNCHANGED <<f_inode, f_mode, inodes, content, fds, count, buf, asleep>>

\* execve at the point of no return, and what it goes on to do.
execve(t) ==
  /\ pc[t] = "user"
  /\ close_on_exec[t] # {}
  /\ Goto(t, "exec", {})
  /\ UNCHANGED <<descriptors, files, inodes, content, count, buf, asleep>>

exec_close(t) ==
  /\ pc[t] = "exec"
  /\ CloseFd(t, Least(close_on_exec[t]))
  /\ IF Cardinality(close_on_exec[t]) = 1 THEN Goto(t, "user", {}) ELSE UNCHANGED <<pc, fds>>
  /\ UNCHANGED <<count, buf>>

do_exit(t) ==
  /\ pc[t] = "user"
  /\ Goto(t, "exit", {})
  /\ UNCHANGED <<descriptors, files, inodes, content, count, buf, asleep>>

exit_close(t) ==
  /\ pc[t] = "exit"
  /\ IF FreeFd(t) = Fd
       THEN /\ Goto(t, "none", {})
            /\ UNCHANGED <<descriptors, files, inodes, content, asleep>>
       ELSE /\ CloseFd(t, Least(Fd \ FreeFd(t)))
            /\ UNCHANGED <<pc, fds>>
  /\ UNCHANGED <<count, buf>>

(***************************************************************************)
(* Pipes.                                                                  *)
(***************************************************************************)
Size(i) == (head[i] - tail[i]) % PAGE_SIZE
Smaller(m, n) == IF m < n THEN m ELSE n

\* A stretch of read_pipe on descriptor d, from its beginning or from sleep_on.
\* (What has been read is of no interest any more: the bytes become 0.)
ReadPipe(t, d, n) ==
  LET i == f_inode[filp[t][d]]
      k == Smaller(n, Size(i))
  IN \/ /\ k = 0 /\ i_count[i] # 2
        /\ asleep' = wake_up(i)
        /\ Return(t)
        /\ UNCHANGED content
     \/ /\ k = 0 /\ i_count[i] = 2
        /\ asleep' = wake_up(i) \cup {t}
        /\ Goto(t, "read", {d})
        /\ count' = [count EXCEPT ![t] = n]
        /\ UNCHANGED <<content, buf>>
     \/ /\ k > 0
        /\ tail' = [tail EXCEPT ![i] = (@ + k) % PAGE_SIZE]
        /\ ring' = [ring EXCEPT ![i] = [m \in DOMAIN @ |->
                      IF (m - tail[i]) % PAGE_SIZE < k THEN 0 ELSE @[m]]]
        /\ asleep' = wake_up(i)
        /\ Return(t)
        /\ UNCHANGED head

\* The bytes s go to the head of the ring.
Fill(i, s) ==
  /\ ring' = [ring EXCEPT ![i] = [m \in DOMAIN @ |->
                LET n == (m - head[i]) % PAGE_SIZE
                IN IF n < Len(s) THEN s[n + 1] ELSE @[m]]]
  /\ head' = [head EXCEPT ![i] = (@ + Len(s)) % PAGE_SIZE]
  /\ UNCHANGED tail

\* What follows in the loop of write_pipe when only rest is left: nothing more to
\* do, SIGPIPE, or sleep.
Proceed(t, d, rest) ==
  LET i == f_inode[filp[t][d]]
  IN IF rest = <<>> \/ i_count[i] # 2
       THEN asleep' = wake_up(i) /\ Return(t)
       ELSE /\ asleep' = wake_up(i) \cup {t}
            /\ Goto(t, "write", {d})
            /\ buf' = [buf EXCEPT ![t] = rest]
            /\ UNCHANGED count

\* (Faulty variant: one byte too many.)
WritePipeFull(t, d, s) ==
  LET i == f_inode[filp[t][d]]
      k == Smaller(Len(s), PAGE_SIZE - Size(i))
  IN /\ Fill(i, SubSeq(s, 1, k))
     /\ Proceed(t, d, SubSeq(s, k + 1, Len(s)))

\* A stretch of the loop of write_pipe: as much as there is room for.
WritePipe(t, d, s) ==
  LET i == f_inode[filp[t][d]]
      k == Smaller(Len(s), PAGE_SIZE - 1 - Size(i))
  IN /\ Fill(i, SubSeq(s, 1, k))
     /\ Proceed(t, d, SubSeq(s, k + 1, Len(s)))

\* sys_read and sys_write on a pipe.
Open(t, d, mode) == filp[t][d] # None /\ f_mode[filp[t][d]] = mode

sys_read(t, d) ==
  /\ pc[t] = "user"
  /\ Open(t, d, "read")
  /\ \E n \in 1..MaxCount : ReadPipe(t, d, n)
  /\ UNCHANGED <<descriptors, files, inodes>>

read_pipe(t) ==
  /\ pc[t] = "read" /\ t \notin asleep
  /\ ReadPipe(t, Least(fds[t]), count[t])
  /\ UNCHANGED <<descriptors, files, inodes>>

\* Without a reader the call fails (SIGPIPE) even if there is room.
sys_write(t, d) ==
  /\ pc[t] = "user"
  /\ Open(t, d, "write")
  /\ IF i_count[f_inode[filp[t][d]]] = 2
       THEN \E s \in Message : WritePipe(t, d, s)
       ELSE /\ asleep' = wake_up(f_inode[filp[t][d]])
            /\ UNCHANGED <<content, call>>
  /\ UNCHANGED <<descriptors, files, inodes>>

\* Back from sleep_on the readers are counted only if there is still no room.
write_pipe(t) ==
  /\ pc[t] = "write" /\ t \notin asleep
  /\ WritePipe(t, Least(fds[t]), buf[t])
  /\ UNCHANGED <<descriptors, files, inodes>>

Next ==
  \/ \E t \in Task :
       \/ sys_open(t) \/ open_done(t) \/ open_failed(t)
       \/ sys_pipe(t) \/ pipe_done(t) \/ pipe_failed(t)
       \/ execve(t) \/ exec_close(t) \/ do_exit(t) \/ exit_close(t)
       \/ read_pipe(t) \/ write_pipe(t)
       \/ \E d \in Fd :
            \/ sys_close(t, d) \/ sys_fcntl(t, d) \/ sys_read(t, d) \/ sys_write(t, d)
            \/ \E e \in Fd : dupfd(t, d, e) \/ sys_dup2(t, d, e)
  \/ \E t, u \in Task : fork(t, u)

Spec == Init /\ [][Next]_vars

(***************************************************************************)
(* Properties.                                                             *)
(***************************************************************************)
\* Types.  A count is never below 0 (sys_close and iput panic).
TypeOK ==
  /\ filp \in [Task -> [Fd -> File \cup {None}]]
  /\ close_on_exec \in [Task -> SUBSET Fd]
  /\ f_count \in [File -> Nat]
  /\ f_inode \in [File -> Inode]
  /\ f_mode \in [File -> {"file", "read", "write"}]
  /\ i_count \in [Inode -> Nat]
  /\ i_pipe \in [Pipe -> BOOLEAN]
  /\ head \in [Pipe -> 0..PAGE_SIZE - 1]
  /\ tail \in [Pipe -> 0..PAGE_SIZE - 1]
  /\ ring \in [Pipe -> [0..PAGE_SIZE - 1 -> Byte]]
  /\ pc \in [Task -> {"none", "user", "open", "pipe", "read", "write", "exec", "exit"}]
  /\ fds \in [Task -> SUBSET Fd]
  /\ count \in [Task -> 0..MaxCount]
  /\ buf \in [Task -> Seq(Byte)]
  /\ asleep \subseteq {t \in Task : pc[t] \in {"read", "write"}}

\* A free descriptor is not marked close-on-exec.  (open and dup clear the mark
\* of the descriptor they take; sys_pipe does not and relies on this.)
CloexecOpen == \A t \in Task : close_on_exec[t] \cap FreeFd(t) = {}

\* f_count is the number of descriptors, of all tasks, that name the file: a file
\* is neither reused under a task that has it open nor kept when nobody has (open
\* and pipe take it before they sleep, fork and dup share it, exit gives it back).
\* Nor does execve take one away: the free descriptors bear no mark.
FileCounts ==
  /\ \A x \in File :
       f_count[x] = Cardinality({td \in Task \X Fd : filp[td[1]][td[2]] = x})
  /\ CloexecOpen

\* Files that are open, not just reserved by open or pipe.
Opened == {x \in File :
             /\ f_count[x] > 0
             /\ ~ \E t \in Task : /\ pc[t] \in {"open", "pipe"}
                                  /\ \E d \in fds[t] : filp[t][d] = x}

\* i_count is the number of open files of an inode; those of a pipe are its two
\* ends, so that "i_count != 2" in fs/pipe.c does mean that the other end is gone;
\* and a pipe's page is given back with the last of them.
PipeEnds ==
  /\ \A i \in Inode : i_count[i] = Cardinality({x \in Opened : f_inode[x] = i})
  /\ \A i \in Pipe : i_pipe[i] <=> i_count[i] > 0
  /\ \A x, y \in Opened :
       x # y /\ f_inode[x] = f_inode[y] /\ f_inode[x] \in Pipe => f_mode[x] # f_mode[y]

\* A task sleeps only while it has nothing to do: a reader while its pipe is
\* empty, a writer while it is full, and only while the other end is open
\* (whoever changes that calls wake_up; there is one queue for both sides).
NoIdleSleeper ==
  \A t \in asleep :
    /\ i_count[Using(t)] = 2
    /\ Size(Using(t)) = IF pc[t] = "read" THEN 0 ELSE PAGE_SIZE - 1

\* What is in the ring.
Content(i) == IF i_pipe[i]
                THEN [n \in 1..Size(i) |-> ring[i][(tail[i] + n - 1) % PAGE_SIZE]]
                ELSE <<>>

F(i) == INSTANCE Fifo WITH Capacity <- PAGE_SIZE - 1, q <- Content(i),
                           put <- head[i], got <- tail[i], open <- i_pipe[i]

\* Every pipe is a FIFO, whatever readers, writers, forks, closes and exits do.
PipeIsFifo ==
  /\ \A i \in Pipe : F(i)!Init
  /\ [][\A i \in Pipe : [F(i)!Next]_<<Content(i), head[i], tail[i], i_pipe[i]>>]_<<inodes, content>>
==============================================================================
