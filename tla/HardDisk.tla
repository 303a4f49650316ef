------------------------------- MODULE HardDisk ------------------------------
(***************************************************************************)
(* The hard disk driver, kernel/hd.c: the request table, the elevator      *)
(* list, the interrupt handlers reached through the pointer do_hd, error   *)
(* handling and reset, and the controller as the driver uses it.           *)
(*                                                                         *)
(* Tasks run rw_abs_hd one at a time (the kernel is not preemptive, a task *)
(* gives way in sleep_on only), but "never disabling interrupts": the disk *)
(* interrupt (a trap gate, hd.c:429) may come between any two steps of     *)
(* add_request.  A handler runs to its end before the next disk interrupt. *)
(* A drive is modelled, blocks standing for their position on it: IN_ORDER *)
(* is then < on block numbers.  The buffer of a block has two halves, the  *)
(* two sectors of the block; moved records which sector each half was      *)
(* exchanged with.  Waiting for a buffer is a guard on its lock: that a    *)
(* wake_up reaches all the sleepers is SleepQueueWaitSet.tla.              *)
(***************************************************************************)
EXTENDS Integers, FiniteSets

CONSTANTS
  Task,
  Block,        \* the blocks, each with its buffer
  NR_REQUEST,   \* slots of the request table, 32 in the code
  MAX_ERRORS,   \* 5 in the code
  Cmd,          \* commands used, a subset of {"WIN_READ", "WIN_WRITE"}
  Fault         \* what may go wrong: "error" (a sector), "no_drq" (a command)

ASSUME DiskAssumption ==
  /\ Block \subseteq Nat
  /\ NR_REQUEST \in Nat \ {0}
  /\ MAX_ERRORS \in Nat
  /\ Cmd \subseteq {"WIN_READ", "WIN_WRITE"}
  /\ Fault \subseteq {"error", "no_drq"}

Null == 0
Slot == 1..NR_REQUEST
NoBlock == -1
NoSector == -1

VARIABLES
  request,       \* the table: live is hd >= 0
  this_request,  \* the request being served, head of the list
  sorting,       \* the list is being changed
  do_hd,         \* the routine for the next interrupt
  ctl,           \* the controller: command, sectors left to move, next sector
  b_lock, b_uptodate,
  moved,         \* moved[b][h]: the sector half h of b was exchanged with,
                 \* kept until the caller of rw_abs_hd has returned
  resumed,       \* of those the ones with an error in their second sector
  pc,            \* where a task is in rw_abs_hd
  arg,           \* its arguments bh and rw
  req, tmp       \* locals of rw_abs_hd and add_request, of the one that runs

list == <<request, this_request>>
disk == <<do_hd, ctl, moved>>
buffer == <<b_lock, b_uptodate>>
local == <<arg, req, tmp>>
vars == <<list, sorting, disk, buffer, resumed, pc, local>>

Free == [live |-> FALSE, cmd |-> "WIN_READ", bh |-> NoBlock, nsector |-> 0,
         errors |-> 0, next |-> Null]
IdleCtl == [cmd |-> "idle", left |-> 0, sector |-> 0]
Untouched == [h \in 0..1 |-> NoSector]
NoArg == [bh |-> NoBlock, rw |-> "WIN_READ"]

Init ==
  /\ request = [r \in Slot |-> Free]
  /\ this_request = Null
  /\ sorting = FALSE
  /\ do_hd = "NULL"
  /\ ctl = IdleCtl
  /\ b_lock = [b \in Block |-> FALSE]
  /\ b_uptodate = [b \in Block |-> FALSE]
  /\ moved = [b \in Block |-> Untouched]
  /\ resumed = {}
  /\ pc = [t \in Task |-> "idle"]
  /\ arg = [t \in Task |-> NoArg]
  /\ req = Null
  /\ tmp = Null

(***************************************************************************)
(* Starting a command.  The operators are given the list and the buffers'  *)
(* halves as the caller has left them.                                     *)
(***************************************************************************)
\* (Faulty variant: the first sector to the end of the buffer.)
HalfSwapped(nsector) == (nsector + 1) % 2

\* 512*(nsector&1): the half of the buffer the next sector goes to.
Half(nsector) == nsector % 2

\* reset_hd: reset, then WIN_SPECIFY, whose interrupt calls do_request.
reset_hd == /\ do_hd' = "do_request"
            /\ ctl' = [cmd |-> "specify", left |-> 0, sector |-> 0]

\* (Faulty variant: always the whole block.)
hd_out_block(q, intr) ==
  /\ do_hd' = intr
  /\ ctl' = [cmd |-> q.cmd, left |-> 2, sector |-> 0]

\* hd_out with the address of the request: nsector sectors from the first.
hd_out(q, intr) ==
  /\ do_hd' = intr
  /\ ctl' = [cmd |-> q.cmd, left |-> q.nsector, sector |-> 0]

do_request(this, rq, mv) ==
  \/ /\ sorting                     \* left to add_request
     /\ ctl' = IdleCtl
     /\ moved' = mv
     /\ UNCHANGED do_hd
  \/ /\ ~ sorting
     /\ this = Null
     /\ do_hd' = "NULL"
     /\ ctl' = IdleCtl
     /\ moved' = mv
  \/ /\ ~ sorting
     /\ this # Null
     /\ rq[this].cmd = "WIN_READ"
     /\ hd_out(rq[this], "read_intr")
     /\ moved' = mv
  \/ /\ ~ sorting
     /\ this # Null
     /\ rq[this].cmd = "WIN_WRITE"
     /\ \/ /\ hd_out(rq[this], "write_intr")
           /\ moved' = [mv EXCEPT ![rq[this].bh][Half(rq[this].nsector)] = 0]
        \/ /\ "no_drq" \in Fault
           /\ reset_hd
           /\ moved' = mv

(***************************************************************************)
(* rw_abs_hd and add_request, by a task.                                   *)
(***************************************************************************)
\* A task in these places is running; the others wait for it.
Running == {"called", "full", "link", "insert", "linked", "restart"}
NobodyRuns == \A t \in Task : pc[t] \notin Running

At(t, place) == pc[t] = place
Goto(t, place) == pc' = [pc EXCEPT ![t] = place]

\* lock_buffer.  The callers wait for the buffer first (BufferCache.tla).
rw_abs_hd(t, b, rw) ==
  /\ NobodyRuns
  /\ At(t, "idle")
  /\ ~ b_lock[b]
  /\ b_lock' = [b_lock EXCEPT ![b] = TRUE]
  /\ arg' = [arg EXCEPT ![t] = [bh |-> b, rw |-> rw]]
  /\ Goto(t, "called")
  /\ UNCHANGED <<list, sorting, disk, b_uptodate, req, tmp>>

FreeSlots == {r \in Slot : ~ request[r].live}

\* The search for a free slot, first or after a sleep.
Searches(t) == At(t, "called") \/ (At(t, "woken") /\ NobodyRuns)

fill_request(t) ==
  /\ Searches(t)
  /\ FreeSlots # {}
  /\ LET r == CHOOSE r \in FreeSlots : \A s \in FreeSlots : r <= s
     IN /\ req' = r
        /\ request' = [request EXCEPT ![r] =
             [live |-> TRUE, cmd |-> arg[t].rw, bh |-> arg[t].bh,
              nsector |-> 2, errors |-> 0, next |-> Null]]
  /\ sorting' = TRUE
  /\ Goto(t, "link")
  /\ UNCHANGED <<this_request, disk, buffer, arg, tmp>>

no_request(t) ==
  /\ Searches(t)
  /\ FreeSlots = {}
  /\ Goto(t, "full")
  /\ UNCHANGED <<list, sorting, disk, buffer, local>>

\* sleep_on(&wait_for_request), with interrupts enabled since the search.
sleep_for_request(t) ==
  /\ At(t, "full")
  /\ Goto(t, "asleep")
  /\ UNCHANGED <<list, sorting, disk, buffer, local>>

\* `if (!(tmp=this_request)) this_request=req;`
link_first(t) ==
  /\ At(t, "link")
  /\ tmp' = this_request
  /\ IF this_request = Null
       THEN this_request' = req /\ Goto(t, "linked")
       ELSE Goto(t, "insert") /\ UNCHANGED this_request
  /\ UNCHANGED <<request, sorting, disk, buffer, arg, req>>

IN_ORDER(r, s) == request[r].bh < request[s].bh

\* The walk stops behind r: at the end, or where req fits in the sweep.
Breaks(r) ==
  LET s == request[r].next
  IN s # Null => (IN_ORDER(r, req) \/ ~ IN_ORDER(r, s)) /\ IN_ORDER(req, s)

\* The walk from s goes past other requests and stops behind p.
WalkStops(s, p) ==
  \E n \in 1..NR_REQUEST : \E walk \in [1..n -> Slot] :
    /\ walk[1] = s /\ walk[n] = p
    /\ \A k \in 1..n - 1 : ~ Breaks(walk[k]) /\ walk[k + 1] = request[walk[k]].next
    /\ Breaks(p)

\* (Faulty variant: the new request is the next to be served.)
PlaceAtFront(r) == {r}

\* Behind which request add_request puts req, given tmp.
PlaceAfter(r) == IF request[r].next = Null
                   THEN {r}
                   ELSE {p \in Slot : WalkStops(request[r].next, p)}

insert(t) ==
  /\ At(t, "insert")
  /\ \E p \in PlaceAfter(tmp) :
       request' = [request EXCEPT ![req].next = request[p].next, ![p].next = req]
  /\ Goto(t, "linked")
  /\ UNCHANGED <<this_request, sorting, disk, buffer, local>>

end_sorting(t) ==
  /\ At(t, "linked")
  /\ sorting' = FALSE
  /\ Goto(t, "restart")
  /\ UNCHANGED <<list, disk, buffer, local>>

\* `if (!do_hd) do_request();`
restart(t) ==
  /\ At(t, "restart")
  /\ IF do_hd = "NULL" THEN do_request(this_request, request, moved)
                       ELSE UNCHANGED disk
  /\ Goto(t, "wait")
  /\ req' = Null
  /\ tmp' = Null
  /\ UNCHANGED <<list, sorting, buffer, arg>>

wait_on_buffer(t) ==
  /\ At(t, "wait")
  /\ NobodyRuns
  /\ ~ b_lock[arg[t].bh]
  /\ Goto(t, "idle")
  /\ arg' = [arg EXCEPT ![t] = NoArg]
  /\ IF \E u \in Task \ {t} : arg[u].bh = arg[t].bh
       THEN UNCHANGED <<moved, resumed>>
       ELSE /\ moved' = [moved EXCEPT ![arg[t].bh] = Untouched]
            /\ resumed' = resumed \ {arg[t].bh}
  /\ UNCHANGED <<list, sorting, do_hd, ctl, buffer, req, tmp>>

(***************************************************************************)
(* The interrupt: the controller has moved a sector, or failed to, or has  *)
(* carried out WIN_SPECIFY.                                                *)
(***************************************************************************)
\* wake_up(&wait_for_request)
WakeForRequest ==
  pc' = [t \in Task |-> IF pc[t] = "asleep" THEN "woken" ELSE pc[t]]

\* Of a free slot only next is ever read again, before it is filled anew.
Freed(q) == [Free EXCEPT !.next = q.next]

\* (Faulty variant: the buffer stays locked.)
end_request_locked(ok, rq, mv) ==
  LET this == this_request
      done == [rq EXCEPT ![this] = Freed(@)]
  IN /\ b_uptodate' = [b_uptodate EXCEPT ![rq[this].bh] = ok]
     /\ UNCHANGED b_lock
     /\ WakeForRequest
     /\ request' = done
     /\ this_request' = rq[this].next
     /\ IF ok THEN do_request(rq[this].next, done, mv)
              ELSE reset_hd /\ moved' = mv

\* this_request is over: tell, unlock, go on with the next one.
end_request(ok, rq, mv) ==
  LET this == this_request
      done == [rq EXCEPT ![this] = Freed(@)]
  IN /\ b_uptodate' = [b_uptodate EXCEPT ![rq[this].bh] = ok]
     /\ b_lock' = [b_lock EXCEPT ![rq[this].bh] = FALSE]
     /\ WakeForRequest
     /\ request' = done
     /\ this_request' = rq[this].next
     /\ IF ok THEN do_request(rq[this].next, done, mv)
              ELSE reset_hd /\ moved' = mv

\* (Faulty variant: the errors are counted and never looked at.)
bad_rw_intr_stubborn ==
  /\ request' = [request EXCEPT ![this_request].errors = @ + 1]
  /\ reset_hd
  /\ UNCHANGED <<this_request, buffer, moved, pc>>

bad_rw_intr ==
  LET q == request[this_request]
      counted == [request EXCEPT ![this_request] = [q EXCEPT !.errors = @ + 1]]
  IN IF q.errors >= MAX_ERRORS
       THEN end_request(FALSE, counted, moved)
       ELSE /\ request' = counted
            /\ reset_hd
            /\ UNCHANGED <<this_request, buffer, moved, pc>>

NextSector == ctl' = [ctl EXCEPT !.left = @ - 1, !.sector = @ + 1]

\* port_read, and a read is over with its last sector.
read_intr ==
  LET q == request[this_request]
      mv == [moved EXCEPT ![q.bh][Half(q.nsector)] = ctl.sector]
      rq == [request EXCEPT ![this_request] = [q EXCEPT !.nsector = @ - 1, !.errors = 0]]
  IN \/ /\ q.nsector > 1
        /\ request' = rq
        /\ moved' = mv
        /\ NextSector
        /\ UNCHANGED <<this_request, buffer, pc, do_hd>>
     \/ /\ q.nsector = 1
        /\ end_request(TRUE, rq, mv)

\* port_write of the second half, unless the write is over.
write_intr ==
  LET q == request[this_request]
      rq == [request EXCEPT ![this_request] = [q EXCEPT !.nsector = @ - 1]]
  IN \/ /\ q.nsector > 1
        /\ request' = rq
        /\ moved' = [moved EXCEPT ![q.bh][1] = ctl.sector + 1]
        /\ NextSector
        /\ UNCHANGED <<this_request, buffer, pc, do_hd>>
     \/ /\ q.nsector = 1
        /\ end_request(TRUE, rq, moved)

hd_interrupt ==
  /\ ctl.cmd # "idle"
  /\ \/ do_hd = "read_intr" /\ read_intr /\ UNCHANGED resumed
     \/ do_hd = "write_intr" /\ write_intr /\ UNCHANGED resumed
     \/ /\ do_hd \in {"read_intr", "write_intr"} /\ "error" \in Fault
        /\ bad_rw_intr
        /\ resumed' = IF request[this_request].nsector = 1
                        THEN resumed \cup {request[this_request].bh} ELSE resumed
     \/ /\ do_hd = "do_request"
        /\ do_request(this_request, request, moved)
        /\ UNCHANGED <<list, buffer, resumed, pc>>
  /\ UNCHANGED <<sorting, local>>

TaskStep(t) ==
  \/ /\ \/ fill_request(t)
        \/ no_request(t)
        \/ sleep_for_request(t)
        \/ link_first(t)
        \/ insert(t)
        \/ end_sorting(t)
        \/ restart(t)
     /\ UNCHANGED resumed
  \/ wait_on_buffer(t)

Next ==
  \/ \E t \in Task, b \in Block, rw \in Cmd : rw_abs_hd(t, b, rw) /\ UNCHANGED resumed
  \/ \E t \in Task : TaskStep(t)
  \/ hd_interrupt

\* A command is answered, a task on the processor goes on, and a task that
\* can go on is scheduled.  Nobody is obliged to call rw_abs_hd.
Fairness == WF_vars(hd_interrupt) /\ \A t \in Task : SF_vars(TaskStep(t))

Spec == Init /\ [][Next]_vars
FairSpec == Spec /\ Fairness

(***************************************************************************)
(* Properties.                                                             *)
(***************************************************************************)
Request == [live : BOOLEAN, cmd : {"WIN_READ", "WIN_WRITE"},
            bh : Block \cup {NoBlock}, nsector : 0..2,
            errors : 0..MAX_ERRORS + 1, next : Slot \cup {Null}]

TypeOK ==
  /\ request \in [Slot -> Request]
  /\ this_request \in Slot \cup {Null}
  /\ sorting \in BOOLEAN
  /\ do_hd \in {"NULL", "read_intr", "write_intr", "do_request"}
  /\ ctl \in [cmd : {"idle", "specify", "WIN_READ", "WIN_WRITE"},
              left : 0..2, sector : 0..1]
  /\ b_lock \in [Block -> BOOLEAN]
  /\ b_uptodate \in [Block -> BOOLEAN]
  /\ moved \in [Block -> [0..1 -> {NoSector, 0, 1}]]
  /\ resumed \subseteq Block
  /\ pc \in [Task -> Running \cup {"idle", "asleep", "woken", "wait"}]
  /\ arg \in [Task -> [bh : Block \cup {NoBlock}, rw : {"WIN_READ", "WIN_WRITE"}]]
  /\ req \in Slot \cup {Null}
  /\ tmp \in Slot \cup {Null}

Live(b) == {r \in Slot : request[r].live /\ request[r].bh = b}
Entering(b) == {t \in Task : /\ pc[t] \in {"called", "full", "asleep", "woken"}
                             /\ arg[t].bh = b}

\* A buffer is locked exactly as long as one request for it is on its way,
\* from lock_buffer to the interrupt that ends it: no interrupt finds a
\* "free buffer being unlocked" (hd.c:101), no buffer has two requests.
LockedForOneRequest ==
  \A b \in Block :
    Cardinality(Live(b)) + Cardinality(Entering(b)) = IF b_lock[b] THEN 1 ELSE 0

\* While the controller works on a command, this_request is the live request
\* the command was issued for, do_hd is its handler and the two agree on the
\* sectors to come, whatever add_request does to the list and however many
\* resets it took.  (The handlers do not test this_request, and an interrupt
\* that finds do_hd NULL is a panic, hd.c:247-250.)
HandlerMatchesCommand ==
  /\ ctl.cmd = "specify" => do_hd = "do_request"
  /\ ctl.cmd \in {"WIN_READ", "WIN_WRITE"} =>
       /\ this_request # Null
       /\ request[this_request].live
       /\ request[this_request].cmd = ctl.cmd
       /\ request[this_request].nsector = ctl.left
       /\ ctl.left > 0
       /\ do_hd = IF ctl.cmd = "WIN_READ" THEN "read_intr" ELSE "write_intr"

\* The requests on the list.
Listed ==
  LET nth[k \in 0..NR_REQUEST] ==
        IF k = 0 THEN this_request
        ELSE IF nth[k - 1] = Null THEN Null ELSE request[nth[k - 1]].next
  IN {nth[k] : k \in 0..NR_REQUEST} \ {Null}

\* The driver has died: it believes in a command that is not there.
Stalled == ctl.cmd = "idle" /\ do_hd # "NULL" /\ ~ sorting

\* Every request on the list is served, in spite of requests that go on
\* coming and are put before it, unless the driver dies.
RequestsServed ==
  \A r \in Slot : r \in Listed ~> ~ request[r].live \/ Stalled

\* "NOTE! As a result of sorting, the interrupts may have died down [...] so
\* we restart them if necessary." (hd.c:371-376)
RestartedIfNecessary ==
  NobodyRuns /\ this_request # Null => ctl.cmd # "idle"

\* "Not to mess up the linked lists, we never touch the two first entries"
\* (hd.c:346-352): whatever add_request has added is on the list until done.
NoRequestLost ==
  NobodyRuns => \A r \in Slot : request[r].live => r \in Listed

\* A buffer that is up to date has exchanged each half with its own sector,
\* however often the transfer was reset, retried and overtaken, with one
\* exception: after an error in the second sector the code starts again with one
\* sector to go at the first one, and the second half of the buffer gets that
\* (or the first sector of the disk gets the second half).
HalvesMatchSectors ==
  \A t \in Task :
    LET b == arg[t].bh
    IN At(t, "wait") /\ ~ b_lock[b] /\ b_uptodate[b] =>
         b \in resumed \/ \A h \in 0..1 : moved[b][h] = h
==============================================================================
