---------------------------- MODULE HardDiskProofs ----------------------------
(***************************************************************************)
(* The interrupt's view of the disk, the locks of the buffers, and which   *)
(* sector each half of a buffer gets, for every number of tasks and blocks *)
(* and every size of the request table.                                    *)
(***************************************************************************)
EXTENDS HardDisk, FiniteSetTheorems, WellFoundedInduction, TLAPS

USE DiskAssumption DEF Slot, Null, NoBlock

Rw == {"WIN_READ", "WIN_WRITE"}
Before == {"called", "full", "asleep", "woken"}
Place == Running \cup {"idle", "asleep", "woken", "wait"}
Record == [live : BOOLEAN, cmd : Rw, bh : Block \cup {NoBlock}, nsector : Int,
           errors : Int, next : Slot \cup {Null}]

Typed ==
  /\ request \in [Slot -> Record]
  /\ this_request \in Slot \cup {Null}
  /\ ctl \in [cmd : {"idle", "specify"} \cup Rw, left : Int, sector : Int]
  /\ b_lock \in [Block -> BOOLEAN]
  /\ pc \in [Task -> Place]
  /\ arg \in [Task -> [bh : Block \cup {NoBlock}, rw : Rw]]
  /\ req \in Slot \cup {Null} /\ tmp \in Slot \cup {Null}

Filled == \A r \in Slot : request[r].live => request[r].bh \in Block /\ request[r].nsector \in {1, 2}

OneRuns == \A t, u \in Task : pc[t] \in Running /\ pc[u] \in Running => t = u

Called == \A t \in Task : pc[t] \in Before => arg[t].bh \in Block

Serves(r, b) == request[r].live /\ request[r].bh = b
Enters(t, b) == pc[t] \in Before /\ arg[t].bh = b

\* LockedForOneRequest without counting.
OneUser ==
  \A b \in Block :
    /\ \A r, s \in Slot : Serves(r, b) /\ Serves(s, b) => r = s
    /\ \A t, u \in Task : Enters(t, b) /\ Enters(u, b) => t = u
    /\ \A r \in Slot, t \in Task : ~ (Serves(r, b) /\ Enters(t, b))
    /\ b_lock[b] <=> (\E r \in Slot : Serves(r, b)) \/ (\E t \in Task : Enters(t, b))

\* The request that a task adds, while it does: sorting keeps the interrupt
\* from starting the next command, so that at most one request ends meanwhile,
\* the one that tmp names.
Adding == \A t \in Task :
  /\ pc[t] \in {"link", "insert", "linked"} => sorting
  /\ pc[t] \in {"link", "insert"} =>
       req \in Slot /\ request[req].live /\ request[req].next = Null
  /\ pc[t] = "insert" =>
       /\ tmp \in Slot
       /\ tmp # this_request => /\ ~ request[tmp].live
                                /\ request[tmp].next = this_request
                                /\ ctl.cmd \notin Rw

\* S is the list: it has no holes, no two requests have the same successor, and
\* the first is nobody's. (A request may be on no list at all, see
\* NoRequestLost; it does not come back.)
IsList(S) ==
  /\ this_request \in S \cup {Null}
  /\ \A r \in S : /\ request[r].live
                  /\ request[r].next \in S \cup {Null}
                  /\ request[r].next # Null =>
                       /\ request[r].next # this_request
                       /\ \A s \in S : request[s].next = request[r].next => s = r
  /\ \A t \in Task : pc[t] \in {"link", "insert"} => req \notin S

Inductive ==
  /\ Typed /\ Filled /\ OneRuns /\ Called
  /\ OneUser
  /\ Adding
  /\ \E S \in SUBSET Slot : IsList(S)
  /\ HandlerMatchesCommand

LEMMA LeastNatural ==
  ASSUME NEW S \in SUBSET Nat, S # {}
  PROVE  \E m \in S : \A j \in S : m <= j
<1>1. PICK m \in S : \A j \in S : ~ (<<j, m>> \in OpToRel(<, Nat))
  BY NatLessThanWellFounded, WFMin
<1>2. \A j \in S : ~ (j < m)
  BY <1>1 DEF OpToRel
<1>3. QED
  BY <1>2

-------------------------------------------------------------------------------
(* Starting a command.                                                     *)

LEMMA DoRequest ==
  ASSUME NEW this \in Slot \cup {Null}, NEW rq \in [Slot -> Record], NEW mv,
         Typed, do_request(this, rq, mv), this_request' = this, request' = rq,
         this # Null => rq[this].live /\ rq[this].nsector \in {1, 2}
  PROVE  /\ ctl' \in [cmd : {"idle", "specify"} \cup Rw, left : Int, sector : Int]
         /\ sorting => ctl'.cmd \notin Rw
         /\ HandlerMatchesCommand'
<1>1. CASE sorting \/ this = Null
  <2>1. ctl' = IdleCtl
    BY <1>1 DEF do_request
  <2>2. QED
    BY <1>1, <2>1 DEF IdleCtl, HandlerMatchesCommand, Rw
<1>2. CASE ~ sorting /\ this # Null
  <2>1. CASE hd_out(rq[this], "read_intr") /\ rq[this].cmd = "WIN_READ"
    BY <1>2, <2>1 DEF hd_out, HandlerMatchesCommand, Rw, Record
  <2>2. CASE hd_out(rq[this], "write_intr") /\ rq[this].cmd = "WIN_WRITE"
    BY <1>2, <2>2 DEF hd_out, HandlerMatchesCommand, Rw, Record
  <2>3. CASE reset_hd
    BY <1>2, <2>3 DEF reset_hd, HandlerMatchesCommand, Rw
  <2>4. QED
    BY <1>2, <2>1, <2>2, <2>3 DEF do_request
<1>3. QED
  BY <1>1, <1>2

LEMMA Reset ==
  ASSUME reset_hd
  PROVE  /\ ctl' \in [cmd : {"idle", "specify"} \cup Rw, left : Int, sector : Int]
         /\ ctl'.cmd \notin Rw
         /\ HandlerMatchesCommand'
BY DEF reset_hd, HandlerMatchesCommand, Rw

\* While the controller works on a request, that is the first of the list.
LEMMA Served ==
  ASSUME Inductive, ctl.cmd \in Rw
  PROVE  /\ this_request \in Slot /\ request[this_request].live
         /\ request[this_request] \in Record
         /\ request[this_request].bh \in Block
         /\ \A S \in SUBSET Slot : IsList(S) => this_request \in S
BY DEF Inductive, Typed, Filled, HandlerMatchesCommand, IsList, Rw

-------------------------------------------------------------------------------
(* The interrupt.                                                          *)

LEMMA FreedRecord ==
  ASSUME NEW q \in Record
  PROVE  Freed(q) \in Record /\ ~ Freed(q).live /\ Freed(q).next = q.next
<1>1. Free \in Record /\ ~ Free.live
  BY DEF Free, Record, Rw
<1>2. PICK n \in Slot \cup {Null} : n = q.next
  BY DEF Record
<1>3. ASSUME NEW f \in Record, ~ f.live
      PROVE  [f EXCEPT !.next = n] \in Record /\ ~ [f EXCEPT !.next = n].live
             /\ [f EXCEPT !.next = n].next = n
  BY <1>3 DEF Record
<1>4. QED
  BY <1>1, <1>2, <1>3 DEF Freed

\* What the handlers do to the request served.
LEMMA Update ==
  ASSUME NEW R \in [Slot -> Record], NEW h \in Slot, NEW q \in Record
  PROVE  /\ [R EXCEPT ![h] = q] \in [Slot -> Record]
         /\ [R EXCEPT ![h] = q][h] = q
         /\ \A r \in Slot \ {h} : [R EXCEPT ![h] = q][r] = R[r]
OBVIOUS

\* The fields of a request after a handler, one field at a time.
LEMMA Transferred ==
  ASSUME NEW q \in Record, NEW m \in Int, NEW e \in Int
  PROVE  /\ \E z \in Record : /\ z = [q EXCEPT !.nsector = m]
                             /\ z.live = q.live /\ z.cmd = q.cmd /\ z.bh = q.bh
                             /\ z.nsector = m /\ z.next = q.next
         /\ \E z \in Record : /\ z = [q EXCEPT !.errors = e]
                             /\ z.live = q.live /\ z.cmd = q.cmd /\ z.bh = q.bh
                             /\ z.nsector = q.nsector /\ z.next = q.next
<1> DEFINE y == [q EXCEPT !.nsector = m]
           x == [q EXCEPT !.errors = e]
<1>1. y \in Record /\ y.live = q.live /\ y.cmd = q.cmd /\ y.bh = q.bh
      /\ y.nsector = m /\ y.next = q.next
  BY DEF Record
<1>2. x \in Record /\ x.live = q.live /\ x.cmd = q.cmd /\ x.bh = q.bh
      /\ x.nsector = q.nsector /\ x.next = q.next
  BY DEF Record
<1>3. QED
  BY <1>1, <1>2

\* rq is the table as the handler has left it: only nsector and errors of the
\* request served may have changed.
Handles(rq) == /\ rq \in [Slot -> Record]
               /\ \A r \in Slot \ {this_request} : rq[r] = request[r]
               /\ rq[this_request].bh = request[this_request].bh
               /\ rq[this_request].next = request[this_request].next

LEMMA EndIs ==
  ASSUME Inductive, ctl.cmd \in Rw, NEW rq, Handles(rq), NEW mv, NEW ok \in BOOLEAN,
         end_request(ok, rq, mv), UNCHANGED <<sorting, local>>,
         NEW S \in SUBSET Slot, IsList(S), NEW h, h = this_request
  PROVE  /\ h \in S /\ h # Null /\ request[h].live /\ request[h].bh \in Block
         /\ request' \in [Slot -> Record] /\ ~ request'[h].live
         /\ request'[h].next = request[h].next
         /\ \A r \in Slot \ {h} : request'[r] = request[r]
         /\ this_request' = request[h].next /\ this_request' \in (S \ {h}) \cup {Null}
         /\ this_request' # Null =>
              /\ request'[this_request'].live /\ request'[this_request'].bh \in Block
              /\ request'[this_request'].nsector \in {1, 2}
         /\ b_lock' = [b_lock EXCEPT ![request[h].bh] = FALSE]
         /\ b_uptodate' = [b_uptodate EXCEPT ![request[h].bh] = ok]
         /\ pc' = [t \in Task |-> IF pc[t] = "asleep" THEN "woken" ELSE pc[t]]
         /\ UNCHANGED <<sorting, arg, req, tmp>>
         /\ ok => do_request(this_request', request', mv)
         /\ ~ ok => reset_hd /\ moved' = mv
<1>1. h \in Slot /\ request[h].live /\ request[h].bh \in Block /\ h \in S
  BY Served
<1>2. PICK n \in Slot \cup {Null} : n = request[h].next
  BY <1>1 DEF Inductive, Typed, Record
<1> DEFINE done == [rq EXCEPT ![h] = Freed(@)]
<1>3. /\ done \in [Slot -> Record]
      /\ ~ done[h].live /\ done[h].next = n
      /\ \A r \in Slot \ {h} : done[r] = request[r]
  <2>1. rq[h] \in Record /\ rq[h].next = n /\ rq \in [Slot -> Record]
        /\ \A r \in Slot \ {h} : rq[r] = request[r]
    BY <1>1, <1>2 DEF Handles
  <2>2. Freed(rq[h]) \in Record /\ ~ Freed(rq[h]).live /\ Freed(rq[h]).next = n
    BY <2>1, FreedRecord
  <2>3. done[h] = Freed(rq[h])
    BY <1>1, <2>1
  <2>4. QED
    BY <1>1, <2>1, <2>2, <2>3
<1>4. request' = done /\ this_request' = n
  BY <1>2 DEF end_request, Handles
<1>5. ok => do_request(n, done, mv)
  BY <1>2 DEF end_request, Handles
<1> HIDE DEF done
<1>6. /\ b_lock' = [b_lock EXCEPT ![request[h].bh] = FALSE]
      /\ b_uptodate' = [b_uptodate EXCEPT ![request[h].bh] = ok]
      /\ pc' = [t \in Task |-> IF pc[t] = "asleep" THEN "woken" ELSE pc[t]]
      /\ UNCHANGED <<sorting, arg, req, tmp>>
      /\ ~ ok => reset_hd /\ moved' = mv
  BY DEF end_request, WakeForRequest, local, Handles
<1>7. n # h /\ n \in (S \ {h}) \cup {Null}
  BY <1>1, <1>2 DEF IsList
<1>8. n # Null => done[n].live /\ done[n].bh \in Block /\ done[n].nsector \in {1, 2}
  BY <1>3, <1>7 DEF IsList, Inductive, Filled
<1>9. QED
  BY <1>1, <1>2, <1>3, <1>4, <1>5, <1>6, <1>7, <1>8

LEMMA EndKeeps ==
  ASSUME Inductive, ctl.cmd \in Rw, NEW rq, Handles(rq), NEW mv, NEW ok \in BOOLEAN,
         end_request(ok, rq, mv), UNCHANGED <<sorting, local>>
  PROVE  Inductive'
<1>1. PICK S \in SUBSET Slot : IsList(S)
  BY DEF Inductive
<1>2. PICK h, n : h = this_request /\ n = this_request'
  OBVIOUS
<1>3. /\ h \in S /\ h # Null /\ request[h].live /\ request[h].bh \in Block
      /\ request' \in [Slot -> Record] /\ ~ request'[h].live /\ request'[h].next = n
      /\ \A r \in Slot \ {h} : request'[r] = request[r]
      /\ n = request[h].next /\ n \in (S \ {h}) \cup {Null}
      /\ n # Null => request'[n].live /\ request'[n].nsector \in {1, 2}
      /\ b_lock' = [b_lock EXCEPT ![request[h].bh] = FALSE]
      /\ pc' = [t \in Task |-> IF pc[t] = "asleep" THEN "woken" ELSE pc[t]]
      /\ UNCHANGED <<sorting, arg, req, tmp>>
      /\ ok => do_request(n, request', mv)
      /\ ~ ok => reset_hd
  BY <1>1, <1>2, EndIs
<1>4. /\ ctl' \in [cmd : {"idle", "specify"} \cup Rw, left : Int, sector : Int]
      /\ sorting => ctl'.cmd \notin Rw
      /\ HandlerMatchesCommand'
  BY <1>2, <1>3, DoRequest, Reset DEF Inductive
<1>5. Typed'
  BY <1>2, <1>3, <1>4 DEF Inductive, Typed, Place, Running
<1>6. Filled' /\ Called'
  BY <1>2, <1>3 DEF Inductive, Typed, Filled, Called, Before
<1>7. OneRuns'
  BY <1>3 DEF Inductive, OneRuns, Running
<1>8. OneUser'
  <2>1. PICK k \in Block : k = request[h].bh
    BY <1>3
  <2>2. \A r \in Slot, b \in Block : Serves(r, b)' <=> Serves(r, b) /\ r # h
    BY <1>3 DEF Serves
  <2>3. \A t \in Task, b \in Block : Enters(t, b)' <=> Enters(t, b)
    BY <1>3 DEF Enters, Before
  <2>4. Serves(h, k) /\ h \in Slot
    BY <1>3, <2>1 DEF Serves
  <2>5. b_lock' = [b_lock EXCEPT ![k] = FALSE] /\ b_lock \in [Block -> BOOLEAN]
    BY <1>3, <2>1 DEF Inductive, Typed
  <2>6. \A b \in Block : Serves(h, b) => b = k
    BY <2>1 DEF Serves
  <2>7. QED
    BY <2>2, <2>3, <2>4, <2>5, <2>6 DEF Inductive, OneUser
<1>9. Adding'
  <2>1. ASSUME NEW t \in Task, pc'[t] \in {"link", "insert", "linked"}
        PROVE  /\ sorting' /\ ctl'.cmd \notin Rw /\ pc[t] = pc'[t]
               /\ pc'[t] \in {"link", "insert"} => req \in Slot \ {h}
    BY <1>1, <1>3, <1>4, <2>1 DEF Inductive, Adding, IsList
  <2>2. ASSUME NEW t \in Task, pc'[t] \in {"link", "insert"}
        PROVE  req' \in Slot /\ request'[req'].live /\ request'[req'].next = Null
    BY <1>3, <2>1, <2>2 DEF Inductive, Adding
  <2>3. ASSUME NEW t \in Task, pc'[t] = "insert"
        PROVE  tmp' = h
    BY <1>2, <1>3, <2>1, <2>3 DEF Inductive, Adding
  <2>4. QED
    BY <1>2, <1>3, <2>1, <2>2, <2>3 DEF Adding
<1>10. IsList(S \ {h})'
  <2>1. \A r \in S \ {h} : request'[r] = request[r]
    BY <1>3
  <2>2. \A t \in Task : pc'[t] \in {"link", "insert"} => pc'[t] = pc[t]
    BY <1>3
  <2>3. QED
    BY <1>1, <1>2, <1>3, <2>1, <2>2 DEF IsList
<1>11. QED
  BY <1>4, <1>5, <1>6, <1>7, <1>8, <1>9, <1>10 DEF Inductive

\* A handler that goes on with its request changes at most nsector and errors of
\* it, and the controller.
LEMMA GoOnKeeps ==
  ASSUME Inductive, ctl.cmd \in Rw, request' \in [Slot -> Record],
         \A r \in Slot \ {this_request} : request'[r] = request[r],
         request'[this_request].live, request'[this_request].bh = request[this_request].bh,
         request'[this_request].next = request[this_request].next,
         request'[this_request].nsector \in {1, 2},
         ctl' \in [cmd : {"idle", "specify"} \cup Rw, left : Int, sector : Int],
         HandlerMatchesCommand',
         UNCHANGED <<this_request, sorting, b_lock, pc, local>>
  PROVE  Inductive'
<1>1. \A r \in Slot : /\ request'[r].live <=> request[r].live
                      /\ request'[r].bh = request[r].bh /\ request'[r].next = request[r].next
                      /\ request'[r].nsector = request[r].nsector \/ request'[r].nsector \in {1, 2}
  BY Served
<1>2. Typed' /\ Filled' /\ OneRuns' /\ Called'
  BY <1>1 DEF Inductive, Typed, Filled, OneRuns, Called, local
<1>3. OneUser'
  <2>1. \A b \in Block : /\ \A r \in Slot : Serves(r, b)' <=> Serves(r, b)
                         /\ \A t \in Task : Enters(t, b)' <=> Enters(t, b)
    BY <1>1 DEF Serves, Enters, local
  <2>2. QED
    BY <2>1 DEF Inductive, OneUser
<1>4. \A t \in Task : pc[t] = "insert" => tmp = this_request
  BY DEF Inductive, Adding
<1>5. Adding'
  BY <1>1, <1>4 DEF Inductive, Adding, local
<1>6. \E S \in SUBSET Slot : IsList(S)'
  BY <1>1 DEF Inductive, IsList, local
<1>7. QED
  BY <1>2, <1>3, <1>5, <1>6 DEF Inductive

LEMMA NextSectorCtl ==
  ASSUME Typed, NextSector
  PROVE  /\ ctl' \in [cmd : {"idle", "specify"} \cup Rw, left : Int, sector : Int]
         /\ ctl'.cmd = ctl.cmd /\ ctl'.left = ctl.left - 1 /\ ctl'.sector = ctl.sector + 1
<1>1. PICK c \in [cmd : {"idle", "specify"} \cup Rw, left : Int, sector : Int],
           l \in Int, s \in Int : c = ctl /\ l = ctl.left - 1 /\ s = ctl.sector + 1
  BY DEF Typed
<1>2. ctl' = [c EXCEPT !.left = l, !.sector = s]
  BY <1>1 DEF NextSector
<1> DEFINE d == [c EXCEPT !.left = l]
<1>3. d \in [cmd : {"idle", "specify"} \cup Rw, left : Int, sector : Int]
      /\ d.cmd = c.cmd /\ d.left = l
  OBVIOUS
<1>4. ctl' = [d EXCEPT !.sector = s]
  BY <1>2
<1> HIDE DEF d
<1>5. ctl' \in [cmd : {"idle", "specify"} \cup Rw, left : Int, sector : Int]
      /\ ctl'.cmd = d.cmd /\ ctl'.left = d.left /\ ctl'.sector = s
  BY <1>3, <1>4
<1>6. QED
  BY <1>1, <1>3, <1>5

\* rq is the table when one more sector is behind the controller.
StepsOn(rq) == /\ Handles(rq)
               /\ rq[this_request].live /\ rq[this_request].cmd = request[this_request].cmd
               /\ rq[this_request].nsector = request[this_request].nsector - 1

LEMMA SectorKeeps ==
  ASSUME Inductive, ctl.cmd \in Rw, NEW rq, StepsOn(rq), request[this_request].nsector > 1,
         request' = rq, NextSector, UNCHANGED <<this_request, sorting, do_hd, buffer, pc, local>>
  PROVE  Inductive'
<1>1. PICK h \in Slot : h = this_request
  BY Served
<1>2. request[h].nsector = 2 /\ request[h].live
  BY <1>1, Served DEF Inductive, Filled
<1>3. /\ request' \in [Slot -> Record]
      /\ request'[h].live /\ request'[h].bh = request[h].bh /\ request'[h].next = request[h].next
      /\ request'[h].cmd = request[h].cmd /\ request'[h].nsector = 1
      /\ \A r \in Slot \ {h} : request'[r] = request[r]
  BY <1>1, <1>2 DEF StepsOn, Handles
<1>4. /\ ctl' \in [cmd : {"idle", "specify"} \cup Rw, left : Int, sector : Int]
      /\ ctl'.cmd = ctl.cmd /\ ctl'.left = ctl.left - 1
  BY NextSectorCtl DEF Inductive
<1>5. HandlerMatchesCommand'
  BY <1>1, <1>2, <1>3, <1>4 DEF Inductive, HandlerMatchesCommand, Rw
<1>6. b_lock' = b_lock
  BY DEF buffer
<1>7. QED
  BY <1>1, <1>3, <1>4, <1>5, <1>6, GoOnKeeps

\* What read_intr does to the request and the buffer.
LEMMA ReadIs ==
  ASSUME Inductive, ctl.cmd = "WIN_READ", read_intr
  PROVE  \E rq, mv :
           /\ StepsOn(rq)
           /\ mv = [moved EXCEPT ![request[this_request].bh][Half(request[this_request].nsector)] = ctl.sector]
           /\ \/ /\ request[this_request].nsector > 1 /\ request' = rq /\ moved' = mv
                 /\ NextSector /\ UNCHANGED <<this_request, buffer, pc, do_hd>>
              \/ request[this_request].nsector = 1 /\ end_request(TRUE, rq, mv)
<1>1. PICK h \in Slot : h = this_request /\ request[h].live
  BY Served DEF Rw
<1>2. PICK q \in Record : q = request[h]
  BY DEF Inductive, Typed
<1>3. PICK m \in Int : m = q.nsector - 1
  BY <1>2 DEF Record
<1>4. PICK zero \in Int : zero = 0
  OBVIOUS
<1>5. PICK y \in Record : /\ y = [q EXCEPT !.nsector = m]
                           /\ y.live = q.live /\ y.cmd = q.cmd /\ y.bh = q.bh
                           /\ y.nsector = m /\ y.next = q.next
  BY <1>4, Transferred
<1>6. PICK z \in Record : /\ z = [y EXCEPT !.errors = zero]
                           /\ z.live = y.live /\ z.cmd = y.cmd /\ z.bh = y.bh
                           /\ z.nsector = y.nsector /\ z.next = y.next
  BY ONLY <1>4, y \in Record, Transferred
<1>7. [request[this_request] EXCEPT !.nsector = @ - 1, !.errors = 0] = z
  <2>1. request[this_request] = q
    BY <1>1, <1>2
  <2>2. y = [q EXCEPT !.nsector = @ - 1]
    BY ONLY <1>3, <1>5
  <2>3. z = [y EXCEPT !.errors = 0]
    BY ONLY <1>4, <1>6
  <2>4. [q EXCEPT !.nsector = @ - 1, !.errors = 0] = z
    BY ONLY <2>2, <2>3, q \in Record DEF Record
  <2>5. QED
    BY ONLY <2>1, <2>4
<1>8. PICK rq : rq = [request EXCEPT ![h] = z]
  OBVIOUS
<1>9. rq \in [Slot -> Record] /\ rq[h] = z /\ \A r \in Slot \ {h} : rq[r] = request[r]
  BY <1>8, Update DEF Inductive, Typed
<1>10. StepsOn(rq)
  BY <1>1, <1>2, <1>3, <1>5, <1>6, <1>9 DEF StepsOn, Handles
<1>11. QED
  BY <1>1, <1>7, <1>8, <1>10 DEF read_intr

LEMMA ReadKeeps ==
  ASSUME Inductive, ctl.cmd = "WIN_READ", read_intr, UNCHANGED <<sorting, local>>
  PROVE  Inductive'
<1>1. PICK rq, mv :
        /\ StepsOn(rq)
        /\ \/ /\ request[this_request].nsector > 1 /\ request' = rq
              /\ NextSector /\ UNCHANGED <<this_request, buffer, pc, do_hd>>
           \/ end_request(TRUE, rq, mv)
  BY ReadIs
<1>2. ctl.cmd \in Rw /\ Handles(rq)
  BY <1>1 DEF Rw, StepsOn
<1>3. QED
  BY <1>1, <1>2, EndKeeps, SectorKeeps

\* What write_intr does to the request and the buffer.
LEMMA WriteIs ==
  ASSUME Inductive, ctl.cmd = "WIN_WRITE", write_intr
  PROVE  \E rq :
           /\ StepsOn(rq)
           /\ \/ /\ request[this_request].nsector > 1 /\ request' = rq
                 /\ moved' = [moved EXCEPT ![request[this_request].bh][1] = ctl.sector + 1]
                 /\ NextSector /\ UNCHANGED <<this_request, buffer, pc, do_hd>>
              \/ request[this_request].nsector = 1 /\ end_request(TRUE, rq, moved)
<1>1. PICK h \in Slot : h = this_request /\ request[h].live
  BY Served DEF Rw
<1>2. PICK q \in Record : q = request[h]
  BY DEF Inductive, Typed
<1>3. PICK m \in Int : m = q.nsector - 1
  BY <1>2 DEF Record
<1>4. PICK zero \in Int : zero = 0
  OBVIOUS
<1>5. PICK z \in Record : /\ z = [q EXCEPT !.nsector = m]
                           /\ z.live = q.live /\ z.cmd = q.cmd /\ z.bh = q.bh
                           /\ z.nsector = m /\ z.next = q.next
  BY <1>4, Transferred
<1>6. PICK rq : rq = [request EXCEPT ![h] = z]
  OBVIOUS
<1>7. rq \in [Slot -> Record] /\ rq[h] = z /\ \A r \in Slot \ {h} : rq[r] = request[r]
  BY <1>6, Update DEF Inductive, Typed
<1>8. StepsOn(rq)
  BY <1>1, <1>2, <1>3, <1>5, <1>7 DEF StepsOn, Handles
<1>9. QED
  BY <1>1, <1>2, <1>3, <1>5, <1>6, <1>8 DEF write_intr

LEMMA WriteKeeps ==
  ASSUME Inductive, ctl.cmd = "WIN_WRITE", write_intr, UNCHANGED <<sorting, local>>
  PROVE  Inductive'
<1>1. PICK rq :
        /\ StepsOn(rq)
        /\ \/ /\ request[this_request].nsector > 1 /\ request' = rq
              /\ NextSector /\ UNCHANGED <<this_request, buffer, pc, do_hd>>
           \/ end_request(TRUE, rq, moved)
  BY WriteIs
<1>2. ctl.cmd \in Rw /\ Handles(rq)
  BY <1>1 DEF Rw, StepsOn
<1>3. QED
  BY <1>1, <1>2, EndKeeps, SectorKeeps

\* What bad_rw_intr does to the request.
LEMMA BadIs ==
  ASSUME Inductive, ctl.cmd \in Rw, bad_rw_intr
  PROVE  \E rq :
           /\ Handles(rq) /\ rq[this_request].live
           /\ rq[this_request].nsector = request[this_request].nsector
           /\ \/ end_request(FALSE, rq, moved)
              \/ request' = rq /\ reset_hd /\ UNCHANGED <<this_request, buffer, moved, pc>>
<1>1. PICK h \in Slot : h = this_request /\ request[h].live
  BY Served
<1>2. PICK q \in Record : q = request[h]
  BY DEF Inductive, Typed
<1>3. PICK e \in Int : e = q.errors + 1
  BY <1>2 DEF Record
<1>4. PICK zero \in Int : zero = 0
  OBVIOUS
<1>5. PICK z \in Record : /\ z = [q EXCEPT !.errors = e]
                           /\ z.live = q.live /\ z.cmd = q.cmd /\ z.bh = q.bh
                           /\ z.nsector = q.nsector /\ z.next = q.next
  BY <1>4, Transferred
<1>6. PICK rq : rq = [request EXCEPT ![h] = z]
  OBVIOUS
<1>7. rq \in [Slot -> Record] /\ rq[h] = z /\ \A r \in Slot \ {h} : rq[r] = request[r]
  BY <1>6, Update DEF Inductive, Typed
<1>8. /\ Handles(rq) /\ rq[this_request].live
      /\ rq[this_request].nsector = request[this_request].nsector
  BY <1>1, <1>2, <1>5, <1>7 DEF Handles
<1>9. QED
  BY <1>1, <1>2, <1>3, <1>5, <1>6, <1>8 DEF bad_rw_intr

LEMMA BadKeeps ==
  ASSUME Inductive, ctl.cmd \in Rw, bad_rw_intr, UNCHANGED <<sorting, local>>
  PROVE  Inductive'
<1>1. PICK rq :
        /\ Handles(rq) /\ rq[this_request].live
        /\ rq[this_request].nsector = request[this_request].nsector
        /\ \/ end_request(FALSE, rq, moved)
           \/ request' = rq /\ reset_hd /\ UNCHANGED <<this_request, buffer, moved, pc>>
  BY BadIs
<1>2. CASE end_request(FALSE, rq, moved)
  BY <1>1, <1>2, EndKeeps
<1>3. CASE request' = rq /\ reset_hd /\ UNCHANGED <<this_request, buffer, pc>>
  <2>1. rq[this_request].nsector \in {1, 2}
    BY <1>1, Served DEF Inductive, Filled
  <2>2. b_lock' = b_lock
    BY <1>3 DEF buffer
  <2>3. QED
    BY <1>1, <1>3, <2>1, <2>2, Reset, GoOnKeeps DEF Handles
<1>4. QED
  BY <1>1, <1>2, <1>3

\* WIN_SPECIFY is done: do_request as the interrupt routine.
LEMMA SpecifyKeeps ==
  ASSUME Inductive, do_hd = "do_request", do_request(this_request, request, moved),
         UNCHANGED <<list, buffer, pc, sorting, local>>
  PROVE  Inductive'
<1>1. UNCHANGED <<request, this_request, b_lock, pc, sorting, arg, req, tmp>>
  BY DEF list, buffer, local
<1>2. this_request # Null => request[this_request].live /\ request[this_request].nsector \in {1, 2}
  BY DEF Inductive, Typed, IsList, Filled
<1>3. /\ ctl' \in [cmd : {"idle", "specify"} \cup Rw, left : Int, sector : Int]
      /\ sorting => ctl'.cmd \notin Rw
      /\ HandlerMatchesCommand'
  BY <1>1, <1>2, DoRequest DEF Inductive, Typed
<1>4. Typed' /\ Filled' /\ OneRuns' /\ Called'
  BY <1>1, <1>3 DEF Inductive, Typed, Filled, OneRuns, Called
<1>5. OneUser'
  BY <1>1 DEF Inductive, OneUser, Serves, Enters
<1>6. Adding'
  BY <1>1, <1>3 DEF Inductive, Adding
<1>7. \E S \in SUBSET Slot : IsList(S)'
  BY <1>1 DEF Inductive, IsList
<1>8. QED
  BY <1>3, <1>4, <1>5, <1>6, <1>7 DEF Inductive

LEMMA InterruptKeeps ==
  ASSUME Inductive, hd_interrupt
  PROVE  Inductive'
<1>1. UNCHANGED <<sorting, local>>
  BY DEF hd_interrupt
<1>2. /\ do_hd = "read_intr" => ctl.cmd = "WIN_READ"
      /\ do_hd = "write_intr" => ctl.cmd = "WIN_WRITE"
  BY DEF hd_interrupt, Inductive, Typed, HandlerMatchesCommand, Rw
<1>3. CASE do_hd = "read_intr" /\ read_intr
  BY <1>1, <1>2, <1>3, ReadKeeps
<1>4. CASE do_hd = "write_intr" /\ write_intr
  BY <1>1, <1>2, <1>4, WriteKeeps
<1>5. CASE do_hd \in {"read_intr", "write_intr"} /\ bad_rw_intr
  BY <1>1, <1>2, <1>5, BadKeeps DEF Rw
<1>6. CASE /\ do_hd = "do_request" /\ do_request(this_request, request, moved)
           /\ UNCHANGED <<list, buffer, resumed, pc>>
  BY <1>1, <1>6, SpecifyKeeps
<1>7. QED
  BY <1>3, <1>4, <1>5, <1>6 DEF hd_interrupt

-------------------------------------------------------------------------------
(* rw_abs_hd and add_request.                                              *)

\* The task that makes a step is the only one that runs, before and after.
LEMMA Moves ==
  ASSUME Inductive, NEW t \in Task, NEW place \in Place, Goto(t, place),
         pc[t] \in Running \/ NobodyRuns
  PROVE  /\ pc' \in [Task -> Place] /\ pc'[t] = place
         /\ \A u \in Task \ {t} : pc'[u] = pc[u] /\ pc[u] \notin Running
         /\ OneRuns'
<1>1. pc' \in [Task -> Place] /\ pc'[t] = place /\ \A u \in Task \ {t} : pc'[u] = pc[u]
  BY DEF Inductive, Typed, Goto
<1>2. \A u \in Task \ {t} : pc[u] \notin Running
  BY DEF Inductive, OneRuns, NobodyRuns
<1>3. QED
  BY <1>1, <1>2 DEF OneRuns

LEMMA CallKeeps ==
  ASSUME Inductive, NEW t \in Task, NEW b \in Block, NEW rw \in Cmd, rw_abs_hd(t, b, rw)
  PROVE  Inductive'
<1>1. /\ pc[t] = "idle" /\ ~ b_lock[b] /\ NobodyRuns /\ Goto(t, "called")
      /\ b_lock' = [b_lock EXCEPT ![b] = TRUE]
      /\ arg' = [arg EXCEPT ![t] = [bh |-> b, rw |-> rw]]
      /\ UNCHANGED <<request, this_request, sorting, do_hd, ctl, req, tmp>>
  BY DEF rw_abs_hd, At, list, disk
<1>2. /\ pc' \in [Task -> Place] /\ pc'[t] = "called" /\ OneRuns'
      /\ \A u \in Task \ {t} : pc'[u] = pc[u] /\ pc[u] \notin Running
  <2>1. "called" \in Place
    BY DEF Place, Running
  <2>2. QED
    BY <1>1, <2>1, Moves
<1>3. /\ arg' \in [Task -> [bh : Block \cup {NoBlock}, rw : Rw]] /\ arg'[t].bh = b
      /\ \A u \in Task \ {t} : arg'[u] = arg[u]
  BY <1>1 DEF Inductive, Typed, Rw
<1>4. Typed' /\ Filled' /\ Called' /\ HandlerMatchesCommand'
  BY <1>1, <1>2, <1>3 DEF Inductive, Typed, Filled, Called, HandlerMatchesCommand
<1>5. OneUser'
  <2>1. \A r \in Slot, d \in Block : Serves(r, d)' <=> Serves(r, d)
    BY <1>1 DEF Serves
  <2>2. \A u \in Task, d \in Block : Enters(u, d)' <=> Enters(u, d) \/ (u = t /\ d = b)
    BY <1>1, <1>2, <1>3 DEF Enters, Before
  <2>3. b_lock' \in [Block -> BOOLEAN] /\ b_lock'[b] /\ \A d \in Block \ {b} : b_lock'[d] = b_lock[d]
    BY <1>1 DEF Inductive, Typed
  <2>4. \A r \in Slot : ~ Serves(r, b)
    BY <1>1 DEF Inductive, OneUser
  <2>5. \A u \in Task : ~ Enters(u, b)
    BY <1>1 DEF Inductive, OneUser
  <2>6. QED
    BY <2>1, <2>2, <2>3, <2>4, <2>5 DEF Inductive, OneUser
<1>6. Adding'
  BY <1>1, <1>2 DEF Inductive, Adding, Running
<1>7. \E S \in SUBSET Slot : IsList(S)'
  BY <1>1, <1>2 DEF Inductive, IsList, Running
<1>8. QED
  BY <1>2, <1>4, <1>5, <1>6, <1>7 DEF Inductive

\* A step of a task that leaves the list, the locks and the controller alone.
LEMMA PlaceKeeps ==
  ASSUME Inductive, NEW t \in Task, NEW place \in Place \ {"link", "insert", "linked"},
         Goto(t, place), pc[t] \in Running \/ NobodyRuns,
         place \in Before <=> pc[t] \in Before,
         UNCHANGED <<request, this_request, b_lock, do_hd, ctl, arg, req, tmp>>
  PROVE  Inductive'
<1>1. /\ pc' \in [Task -> Place] /\ pc'[t] = place /\ OneRuns'
      /\ \A u \in Task \ {t} : pc'[u] = pc[u] /\ pc[u] \notin Running
  BY Moves
<1>2. Typed' /\ Filled' /\ Called' /\ HandlerMatchesCommand'
  BY <1>1 DEF Inductive, Typed, Filled, Called, HandlerMatchesCommand
<1>3. OneUser'
  <2>1. \A r \in Slot, d \in Block : Serves(r, d)' <=> Serves(r, d)
    BY DEF Serves
  <2>2. \A u \in Task, d \in Block : Enters(u, d)' <=> Enters(u, d)
    BY <1>1 DEF Enters
  <2>3. QED
    BY <2>1, <2>2 DEF Inductive, OneUser
<1>4. \A u \in Task : pc'[u] \notin {"link", "insert", "linked"}
  BY <1>1 DEF Running
<1>5. Adding'
  BY <1>4 DEF Adding
<1>6. \E S \in SUBSET Slot : IsList(S)'
  BY <1>4 DEF Inductive, IsList
<1>7. QED
  BY <1>1, <1>2, <1>3, <1>5, <1>6 DEF Inductive

LEMMA FillKeeps ==
  ASSUME Inductive, NEW t \in Task, fill_request(t)
  PROVE  Inductive'
<1>1. PICK r \in Slot : r \in FreeSlots /\ req' = r /\
        request' = [request EXCEPT ![r] =
             [live |-> TRUE, cmd |-> arg[t].rw, bh |-> arg[t].bh,
              nsector |-> 2, errors |-> 0, next |-> Null]]
  <2>1. FreeSlots # {} /\ FreeSlots \in SUBSET Nat
    BY DEF fill_request, FreeSlots
  <2>2. \E m \in FreeSlots : \A j \in FreeSlots : m <= j
    BY <2>1, LeastNatural
  <2>3. QED
    BY <2>2 DEF fill_request, FreeSlots
<1>2. PICK a \in [bh : Block \cup {NoBlock}, rw : Rw] : a = arg[t]
  BY DEF Inductive, Typed
<1>3. /\ pc[t] \in Before /\ (pc[t] \in Running \/ NobodyRuns) /\ Goto(t, "link")
      /\ sorting' = TRUE
      /\ UNCHANGED <<this_request, do_hd, ctl, b_lock, arg, tmp>>
  BY DEF fill_request, Searches, At, disk, buffer, Before, Running
<1>4. a.bh \in Block
  BY <1>2, <1>3 DEF Inductive, Called
<1>5. /\ request' \in [Slot -> Record] /\ ~ request[r].live
      /\ request'[r].live /\ request'[r].bh = a.bh /\ request'[r].nsector = 2
      /\ request'[r].next = Null
      /\ \A s \in Slot \ {r} : request'[s] = request[s]
  <2>1. PICK q \in Record : q = [live |-> TRUE, cmd |-> a.rw, bh |-> a.bh,
                                nsector |-> 2, errors |-> 0, next |-> Null]
    <3>1. a.rw \in Rw /\ a.bh \in Block \cup {NoBlock}
      BY <1>4
    <3>2. [live |-> TRUE, cmd |-> a.rw, bh |-> a.bh, nsector |-> 2, errors |-> 0, next |-> Null]
            \in Record
      BY <3>1 DEF Record
    <3>3. QED
      BY <3>2
  <2>2. request' = [request EXCEPT ![r] = q]
    BY <1>1, <1>2, <2>1
  <2>3. /\ request' \in [Slot -> Record] /\ request'[r] = q
        /\ \A s \in Slot \ {r} : request'[s] = request[s]
    BY <2>2, Update DEF Inductive, Typed
  <2>4. QED
    BY <1>1, <2>1, <2>3 DEF FreeSlots
<1>6. /\ pc' \in [Task -> Place] /\ pc'[t] = "link" /\ OneRuns'
      /\ \A u \in Task \ {t} : pc'[u] = pc[u] /\ pc[u] \notin Running
  <2>1. "link" \in Place
    BY DEF Place, Running
  <2>2. QED
    BY <1>3, <2>1, Moves
<1>7. Typed' /\ Filled' /\ Called'
  <2>1. Typed /\ Filled /\ Called
    BY DEF Inductive
  <2>2. Typed'
    BY ONLY <1>1, <1>3, <1>5, <1>6, <2>1 DEF Typed
  <2>3. Filled'
    BY ONLY <1>4, <1>5, <2>1 DEF Filled
  <2>4. Called'
    BY ONLY <1>3, <1>6, <2>1 DEF Called, Before
  <2>5. QED
    BY ONLY <2>2, <2>3, <2>4
<1>8. HandlerMatchesCommand'
  BY <1>3, <1>5 DEF Inductive, Typed, HandlerMatchesCommand
<1>9. OneUser'
  <2>1. \A s \in Slot, d \in Block : Serves(s, d)' <=> Serves(s, d) \/ (s = r /\ d = a.bh)
    BY <1>5 DEF Serves
  <2>2. \A u \in Task, d \in Block : Enters(u, d)' <=> Enters(u, d) /\ ~ (u = t /\ d = a.bh)
    BY <1>2, <1>3, <1>6 DEF Enters, Before
  <2>3. Enters(t, a.bh)
    BY <1>2, <1>3 DEF Enters
  <2>4. PICK k \in Block : k = a.bh
    BY <1>4
  <2>5. QED
    BY <1>3, <2>1, <2>2, <2>3, <2>4 DEF Inductive, OneUser
<1>10. Adding'
  <2>1. \A u \in Task : pc'[u] \in {"link", "insert", "linked"} => u = t
    BY <1>6 DEF Running
  <2>2. sorting' /\ req' \in Slot /\ request'[req'].live /\ request'[req'].next = Null
    BY <1>1, <1>3, <1>5
  <2>3. QED
    BY <1>6, <2>1, <2>2 DEF Adding
<1>11. \E S \in SUBSET Slot : IsList(S)'
  <2>1. PICK S \in SUBSET Slot : IsList(S)
    BY DEF Inductive
  <2>2. r \notin S /\ \A s \in S : request'[s] = request[s]
    BY <1>5, <2>1 DEF IsList
  <2>3. \A u \in Task : pc'[u] \in {"link", "insert"} => u = t
    BY <1>6 DEF Running
  <2>4. IsList(S)'
    BY <1>1, <1>3, <2>1, <2>2, <2>3 DEF IsList
  <2>5. QED
    BY <2>4
<1>12. QED
  BY <1>6, <1>7, <1>8, <1>9, <1>10, <1>11 DEF Inductive

\* The task that adds the first request of the list.
LEMMA LinkKeeps ==
  ASSUME Inductive, NEW t \in Task, link_first(t)
  PROVE  Inductive'
<1>1. /\ pc[t] = "link" /\ tmp' = this_request
      /\ UNCHANGED <<request, sorting, do_hd, ctl, b_lock, arg, req>>
  BY DEF link_first, At, disk, buffer
<1>2. /\ sorting /\ req \in Slot /\ request[req].live /\ request[req].next = Null
  BY <1>1 DEF Inductive, Adding
<1>3. PICK place \in {"insert", "linked"} :
        /\ Goto(t, place)
        /\ place = "linked" => this_request = Null /\ this_request' = req
        /\ place = "insert" => this_request # Null /\ this_request' = this_request
  BY DEF link_first
<1>4. /\ pc' \in [Task -> Place] /\ pc'[t] = place /\ OneRuns'
      /\ \A u \in Task \ {t} : pc'[u] = pc[u] /\ pc[u] \notin Running
  <2>1. place \in Place /\ pc[t] \in Running
    BY <1>1 DEF Place, Running
  <2>2. QED
    BY <1>3, <2>1, Moves
<1>5. \A u \in Task : pc'[u] \in {"link", "insert", "linked"} => u = t
  BY <1>4 DEF Running
<1>6. Typed' /\ Filled' /\ Called'
  BY <1>1, <1>2, <1>3, <1>4 DEF Inductive, Typed, Filled, Called, Before
<1>7. OneUser'
  <2>1. \A r \in Slot, d \in Block : Serves(r, d)' <=> Serves(r, d)
    BY <1>1 DEF Serves
  <2>2. \A u \in Task, d \in Block : Enters(u, d)' <=> Enters(u, d)
    BY <1>1, <1>4 DEF Enters, Before
  <2>3. QED
    BY <1>1, <2>1, <2>2 DEF Inductive, OneUser
<1>8. HandlerMatchesCommand'
  BY <1>1, <1>3 DEF Inductive, HandlerMatchesCommand
<1>9. Adding'
  <2>1. place = "insert" => tmp' \in Slot /\ tmp' = this_request'
    BY <1>1, <1>3 DEF Inductive, Typed
  <2>2. QED
    BY <1>1, <1>2, <1>4, <1>5, <2>1 DEF Adding
<1>10. \E S \in SUBSET Slot : IsList(S)'
  <2>1. CASE place = "linked"
    <3>1. /\ this_request' = req /\ request'[req].live /\ request'[req].next = Null
      BY <1>1, <1>2, <1>3, <2>1
    <3>2. \A u \in Task : pc'[u] \notin {"link", "insert"}
      BY <1>4, <1>5, <2>1
    <3>3. PICK i \in Slot : i = req
      BY <1>2
    <3>4. IsList({i})'
      BY <3>1, <3>2, <3>3, <1>1 DEF IsList
    <3>5. QED
      BY <3>4
  <2>2. CASE place = "insert"
    <3>1. PICK S \in SUBSET Slot : IsList(S)
      BY DEF Inductive
    <3>2. req \notin S
      BY <1>1, <3>1 DEF IsList
    <3>3. IsList(S)'
      BY <1>1, <1>3, <1>5, <2>2, <3>1, <3>2 DEF IsList
    <3>4. QED
      BY <3>3
  <2>3. QED
    BY <2>1, <2>2
<1>11. QED
  BY <1>4, <1>6, <1>7, <1>8, <1>9, <1>10 DEF Inductive

\* The walk along the list never leaves it.
LEMMA WalkStays ==
  ASSUME NEW S \in SUBSET Slot, \A r \in S : request[r].next \in S \cup {Null},
         NEW s \in S, NEW p \in Slot, WalkStops(s, p)
  PROVE  p \in S
<1>0. PICK n \in 1..NR_REQUEST : \E walk \in [1..n -> Slot] :
        /\ walk[1] = s /\ walk[n] = p
        /\ \A k \in 1..n - 1 : walk[k + 1] = request[walk[k]].next
  BY ONLY WalkStops(s, p) DEF WalkStops
<1>1. PICK walk \in [1..n -> Slot] :
        /\ walk[1] = s /\ walk[n] = p
        /\ \A k \in 1..n - 1 : walk[k + 1] = request[walk[k]].next
  BY <1>0
<1> DEFINE Out == {k \in 1..n : walk[k] \notin S}
<1>2. CASE Out = {}
  <2>1. n \in 1..n
    OBVIOUS
  <2>2. QED
    BY <1>1, <1>2, <2>1
<1>3. CASE Out # {}
  <2>1. Out \in SUBSET Nat
    OBVIOUS
  <2>2. PICK m \in Out : \A j \in Out : m <= j
    BY <1>3, <2>1, LeastNatural
  <2>3. m # 1
    BY <1>1, <2>2
  <2>4. m - 1 \in 1..n - 1 /\ m - 1 \in 1..n /\ m - 1 \notin Out /\ (m - 1) + 1 = m
    BY <2>2, <2>3
  <2>5. walk[m - 1] \in S /\ walk[m] = request[walk[m - 1]].next
    BY <1>1, <2>4
  <2>6. walk[m] \in Slot
    BY <2>2
  <2>7. walk[m] # Null
    BY <2>6
  <2>8. request[walk[m - 1]].next \in S \cup {Null}
    BY <2>5
  <2>9. QED
    BY <2>2, <2>5, <2>7, <2>8
<1>4. QED
  BY <1>2, <1>3

\* Only the links of the requests differ.
SameRequests(R, S) ==
  \A r \in Slot : /\ R[r].live = S[r].live /\ R[r].bh = S[r].bh
                  /\ R[r].cmd = S[r].cmd /\ R[r].nsector = S[r].nsector

Relinks(z, R, i, n) ==
  /\ R \in [Slot -> Record] /\ i \in Slot /\ n \in Slot \cup {Null}
  /\ z = [R EXCEPT ![i].next = n]

LEMMA Relinked ==
  ASSUME NEW z, NEW R, NEW i, NEW n, Relinks(z, R, i, n)
  PROVE  /\ z \in [Slot -> Record] /\ z[i].next = n /\ SameRequests(z, R)
         /\ \A r \in Slot \ {i} : z[r] = R[r]
<1>0. R \in [Slot -> Record] /\ i \in Slot /\ n \in Slot \cup {Null}
  BY DEF Relinks
<1>1. PICK q \in Record : q = R[i]
  BY <1>0
<1>2. PICK y : y = [q EXCEPT !.next = n]
  OBVIOUS
<1>3. /\ y \in Record /\ y.next = n /\ y.live = q.live /\ y.bh = q.bh
      /\ y.cmd = q.cmd /\ y.nsector = q.nsector
  BY <1>0, <1>2 DEF Record
<1>4. z = [R EXCEPT ![i] = y]
  BY <1>1, <1>2 DEF Relinks
<1>5. z \in [Slot -> Record] /\ z[i] = y /\ \A r \in Slot \ {i} : z[r] = R[r]
  BY ONLY <1>0, <1>3, <1>4
<1>6. QED
  BY <1>0, <1>1, <1>3, <1>5 DEF SameRequests

\* Whatever it is put behind, nothing but links changes.
LEMMA InsertsOnly ==
  ASSUME Inductive, NEW t \in Task, insert(t)
  PROVE  SameRequests(request', request)
<1>1. req \in Slot /\ tmp \in Slot
  BY DEF insert, At, Inductive, Adding
<1>a. PICK p \in Slot, i \in Slot :
        /\ i = req
        /\ request' = [[request EXCEPT ![i].next = request[p].next] EXCEPT ![p].next = i]
  BY <1>1 DEF insert, PlaceAfter
<1>2. PICK n, y, z :
        /\ i = req /\ n = request[p].next
        /\ y = [request EXCEPT ![i].next = n] /\ z = request'
        /\ z = [y EXCEPT ![p].next = i]
  BY <1>a
<1>3. Relinks(y, request, i, n)
  BY <1>2 DEF Relinks, Inductive, Typed, Record
<1>4. y \in [Slot -> Record] /\ SameRequests(y, request)
  BY ONLY <1>3, Relinked
<1>5. Relinks(z, y, p, i)
  BY <1>2, <1>4 DEF Relinks
<1>6. SameRequests(z, y)
  BY ONLY <1>5, Relinked
<1>7. SameRequests(z, request)
  BY ONLY <1>4, <1>6 DEF SameRequests
<1>8. QED
  BY <1>2, <1>7

\* The new request goes behind one of the list, or, when tmp has ended in the
\* meantime and was the last, behind that, and on no list.
LEMMA InsertKeeps ==
  ASSUME Inductive, NEW t \in Task, insert(t)
  PROVE  Inductive'
<1>1. /\ pc[t] = "insert" /\ Goto(t, "linked")
      /\ UNCHANGED <<this_request, sorting, do_hd, ctl, b_lock, arg, req, tmp>>
  BY DEF insert, At, disk, buffer, local
<1>2. /\ sorting /\ req \in Slot /\ request[req].live /\ request[req].next = Null
      /\ tmp \in Slot
      /\ tmp # this_request => ~ request[tmp].live /\ request[tmp].next = this_request
  BY <1>1 DEF Inductive, Adding
<1>3. PICK S \in SUBSET Slot : IsList(S)
  BY DEF Inductive
<1>4. PICK p \in Slot :
        /\ p \in PlaceAfter(tmp)
        /\ request' = [request EXCEPT ![req].next = request[p].next, ![p].next = req]
  BY <1>2 DEF insert, PlaceAfter
<1>5. /\ req \notin S /\ this_request \in S \cup {Null}
      /\ \A r \in S : request[r].next \in S \cup {Null}
  BY <1>1, <1>3 DEF IsList
<1>6. \/ p \in S
      \/ p = tmp /\ ~ request[p].live /\ request[p].next = Null
  <2>1. CASE request[tmp].next = Null
    BY <1>2, <1>4, <1>5, <2>1 DEF PlaceAfter
  <2>2. CASE request[tmp].next # Null
    <3>1. request[tmp].next \in S
      BY <1>2, <1>5, <2>2
    <3>2. WalkStops(request[tmp].next, p)
      BY <1>4, <2>2 DEF PlaceAfter
    <3>3. QED
      BY <1>5, <3>1, <3>2, WalkStays
  <2>3. QED
    BY <2>1, <2>2
<1>7. p # req
  BY <1>2, <1>5, <1>6
<1>8. PICK n \in Slot \cup {Null}, i \in Slot : n = request[p].next /\ i = req
  BY <1>2 DEF Inductive, Typed, Record
<1>9. PICK y : y = [request EXCEPT ![i].next = n]
  OBVIOUS
<1>10. /\ y \in [Slot -> Record] /\ y[i].next = n /\ SameRequests(y, request)
      /\ \A r \in Slot \ {i} : y[r] = request[r]
  <2>1. Relinks(y, request, i, n)
    BY <1>9 DEF Inductive, Typed, Relinks
  <2>2. QED
    BY ONLY <2>1, Relinked
<1>11. request' = [y EXCEPT ![p].next = i]
  BY <1>4, <1>7, <1>8, <1>9
<1>12. /\ request' \in [Slot -> Record] /\ request'[p].next = i /\ SameRequests(request', y)
       /\ \A r \in Slot \ {p} : request'[r] = y[r]
  <2>1. PICK z : z = request'
    OBVIOUS
  <2>2. Relinks(z, y, p, i)
    BY <1>10, <1>11, <2>1 DEF Relinks
  <2>3. /\ z \in [Slot -> Record] /\ z[p].next = i /\ SameRequests(z, y)
        /\ \A r \in Slot \ {p} : z[r] = y[r]
    BY ONLY <2>2, Relinked
  <2>4. QED
    BY <2>1, <2>3
<1>13. /\ request'[i].next = n /\ request'[p].next = i
       /\ \A r \in Slot \ {i, p} : request'[r].next = request[r].next
       /\ SameRequests(request', request)
  BY <1>7, <1>8, <1>10, <1>12 DEF SameRequests
<1>14. /\ pc' \in [Task -> Place] /\ pc'[t] = "linked" /\ OneRuns'
       /\ \A u \in Task \ {t} : pc'[u] = pc[u] /\ pc[u] \notin Running
  <2>1. "linked" \in Place /\ pc[t] \in Running
    BY <1>1 DEF Place, Running
  <2>2. QED
    BY <1>1, <2>1, Moves
<1>15. \A u \in Task : pc'[u] \notin {"link", "insert"}
  BY <1>14 DEF Running
<1>16. Typed' /\ Filled' /\ Called'
  BY <1>1, <1>12, <1>13, <1>14 DEF Inductive, Typed, Filled, Called, Before, SameRequests
<1>17. HandlerMatchesCommand'
  BY <1>1, <1>13 DEF Inductive, Typed, HandlerMatchesCommand, SameRequests
<1>18. OneUser'
  <2>1. \A r \in Slot, d \in Block : Serves(r, d)' <=> Serves(r, d)
    BY <1>13 DEF Serves, SameRequests
  <2>2. \A u \in Task, d \in Block : Enters(u, d)' <=> Enters(u, d)
    BY <1>1, <1>14 DEF Enters, Before
  <2>3. QED
    BY <1>1, <2>1, <2>2 DEF Inductive, OneUser
<1>19. Adding'
  BY <1>1, <1>2, <1>15 DEF Adding
<1>20. CASE p \in S
  <2>1. n \in S \cup {Null} /\ i \notin S /\ i # this_request
    BY <1>5, <1>8, <1>20
  <2>2. IsList(S \cup {i})'
    BY <1>1, <1>2, <1>3, <1>8, <1>13, <1>15, <1>20, <2>1 DEF IsList, SameRequests
  <2>3. QED
    BY <1>14, <1>16, <1>17, <1>18, <1>19, <2>2 DEF Inductive
<1>21. CASE p \notin S
  <2>1. \A r \in S : request'[r].next = request[r].next
    BY <1>5, <1>8, <1>13, <1>21
  <2>2. IsList(S)'
    BY <1>1, <1>3, <1>13, <1>15, <2>1 DEF IsList, SameRequests
  <2>3. QED
    BY <1>14, <1>16, <1>17, <1>18, <1>19, <2>2 DEF Inductive
<1>22. QED
  BY <1>20, <1>21

LEMMA RestartKeeps ==
  ASSUME Inductive, NEW t \in Task, restart(t)
  PROVE  Inductive'
<1>1. /\ pc[t] = "restart" /\ Goto(t, "wait") /\ req' = Null /\ tmp' = Null
      /\ UNCHANGED <<request, this_request, sorting, b_lock, arg>>
      /\ \/ do_hd = "NULL" /\ do_request(this_request, request, moved)
         \/ UNCHANGED <<do_hd, ctl>>
  BY DEF restart, At, list, buffer, disk
<1>2. this_request # Null => request[this_request].live /\ request[this_request].nsector \in {1, 2}
  BY DEF Inductive, Typed, IsList, Filled
<1>3. /\ ctl' \in [cmd : {"idle", "specify"} \cup Rw, left : Int, sector : Int]
      /\ HandlerMatchesCommand'
  <2>1. CASE do_request(this_request, request, moved)
    BY <1>1, <1>2, <2>1, DoRequest DEF Inductive, Typed
  <2>2. CASE UNCHANGED <<do_hd, ctl>>
    BY <1>1, <2>2 DEF Inductive, Typed, HandlerMatchesCommand
  <2>3. QED
    BY <1>1, <2>1, <2>2
<1>4. /\ pc' \in [Task -> Place] /\ pc'[t] = "wait" /\ OneRuns'
      /\ \A u \in Task \ {t} : pc'[u] = pc[u] /\ pc[u] \notin Running
  <2>1. "wait" \in Place /\ pc[t] \in Running
    BY <1>1 DEF Place, Running
  <2>2. QED
    BY <1>1, <2>1, Moves
<1>5. \A u \in Task : pc'[u] \notin {"link", "insert", "linked"}
  BY <1>4 DEF Running
<1>6. Typed' /\ Filled' /\ Called'
  BY <1>1, <1>3, <1>4 DEF Inductive, Typed, Filled, Called, Before
<1>7. OneUser'
  <2>1. \A r \in Slot, d \in Block : Serves(r, d)' <=> Serves(r, d)
    BY <1>1 DEF Serves
  <2>2. \A u \in Task, d \in Block : Enters(u, d)' <=> Enters(u, d)
    BY <1>1, <1>4 DEF Enters, Before
  <2>3. QED
    BY <1>1, <2>1, <2>2 DEF Inductive, OneUser
<1>8. Adding'
  BY <1>5 DEF Adding
<1>9. \E S \in SUBSET Slot : IsList(S)'
  BY <1>1, <1>5 DEF Inductive, IsList
<1>10. QED
  BY <1>3, <1>4, <1>6, <1>7, <1>8, <1>9 DEF Inductive

LEMMA ReturnKeeps ==
  ASSUME Inductive, NEW t \in Task, wait_on_buffer(t)
  PROVE  Inductive'
<1>1. /\ pc[t] = "wait" /\ NobodyRuns /\ Goto(t, "idle")
      /\ arg' = [arg EXCEPT ![t] = NoArg]
      /\ UNCHANGED <<request, this_request, sorting, do_hd, ctl, b_lock, req, tmp>>
  BY DEF wait_on_buffer, At, list, buffer
<1>2. /\ pc' \in [Task -> Place] /\ pc'[t] = "idle" /\ OneRuns'
      /\ \A u \in Task \ {t} : pc'[u] = pc[u] /\ pc[u] \notin Running
  <2>1. "idle" \in Place
    BY DEF Place
  <2>2. QED
    BY <1>1, <2>1, Moves
<1>3. /\ arg' \in [Task -> [bh : Block \cup {NoBlock}, rw : Rw]]
      /\ \A u \in Task \ {t} : arg'[u] = arg[u]
  <2>1. NoArg \in [bh : Block \cup {NoBlock}, rw : Rw]
    BY DEF NoArg, Rw
  <2>2. QED
    BY <1>1, <2>1 DEF Inductive, Typed
<1>4. \A u \in Task : pc'[u] \notin {"link", "insert", "linked"}
  BY <1>2 DEF Running
<1>5. Typed' /\ Filled' /\ Called' /\ HandlerMatchesCommand'
  BY <1>1, <1>2, <1>3 DEF Inductive, Typed, Filled, Called, HandlerMatchesCommand, Before
<1>6. OneUser'
  <2>1. \A r \in Slot, d \in Block : Serves(r, d)' <=> Serves(r, d)
    BY <1>1 DEF Serves
  <2>2. \A u \in Task, d \in Block : Enters(u, d)' <=> Enters(u, d)
    BY <1>1, <1>2, <1>3 DEF Enters, Before
  <2>3. QED
    BY <1>1, <2>1, <2>2 DEF Inductive, OneUser
<1>7. Adding'
  BY <1>4 DEF Adding
<1>8. \E S \in SUBSET Slot : IsList(S)'
  BY <1>1, <1>4 DEF Inductive, IsList
<1>9. QED
  BY <1>2, <1>5, <1>6, <1>7, <1>8 DEF Inductive

LEMMA TaskKeeps ==
  ASSUME Inductive, NEW t \in Task, TaskStep(t)
  PROVE  Inductive'
<1>1. CASE no_request(t)
  <2>1. /\ Goto(t, "full") /\ pc[t] \in {"called", "woken"}
        /\ pc[t] \in Running \/ NobodyRuns
        /\ UNCHANGED <<request, this_request, b_lock, do_hd, ctl, arg, req, tmp>>
    BY <1>1 DEF no_request, Searches, At, Running, list, disk, buffer, local
  <2>2. "full" \in Place \ {"link", "insert", "linked"}
    BY DEF Place, Running
  <2>3. QED
    BY <2>1, <2>2, PlaceKeeps DEF Before
<1>2. CASE sleep_for_request(t)
  <2>1. /\ Goto(t, "asleep") /\ pc[t] = "full"
        /\ UNCHANGED <<request, this_request, b_lock, do_hd, ctl, arg, req, tmp>>
    BY <1>2 DEF sleep_for_request, At, list, disk, buffer, local
  <2>2. "asleep" \in Place \ {"link", "insert", "linked"} /\ pc[t] \in Running
    BY <2>1 DEF Place, Running
  <2>3. QED
    BY <2>1, <2>2, PlaceKeeps DEF Before
<1>3. CASE end_sorting(t)
  <2>1. /\ Goto(t, "restart") /\ pc[t] = "linked"
        /\ UNCHANGED <<request, this_request, b_lock, do_hd, ctl, arg, req, tmp>>
    BY <1>3 DEF end_sorting, At, list, disk, buffer, local
  <2>2. "restart" \in Place \ {"link", "insert", "linked"} /\ pc[t] \in Running
    BY <2>1 DEF Place, Running
  <2>3. QED
    BY <2>1, <2>2, PlaceKeeps DEF Before
<1>4. QED
  BY <1>1, <1>2, <1>3, FillKeeps, LinkKeeps, InsertKeeps, RestartKeeps, ReturnKeeps DEF TaskStep

LEMMA UnchangedKeeps ==
  ASSUME Inductive, UNCHANGED vars
  PROVE  Inductive'
<1>1. UNCHANGED <<request, this_request, sorting, do_hd, ctl, b_lock, pc, arg, req, tmp>>
  BY DEF vars, list, disk, buffer, local
<1>2. Typed' /\ Filled' /\ OneRuns' /\ Called' /\ HandlerMatchesCommand'
  BY <1>1 DEF Inductive, Typed, Filled, OneRuns, Called, HandlerMatchesCommand
<1>3. OneUser'
  BY <1>1 DEF Inductive, OneUser, Serves, Enters
<1>4. Adding' /\ \E S \in SUBSET Slot : IsList(S)'
  BY <1>1 DEF Inductive, Adding, IsList
<1>5. QED
  BY <1>2, <1>3, <1>4 DEF Inductive

LEMMA Starts ==
  ASSUME Init
  PROVE  Inductive
<1>1. Free \in Record /\ ~ Free.live
  BY DEF Free, Record, Rw
<1>2. request \in [Slot -> Record] /\ \A r \in Slot : ~ request[r].live
  BY <1>1 DEF Init
<1>3. /\ \A t \in Task : pc[t] = "idle"
      /\ this_request = Null /\ ctl.cmd = "idle"
  BY DEF Init, IdleCtl
<1>4. Typed
  <2>1. NoArg \in [bh : Block \cup {NoBlock}, rw : Rw]
    BY DEF NoArg, Rw
  <2>2. QED
    BY <1>2, <2>1 DEF Init, Typed, IdleCtl, Place
<1>5. Filled /\ OneRuns /\ Called /\ Adding /\ HandlerMatchesCommand
  BY <1>2, <1>3 DEF Filled, OneRuns, Called, Adding, HandlerMatchesCommand, Running, Before
<1>6. OneUser
  BY <1>2, <1>3 DEF Init, OneUser, Serves, Enters, Before
<1>7. IsList({})
  BY <1>3 DEF IsList
<1>8. QED
  BY <1>4, <1>5, <1>6, <1>7 DEF Inductive

THEOREM InductiveAlways == Spec => []Inductive
<1>1. Inductive /\ [Next]_vars => Inductive'
  BY CallKeeps, TaskKeeps, InterruptKeeps, UnchangedKeeps DEF Next
<1>2. QED
  BY Starts, <1>1, PTL DEF Spec

-------------------------------------------------------------------------------
\* The command under way is for the live first request, and its routine waits
\* for the interrupt, for every number of tasks and blocks and every size of the
\* table (kernel/hd.c, hd_interrupt).
THEOREM InterruptFindsItsRequest == Spec => []HandlerMatchesCommand
<1>1. Inductive => HandlerMatchesCommand
  BY DEF Inductive
<1>2. QED
  BY InductiveAlways, <1>1, PTL

LEMMA Counting ==
  ASSUME Inductive
  PROVE  LockedForOneRequest
<1>1. ASSUME NEW b \in Block
      PROVE  Cardinality(Live(b)) + Cardinality(Entering(b)) = IF b_lock[b] THEN 1 ELSE 0
  <2>1. /\ Live(b) = {r \in Slot : Serves(r, b)}
        /\ Entering(b) = {t \in Task : Enters(t, b)}
    BY DEF Live, Entering, Serves, Enters, Before
  <2>2. Cardinality({}) = 0 /\ \A x : Cardinality({x}) = 1
    BY FS_EmptySet, FS_Singleton
  <2>3. CASE \E r \in Slot : Serves(r, b)
    <3>1. PICK r \in Slot : Serves(r, b)
      BY <2>3
    <3>2. Live(b) = {r} /\ Entering(b) = {} /\ b_lock[b]
      BY <2>1, <3>1 DEF Inductive, OneUser
    <3>3. Cardinality({}) = 0 /\ Cardinality({r}) = 1
      BY <2>2
    <3>4. QED
      BY <3>2, <3>3
  <2>4. CASE \E t \in Task : Enters(t, b)
    <3>1. PICK t \in Task : Enters(t, b)
      BY <2>4
    <3>2. Entering(b) = {t} /\ Live(b) = {} /\ b_lock[b]
      BY <2>1, <3>1 DEF Inductive, OneUser
    <3>3. Cardinality({}) = 0 /\ Cardinality({t}) = 1
      BY <2>2
    <3>4. QED
      BY <3>2, <3>3
  <2>5. CASE (\A r \in Slot : ~ Serves(r, b)) /\ (\A t \in Task : ~ Enters(t, b))
    <3>1. Live(b) = {} /\ Entering(b) = {} /\ ~ b_lock[b]
      BY <2>1, <2>5 DEF Inductive, OneUser
    <3>2. QED
      BY <2>2, <3>1
  <2>6. QED
    BY <2>3, <2>4, <2>5
<1>2. QED
  BY <1>1 DEF LockedForOneRequest

\* A locked buffer has exactly one request on its way, an unlocked one none, for
\* every number of tasks and blocks and every size of the table (kernel/hd.c,
\* rw_abs_hd, end_request).
THEOREM LockIsOneRequest == Spec => []LockedForOneRequest
BY InductiveAlways, Counting, PTL
-------------------------------------------------------------------------------
(* The halves of a block.                                                  *)

After == {"link", "insert", "linked", "restart", "wait"}
Halves == [Block -> [0..1 -> Int]]
Whole(m, b) == \A h \in 0..1 : m[b][h] = h

\* What command c, for block b, has moved so far. A write moves its first sector
\* when it starts.
InStep(c, b, m) ==
  /\ c.sector = 2 - c.left
  /\ c.cmd = "WIN_WRITE" \/ c.left = 1 => m[b][0] = 0
  /\ c.cmd = "WIN_WRITE" /\ c.left = 1 => m[b][1] = 1

\* A request with one sector to go is at work or was interrupted by an error.
OneToGo == \A r \in Slot : request[r].live /\ request[r].nsector = 1 =>
             request[r].bh \in resumed \/ (r = this_request /\ ctl.cmd \in Rw)
Moving == ctl.cmd \in Rw =>
            \/ request[this_request].bh \in resumed
            \/ InStep(ctl, request[this_request].bh, moved)
Good(b) == b_lock[b] \/ ~ b_uptodate[b] \/ b \in resumed \/ Whole(moved, b)

\* The request of t may be over before add_request is.
Halved ==
  /\ moved \in Halves /\ b_uptodate \in [Block -> BOOLEAN]
  /\ OneToGo /\ Moving
  /\ \A t \in Task : pc[t] \in After => arg[t].bh \in Block /\ Good(arg[t].bh)

\* z is m but for one half.
Puts(z, m, b, h, v) == /\ m \in Halves /\ b \in Block /\ h \in 0..1 /\ v \in Int
                       /\ z = [m EXCEPT ![b][h] = v]

LEMMA PutHalf ==
  ASSUME NEW z, NEW m, NEW b, NEW h, NEW v, Puts(z, m, b, h, v)
  PROVE  /\ z \in Halves /\ z[b][h] = v
         /\ \A g \in (0..1) \ {h} : z[b][g] = m[b][g]
         /\ \A d \in Block \ {b} : z[d] = m[d]
<1>0. m \in Halves /\ b \in Block /\ h \in 0..1 /\ v \in Int
  BY DEF Puts
<1>1. PICK f \in [0..1 -> Int] : f = m[b]
  BY <1>0 DEF Halves
<1>2. PICK y : y = [f EXCEPT ![h] = v]
  OBVIOUS
<1>3. y \in [0..1 -> Int] /\ y[h] = v /\ \A g \in (0..1) \ {h} : y[g] = f[g]
  BY <1>0, <1>2
<1>4. z = [m EXCEPT ![b] = y]
  BY <1>1, <1>2 DEF Puts
<1>5. z \in Halves /\ z[b] = y /\ \A d \in Block \ {b} : z[d] = m[d]
  BY ONLY <1>0, <1>3, <1>4 DEF Halves
<1>6. QED
  BY <1>0, <1>1, <1>3, <1>5

\* A request that do_request starts from its first sector is in step.
LEMMA StartMoves ==
  ASSUME NEW this \in Slot \cup {Null}, NEW rq \in [Slot -> Record], NEW mv \in Halves, NEW again,
         do_request(this, rq, mv),
         this # Null => /\ rq[this].bh \in Block /\ rq[this].nsector \in {1, 2}
                        /\ rq[this].nsector = 1 => rq[this].bh \in again
  PROVE  /\ moved' \in Halves
         /\ ctl'.cmd \in Rw => this # Null /\ (rq[this].bh \in again \/ InStep(ctl', rq[this].bh, moved'))
         /\ \A b \in Block : this = Null \/ b # rq[this].bh => moved'[b] = mv[b]
<1>1. CASE moved' = mv /\ ctl'.cmd \notin Rw
  BY <1>1
<1>2. CASE /\ this # Null /\ rq[this].cmd = "WIN_READ"
           /\ hd_out(rq[this], "read_intr") /\ moved' = mv
  <2>1. ctl'.cmd = "WIN_READ" /\ ctl'.left = rq[this].nsector /\ ctl'.sector = 0
    BY <1>2 DEF hd_out
  <2>2. rq[this].nsector = 1 \/ InStep(ctl', rq[this].bh, moved')
    BY <1>2, <2>1 DEF InStep
  <2>3. QED
    BY <1>2, <2>2
<1>3. CASE /\ this # Null /\ rq[this].cmd = "WIN_WRITE"
           /\ hd_out(rq[this], "write_intr")
           /\ moved' = [mv EXCEPT ![rq[this].bh][Half(rq[this].nsector)] = 0]
  <2>1. ctl'.cmd = "WIN_WRITE" /\ ctl'.left = rq[this].nsector /\ ctl'.sector = 0
    BY <1>3 DEF hd_out
  <2>2. PICK b \in Block, h \in 0..1, zero \in Int :
          b = rq[this].bh /\ h = Half(rq[this].nsector) /\ zero = 0
    BY <1>3 DEF Half
  <2>3. moved' = [mv EXCEPT ![b][h] = zero]
    BY <1>3, <2>2
  <2>4. /\ moved' \in Halves /\ moved'[b][h] = zero
        /\ \A d \in Block \ {b} : moved'[d] = mv[d]
    <3>1. PICK z : z = moved'
      OBVIOUS
    <3>2. Puts(z, mv, b, h, zero)
      BY <2>3, <3>1 DEF Puts
    <3>3. z \in Halves /\ z[b][h] = zero /\ \A d \in Block \ {b} : z[d] = mv[d]
      BY ONLY <3>2, PutHalf
    <3>4. QED
      BY <3>1, <3>3
  <2>5. rq[this].nsector = 2 => h = 0
    BY <2>2 DEF Half
  <2>6. rq[this].nsector = 1 \/ InStep(ctl', b, moved')
    BY <1>3, <2>1, <2>2, <2>4, <2>5 DEF InStep
  <2>7. QED
    BY <1>3, <2>2, <2>4, <2>6
<1>4. QED
  BY <1>1, <1>2, <1>3 DEF do_request, IdleCtl, reset_hd, Rw

\* No request is live for a buffer that is unlocked, and no two are for one.
LEMMA OneRequest ==
  ASSUME Inductive
  PROVE  /\ \A r \in Slot : request[r].live => request[r].bh \in Block /\ b_lock[request[r].bh]
         /\ \A r, s \in Slot : request[r].live /\ request[s].live /\ request[r].bh = request[s].bh => r = s
<1>1. \A r \in Slot : request[r].live => request[r].bh \in Block /\ Serves(r, request[r].bh)
  BY DEF Inductive, Filled, Serves
<1>2. \A b \in Block : /\ \A r, s \in Slot : Serves(r, b) /\ Serves(s, b) => r = s
                       /\ \A r \in Slot : Serves(r, b) => b_lock[b]
  BY DEF Inductive, OneUser
<1>3. QED
  BY <1>1, <1>2 DEF Serves

\* Only halves of block k differ.
OnlyBlock(mv, k) == mv \in Halves /\ \A b \in Block \ {k} : mv[b] = moved[b]

\* After an interrupt that has to do with the block k of the first request only.
LEMMA EndHalved ==
  ASSUME Inductive, Halved, ctl.cmd \in Rw, NEW rq, Handles(rq), NEW ok \in BOOLEAN,
         NEW mv, end_request(ok, rq, mv), UNCHANGED <<sorting, local>>,
         NEW k \in Block, k = request[this_request].bh, OnlyBlock(mv, k),
         ok => k \in resumed' \/ Whole(mv, k),
         resumed \subseteq resumed', resumed' \subseteq resumed \cup {k}
  PROVE  Halved'
<1>1. PICK S \in SUBSET Slot : IsList(S)
  BY DEF Inductive
<1>2. PICK h, n : h = this_request /\ n = this_request'
  OBVIOUS
<1>3. /\ h \in Slot /\ request[h].live /\ k = request[h].bh
      /\ request' \in [Slot -> Record] /\ ~ request'[h].live
      /\ \A r \in Slot \ {h} : request'[r] = request[r]
      /\ n \in (Slot \ {h}) \cup {Null}
      /\ n # Null => request'[n].live /\ request'[n].bh \in Block /\ request'[n].nsector \in {1, 2}
      /\ b_lock' = [b_lock EXCEPT ![k] = FALSE]
      /\ b_uptodate' = [b_uptodate EXCEPT ![k] = ok]
      /\ \A t \in Task : pc'[t] \in After => pc[t] = pc'[t]
      /\ UNCHANGED <<arg>>
      /\ ok => do_request(n, request', mv)
      /\ ~ ok => ctl'.cmd = "specify" /\ moved' = mv
  BY <1>1, <1>2, EndIs DEF reset_hd, After
<1>4. n # Null => n \in Slot /\ n # h /\ request[n].live /\ request'[n] = request[n] /\ request[n].bh # k
  BY <1>3, OneRequest
<1>5. \A r \in Slot \ {h} : request[r].live /\ request[r].nsector = 1 => request[r].bh \in resumed'
  BY <1>2 DEF Halved, OneToGo
<1>6. /\ moved' \in Halves
      /\ ctl'.cmd \in Rw => n # Null /\ (request'[n].bh \in resumed' \/ InStep(ctl', request'[n].bh, moved'))
      /\ \A b \in Block : n = Null \/ b # request'[n].bh => moved'[b] = mv[b]
  <2>1. CASE ok
    <3>1. n # Null /\ request'[n].nsector = 1 => request'[n].bh \in resumed'
      BY <1>4, <1>5
    <3>2. PICK R, again : R = request' /\ again = resumed' /\ R \in [Slot -> Record]
      BY <1>3
    <3>3. /\ do_request(n, R, mv)
          /\ n # Null => /\ R[n].bh \in Block /\ R[n].nsector \in {1, 2}
                         /\ R[n].nsector = 1 => R[n].bh \in again
      BY <1>3, <2>1, <3>1, <3>2
    <3>4. n \in Slot \cup {Null} /\ R \in [Slot -> Record]
      BY <1>3, <3>2
    <3>5. /\ moved' \in Halves
          /\ ctl'.cmd \in Rw => n # Null /\ (R[n].bh \in again \/ InStep(ctl', R[n].bh, moved'))
          /\ \A b \in Block : n = Null \/ b # R[n].bh => moved'[b] = mv[b]
      <4>1. mv \in Halves
        BY DEF OnlyBlock
      <4>2. QED
        BY ONLY <3>3, <3>4, <4>1, StartMoves
    <3>6. QED
      BY <3>2, <3>5
  <2>2. CASE ~ ok
    BY <1>3, <2>2 DEF Rw, OnlyBlock
  <2>3. QED
    BY <2>1, <2>2
<1>7. OneToGo'
  BY <1>3, <1>5 DEF OneToGo
<1>8. Moving'
  BY <1>2, <1>6 DEF Moving
<1>9. ASSUME NEW b \in Block, Good(b)
      PROVE  Good(b)'
  <2>1. CASE b = k
    <3>1. b_uptodate'[b] = ok /\ (ok => moved'[b] = mv[b])
      BY <1>3, <1>4, <1>6, <2>1 DEF Halved
    <3>2. QED
      BY <2>1, <3>1 DEF Good, Whole
  <2>2. CASE b # k
    <3>1. b_lock'[b] = b_lock[b] /\ b_uptodate'[b] = b_uptodate[b]
      BY <1>3, <2>2 DEF Halved, Inductive, Typed
    <3>2. CASE n # Null /\ b = request'[n].bh
      BY <1>4, <3>1, <3>2, OneRequest DEF Good
    <3>3. CASE n = Null \/ b # request'[n].bh
      <4>1. moved'[b] = moved[b]
        BY <1>6, <2>2, <3>3 DEF OnlyBlock
      <4>2. QED
        BY <1>9, <3>1, <4>1 DEF Good, Whole
    <3>4. QED
      BY <3>2, <3>3
  <2>3. QED
    BY <2>1, <2>2
<1>10. b_uptodate' \in [Block -> BOOLEAN]
  BY <1>3 DEF Halved
<1>11. \A t \in Task : pc'[t] \in After => (arg[t].bh \in Block /\ Good(arg[t].bh))'
  <2>1. ASSUME NEW t \in Task, pc'[t] \in After
        PROVE  (arg[t].bh \in Block /\ Good(arg[t].bh))'
    <3>1. PICK b \in Block : b = arg[t].bh /\ Good(b)
      BY <1>3, <2>1 DEF Halved
    <3>2. Good(b)' /\ b = arg'[t].bh
      BY <1>3, <1>9, <3>1
    <3>3. QED
      BY <3>2 DEF Good
  <2>2. QED
    BY <2>1
<1>12. QED
  BY <1>6, <1>7, <1>8, <1>10, <1>11 DEF Halved

\* A handler that goes on with its request, for block k.
GoesOn(h, k, rq) ==
  /\ h \in Slot /\ h = this_request /\ request[h].live
  /\ k \in Block /\ k = request[h].bh
  /\ Handles(rq) /\ rq[h].live /\ request' = rq
  /\ UNCHANGED <<this_request, buffer, pc, local>>
  /\ moved' \in Halves /\ \A b \in Block \ {k} : moved'[b] = moved[b]
  /\ resumed \subseteq resumed' /\ resumed' \subseteq resumed \cup {k}
  /\ rq[h].nsector = 1 => k \in resumed' \/ ctl'.cmd \in Rw
  /\ ctl'.cmd \in Rw => k \in resumed' \/ InStep(ctl', k, moved')

LEMMA GoOnHalved ==
  ASSUME Inductive, Halved, NEW h, NEW k, NEW rq, GoesOn(h, k, rq)
  PROVE  Halved'
<1>0. /\ h \in Slot /\ h = this_request /\ request[h].live
      /\ k \in Block /\ k = request[h].bh /\ UNCHANGED this_request
      /\ moved' \in Halves /\ \A b \in Block \ {k} : moved'[b] = moved[b]
      /\ resumed \subseteq resumed' /\ resumed' \subseteq resumed \cup {k}
      /\ request'[h].nsector = 1 => k \in resumed' \/ ctl'.cmd \in Rw
      /\ ctl'.cmd \in Rw => k \in resumed' \/ InStep(ctl', k, moved')
  BY DEF GoesOn
<1>1. /\ request'[h].live /\ request'[h].bh = k
      /\ \A r \in Slot \ {h} : request'[r] = request[r]
      /\ UNCHANGED <<b_lock, b_uptodate, pc, arg>>
  BY DEF GoesOn, Handles, buffer, local
<1>2. \A r \in Slot \ {h} : request[r].live /\ request[r].nsector = 1 => request[r].bh \in resumed'
  BY <1>0 DEF Halved, OneToGo
<1>3. OneToGo'
  BY <1>0, <1>1, <1>2 DEF OneToGo
<1>4. Moving'
  BY <1>0, <1>1 DEF Moving
<1>5. \A b \in Block : Good(b) => Good(b)'
  <2>1. b_lock[k]
    BY <1>0, OneRequest
  <2>2. QED
    BY <1>0, <1>1, <2>1 DEF Good, Whole
<1>6. \A t \in Task : pc'[t] \in After => (arg[t].bh \in Block /\ Good(arg[t].bh))'
  BY <1>1, <1>5 DEF Halved, Good
<1>7. QED
  BY <1>0, <1>1, <1>3, <1>4, <1>6 DEF Halved

\* do_request, called by the interrupt or by add_request.
LEMMA StartHalved ==
  ASSUME Inductive, Halved, do_request(this_request, request, moved), ctl.cmd \notin Rw,
         UNCHANGED <<request, this_request, b_lock, b_uptodate, arg, resumed>>,
         \A t \in Task : pc'[t] \in After => pc[t] \in After
  PROVE  Halved'
<1>1. PICK n : n = this_request
  OBVIOUS
<1>2. n # Null => n \in Slot /\ request[n].live /\ request[n].bh \in Block
                  /\ request[n].nsector \in {1, 2} /\ b_lock[request[n].bh]
  BY <1>1, OneRequest DEF Inductive, Typed, IsList, Filled
<1>3. \A r \in Slot : request[r].live /\ request[r].nsector = 1 => request[r].bh \in resumed
  BY DEF Halved, OneToGo
<1>4. /\ moved' \in Halves
      /\ ctl'.cmd \in Rw => n # Null /\ (request[n].bh \in resumed \/ InStep(ctl', request[n].bh, moved'))
      /\ \A b \in Block : n = Null \/ b # request[n].bh => moved'[b] = moved[b]
  <2>1. n \in Slot \cup {Null} /\ request \in [Slot -> Record] /\ moved \in Halves
    BY <1>1 DEF Inductive, Typed, Halved
  <2>2. QED
    BY <1>1, <1>2, <1>3, <2>1, StartMoves
<1>5. OneToGo' /\ Moving'
  BY <1>1, <1>3, <1>4 DEF OneToGo, Moving
<1>6. \A b \in Block : Good(b) => Good(b)'
  BY <1>2, <1>4 DEF Good, Whole
<1>7. \A t \in Task : pc'[t] \in After => (arg[t].bh \in Block /\ Good(arg[t].bh))'
  BY <1>6 DEF Halved, Good
<1>8. QED
  BY <1>4, <1>5, <1>7 DEF Halved

LEMMA SectorsMatch ==
  ASSUME Inductive, Halved, ctl.cmd \in Rw, NEW h, h = this_request
  PROVE  /\ h \in Slot /\ request[h].live /\ request[h].bh \in Block
         /\ request[h].nsector = ctl.left /\ ctl.left \in {1, 2} /\ ctl.sector \in Int
         /\ \/ request[h].bh \in resumed
            \/ /\ ctl.sector = 2 - ctl.left
               /\ ctl.cmd = "WIN_WRITE" \/ ctl.left = 1 => moved[request[h].bh][0] = 0
               /\ ctl.cmd = "WIN_WRITE" /\ ctl.left = 1 => moved[request[h].bh][1] = 1
<1>1. /\ h \in Slot /\ request[h].live /\ request[h].bh \in Block
  BY Served
<1>2. request[h].nsector = ctl.left /\ ctl.left \in {1, 2}
  BY <1>1 DEF Inductive, Filled, HandlerMatchesCommand, Rw
<1>3. ctl.sector \in Int
  BY DEF Inductive, Typed
<1>4. QED
  BY <1>1, <1>2, <1>3 DEF Halved, Moving, InStep

LEMMA ReadHalved ==
  ASSUME Inductive, Halved, ctl.cmd = "WIN_READ", read_intr, UNCHANGED <<sorting, local>>, resumed' = resumed
  PROVE  Halved'
<1>0. ctl.cmd \in Rw /\ Half(1) = 1 /\ Half(2) = 0
  BY DEF Rw, Half
<1>1. PICK h \in Slot : /\ h = this_request /\ request[h].live /\ request[h].bh \in Block
                        /\ request[h].nsector = ctl.left /\ ctl.left \in {1, 2} /\ ctl.sector \in Int
  BY <1>0, SectorsMatch
<1>2. PICK k, g, v : k = request[h].bh /\ g = Half(request[h].nsector) /\ v = ctl.sector
  OBVIOUS
<1>3. PICK rq, mv :
        /\ StepsOn(rq)
        /\ mv = [moved EXCEPT ![k][g] = v]
        /\ \/ /\ request[h].nsector > 1 /\ request' = rq /\ moved' = mv
              /\ NextSector /\ UNCHANGED <<this_request, buffer, pc, do_hd>>
           \/ request[h].nsector = 1 /\ end_request(TRUE, rq, mv)
  BY <1>1, <1>2, ReadIs
<1>4. /\ mv \in Halves /\ mv[k][g] = v /\ \A f \in (0..1) \ {g} : mv[k][f] = moved[k][f]
      /\ \A b \in Block \ {k} : mv[b] = moved[b]
  <2>1. Puts(mv, moved, k, g, v)
    BY <1>0, <1>1, <1>2, <1>3 DEF Puts, Halved
  <2>2. QED
    BY ONLY <2>1, PutHalf
<1>5. /\ request[h].nsector = ctl.left /\ ctl.left \in {1, 2} /\ ctl.sector \in Int
      /\ (ctl.left = 1 => g = 1) /\ (ctl.left = 2 => g = 0)
      /\ k \in resumed \/ (v = 2 - ctl.left /\ (ctl.left = 1 => moved[k][0] = 0))
  <2>1. request[h].bh \in resumed \/ (ctl.sector = 2 - ctl.left /\ (ctl.left = 1 => moved[request[h].bh][0] = 0))
    BY <1>0, <1>1, SectorsMatch
  <2>2. QED
    BY <1>0, <1>1, <1>2, <2>1
<1>6. /\ Handles(rq) /\ rq[h].live /\ rq[h].nsector = request[h].nsector - 1 /\ ctl.cmd \in Rw
  BY <1>1, <1>3 DEF StepsOn, Rw
<1>7. CASE request[h].nsector = 1 /\ end_request(TRUE, rq, mv)
  <2>1. k \in resumed \/ Whole(mv, k)
    BY <1>1, <1>4, <1>5, <1>7 DEF Whole
  <2>2. /\ resumed \subseteq resumed' /\ resumed' \subseteq resumed \cup {k}
        /\ k \in Block /\ k = request[this_request].bh
    BY <1>1, <1>2
  <2>3. OnlyBlock(mv, k)
    BY <1>4 DEF OnlyBlock
  <2>4. QED
    BY <1>6, <1>7, <2>1, <2>2, <2>3, EndHalved
<1>8. CASE /\ request[h].nsector > 1 /\ request' = rq /\ moved' = mv
           /\ NextSector /\ UNCHANGED <<this_request, buffer, pc, do_hd>>
  <2>1. /\ ctl'.cmd = ctl.cmd /\ ctl'.left = ctl.left - 1 /\ ctl'.sector = ctl.sector + 1
    BY NextSectorCtl, <1>8 DEF Inductive
  <2>2. k \in resumed \/ InStep(ctl', k, mv)
    BY <1>2, <1>4, <1>5, <1>8, <2>1 DEF InStep
  <2>3. GoesOn(h, k, rq)
    BY <1>1, <1>2, <1>4, <1>6, <1>8, <2>1, <2>2 DEF GoesOn
  <2>4. QED
    BY <2>3, GoOnHalved
<1>9. QED
  BY <1>3, <1>7, <1>8

LEMMA WriteHalved ==
  ASSUME Inductive, Halved, ctl.cmd = "WIN_WRITE", write_intr, UNCHANGED <<sorting, local>>, resumed' = resumed
  PROVE  Halved'
<1>0. ctl.cmd \in Rw
  BY DEF Rw
<1>1. PICK h \in Slot : /\ h = this_request /\ request[h].live /\ request[h].bh \in Block
                        /\ request[h].nsector = ctl.left /\ ctl.left \in {1, 2} /\ ctl.sector \in Int
  BY <1>0, SectorsMatch
<1>2. PICK k, g, v : k = request[h].bh /\ g = 1 /\ v = ctl.sector + 1
  OBVIOUS
<1>3. PICK rq, mv :
        /\ StepsOn(rq)
        /\ mv = [moved EXCEPT ![k][g] = v]
        /\ \/ /\ request[h].nsector > 1 /\ request' = rq /\ moved' = mv
              /\ NextSector /\ UNCHANGED <<this_request, buffer, pc, do_hd>>
           \/ request[h].nsector = 1 /\ end_request(TRUE, rq, moved)
  BY <1>1, <1>2, WriteIs
<1>4. /\ mv \in Halves /\ mv[k][1] = v /\ mv[k][0] = moved[k][0]
      /\ \A b \in Block \ {k} : mv[b] = moved[b]
  <2>1. Puts(mv, moved, k, g, v)
    BY <1>0, <1>1, <1>2, <1>3 DEF Puts, Halved
  <2>2. /\ mv \in Halves /\ mv[k][g] = v /\ \A f \in (0..1) \ {g} : mv[k][f] = moved[k][f]
        /\ \A b \in Block \ {k} : mv[b] = moved[b]
    BY ONLY <2>1, PutHalf
  <2>3. QED
    BY <1>2, <2>2
<1>5. /\ request[h].nsector = ctl.left /\ ctl.left \in {1, 2} /\ ctl.sector \in Int
      /\ \/ k \in resumed
         \/ ctl.sector = 2 - ctl.left /\ moved[k][0] = 0 /\ (ctl.left = 1 => moved[k][1] = 1)
  BY <1>0, <1>1, <1>2, SectorsMatch
<1>6. /\ Handles(rq) /\ rq[h].live /\ rq[h].nsector = request[h].nsector - 1 /\ ctl.cmd \in Rw
  BY <1>1, <1>3 DEF StepsOn, Rw
<1>7. CASE request[h].nsector = 1 /\ end_request(TRUE, rq, moved)
  <2>1. k \in resumed \/ Whole(moved, k)
    BY <1>1, <1>5, <1>7 DEF Whole
  <2>2. /\ resumed \subseteq resumed' /\ resumed' \subseteq resumed \cup {k}
        /\ k \in Block /\ k = request[this_request].bh
    BY <1>1, <1>2
  <2>3. OnlyBlock(moved, k)
    BY DEF Halved, OnlyBlock
  <2>4. QED
    BY <1>6, <1>7, <2>1, <2>2, <2>3, EndHalved
<1>8. CASE /\ request[h].nsector > 1 /\ request' = rq /\ moved' = mv
           /\ NextSector /\ UNCHANGED <<this_request, buffer, pc, do_hd>>
  <2>1. /\ ctl'.cmd = ctl.cmd /\ ctl'.left = ctl.left - 1 /\ ctl'.sector = ctl.sector + 1
    BY NextSectorCtl, <1>8 DEF Inductive
  <2>2. k \in resumed \/ InStep(ctl', k, mv)
    BY <1>2, <1>4, <1>5, <1>8, <2>1 DEF InStep
  <2>3. GoesOn(h, k, rq)
    BY <1>1, <1>2, <1>4, <1>6, <1>8, <2>1, <2>2 DEF GoesOn
  <2>4. QED
    BY <2>3, GoOnHalved
<1>9. QED
  BY <1>3, <1>7, <1>8

LEMMA BadHalved ==
  ASSUME Inductive, Halved, ctl.cmd \in Rw, bad_rw_intr, UNCHANGED <<sorting, local>>,
         resumed' = IF request[this_request].nsector = 1
                      THEN resumed \cup {request[this_request].bh} ELSE resumed
  PROVE  Halved'
<1>1. PICK h \in Slot : h = this_request /\ request[h].live /\ request[h].bh \in Block
  BY Served
<1>2. PICK k \in Block : k = request[h].bh
  BY <1>1
<1>3. PICK rq :
        /\ Handles(rq) /\ rq[h].live /\ rq[h].nsector = request[h].nsector
        /\ \/ end_request(FALSE, rq, moved)
           \/ request' = rq /\ reset_hd /\ UNCHANGED <<this_request, buffer, moved, pc>>
  BY <1>1, BadIs
<1>4. /\ resumed \subseteq resumed' /\ resumed' \subseteq resumed \cup {k}
      /\ rq[h].nsector = 1 => k \in resumed'
  BY <1>1, <1>2, <1>3
<1>5. CASE end_request(FALSE, rq, moved)
  BY <1>1, <1>2, <1>3, <1>4, <1>5, EndHalved DEF Halved, OnlyBlock
<1>6. CASE request' = rq /\ reset_hd /\ UNCHANGED <<this_request, buffer, moved, pc>>
  <2>1. ctl'.cmd \notin Rw
    BY <1>6, Reset
  <2>2. moved' = moved /\ moved \in Halves
    BY <1>6 DEF Halved
  <2>3. GoesOn(h, k, rq)
    BY <1>1, <1>2, <1>3, <1>4, <1>6, <2>1, <2>2 DEF GoesOn
  <2>4. QED
    BY <2>3, GoOnHalved
<1>7. QED
  BY <1>3, <1>5, <1>6

LEMMA InterruptHalved ==
  ASSUME Inductive, Halved, hd_interrupt
  PROVE  Halved'
<1>1. UNCHANGED <<sorting, local>>
  BY DEF hd_interrupt
<1>2. /\ do_hd = "read_intr" => ctl.cmd = "WIN_READ"
      /\ do_hd = "write_intr" => ctl.cmd = "WIN_WRITE"
      /\ do_hd = "do_request" => ctl.cmd \notin Rw
  BY DEF hd_interrupt, Inductive, Typed, HandlerMatchesCommand, Rw
<1>3. CASE do_hd = "read_intr" /\ read_intr /\ UNCHANGED resumed
  BY <1>1, <1>2, <1>3, ReadHalved
<1>4. CASE do_hd = "write_intr" /\ write_intr /\ UNCHANGED resumed
  BY <1>1, <1>2, <1>4, WriteHalved
<1>5. CASE /\ do_hd \in {"read_intr", "write_intr"} /\ bad_rw_intr
           /\ resumed' = IF request[this_request].nsector = 1
                           THEN resumed \cup {request[this_request].bh} ELSE resumed
  BY <1>1, <1>2, <1>5, BadHalved DEF Rw
<1>6. CASE /\ do_hd = "do_request" /\ do_request(this_request, request, moved)
           /\ UNCHANGED <<list, buffer, resumed, pc>>
  BY <1>1, <1>2, <1>6, StartHalved DEF list, buffer, local
<1>7. QED
  BY <1>3, <1>4, <1>5, <1>6 DEF hd_interrupt

\* A step of a task that moves nothing and leaves the requests under way alone.
LEMMA QuietHalved ==
  ASSUME Inductive, Halved, UNCHANGED <<moved, resumed, ctl, b_uptodate>>,
         \A r \in Slot : request'[r].live =>
           \/ request'[r].nsector = 2
           \/ /\ request[r].live /\ request'[r].nsector = request[r].nsector
              /\ request'[r].bh = request[r].bh,
         ctl.cmd \in Rw => /\ this_request' = this_request
                           /\ request'[this_request].bh = request[this_request].bh,
         \A b \in Block : b_lock[b] => b_lock'[b],
         \A t \in Task : pc'[t] \in After =>
           /\ arg'[t].bh = arg[t].bh
           /\ pc[t] \in After \/ (arg[t].bh \in Block /\ b_lock[arg[t].bh])
  PROVE  Halved'
<1>1. OneToGo'
  BY DEF Halved, OneToGo
<1>2. Moving'
  BY DEF Halved, Moving
<1>3. \A b \in Block : Good(b) => Good(b)'
  BY DEF Good, Whole
<1>4. \A t \in Task : pc'[t] \in After => (arg[t].bh \in Block /\ Good(arg[t].bh))'
  <2>1. ASSUME NEW t \in Task, pc'[t] \in After
        PROVE  (arg[t].bh \in Block /\ Good(arg[t].bh))'
    <3>1. PICK b : b = arg[t].bh
      OBVIOUS
    <3>2. b \in Block /\ Good(b) /\ b = arg'[t].bh
      BY <2>1, <3>1 DEF Halved, Good
    <3>3. Good(b)'
      BY <1>3, <3>2
    <3>4. QED
      BY <3>2, <3>3 DEF Good
  <2>2. QED
    BY <2>1
<1>5. QED
  BY <1>1, <1>2, <1>4 DEF Halved

\* The last caller for a block takes what has become of its halves with it.
LEMMA ReturnHalved ==
  ASSUME Inductive, Halved, NEW t \in Task, wait_on_buffer(t)
  PROVE  Halved'
<1>1. /\ pc[t] = "wait" /\ NobodyRuns /\ Goto(t, "idle")
      /\ arg' = [arg EXCEPT ![t] = NoArg]
      /\ UNCHANGED <<request, this_request, ctl, b_lock, b_uptodate>>
  BY DEF wait_on_buffer, At, list, buffer
<1>2. PICK k \in Block : k = arg[t].bh /\ ~ b_lock[k]
  BY <1>1 DEF wait_on_buffer, Halved, After
<1>3. \A u \in Task : pc'[u] \in After => u # t /\ pc[u] \in After /\ arg'[u] = arg[u]
  <2>1. "idle" \in Place
    BY DEF Place
  <2>2. pc'[t] = "idle" /\ \A u \in Task \ {t} : pc'[u] = pc[u]
    BY <1>1, <2>1, Moves
  <2>3. \A u \in Task \ {t} : arg'[u] = arg[u]
    BY <1>1 DEF Inductive, Typed
  <2>4. QED
    BY <2>2, <2>3 DEF After
<1>4. CASE UNCHANGED <<moved, resumed>>
  BY <1>1, <1>3, <1>4, QuietHalved
<1>5. CASE /\ \A u \in Task \ {t} : arg[u].bh # k
           /\ moved' = [moved EXCEPT ![k] = Untouched]
           /\ resumed' = resumed \ {k}
  <2>1. moved' \in Halves /\ \A b \in Block \ {k} : moved'[b] = moved[b]
    <3>1. Untouched \in [0..1 -> Int]
      BY DEF Untouched, NoSector
    <3>2. PICK y \in [0..1 -> Int] : y = Untouched
      BY <3>1
    <3>3. moved' = [moved EXCEPT ![k] = y] /\ moved \in Halves
      BY <1>5, <3>2 DEF Halved
    <3>4. QED
      BY ONLY <3>3, k \in Block, y \in [0..1 -> Int] DEF Halves
  <2>2. \A r \in Slot : request[r].live => request[r].bh \in Block \ {k}
    BY <1>2, OneRequest
  <2>3. OneToGo'
    BY <1>1, <1>5, <2>2 DEF Halved, OneToGo
  <2>4. Moving'
    <3>1. ASSUME ctl.cmd \in Rw
          PROVE  request[this_request].bh \in Block \ {k}
      BY <2>2, <3>1, Served
    <3>2. QED
      BY <1>1, <1>5, <2>1, <3>1 DEF Halved, Moving, InStep
  <2>5. \A b \in Block \ {k} : Good(b) => Good(b)'
    BY <1>1, <1>5, <2>1 DEF Good, Whole
  <2>6. \A u \in Task : pc'[u] \in After => (arg[u].bh \in Block /\ Good(arg[u].bh))'
    <3>1. ASSUME NEW u \in Task, pc'[u] \in After
          PROVE  (arg[u].bh \in Block /\ Good(arg[u].bh))'
      <4>1. PICK b : b = arg[u].bh
        OBVIOUS
      <4>2. b \in Block \ {k} /\ Good(b) /\ b = arg'[u].bh
        BY <1>3, <1>5, <3>1, <4>1 DEF Halved
      <4>3. Good(b)'
        BY <2>5, <4>2
      <4>4. QED
        BY <4>2, <4>3 DEF Good
    <3>2. QED
      BY <3>1
  <2>7. QED
    BY <1>1, <2>1, <2>3, <2>4, <2>6 DEF Halved
<1>6. QED
  BY <1>2, <1>4, <1>5 DEF wait_on_buffer

\* Where a task goes, and that nobody else moves.
LEMMA Comes ==
  ASSUME Inductive, NEW t \in Task, NEW place, Goto(t, place)
  PROVE  \A u \in Task : pc'[u] = IF u = t THEN place ELSE pc[u]
BY DEF Inductive, Typed, Goto

LEMMA TaskHalved ==
  ASSUME Inductive, Halved, NEW t \in Task, TaskStep(t)
  PROVE  Halved'
<1>1. CASE fill_request(t) /\ UNCHANGED resumed
  <2>1. /\ pc[t] \in Before /\ Goto(t, "link")
        /\ UNCHANGED <<this_request, ctl, moved, b_lock, b_uptodate, arg>>
    BY <1>1 DEF fill_request, Searches, At, disk, buffer, Before
  <2>a. PICK r \in Slot : \E q : /\ ~ request[r].live /\ q.nsector = 2
                                /\ request' = [request EXCEPT ![r] = q]
    <3>1. FreeSlots # {} /\ FreeSlots \in SUBSET Nat
      BY <1>1 DEF fill_request, FreeSlots
    <3>2. \E m \in FreeSlots : \A j \in FreeSlots : m <= j
      BY <3>1, LeastNatural
    <3>3. QED
      BY <1>1, <3>2 DEF fill_request, FreeSlots
  <2>2. PICK q : /\ ~ request[r].live /\ q.nsector = 2
                 /\ request' = [request EXCEPT ![r] = q]
    BY <2>a
  <2>3. \A s \in Slot : request'[s] = IF s = r THEN q ELSE request[s]
    BY <2>2 DEF Inductive, Typed
  <2>4. arg[t].bh \in Block /\ b_lock[arg[t].bh]
    BY <2>1 DEF Inductive, Called, OneUser, Enters
  <2>5. ctl.cmd \in Rw => this_request \in Slot \ {r}
    BY <2>2, Served
  <2>6. QED
    BY <1>1, <2>1, <2>2, <2>3, <2>4, <2>5, Comes, QuietHalved
<1>2. CASE (no_request(t) \/ sleep_for_request(t) \/ end_sorting(t)) /\ UNCHANGED resumed
  <2>1. PICK place : Goto(t, place) /\ (place \in After => pc[t] \in After)
    BY <1>2 DEF no_request, sleep_for_request, end_sorting, At, After
  <2>2. UNCHANGED <<request, this_request, ctl, moved, b_lock, b_uptodate, arg>>
    BY <1>2 DEF no_request, sleep_for_request, end_sorting, list, disk, buffer, local
  <2>3. QED
    BY <1>2, <2>1, <2>2, Comes, QuietHalved
<1>3. CASE link_first(t) /\ UNCHANGED resumed
  <2>1. PICK place : Goto(t, place) /\ pc[t] \in After
    BY <1>3 DEF link_first, At, After
  <2>2. /\ UNCHANGED <<request, ctl, moved, b_lock, b_uptodate, arg>>
        /\ this_request # Null => this_request' = this_request
    BY <1>3 DEF link_first, disk, buffer
  <2>3. ctl.cmd \in Rw => this_request # Null
    BY DEF Inductive, HandlerMatchesCommand, Rw
  <2>4. QED
    BY <1>3, <2>1, <2>2, <2>3, Comes, QuietHalved
<1>4. CASE insert(t) /\ UNCHANGED resumed
  <2>1. /\ Goto(t, "linked") /\ pc[t] = "insert" /\ pc[t] \in After
        /\ UNCHANGED <<this_request, ctl, moved, b_lock, b_uptodate, arg>>
    BY <1>4 DEF insert, At, disk, buffer, local, After
  <2>2. SameRequests(request', request)
    BY <1>4, InsertsOnly
  <2>3. ctl.cmd \in Rw => this_request \in Slot
    BY Served
  <2>4. QED
    BY <1>4, <2>1, <2>2, <2>3, Comes, QuietHalved DEF SameRequests
<1>5. CASE restart(t) /\ UNCHANGED resumed
  <2>1. /\ Goto(t, "wait") /\ pc[t] \in After
        /\ UNCHANGED <<request, this_request, b_lock, b_uptodate, arg>>
        /\ \/ do_hd = "NULL" /\ do_request(this_request, request, moved)
           \/ UNCHANGED <<ctl, moved>>
    BY <1>5 DEF restart, At, After, list, buffer, disk
  <2>2. \A u \in Task : pc'[u] \in After => pc[u] \in After
    BY <2>1, Comes
  <2>3. do_hd = "NULL" => ctl.cmd \notin Rw
    BY DEF Inductive, HandlerMatchesCommand, Rw
  <2>4. CASE UNCHANGED <<ctl, moved>>
    BY <1>5, <2>1, <2>2, <2>4, QuietHalved
  <2>5. QED
    BY <1>5, <2>1, <2>2, <2>3, <2>4, StartHalved
<1>6. QED
  BY <1>1, <1>2, <1>3, <1>4, <1>5, ReturnHalved DEF TaskStep

LEMMA CallHalved ==
  ASSUME Inductive, Halved, NEW t \in Task, NEW b \in Block, NEW rw \in Cmd, rw_abs_hd(t, b, rw),
         UNCHANGED resumed
  PROVE  Halved'
<1>1. /\ Goto(t, "called")
      /\ b_lock' = [b_lock EXCEPT ![b] = TRUE]
      /\ arg' = [arg EXCEPT ![t] = [bh |-> b, rw |-> rw]]
      /\ UNCHANGED <<request, this_request, ctl, moved, b_uptodate>>
  BY DEF rw_abs_hd, list, disk
<1>2. \A u \in Task : pc'[u] \in After => pc[u] \in After /\ arg'[u] = arg[u]
  BY <1>1, Comes DEF After, Inductive, Typed
<1>3. \A d \in Block : b_lock[d] => b_lock'[d]
  BY <1>1 DEF Inductive, Typed
<1>4. QED
  BY <1>1, <1>2, <1>3, QuietHalved

LEMMA UnchangedHalved ==
  ASSUME Inductive, Halved, UNCHANGED vars
  PROVE  Halved'
BY QuietHalved DEF vars, list, disk, buffer, local

LEMMA StartsHalved ==
  ASSUME Init
  PROVE  Halved
<1>1. moved \in Halves
  BY DEF Init, Halves, Untouched, NoSector
<1>2. /\ \A r \in Slot : ~ request[r].live
      /\ ctl.cmd \notin Rw /\ \A t \in Task : pc[t] \notin After
  BY DEF Init, Free, IdleCtl, Rw, After
<1>3. QED
  BY <1>1, <1>2 DEF Init, Halved, OneToGo, Moving

\* Each half of a block that was read or written without an error has been
\* exchanged with its own sector, for every number of tasks and blocks and every
\* size of the table (kernel/hd.c, read_intr, write_intr, do_request).
THEOREM HalvesGoToTheirSectors == Spec => []HalvesMatchSectors
<1>1. Init => Halved
  BY StartsHalved
<1>2. Inductive /\ Halved /\ [Next]_vars => Halved'
  BY CallHalved, TaskHalved, InterruptHalved, UnchangedHalved DEF Next
<1>3. Halved => HalvesMatchSectors
  BY DEF Halved, HalvesMatchSectors, Good, Whole, After, At
<1>4. QED
  BY InductiveAlways, <1>1, <1>2, <1>3, PTL DEF Spec
==============================================================================
