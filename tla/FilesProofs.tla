------------------------------ MODULE FilesProofs ------------------------------
(***************************************************************************)
(* Theorems about Files.tla, for every number of tasks, descriptors, files *)
(* and pipes: f_count and i_count are exact, a task sleeps in a pipe only  *)
(* while it has nothing to do, and every pipe implements Fifo.tla.         *)
(***************************************************************************)
EXTENDS Files, FiniteSetTheorems, SequenceTheorems, TLAPS

USE FilesAssumption

-------------------------------------------------------------------------------
(* Sets. *)

LEMMA LeastNatural ==
  ASSUME NEW S \in SUBSET Nat, S # {}
  PROVE  \E n \in S : \A m \in S : n <= m
<1>1. PICK n \in S : \A m \in S : ~ (<<m, n>> \in OpToRel(<, Nat))
  <2>1. PICK n \in S : \A m \in Nat : <<m, n>> \in OpToRel(<, Nat) => m \notin S
    BY NatLessThanWellFounded, WFMin
  <2>2. QED
    BY <2>1
<1>2. \A m \in S : ~ (m < n)
  BY <1>1 DEF OpToRel
<1>3. QED
  BY <1>2

LEMMA LeastIs ==
  ASSUME NEW S \in SUBSET Nat, S # {}
  PROVE  Least(S) \in S /\ \A n \in S : Least(S) <= n
BY LeastNatural DEF Least

LEMMA LeastOfOne ==
  ASSUME NEW n \in Nat
  PROVE  Least({n}) = n
BY LeastIs

LEMMA LeastOfTwo ==
  ASSUME NEW d \in Nat, NEW e \in Nat, d < e
  PROVE  Least({d, e}) = d /\ {d, e} \ {d} = {e}
<1>1. Least({d, e}) \in {d, e} /\ \A n \in {d, e} : Least({d, e}) <= n
  BY LeastIs
<1>2. QED
  BY <1>1

LEMMA Finite ==
  IsFiniteSet(Fd) /\ IsFiniteSet(File) /\ IsFiniteSet(Task) /\ IsFiniteSet(Task \X Fd)
<1>1. NR_OPEN - 1 \in Int /\ NR_FILE - 1 \in Int
  OBVIOUS
<1>2. IsFiniteSet(Fd) /\ IsFiniteSet(File)
  BY <1>1, FS_Interval DEF Fd, File
<1>3. QED
  BY <1>2, FS_Product

LEMMA Counted ==
  ASSUME NEW S, IsFiniteSet(S), NEW X \in SUBSET S
  PROVE  /\ IsFiniteSet(X) /\ Cardinality(X) \in Nat
         /\ Cardinality(X) = 0 <=> X = {}
         /\ \A x \in X : Cardinality(X) >= 1
         /\ Cardinality(X) = 1 => \A x, y \in X : x = y
<1>1. IsFiniteSet(X) /\ Cardinality(X) \in Nat
  BY FS_Subset, FS_CardinalityType
<1>2. Cardinality(X) = 0 <=> X = {}
  BY <1>1, FS_EmptySet
<1>3. Cardinality(X) = 1 => \A x, y \in X : x = y
  <2>1. Cardinality(X) = 1 => \E z : X = {z}
    BY <1>1, FS_Singleton
  <2>2. QED
    BY <2>1
<1>4. QED
  BY <1>1, <1>2, <1>3

\* Two sets that differ at one element at most.
LEMMA OneDiffers ==
  ASSUME NEW S, IsFiniteSet(S), NEW X \in SUBSET S, NEW Y \in SUBSET S, NEW x \in S,
         \A y \in S : y # x => (y \in X <=> y \in Y)
  PROVE  /\ Cardinality(X) \in Nat /\ Cardinality(Y) \in Nat
         /\ Cardinality(Y) = Cardinality(X) - (IF x \in X THEN 1 ELSE 0)
                                            + (IF x \in Y THEN 1 ELSE 0)
<1> DEFINE Z == X \ {x}
<1>1. IsFiniteSet(X) /\ IsFiniteSet(Y) /\ Cardinality(X) \in Nat /\ Cardinality(Y) \in Nat
  BY Counted
<1>2. IsFiniteSet(Z) /\ Cardinality(Z) = IF x \in X THEN Cardinality(X) - 1 ELSE Cardinality(X)
  BY <1>1, FS_RemoveElement
<1>3. Cardinality(Z) = IF x \in Y THEN Cardinality(Y) - 1 ELSE Cardinality(Y)
  <2>1. Z = Y \ {x}
    OBVIOUS
  <2>2. Cardinality(Y \ {x}) = IF x \in Y THEN Cardinality(Y) - 1 ELSE Cardinality(Y)
    BY <1>1, FS_RemoveElement
  <2>3. QED
    BY <2>1, <2>2
<1>4. QED
  BY <1>1, <1>2, <1>3

LEMMA Disjoint ==
  ASSUME NEW S, IsFiniteSet(S), NEW X \in SUBSET S, NEW Y \in SUBSET S, X \cap Y = {}
  PROVE  /\ Cardinality(X) \in Nat /\ Cardinality(Y) \in Nat
         /\ Cardinality(X \cup Y) = Cardinality(X) + Cardinality(Y)
<1>1. IsFiniteSet(X) /\ IsFiniteSet(Y) /\ Cardinality(X) \in Nat /\ Cardinality(Y) \in Nat
  BY Counted
<1>2. Cardinality(X \cap Y) = 0
  BY FS_EmptySet
<1>3. Cardinality(X \cup Y) = Cardinality(X) + Cardinality(Y) - Cardinality(X \cap Y)
  BY <1>1, FS_Union
<1>4. QED
  BY <1>1, <1>2, <1>3

\* V is made of R and X.
Parts(S, V, R, X) == /\ R \in SUBSET S /\ X \in SUBSET S
                     /\ R \cap X = {} /\ V = R \cup X

LEMMA PartsAdd ==
  ASSUME NEW S, IsFiniteSet(S), NEW V, NEW R, NEW X, Parts(S, V, R, X)
  PROVE  /\ Cardinality(R) \in Nat /\ Cardinality(X) \in Nat
         /\ Cardinality(V) = Cardinality(R) + Cardinality(X)
<1>1. R \in SUBSET S /\ X \in SUBSET S /\ R \cap X = {}
  BY DEF Parts
<1>2. V = R \cup X
  BY DEF Parts
<1>3. IsFiniteSet(S)
  OBVIOUS
<1>4. /\ Cardinality(R) \in Nat /\ Cardinality(X) \in Nat
      /\ Cardinality(R \cup X) = Cardinality(R) + Cardinality(X)
  BY ONLY <1>1, <1>3, Disjoint
<1>5. QED
  BY ONLY <1>2, <1>4

\* A row of a relation has as many elements as it relates its index to.
LEMMA RowSize ==
  ASSUME NEW S, NEW A, IsFiniteSet(A), NEW t \in S, NEW R \in SUBSET A
  PROVE  Cardinality({<<t, a>> : a \in R}) = Cardinality(R)
<1> DEFINE f == [a \in R |-> <<t, a>>]
           T == {<<t, a>> : a \in R}
<1>1. f \in Bijection(R, T)
  <2>1. f \in [R -> T]
    OBVIOUS
  <2>2. \A a, b \in R : f[a] = f[b] => a = b
    OBVIOUS
  <2>3. \A y \in T : \E a \in R : f[a] = y
    OBVIOUS
  <2>4. QED
    BY <2>1, <2>2, <2>3 DEF Bijection, Injection, Surjection, IsInjective
<1>2. IsFiniteSet(R)
  BY Counted
<1>3. QED
  BY <1>1, <1>2, FS_Bijection DEF ExistsBijection

-------------------------------------------------------------------------------
(* Counts. *)

Row == [Fd -> File \cup {None}]
Filp == [Task -> Row]

\* How many descriptors name x: of all tasks, of one.
Names(f, x) == Cardinality({td \in Task \X Fd : f[td[1]][td[2]] = x})
NamesIn(r, x) == Cardinality({d \in Fd : r[d] = x})

One(b) == IF b THEN 1 ELSE 0

\* f and g agree but for t.
Agree(f, g, S, t) == \A u \in S : u # t => g[u] = f[u]

LEMMA NamesOfOne ==
  ASSUME NEW f \in Filp, NEW g \in Filp, NEW t \in Task, NEW d \in Fd, NEW x,
         Agree(f, g, Task, t), Agree(f[t], g[t], Fd, d)
  PROVE  /\ Names(f, x) \in Nat /\ Names(g, x) \in Nat
         /\ Names(g, x) = Names(f, x) - One(f[t][d] = x) + One(g[t][d] = x)
<1> DEFINE X == {td \in Task \X Fd : f[td[1]][td[2]] = x}
           Y == {td \in Task \X Fd : g[td[1]][td[2]] = x}
           p == <<t, d>>
<1>1. X \in SUBSET (Task \X Fd) /\ Y \in SUBSET (Task \X Fd) /\ p \in Task \X Fd
  OBVIOUS
<1>2. \A q \in Task \X Fd : q # p => (q \in X <=> q \in Y)
  BY DEF Agree
<1>3. (p \in X <=> f[t][d] = x) /\ (p \in Y <=> g[t][d] = x)
  OBVIOUS
<1>4. Names(f, x) = Cardinality(X) /\ Names(g, x) = Cardinality(Y)
  BY DEF Names
<1> HIDE DEF X, Y, p
<1>5. /\ Cardinality(X) \in Nat /\ Cardinality(Y) \in Nat
      /\ Cardinality(Y) = Cardinality(X) - (IF p \in X THEN 1 ELSE 0)
                                         + (IF p \in Y THEN 1 ELSE 0)
  BY <1>1, <1>2, Finite, OneDiffers
<1>6. QED
  BY <1>3, <1>4, <1>5 DEF One

\* A row without x is replaced.
LEMMA NamesOfRow ==
  ASSUME NEW f \in Filp, NEW g \in Filp, NEW t \in Task, NEW x,
         Agree(f, g, Task, t), \A d \in Fd : f[t][d] # x
  PROVE  /\ Names(f, x) \in Nat /\ NamesIn(g[t], x) \in Nat
         /\ Names(g, x) = Names(f, x) + NamesIn(g[t], x)
<1> DEFINE X == {td \in Task \X Fd : f[td[1]][td[2]] = x}
           Y == {td \in Task \X Fd : g[td[1]][td[2]] = x}
           R == {d \in Fd : g[t][d] = x}
           T == {<<t, d>> : d \in R}
<1>1. Cardinality(T) = Cardinality(R)
  BY Finite, RowSize
<1>2. Parts(Task \X Fd, Y, X, T)
  BY DEF Agree, Parts
<1>3. R \in SUBSET Fd
  OBVIOUS
<1>4. Names(f, x) = Cardinality(X) /\ Names(g, x) = Cardinality(Y)
      /\ NamesIn(g[t], x) = Cardinality(R)
  BY DEF Names, NamesIn
<1> HIDE DEF X, Y, R, T
<1>5. Cardinality(X) \in Nat /\ Cardinality(Y) = Cardinality(X) + Cardinality(T)
  BY <1>2, Finite, PartsAdd
<1>6. Cardinality(R) \in Nat
  BY <1>3, Finite, Counted
<1>7. QED
  BY <1>1, <1>4, <1>5, <1>6

\* A file that is named has a count; if it is one nobody else names it.
LEMMA Named ==
  ASSUME NEW f, NEW t \in Task, NEW d \in Fd, NEW x, f[t][d] = x
  PROVE  /\ Names(f, x) >= 1 /\ Names(f, x) \in Nat
         /\ Names(f, x) = 1 => \A u \in Task, e \in Fd : f[u][e] = x => u = t /\ e = d
<1> DEFINE X == {td \in Task \X Fd : f[td[1]][td[2]] = x}
<1>1. X \in SUBSET (Task \X Fd) /\ <<t, d>> \in X
      /\ \A u \in Task, e \in Fd : f[u][e] = x => <<u, e>> \in X
  OBVIOUS
<1>2. Names(f, x) = Cardinality(X)
  BY DEF Names
<1> HIDE DEF X
<1>3. /\ Cardinality(X) >= 1 /\ Cardinality(X) \in Nat
      /\ Cardinality(X) = 1 => \A p, q \in X : p = q
  BY <1>1, Finite, Counted
<1>4. QED
  BY <1>1, <1>2, <1>3

LEMMA Unnamed ==
  ASSUME NEW f, NEW x
  PROVE  Names(f, x) = 0 <=> \A t \in Task, d \in Fd : f[t][d] # x
<1> DEFINE X == {td \in Task \X Fd : f[td[1]][td[2]] = x}
<1>1. X \in SUBSET (Task \X Fd) /\ (X = {} <=> \A t \in Task, d \in Fd : f[t][d] # x)
  <2>1. X \in SUBSET (Task \X Fd)
    OBVIOUS
  <2>2. ASSUME NEW t \in Task, NEW d \in Fd, f[t][d] = x
        PROVE  X # {}
    <3>1. <<t, d>> \in X
      BY <2>2
    <3>2. QED
      BY <3>1
  <2>3. (\A t \in Task, d \in Fd : f[t][d] # x) => X = {}
    OBVIOUS
  <2>4. QED
    BY <2>1, <2>2, <2>3
<1>2. Names(f, x) = Cardinality(X)
  BY DEF Names
<1> HIDE DEF X
<1>3. Cardinality(X) = 0 <=> X = {}
  BY <1>1, Finite, Counted
<1>4. QED
  BY <1>1, <1>2, <1>3

LEMMA SameNames ==
  ASSUME NEW f, NEW g, NEW x, \A t \in Task, d \in Fd : f[t][d] = x <=> g[t][d] = x
  PROVE  Names(f, x) = Names(g, x)
<1>1. {td \in Task \X Fd : f[td[1]][td[2]] = x} = {td \in Task \X Fd : g[td[1]][td[2]] = x}
  OBVIOUS
<1>2. QED
  BY <1>1 DEF Names

-------------------------------------------------------------------------------
(* The inductive invariant.  Its parts are stated of values, not of the    *)
(* variables, so that a lemma can compare two states.                      *)

\* c counts the descriptors of f.
Exact(f, c) == \A x \in File : c[x] = Names(f, x)

\* The marks m are on open descriptors.
Marked(f, m) == \A t \in Task : \A d \in m[t] : f[t][d] # None

\* The files that some task in the middle of open or pipe has reserved.
Held(x, p, s, f) == \E t \in Task : p[t] \in {"open", "pipe"} /\ \E d \in s[t] : f[t][d] = x

OpenFiles(c, p, s, f) == {x \in File : c[x] > 0 /\ ~ Held(x, p, s, f)}

\* What PipeEnds says of the open files O.
InodesCounted(O, in, ic) == \A i \in Inode : ic[i] = Cardinality({x \in O : in[x] = i})
Alive(ic, ip) == \A i \in Pipe : ip[i] <=> ic[i] > 0
TwoEnds(O, in, mo) == \A x, y \in O : x # y /\ in[x] = in[y] /\ in[x] \in Pipe => mo[x] # mo[y]

\* The files of pipes, and no others, are ends of a pipe.
Modes(O, in, mo) == \A x \in O : in[x] \in Pipe <=> mo[x] \in {"read", "write"}

Ends(O, in, mo, ic, ip) == /\ InodesCounted(O, in, ic) /\ Alive(ic, ip)
                           /\ TwoEnds(O, in, mo) /\ Modes(O, in, mo)

\* The call p that a task is in, with its descriptors S, filp r, marks m and the
\* rest n or b of its read or write.
EndOf(r, d, mo, mode) == r[d] # None /\ mo[r[d]] = mode

InCall(p, S, r, m, c, mo, n, b) ==
  /\ p \in {"none", "user", "exec", "exit"} => S = {}
  /\ p = "none" => \A d \in Fd : r[d] = None
  /\ p = "exec" => m # {}
  /\ p = "open" => \E d \in Fd : S = {d}
  /\ p = "pipe" => \E d, e \in Fd : d < e /\ S = {d, e}
  /\ p \in {"open", "pipe"} => \A d \in S : r[d] # None /\ c[r[d]] = 1 /\ d \notin m
  /\ p = "read" => n > 0 /\ \E d \in Fd : S = {d} /\ EndOf(r, d, mo, "read")
  /\ p = "write" => b # <<>> /\ \E d \in Fd : S = {d} /\ EndOf(r, d, mo, "write")

\* It has nothing to do.
Bytes(i, h, l) == (h[i] - l[i]) % PAGE_SIZE
Idle(p, S, r, in, ic, h, l) ==
  LET i == in[r[Least(S)]]
  IN /\ ic[i] = 2
     /\ Bytes(i, h, l) = IF p = "read" THEN 0 ELSE PAGE_SIZE - 1

Call(t) == InCall(pc[t], fds[t], filp[t], close_on_exec[t], f_count, f_mode, count[t], buf[t])
Calls == \A t \in Task : Call(t)
Sleepers == \A t \in asleep : Idle(pc[t], fds[t], filp[t], f_inode, i_count, head, tail)

Inductive ==
  /\ TypeOK
  /\ Exact(filp, f_count) /\ Marked(filp, close_on_exec)
  /\ Calls
  /\ Ends(OpenFiles(f_count, pc, fds, filp), f_inode, f_mode, i_count, i_pipe)
  /\ Sleepers

LEMMA OpenedIs ==
  Opened = OpenFiles(f_count, pc, fds, filp)
BY DEF Opened, OpenFiles, Held

LEMMA InductiveImplies ==
  ASSUME Inductive
  PROVE  FileCounts /\ PipeEnds /\ NoIdleSleeper
<1>1. FileCounts
  BY DEF FileCounts, CloexecOpen, FreeFd, Inductive, Exact, Marked, Names
<1>2. PipeEnds
  <2>1. Ends(Opened, f_inode, f_mode, i_count, i_pipe)
    BY OpenedIs DEF Inductive
  <2>2. QED
    BY <2>1 DEF PipeEnds, Ends, InodesCounted, Alive, TwoEnds
<1>3. NoIdleSleeper
  BY DEF NoIdleSleeper, Inductive, Sleepers, Idle, Bytes, Using, Size
<1>4. QED
  BY <1>1, <1>2, <1>3

-------------------------------------------------------------------------------
(* What the counts of inodes do when one file is opened or closed. *)

Inodes == [File -> Inode]

\* The ends that O has of i.
EndsOn(O, in, i) == {x \in O : in[x] = i}

LEMMA EndsOnOne ==
  ASSUME NEW O \in SUBSET File, NEW Q \in SUBSET File, NEW in, NEW jn, NEW x \in File, NEW i,
         \A y \in File : y # x => (y \in O <=> y \in Q) /\ in[y] = jn[y]
  PROVE  /\ Cardinality(EndsOn(O, in, i)) \in Nat /\ Cardinality(EndsOn(Q, jn, i)) \in Nat
         /\ Cardinality(EndsOn(Q, jn, i)) =
              Cardinality(EndsOn(O, in, i)) - One(x \in O /\ in[x] = i) + One(x \in Q /\ jn[x] = i)
<1> DEFINE X == EndsOn(O, in, i)
           Y == EndsOn(Q, jn, i)
<1>1. X \in SUBSET File /\ Y \in SUBSET File
  BY DEF EndsOn
<1>2. \A y \in File : y # x => (y \in X <=> y \in Y)
  BY DEF EndsOn
<1>3. (x \in X <=> x \in O /\ in[x] = i) /\ (x \in Y <=> x \in Q /\ jn[x] = i)
  BY DEF EndsOn
<1> HIDE DEF X, Y
<1>4. /\ Cardinality(X) \in Nat /\ Cardinality(Y) \in Nat
      /\ Cardinality(Y) = Cardinality(X) - (IF x \in X THEN 1 ELSE 0)
                                         + (IF x \in Y THEN 1 ELSE 0)
  BY <1>1, <1>2, Finite, OneDiffers
<1>5. QED
  BY <1>3, <1>4 DEF One, X, Y

\* Putting an inode (iput).
PutCount(ic, i) == [ic EXCEPT ![i] = @ - 1]
PutPipe(ic, ip, i) == IF i \in Pipe /\ ic[i] = 1 THEN [ip EXCEPT ![i] = FALSE] ELSE ip

LEMMA EndsLess ==
  ASSUME NEW O \in SUBSET File, NEW in \in Inodes, NEW mo, NEW ic \in [Inode -> Nat],
         NEW ip \in [Pipe -> BOOLEAN], NEW x \in O, NEW i, i = in[x],
         Ends(O, in, mo, ic, ip)
  PROVE  /\ Ends(O \ {x}, in, mo, PutCount(ic, i), PutPipe(ic, ip, i))
         /\ PutCount(ic, i) \in [Inode -> Nat] /\ PutPipe(ic, ip, i) \in [Pipe -> BOOLEAN]
<1>1. x \in File /\ i \in Inode /\ O \ {x} \in SUBSET File
  BY DEF Inodes
<1>2. ASSUME NEW j \in Inode
      PROVE  /\ Cardinality(EndsOn(O \ {x}, in, j)) = ic[j] - One(i = j)
             /\ Cardinality(EndsOn(O \ {x}, in, j)) \in Nat
  <2>1. PICK Q : Q = O \ {x}
    OBVIOUS
  <2>2. /\ Q \in SUBSET File /\ x \notin Q
        /\ \A y \in File : y # x => (y \in O <=> y \in Q) /\ in[y] = in[y]
    BY <1>1, <2>1
  <2>3. /\ Cardinality(EndsOn(O, in, j)) \in Nat /\ Cardinality(EndsOn(Q, in, j)) \in Nat
        /\ Cardinality(EndsOn(Q, in, j)) =
             Cardinality(EndsOn(O, in, j)) - One(x \in O /\ in[x] = j) + One(x \in Q /\ in[x] = j)
    BY <1>1, <2>2, EndsOnOne
  <2>4. ic[j] = Cardinality(EndsOn(O, in, j)) /\ ic[j] \in Nat
    BY DEF Ends, InodesCounted, EndsOn
  <2>5. One(x \in O /\ in[x] = j) = One(i = j) /\ One(x \in Q /\ in[x] = j) = 0
    BY <2>2 DEF One
  <2>6. One(i = j) \in Nat
    BY DEF One
  <2>7. QED
    BY <2>1, <2>3, <2>4, <2>5, <2>6
<1>3. InodesCounted(O \ {x}, in, PutCount(ic, i)) /\ PutCount(ic, i) \in [Inode -> Nat]
  <2>1. PICK Q, jc : Q = O \ {x} /\ jc = PutCount(ic, i)
    OBVIOUS
  <2>2. \A j \in Inode : /\ Cardinality(EndsOn(Q, in, j)) = ic[j] - One(i = j)
                         /\ Cardinality(EndsOn(Q, in, j)) \in Nat
    BY <1>2, <2>1
  <2>3. \A j \in Inode : ic[j] \in Nat /\ jc[j] = ic[j] - One(i = j)
    BY <1>1, <2>1 DEF PutCount, One
  <2>4. InodesCounted(Q, in, jc)
    BY <2>2, <2>3 DEF InodesCounted, EndsOn
  <2>5. \A j \in Inode : jc[j] \in Nat
    BY <2>2, <2>3
  <2>6. jc \in [Inode -> Nat]
    <3>1. jc = [j \in Inode |-> jc[j]]
      BY <2>1 DEF PutCount
    <3>2. QED
      BY <2>5, <3>1
  <2>7. QED
    BY <2>1, <2>4, <2>6
<1>4. Alive(PutCount(ic, i), PutPipe(ic, ip, i)) /\ PutPipe(ic, ip, i) \in [Pipe -> BOOLEAN]
  <2>1. ic[i] \in Nat /\ ic[i] - 1 \in Nat
    BY <1>1, <1>2 DEF One
  <2>2. \A j \in Pipe : j \in Inode
    BY DEF Inode
  <2>3. \A j \in Pipe : PutCount(ic, i)[j] = (IF j = i THEN ic[i] - 1 ELSE ic[j]) /\ ic[j] \in Nat
    BY <2>2 DEF PutCount
  <2>4. \A j \in Pipe : PutPipe(ic, ip, i)[j] <=> IF j = i /\ ic[i] = 1 THEN FALSE ELSE ip[j]
    BY DEF PutPipe
  <2>5. \A j \in Pipe : ip[j] <=> ic[j] > 0
    BY DEF Ends, Alive
  <2>6. Alive(PutCount(ic, i), PutPipe(ic, ip, i))
    BY <2>1, <2>3, <2>4, <2>5 DEF Alive
  <2>7. QED
    BY <2>6 DEF PutPipe
<1>5. TwoEnds(O \ {x}, in, mo) /\ Modes(O \ {x}, in, mo)
  BY DEF Ends, TwoEnds, Modes
<1>6. QED
  BY <1>3, <1>4, <1>5 DEF Ends

\* open_namei has the inode of a file.
LEMMA EndsMore ==
  ASSUME NEW O \in SUBSET File, NEW in \in Inodes, NEW mo \in [File -> {"file", "read", "write"}],
         NEW ic \in [Inode -> Nat], NEW ip, NEW x \in File, x \notin O,
         Ends(O, in, mo, ic, ip)
  PROVE  Ends(O \cup {x}, [in EXCEPT ![x] = Regular], [mo EXCEPT ![x] = "file"],
              [ic EXCEPT ![Regular] = @ + 1], ip)
<1>1. PICK Q, jn : Q = O \cup {x} /\ jn = [in EXCEPT ![x] = Regular]
  OBVIOUS
<1>2. /\ Q \in SUBSET File /\ x \in Q /\ jn[x] = Regular
      /\ \A y \in File : y # x => (y \in O <=> y \in Q) /\ in[y] = jn[y]
  BY <1>1 DEF Inodes
<1>3. Regular \in Inode /\ Regular \notin Pipe /\ \A j \in Pipe : j \in Inode
  BY DEF Inode, Regular
<1>4. ASSUME NEW j \in Inode
      PROVE  Cardinality(EndsOn(Q, jn, j)) = ic[j] + One(Regular = j)
  <2>1. /\ Cardinality(EndsOn(O, in, j)) \in Nat /\ Cardinality(EndsOn(Q, jn, j)) \in Nat
        /\ Cardinality(EndsOn(Q, jn, j)) =
             Cardinality(EndsOn(O, in, j)) - One(x \in O /\ in[x] = j) + One(x \in Q /\ jn[x] = j)
    BY <1>2, EndsOnOne
  <2>2. ic[j] = Cardinality(EndsOn(O, in, j)) /\ ic[j] \in Nat
    BY DEF Ends, InodesCounted, EndsOn
  <2>3. One(x \in O /\ in[x] = j) = 0 /\ One(x \in Q /\ jn[x] = j) = One(Regular = j)
    BY <1>2 DEF One
  <2>4. One(Regular = j) \in Nat
    BY DEF One
  <2>5. QED
    BY <2>1, <2>2, <2>3, <2>4
<1>5. PICK jc : jc = [ic EXCEPT ![Regular] = @ + 1]
  OBVIOUS
<1>6. \A j \in Inode : jc[j] = ic[j] + One(Regular = j)
  BY <1>3, <1>5 DEF One
<1>7. InodesCounted(Q, jn, jc)
  BY <1>4, <1>6 DEF InodesCounted, EndsOn
<1>8. Alive(jc, ip)
  <2>1. \A j \in Pipe : jc[j] = ic[j]
    BY <1>3, <1>5
  <2>2. QED
    BY <2>1 DEF Ends, Alive
<1>9. TwoEnds(Q, jn, [mo EXCEPT ![x] = "file"])
  BY <1>2, <1>3 DEF Ends, TwoEnds
<1>10. Modes(Q, jn, [mo EXCEPT ![x] = "file"])
  BY <1>2, <1>3 DEF Ends, Modes
<1>11. QED
  BY <1>1, <1>5, <1>7, <1>8, <1>9, <1>10 DEF Ends

\* get_pipe_inode has an inode i that is free, the two files are x and y.
LEMMA EndsPipe ==
  ASSUME NEW O \in SUBSET File, NEW in \in Inodes, NEW mo \in [File -> {"file", "read", "write"}],
         NEW ic \in [Inode -> Nat], NEW ip \in [Pipe -> BOOLEAN],
         NEW x \in File, NEW y \in File, x # y, x \notin O, y \notin O,
         NEW i \in Pipe, ic[i] = 0, Ends(O, in, mo, ic, ip)
  PROVE  Ends(O \cup {x, y}, [in EXCEPT ![x] = i, ![y] = i],
              [mo EXCEPT ![x] = "read", ![y] = "write"],
              [ic EXCEPT ![i] = 2], [ip EXCEPT ![i] = TRUE])
<1>1. PICK Q, jn, P, kn, no : /\ Q = O \cup {x} /\ jn = [in EXCEPT ![x] = i]
                              /\ P = O \cup {x, y} /\ kn = [in EXCEPT ![x] = i, ![y] = i]
                              /\ no = [mo EXCEPT ![x] = "read", ![y] = "write"]
  OBVIOUS
<1>2. /\ Q \in SUBSET File /\ x \in Q /\ jn[x] = i
      /\ \A z \in File : z # x => (z \in O <=> z \in Q) /\ in[z] = jn[z]
  BY <1>1 DEF Inodes
<1>3. /\ P \in SUBSET File /\ y \notin Q /\ y \in P /\ kn[y] = i
      /\ \A z \in File : z # y => (z \in Q <=> z \in P) /\ jn[z] = kn[z]
  BY <1>1 DEF Inodes
<1>4. /\ kn[x] = i /\ kn[y] = i /\ no[x] = "read" /\ no[y] = "write"
      /\ \A z \in File : z # x /\ z # y => (z \in O <=> z \in P) /\ in[z] = kn[z] /\ mo[z] = no[z]
  BY <1>1 DEF Inodes
<1>5. i \in Inode /\ \A j \in Pipe : j \in Inode
  BY DEF Inode
<1>6. PICK jc : jc = [ic EXCEPT ![i] = 2]
  OBVIOUS
<1>7. ASSUME NEW j \in Inode
      PROVE  jc[j] = Cardinality(EndsOn(P, kn, j))
  <2>1. /\ Cardinality(EndsOn(O, in, j)) \in Nat /\ Cardinality(EndsOn(Q, jn, j)) \in Nat
        /\ Cardinality(EndsOn(Q, jn, j)) =
             Cardinality(EndsOn(O, in, j)) - One(x \in O /\ in[x] = j) + One(x \in Q /\ jn[x] = j)
    BY <1>2, EndsOnOne
  <2>2. /\ Cardinality(EndsOn(P, kn, j)) \in Nat
        /\ Cardinality(EndsOn(P, kn, j)) =
             Cardinality(EndsOn(Q, jn, j)) - One(y \in Q /\ jn[y] = j) + One(y \in P /\ kn[y] = j)
    BY <1>2, <1>3, EndsOnOne
  <2>3. ic[j] = Cardinality(EndsOn(O, in, j)) /\ ic[j] \in Nat
    BY DEF Ends, InodesCounted, EndsOn
  <2>4. /\ One(x \in O /\ in[x] = j) = 0 /\ One(x \in Q /\ jn[x] = j) = One(i = j)
        /\ One(y \in Q /\ jn[y] = j) = 0 /\ One(y \in P /\ kn[y] = j) = One(i = j)
    BY <1>2, <1>3 DEF One
  <2>5. jc[j] = ic[j] + One(i = j) + One(i = j)
    BY <1>6, <2>3 DEF One
  <2>6. One(i = j) \in Nat
    BY DEF One
  <2>7. QED
    BY <2>1, <2>2, <2>3, <2>4, <2>5, <2>6
<1>8. InodesCounted(P, kn, jc)
  BY <1>7 DEF InodesCounted, EndsOn
<1>9. Alive(jc, [ip EXCEPT ![i] = TRUE])
  <2>1. \A j \in Pipe : jc[j] = IF j = i THEN 2 ELSE ic[j]
    BY <1>5, <1>6
  <2>2. \A j \in Pipe : ip[j] <=> ic[j] > 0
    BY DEF Ends, Alive
  <2>3. \A j \in Pipe : [ip EXCEPT ![i] = TRUE][j] <=> IF j = i THEN TRUE ELSE ip[j]
    OBVIOUS
  <2>4. QED
    BY <2>1, <2>2, <2>3 DEF Alive
<1>10. \A z \in O : in[z] # i
  <2>1. Cardinality(EndsOn(O, in, i)) = 0 /\ EndsOn(O, in, i) \in SUBSET File
    BY <1>5 DEF Ends, InodesCounted, EndsOn
  <2>2. EndsOn(O, in, i) = {}
    BY <2>1, Finite, Counted
  <2>3. QED
    BY <2>2 DEF EndsOn
<1>11. \A z \in P : z # x /\ z # y => z \in O /\ z \in File /\ kn[z] # i
  BY <1>3, <1>4, <1>10
<1>12. TwoEnds(P, kn, no)
  <2>1. SUFFICES ASSUME NEW u \in P, NEW z \in P, u # z, kn[u] = kn[z], kn[u] \in Pipe
                 PROVE  no[u] # no[z]
    BY DEF TwoEnds
  <2>2. CASE kn[u] = i
    BY <1>4, <1>11, <2>1, <2>2
  <2>3. CASE kn[u] # i
    BY <1>4, <1>11, <2>1, <2>3 DEF Ends, TwoEnds
  <2>4. QED
    BY <2>2, <2>3
<1>13. Modes(P, kn, no)
  BY <1>4, <1>11 DEF Ends, Modes
<1>14. QED
  BY <1>1, <1>6, <1>8, <1>9, <1>12, <1>13 DEF Ends

-------------------------------------------------------------------------------
(* What the invariant says of one task, one file. *)

Reserving(t) == pc[t] \in {"open", "pipe"}
IsOpen(x) == x \in OpenFiles(f_count, pc, fds, filp)

\* A reserved file belongs to the one descriptor.
LEMMA ReservedOnce ==
  ASSUME Inductive, NEW t \in Task, Reserving(t), NEW d \in fds[t]
  PROVE  /\ d \in Fd /\ filp[t][d] \in File /\ f_count[filp[t][d]] = 1
         /\ d \notin close_on_exec[t]
         /\ \A u \in Task, e \in Fd : filp[u][e] = filp[t][d] => u = t /\ e = d
         /\ ~ IsOpen(filp[t][d])
<1>1. d \in Fd /\ filp[t][d] \in File \cup {None} /\ fds[t] \subseteq Fd
  BY DEF Inductive, TypeOK
<1>2. Call(t)
  BY DEF Inductive, Calls
<1>3. filp[t][d] # None /\ f_count[filp[t][d]] = 1 /\ d \notin close_on_exec[t]
  BY <1>2 DEF Call, InCall, Reserving
<1>4. filp[t][d] \in File
  BY <1>1, <1>3
<1>5. Names(filp, filp[t][d]) = 1
  BY <1>3, <1>4 DEF Inductive, Exact
<1>6. \A u \in Task, e \in Fd : filp[u][e] = filp[t][d] => u = t /\ e = d
  BY <1>1, <1>5, Named
<1>7. ~ IsOpen(filp[t][d])
  BY DEF IsOpen, OpenFiles, Held, Reserving
<1>8. QED
  BY <1>1, <1>3, <1>4, <1>6, <1>7

\* The files of a task that is not in open or pipe are open.
LEMMA Owned ==
  ASSUME Inductive, NEW t \in Task, ~ Reserving(t), NEW d \in Fd, filp[t][d] # None
  PROVE  /\ filp[t][d] \in File /\ IsOpen(filp[t][d]) /\ f_count[filp[t][d]] \in Nat \ {0}
<1>1. filp[t][d] \in File /\ f_count[filp[t][d]] \in Nat
  BY DEF Inductive, TypeOK
<1>2. Names(filp, filp[t][d]) >= 1 /\ f_count[filp[t][d]] = Names(filp, filp[t][d])
  BY <1>1, Named DEF Inductive, Exact
<1>3. ASSUME NEW u \in Task, Reserving(u), NEW e \in fds[u], filp[u][e] = filp[t][d]
      PROVE  FALSE
  BY <1>3, ReservedOnce
<1>4. QED
  BY <1>1, <1>2, <1>3 DEF IsOpen, OpenFiles, Held, Reserving

\* A sleeper, its descriptor d, its end x, its pipe i.
LEMMA Sleeping ==
  ASSUME Inductive, NEW s \in asleep
  PROVE  /\ s \in Task /\ pc[s] \in {"read", "write"}
         /\ \E d \in Fd, x \in File, i \in Pipe :
              /\ fds[s] = {d} /\ Least(fds[s]) = d /\ filp[s][d] = x /\ f_inode[x] = i
              /\ IsOpen(x) /\ i_count[i] = 2 /\ Using(s) = i
<1>1. s \in Task /\ pc[s] \in {"read", "write"}
  BY DEF Inductive, TypeOK
<1>2. Call(s)
  BY <1>1 DEF Inductive, Calls
<1>3. PICK d \in Fd : /\ fds[s] = {d} /\ filp[s][d] # None
                      /\ f_mode[filp[s][d]] \in {"read", "write"}
  BY <1>1, <1>2 DEF Call, InCall, EndOf
<1>4. filp[s][d] \in File /\ IsOpen(filp[s][d])
  BY <1>1, <1>3, Owned DEF Reserving
<1>5. f_inode[filp[s][d]] \in Pipe
  BY <1>3, <1>4 DEF Inductive, Ends, Modes, IsOpen
<1>6. d \in Nat
  BY DEF Fd
<1>7. Least(fds[s]) = d
  BY <1>3, <1>6, LeastOfOne
<1>8. Using(s) = f_inode[filp[s][d]] /\ i_count[f_inode[filp[s][d]]] = 2
  BY <1>7 DEF Inductive, Sleepers, Idle, Using
<1>9. QED
  BY <1>1, <1>3, <1>4, <1>5, <1>7, <1>8

-------------------------------------------------------------------------------
(* What a step keeps. *)

SameCall(u) == pc'[u] = pc[u] /\ fds'[u] = fds[u] /\ count'[u] = count[u] /\ buf'[u] = buf[u]
SameTask(u) == SameCall(u) /\ filp'[u] = filp[u] /\ close_on_exec'[u] = close_on_exec[u]

\* The files that are open, or reserved, are not touched.
KeepsModes == \A x \in File : IsOpen(x) => f_mode'[x] = f_mode[x]
KeepsInodes == \A x \in File : IsOpen(x) => f_inode'[x] = f_inode[x]
KeepsReserved(u) == Reserving(u) => \A d \in fds[u] : f_count'[filp[u][d]] = 1

LEMMA CallKept ==
  ASSUME Inductive, NEW u \in Task, SameTask(u), KeepsModes, KeepsReserved(u)
  PROVE  Call(u)'
<1>1. Call(u) /\ pc[u] \in {"none", "user", "open", "pipe", "read", "write", "exec", "exit"}
  BY DEF Inductive, Calls, TypeOK
<1>2. /\ pc'[u] = pc[u] /\ fds'[u] = fds[u] /\ count'[u] = count[u] /\ buf'[u] = buf[u]
      /\ filp'[u] = filp[u] /\ close_on_exec'[u] = close_on_exec[u]
  BY DEF SameTask, SameCall
<1>3. CASE Reserving(u)
  BY <1>1, <1>2, <1>3 DEF Call, InCall, Reserving, KeepsReserved
<1>4. CASE pc[u] \in {"read", "write"}
  <2>1. ~ Reserving(u)
    BY <1>4 DEF Reserving
  <2>2. PICK d \in Fd : /\ fds[u] = {d} /\ filp[u][d] # None
                        /\ f_mode[filp[u][d]] = pc[u]
                        /\ pc[u] = "read" => count[u] > 0
                        /\ pc[u] = "write" => buf[u] # <<>>
    BY <1>1, <1>4 DEF Call, InCall, EndOf
  <2>3. f_mode'[filp[u][d]] = f_mode[filp[u][d]]
    BY <2>1, <2>2, Owned DEF KeepsModes
  <2>4. QED
    BY <1>2, <1>4, <2>2, <2>3 DEF Call, InCall, EndOf
<1>5. CASE pc[u] \in {"none", "user", "exec", "exit"}
  BY <1>1, <1>2, <1>5 DEF Call, InCall
<1>6. QED
  BY <1>1, <1>3, <1>4, <1>5 DEF Reserving

SleepsOn(s) == Idle(pc[s], fds[s], filp[s], f_inode, i_count, head, tail)

\* Nothing happened to inode i, as far as sleepers are concerned.
QuietInode(i) == i_count'[i] = i_count[i] /\ head'[i] = head[i] /\ tail'[i] = tail[i]

LEMMA SleeperKept ==
  ASSUME Inductive, NEW s \in asleep, SameTask(s), KeepsInodes, QuietInode(Using(s))
  PROVE  SleepsOn(s)'
<1>1. PICK d \in Fd, x \in File, i \in Pipe :
        /\ fds[s] = {d} /\ Least(fds[s]) = d /\ filp[s][d] = x /\ f_inode[x] = i
        /\ IsOpen(x) /\ i_count[i] = 2 /\ Using(s) = i
  BY Sleeping
<1>2. f_inode'[x] = i
  BY <1>1 DEF KeepsInodes
<1>3. i_count'[i] = i_count[i] /\ head'[i] = head[i] /\ tail'[i] = tail[i]
  BY <1>1 DEF QuietInode
<1>4. pc'[s] = pc[s] /\ fds'[s] = fds[s] /\ filp'[s] = filp[s]
  BY DEF SameTask, SameCall
<1>5. SleepsOn(s)
  BY DEF Inductive, Sleepers, SleepsOn
<1>6. QED
  BY <1>1, <1>2, <1>3, <1>4, <1>5 DEF SleepsOn, Idle, Bytes

\* The parts again, in the next state.
LEMMA Assemble ==
  ASSUME TypeOK', Exact(filp', f_count'), Marked(filp', close_on_exec'),
         \A u \in Task : Call(u)',
         Ends(OpenFiles(f_count', pc', fds', filp'), f_inode', f_mode', i_count', i_pipe'),
         \A s \in asleep' : SleepsOn(s)'
  PROVE  Inductive'
BY DEF Inductive, Calls, Sleepers, SleepsOn

-------------------------------------------------------------------------------
(* Closing a descriptor. *)

LEMMA StillReserved ==
  ASSUME Inductive, NEW x \in File, IsOpen(x), NEW u \in Task,
         \A y \in File : y # x => f_count'[y] = f_count[y]
  PROVE  KeepsReserved(u)
<1>1. SUFFICES ASSUME Reserving(u), NEW d \in fds[u]
               PROVE  f_count'[filp[u][d]] = 1
  BY DEF KeepsReserved
<1>2. filp[u][d] \in File /\ f_count[filp[u][d]] = 1 /\ ~ IsOpen(filp[u][d])
  BY <1>1, ReservedOnce
<1>3. QED
  BY <1>2

\* What the close of descriptor d of task t leaves open.
LEMMA CloseOpens ==
  ASSUME Inductive, NEW t \in Task, NEW d \in Fd, ~ Reserving(t), filp[t][d] # None,
         NEW x, x = filp[t][d],
         filp' = [filp EXCEPT ![t][d] = None],
         f_count' = [f_count EXCEPT ![x] = @ - 1],
         ~ Reserving(t)', \A u \in Task : u # t => SameCall(u)
  PROVE  /\ f_count[x] = 1 =>
              OpenFiles(f_count', pc', fds', filp') = OpenFiles(f_count, pc, fds, filp) \ {x}
         /\ f_count[x] # 1 =>
              OpenFiles(f_count', pc', fds', filp') = OpenFiles(f_count, pc, fds, filp)
         /\ Exact(filp', f_count')
<1>1. x \in File /\ IsOpen(x) /\ f_count[x] \in Nat \ {0}
  BY Owned
<1>2. filp \in Filp /\ filp' \in Filp /\ f_count \in [File -> Nat]
  BY DEF Inductive, TypeOK, Filp, Row
<1>3. Agree(filp, filp', Task, t) /\ Agree(filp[t], filp'[t], Fd, d) /\ filp'[t][d] = None
  BY <1>2 DEF Agree, Filp, Row
<1>4. \A y \in File : f_count'[y] = (IF y = x THEN f_count[y] - 1 ELSE f_count[y]) /\ f_count[y] \in Nat
  BY <1>1, <1>2
<1>5. \A u \in Task : u # t => filp'[u] = filp[u] /\ pc'[u] = pc[u] /\ fds'[u] = fds[u]
  BY <1>3 DEF Agree, SameCall
<1>6. \A y : Held(y, pc', fds', filp') <=> Held(y, pc, fds, filp)
  BY <1>5 DEF Held, Reserving
<1>7. \A y \in File : y \in OpenFiles(f_count', pc', fds', filp') <=>
                        y \in OpenFiles(f_count, pc, fds, filp) /\ ~ (y = x /\ f_count[x] = 1)
  <2>1. SUFFICES ASSUME NEW y \in File
                 PROVE  y \in OpenFiles(f_count', pc', fds', filp') <=>
                          y \in OpenFiles(f_count, pc, fds, filp) /\ ~ (y = x /\ f_count[x] = 1)
    OBVIOUS
  <2>2. y \in OpenFiles(f_count', pc', fds', filp') <=> f_count'[y] > 0 /\ ~ Held(y, pc, fds, filp)
    BY <1>6 DEF OpenFiles
  <2>3. y \in OpenFiles(f_count, pc, fds, filp) <=> f_count[y] > 0 /\ ~ Held(y, pc, fds, filp)
    BY DEF OpenFiles
  <2>4. f_count'[y] > 0 <=> f_count[y] > 0 /\ ~ (y = x /\ f_count[x] = 1)
    BY <1>1, <1>4
  <2>5. QED
    BY <2>2, <2>3, <2>4
<1>8. ASSUME NEW y \in File
      PROVE  f_count'[y] = Names(filp', y)
  <2>1. /\ Names(filp, y) \in Nat /\ Names(filp', y) \in Nat
        /\ Names(filp', y) = Names(filp, y) - One(filp[t][d] = y) + One(filp'[t][d] = y)
    BY ONLY <1>2, <1>3, <1>8, t \in Task, d \in Fd, NamesOfOne
  <2>2. One(filp'[t][d] = y) = 0 /\ One(filp[t][d] = y) = IF y = x THEN 1 ELSE 0
    BY <1>3, <1>8 DEF One, None, File
  <2>3. f_count[y] = Names(filp, y)
    BY DEF Inductive, Exact
  <2>4. QED
    BY <1>4, <2>1, <2>2, <2>3
<1>9. QED
  BY <1>7, <1>8 DEF OpenFiles, Exact

\* The types of the parts of the state.
CallTypes == /\ pc \in [Task -> {"none", "user", "open", "pipe", "read", "write", "exec", "exit"}]
             /\ fds \in [Task -> SUBSET Fd]
             /\ count \in [Task -> 0..MaxCount]
             /\ buf \in [Task -> Seq(Byte)]
FileTypes == /\ filp \in Filp
             /\ close_on_exec \in [Task -> SUBSET Fd]
             /\ f_count \in [File -> Nat]
             /\ f_inode \in Inodes
             /\ f_mode \in [File -> {"file", "read", "write"}]
InodeTypes == i_count \in [Inode -> Nat] /\ i_pipe \in [Pipe -> BOOLEAN]
ContentTypes == /\ head \in [Pipe -> 0..PAGE_SIZE - 1]
                /\ tail \in [Pipe -> 0..PAGE_SIZE - 1]
                /\ ring \in [Pipe -> [0..PAGE_SIZE - 1 -> Byte]]
SleepTypes == asleep \subseteq {t \in Task : pc[t] \in {"read", "write"}}

LEMMA TypesSplit ==
  TypeOK <=> CallTypes /\ FileTypes /\ InodeTypes /\ ContentTypes /\ SleepTypes
BY DEF TypeOK, CallTypes, FileTypes, InodeTypes, ContentTypes, SleepTypes, Filp, Row, Inodes

LEMMA TypesSplitNext ==
  TypeOK' <=> CallTypes' /\ FileTypes' /\ InodeTypes' /\ ContentTypes' /\ SleepTypes'
BY DEF TypeOK, CallTypes, FileTypes, InodeTypes, ContentTypes, SleepTypes, Filp, Row, Inodes

\* iput in terms of what it does to the counts.
LEMMA IputIs ==
  ASSUME NEW i, iput(i)
  PROVE  i_count' = PutCount(i_count, i) /\ i_pipe' = PutPipe(i_count, i_pipe, i)
         /\ asleep' = wake_up(i)
BY DEF iput, PutCount, PutPipe

\* The inodes after the file x has lost a descriptor, if O are the open files.
PutLast(x) == IF f_count[x] = 1 THEN iput(f_inode[x]) ELSE UNCHANGED <<inodes, asleep>>

LEMMA EndsAfterPut ==
  ASSUME Inductive, NEW x \in File, IsOpen(x), PutLast(x), NEW O, NEW P,
         P = OpenFiles(f_count, pc, fds, filp),
         f_count[x] = 1 => O = P \ {x},
         f_count[x] # 1 => O = P,
         f_inode' = f_inode, f_mode' = f_mode
  PROVE  /\ Ends(O, f_inode', f_mode', i_count', i_pipe')
         /\ InodeTypes'
         /\ asleep' \subseteq asleep
         /\ \A s \in asleep' : i_count'[Using(s)] = i_count[Using(s)]
<1>1. /\ Ends(P, f_inode, f_mode, i_count, i_pipe)
      /\ i_count \in [Inode -> Nat] /\ i_pipe \in [Pipe -> BOOLEAN] /\ f_inode \in Inodes
      /\ P \in SUBSET File
  BY TypesSplit DEF Inductive, InodeTypes, FileTypes, OpenFiles
<1>2. CASE f_count[x] = 1
  <2>1. PICK i : i = f_inode[x]
    OBVIOUS
  <2>2. iput(i)
    BY <1>2, <2>1 DEF PutLast
  <2>3. i_count' = PutCount(i_count, i) /\ i_pipe' = PutPipe(i_count, i_pipe, i) /\ asleep' = wake_up(i)
    BY <2>2, IputIs
  <2>4. x \in P
    BY DEF IsOpen
  <2>5. /\ Ends(P \ {x}, f_inode, f_mode, PutCount(i_count, i), PutPipe(i_count, i_pipe, i))
        /\ PutCount(i_count, i) \in [Inode -> Nat] /\ PutPipe(i_count, i_pipe, i) \in [Pipe -> BOOLEAN]
    BY <1>1, <2>1, <2>4, EndsLess
  <2>6. asleep' \subseteq asleep /\ \A s \in asleep' : Using(s) # i
    BY <2>3 DEF wake_up
  <2>7. \A s \in asleep' : Using(s) \in Inode
    BY <2>6, Sleeping DEF Inode
  <2>8. \A s \in asleep' : i_count'[Using(s)] = i_count[Using(s)]
    BY <2>3, <2>6, <2>7, <1>1 DEF PutCount
  <2>9. QED
    BY <1>2, <2>3, <2>5, <2>6, <2>8 DEF InodeTypes
<1>3. CASE f_count[x] # 1
  <2>1. i_count' = i_count /\ i_pipe' = i_pipe /\ asleep' = asleep
    BY <1>3 DEF PutLast, inodes
  <2>2. QED
    BY <1>1, <1>3, <2>1 DEF InodeTypes
<1>4. QED
  BY <1>2, <1>3

\* The close of descriptor d of t, which goes on as what it was, or ends its execve.
LEMMA Closing ==
  ASSUME Inductive, NEW t \in Task, NEW d \in Fd, pc[t] \in {"user", "exec", "exit"},
         filp[t][d] # None, CloseFd(t, d),
         \A u \in Task : u # t => SameCall(u),
         CallTypes', pc'[t] \in {"user", "exec", "exit"}, fds'[t] = {},
         pc'[t] = "exec" => close_on_exec'[t] # {}
  PROVE  Inductive'
<1>1. PICK x : x = filp[t][d]
  OBVIOUS
<1>2. /\ filp' = [filp EXCEPT ![t][d] = None]
      /\ close_on_exec' = [close_on_exec EXCEPT ![t] = @ \ {d}]
      /\ f_count' = [f_count EXCEPT ![x] = @ - 1]
      /\ PutLast(x)
      /\ f_inode' = f_inode /\ f_mode' = f_mode
      /\ head' = head /\ tail' = tail /\ ring' = ring
  BY <1>1 DEF CloseFd, PutLast, content
<1>3. ~ Reserving(t) /\ ~ Reserving(t)' /\ t \notin asleep
  BY TypesSplit DEF Inductive, Reserving, SleepTypes
<1>4. x \in File /\ IsOpen(x) /\ f_count[x] \in Nat \ {0}
  BY <1>1, <1>3, Owned
<1>5. /\ f_count[x] = 1 =>
           OpenFiles(f_count', pc', fds', filp') = OpenFiles(f_count, pc, fds, filp) \ {x}
      /\ f_count[x] # 1 =>
           OpenFiles(f_count', pc', fds', filp') = OpenFiles(f_count, pc, fds, filp)
      /\ Exact(filp', f_count')
  BY <1>1, <1>2, <1>3, CloseOpens
<1>6. PICK P : P = OpenFiles(f_count, pc, fds, filp)
  OBVIOUS
<1>7. /\ Ends(OpenFiles(f_count', pc', fds', filp'), f_inode', f_mode', i_count', i_pipe')
      /\ InodeTypes'
      /\ asleep' \subseteq asleep
      /\ \A s \in asleep' : i_count'[Using(s)] = i_count[Using(s)]
  BY <1>2, <1>4, <1>5, <1>6, EndsAfterPut
<1>8. FileTypes /\ ContentTypes /\ CallTypes /\ SleepTypes
  BY TypesSplit DEF Inductive
<1>9. FileTypes'
  <2>1. filp' \in Filp
    BY <1>2, <1>8 DEF FileTypes, Filp, Row
  <2>2. close_on_exec' \in [Task -> SUBSET Fd]
    BY <1>2, <1>8 DEF FileTypes
  <2>3. f_count' \in [File -> Nat]
    BY <1>2, <1>4, <1>8 DEF FileTypes
  <2>4. QED
    BY <1>2, <1>8, <2>1, <2>2, <2>3 DEF FileTypes
<1>10. \A u \in Task : u # t => SameTask(u)
  BY <1>2, <1>8 DEF SameTask, FileTypes, Filp
<1>11. TypeOK'
  <2>1. SleepTypes'
    <3>1. \A s \in asleep' : s \in Task /\ s # t /\ pc[s] \in {"read", "write"}
      BY <1>3, <1>7, <1>8 DEF SleepTypes
    <3>2. QED
      BY <1>10, <3>1 DEF SleepTypes, SameTask, SameCall
  <2>2. ContentTypes'
    BY <1>2, <1>8 DEF ContentTypes
  <2>3. QED
    BY <1>7, <1>9, <2>1, <2>2, TypesSplitNext
<1>12. Marked(filp', close_on_exec')
  <2>1. SUFFICES ASSUME NEW u \in Task, NEW e \in close_on_exec'[u]
                 PROVE  filp'[u][e] # None
    BY DEF Marked
  <2>2. filp'[u][e] = filp[u][e] /\ e \in close_on_exec[u]
    BY <1>2, <1>8 DEF FileTypes, Filp, Row
  <2>3. QED
    BY <2>2 DEF Inductive, Marked
<1>13. ASSUME NEW u \in Task
       PROVE  Call(u)'
  <2>1. CASE u = t
    BY <2>1 DEF Call, InCall
  <2>2. CASE u # t
    <3>1. KeepsModes
      BY <1>2 DEF KeepsModes
    <3>2. \A y \in File : y # x => f_count'[y] = f_count[y]
      BY <1>2, <1>8 DEF FileTypes
    <3>3. KeepsReserved(u)
      BY <1>4, <3>2, StillReserved
    <3>4. QED
      BY <1>10, <2>2, <3>1, <3>3, CallKept
  <2>3. QED
    BY <2>1, <2>2
<1>14. ASSUME NEW s \in asleep'
       PROVE  SleepsOn(s)'
  <2>1. s \in asleep /\ s \in Task /\ s # t /\ i_count'[Using(s)] = i_count[Using(s)]
    BY <1>3, <1>7, <1>8 DEF SleepTypes
  <2>2. SameTask(s) /\ KeepsInodes /\ QuietInode(Using(s))
    BY <1>2, <1>10, <2>1 DEF KeepsInodes, QuietInode
  <2>3. QED
    BY <2>1, <2>2, SleeperKept
<1>15. QED
  BY <1>5, <1>7, <1>11, <1>12, <1>13, <1>14, Assemble

-------------------------------------------------------------------------------
(* Steps that leave descriptors, files and inodes alone. *)

LEMMA OneTaskOnly ==
  ASSUME Inductive, NEW t \in Task, UNCHANGED <<descriptors, files, inodes>>,
         ~ Reserving(t), ~ Reserving(t)', \A u \in Task : u # t => SameCall(u),
         CallTypes', ContentTypes', SleepTypes', Call(t)', \A s \in asleep' : SleepsOn(s)'
  PROVE  Inductive'
<1>1. /\ filp' = filp /\ close_on_exec' = close_on_exec /\ f_count' = f_count
      /\ f_inode' = f_inode /\ f_mode' = f_mode /\ i_count' = i_count /\ i_pipe' = i_pipe
  BY DEF descriptors, files, inodes
<1>2. FileTypes /\ InodeTypes
  BY TypesSplit DEF Inductive
<1>3. TypeOK'
  BY <1>1, <1>2, TypesSplitNext DEF FileTypes, InodeTypes
<1>4. Exact(filp', f_count') /\ Marked(filp', close_on_exec')
  BY <1>1 DEF Inductive
<1>5. OpenFiles(f_count', pc', fds', filp') = OpenFiles(f_count, pc, fds, filp)
  <2>1. \A u \in Task : (Reserving(u)' <=> Reserving(u)) /\ (Reserving(u) => fds'[u] = fds[u])
    BY DEF SameCall, Reserving
  <2>2. QED
    BY <1>1, <2>1 DEF OpenFiles, Held, Reserving
<1>6. Ends(OpenFiles(f_count', pc', fds', filp'), f_inode', f_mode', i_count', i_pipe')
  BY <1>1, <1>5 DEF Inductive
<1>7. ASSUME NEW u \in Task
      PROVE  Call(u)'
  <2>1. CASE u # t
    <3>1. SameTask(u) /\ KeepsModes
      BY <1>1, <2>1 DEF SameTask, KeepsModes
    <3>2. KeepsReserved(u)
      BY <1>1, ReservedOnce DEF KeepsReserved
    <3>3. QED
      BY <3>1, <3>2, CallKept
  <2>2. QED
    BY <2>1
<1>8. QED
  BY <1>3, <1>4, <1>6, <1>7, Assemble

\* A task goes from one call to another.
LEMMA GotoTypes ==
  ASSUME Inductive, NEW t \in Task, NEW place, NEW S \in SUBSET Fd, Goto(t, place, S),
         place \in {"none", "user", "open", "pipe", "read", "write", "exec", "exit"}
  PROVE  /\ pc'[t] = place /\ fds'[t] = S
         /\ pc' \in [Task -> {"none", "user", "open", "pipe", "read", "write", "exec", "exit"}]
         /\ fds' \in [Task -> SUBSET Fd]
         /\ \A u \in Task : u # t => pc'[u] = pc[u] /\ fds'[u] = fds[u]
<1>1. CallTypes
  BY TypesSplit DEF Inductive
<1>2. QED
  BY <1>1 DEF CallTypes, Goto

LEMMA GotoStep ==
  ASSUME Inductive, NEW t \in Task, NEW place, NEW S \in SUBSET Fd, Goto(t, place, S),
         place \in {"none", "user", "open", "pipe", "read", "write", "exec", "exit"},
         count' = count, buf' = buf
  PROVE  /\ pc'[t] = place /\ fds'[t] = S /\ CallTypes'
         /\ \A u \in Task : u # t => SameCall(u)
<1>1. CallTypes
  BY TypesSplit DEF Inductive
<1>2. /\ pc'[t] = place /\ fds'[t] = S
      /\ pc' \in [Task -> {"none", "user", "open", "pipe", "read", "write", "exec", "exit"}]
      /\ fds' \in [Task -> SUBSET Fd]
      /\ \A u \in Task : u # t => pc'[u] = pc[u] /\ fds'[u] = fds[u]
  BY GotoTypes
<1>3. QED
  BY <1>1, <1>2 DEF CallTypes, SameCall

LEMMA ReturnStep ==
  ASSUME Inductive, NEW t \in Task, Return(t)
  PROVE  /\ pc'[t] = "user" /\ fds'[t] = {} /\ CallTypes'
         /\ \A u \in Task : u # t => SameCall(u)
         /\ Call(t)'
<1>1. CallTypes
  BY TypesSplit DEF Inductive
<1>2. Goto(t, "user", {}) /\ count' = [count EXCEPT ![t] = 0] /\ buf' = [buf EXCEPT ![t] = <<>>]
  BY DEF Return
<1>3. /\ pc'[t] = "user" /\ fds'[t] = {}
      /\ pc' \in [Task -> {"none", "user", "open", "pipe", "read", "write", "exec", "exit"}]
      /\ fds' \in [Task -> SUBSET Fd]
      /\ \A u \in Task : u # t => pc'[u] = pc[u] /\ fds'[u] = fds[u]
  BY <1>2, GotoTypes
<1>4. count' \in [Task -> 0..MaxCount] /\ buf' \in [Task -> Seq(Byte)]
  BY <1>1, <1>2 DEF CallTypes
<1>5. \A u \in Task : u # t => count'[u] = count[u] /\ buf'[u] = buf[u]
  BY <1>1, <1>2 DEF CallTypes
<1>6. Call(t)'
  BY <1>3 DEF Call, InCall
<1>7. QED
  BY <1>3, <1>4, <1>5, <1>6 DEF CallTypes, SameCall

\* Nothing but the call of a task that is not asleep.
LEMMA CallOnly ==
  ASSUME Inductive, NEW t \in Task, UNCHANGED <<descriptors, files, inodes, content, asleep>>,
         t \notin asleep, ~ Reserving(t), ~ Reserving(t)',
         \A u \in Task : u # t => SameCall(u), CallTypes', Call(t)'
  PROVE  Inductive'
<1>1. /\ UNCHANGED <<descriptors, files, inodes>>
      /\ head' = head /\ tail' = tail /\ ring' = ring /\ asleep' = asleep
      /\ filp' = filp /\ close_on_exec' = close_on_exec /\ f_inode' = f_inode /\ i_count' = i_count
  BY DEF content, descriptors, files, inodes
<1>2. ContentTypes /\ SleepTypes
  BY TypesSplit DEF Inductive
<1>3. ContentTypes'
  BY <1>1, <1>2 DEF ContentTypes
<1>4. SleepTypes'
  BY <1>1, <1>2 DEF SleepTypes, SameCall
<1>5. ASSUME NEW s \in asleep'
      PROVE  SleepsOn(s)'
  <2>1. s \in asleep /\ s \in Task /\ s # t
    BY <1>1, <1>2 DEF SleepTypes
  <2>2. SameTask(s) /\ KeepsInodes /\ QuietInode(Using(s))
    BY <1>1, <2>1 DEF SameTask, KeepsInodes, QuietInode
  <2>3. QED
    BY <2>1, <2>2, SleeperKept
<1>6. QED
  BY <1>1, <1>3, <1>4, <1>5, OneTaskOnly

LEMMA Awake ==
  ASSUME Inductive, NEW t \in Task, pc[t] \notin {"read", "write"}
  PROVE  t \notin asleep
BY TypesSplit DEF Inductive, SleepTypes

-------------------------------------------------------------------------------
(* close, execve, exit. *)

LEMMA SysClose ==
  ASSUME Inductive, NEW t \in Task, NEW d \in Fd, sys_close(t, d)
  PROVE  Inductive'
<1>1. /\ pc[t] = "user" /\ filp[t][d] # None /\ CloseFd(t, d)
      /\ pc' = pc /\ fds' = fds /\ count' = count /\ buf' = buf
  BY DEF sys_close, call
<1>2. CallTypes' /\ \A u \in Task : u # t => SameCall(u)
  BY <1>1, TypesSplit DEF Inductive, CallTypes, SameCall
<1>3. fds[t] = {}
  BY <1>1 DEF Inductive, Calls, Call, InCall
<1>4. QED
  BY <1>1, <1>2, <1>3, Closing

LEMMA Execve ==
  ASSUME Inductive, NEW t \in Task, execve(t)
  PROVE  Inductive'
<1>1. /\ pc[t] = "user" /\ close_on_exec[t] # {} /\ Goto(t, "exec", {})
      /\ UNCHANGED <<descriptors, files, inodes, content, asleep>>
      /\ count' = count /\ buf' = buf
  BY DEF execve
<1>2. pc'[t] = "exec" /\ fds'[t] = {} /\ CallTypes' /\ \A u \in Task : u # t => SameCall(u)
  BY <1>1, GotoStep
<1>3. t \notin asleep /\ ~ Reserving(t) /\ ~ Reserving(t)'
  BY <1>1, <1>2, Awake DEF Reserving
<1>4. Call(t)'
  BY <1>1, <1>2 DEF Call, InCall, descriptors
<1>5. QED
  BY <1>1, <1>2, <1>3, <1>4, CallOnly

LEMMA DoExit ==
  ASSUME Inductive, NEW t \in Task, do_exit(t)
  PROVE  Inductive'
<1>1. /\ pc[t] = "user" /\ Goto(t, "exit", {})
      /\ UNCHANGED <<descriptors, files, inodes, content, asleep>>
      /\ count' = count /\ buf' = buf
  BY DEF do_exit
<1>2. pc'[t] = "exit" /\ fds'[t] = {} /\ CallTypes' /\ \A u \in Task : u # t => SameCall(u)
  BY <1>1, GotoStep
<1>3. t \notin asleep /\ ~ Reserving(t) /\ ~ Reserving(t)'
  BY <1>1, <1>2, Awake DEF Reserving
<1>4. Call(t)'
  BY <1>2 DEF Call, InCall
<1>5. QED
  BY <1>1, <1>2, <1>3, <1>4, CallOnly

LEMMA ExecClose ==
  ASSUME Inductive, NEW t \in Task, exec_close(t)
  PROVE  Inductive'
<1>1. PICK d : d = Least(close_on_exec[t])
  OBVIOUS
<1>2. /\ pc[t] = "exec" /\ CloseFd(t, d) /\ count' = count /\ buf' = buf
      /\ IF Cardinality(close_on_exec[t]) = 1 THEN Goto(t, "user", {}) ELSE UNCHANGED <<pc, fds>>
  BY <1>1 DEF exec_close
<1>3. close_on_exec[t] # {} /\ fds[t] = {}
  BY <1>2 DEF Inductive, Calls, Call, InCall
<1>4. close_on_exec \in [Task -> SUBSET Fd] /\ CallTypes
  BY TypesSplit DEF Inductive, FileTypes
<1>5. d \in close_on_exec[t] /\ d \in Fd
  <2>1. close_on_exec[t] \in SUBSET Nat
    BY <1>4 DEF Fd
  <2>2. QED
    BY <1>1, <1>3, <1>4, <2>1, LeastIs
<1>6. filp[t][d] # None
  BY <1>5 DEF Inductive, Marked
<1>7. CASE Cardinality(close_on_exec[t]) = 1
  <2>1. pc'[t] = "user" /\ fds'[t] = {} /\ CallTypes' /\ \A u \in Task : u # t => SameCall(u)
    BY <1>2, <1>7, GotoStep
  <2>2. QED
    BY <1>2, <1>5, <1>6, <2>1, Closing
<1>8. CASE Cardinality(close_on_exec[t]) # 1
  <2>1. pc' = pc /\ fds' = fds
    BY <1>2, <1>8
  <2>2. CallTypes' /\ \A u \in Task : u # t => SameCall(u)
    BY <1>2, <1>4, <2>1 DEF CallTypes, SameCall
  <2>3. close_on_exec[t] # {d}
    BY <1>8, FS_Singleton
  <2>4. close_on_exec'[t] = close_on_exec[t] \ {d}
    BY <1>2, <1>4 DEF CloseFd
  <2>5. close_on_exec'[t] # {}
    BY <1>5, <2>3, <2>4
  <2>6. QED
    BY <1>2, <1>3, <1>5, <1>6, <2>1, <2>2, <2>5, Closing
<1>9. QED
  BY <1>7, <1>8

LEMMA ExitClose ==
  ASSUME Inductive, NEW t \in Task, exit_close(t)
  PROVE  Inductive'
<1>1. pc[t] = "exit" /\ count' = count /\ buf' = buf
  BY DEF exit_close
<1>2. fds[t] = {}
  BY <1>1 DEF Inductive, Calls, Call, InCall
<1>3. CASE FreeFd(t) = Fd
  <2>1. Goto(t, "none", {}) /\ UNCHANGED <<descriptors, files, inodes, content, asleep>>
    BY <1>3 DEF exit_close
  <2>2. pc'[t] = "none" /\ fds'[t] = {} /\ CallTypes' /\ \A u \in Task : u # t => SameCall(u)
    BY <1>1, <2>1, GotoStep
  <2>3. t \notin asleep /\ ~ Reserving(t) /\ ~ Reserving(t)'
    BY <1>1, <2>2, Awake DEF Reserving
  <2>4. \A d \in Fd : filp[t][d] = None
    BY <1>3 DEF FreeFd
  <2>5. Call(t)'
    BY <2>1, <2>2, <2>4 DEF Call, InCall, descriptors
  <2>6. QED
    BY <2>1, <2>2, <2>3, <2>5, CallOnly
<1>4. CASE FreeFd(t) # Fd
  <2>1. PICK d : d = Least(Fd \ FreeFd(t))
    OBVIOUS
  <2>2. CloseFd(t, d) /\ pc' = pc /\ fds' = fds
    BY <1>4, <2>1 DEF exit_close
  <2>3. Fd \ FreeFd(t) \in SUBSET Nat /\ Fd \ FreeFd(t) # {}
    BY <1>4 DEF FreeFd, Fd
  <2>4. d \in Fd /\ filp[t][d] # None
    BY <2>1, <2>3, LeastIs DEF FreeFd
  <2>5. CallTypes' /\ \A u \in Task : u # t => SameCall(u)
    BY <1>1, <2>2, TypesSplit DEF Inductive, CallTypes, SameCall
  <2>6. QED
    BY <1>1, <1>2, <2>2, <2>4, <2>5, Closing
<1>5. QED
  BY <1>3, <1>4

LEMMA SysFcntl ==
  ASSUME Inductive, NEW t \in Task, NEW d \in Fd, sys_fcntl(t, d)
  PROVE  Inductive'
<1>1. /\ pc[t] = "user" /\ filp[t][d] # None
      /\ \/ close_on_exec' = [close_on_exec EXCEPT ![t] = @ \cup {d}]
         \/ close_on_exec' = [close_on_exec EXCEPT ![t] = @ \ {d}]
      /\ filp' = filp /\ f_count' = f_count /\ f_inode' = f_inode /\ f_mode' = f_mode
      /\ i_count' = i_count /\ i_pipe' = i_pipe /\ head' = head /\ tail' = tail /\ ring' = ring
      /\ pc' = pc /\ fds' = fds /\ count' = count /\ buf' = buf /\ asleep' = asleep
  BY DEF sys_fcntl, files, inodes, content, call
<1>2. FileTypes /\ CallTypes /\ InodeTypes /\ ContentTypes /\ SleepTypes
  BY TypesSplit DEF Inductive
<1>3. /\ close_on_exec' \in [Task -> SUBSET Fd]
      /\ \A u \in Task : u # t => close_on_exec'[u] = close_on_exec[u]
      /\ \A e \in close_on_exec'[t] : e \in close_on_exec[t] \/ e = d
  BY <1>1, <1>2 DEF FileTypes
<1>4. TypeOK'
  <2>1. FileTypes' /\ CallTypes' /\ InodeTypes' /\ ContentTypes' /\ SleepTypes'
    BY <1>1, <1>2, <1>3 DEF FileTypes, CallTypes, InodeTypes, ContentTypes, SleepTypes
  <2>2. QED
    BY <2>1, TypesSplitNext
<1>5. Exact(filp', f_count')
      /\ Ends(OpenFiles(f_count', pc', fds', filp'), f_inode', f_mode', i_count', i_pipe')
  BY <1>1 DEF Inductive
<1>6. Marked(filp', close_on_exec')
  BY <1>1, <1>3 DEF Inductive, Marked
<1>7. ASSUME NEW u \in Task
      PROVE  Call(u)'
  <2>1. CASE u = t
    BY <1>1, <2>1 DEF Inductive, Calls, Call, InCall
  <2>2. CASE u # t
    <3>1. SameTask(u) /\ KeepsModes
      BY <1>1, <1>3, <2>2 DEF SameTask, SameCall, KeepsModes
    <3>2. KeepsReserved(u)
      BY <1>1, ReservedOnce DEF KeepsReserved
    <3>3. QED
      BY <3>1, <3>2, CallKept
  <2>3. QED
    BY <2>1, <2>2
<1>8. \A s \in asleep' : SleepsOn(s)'
  BY <1>1 DEF Inductive, Sleepers, SleepsOn
<1>9. QED
  BY <1>4, <1>5, <1>6, <1>7, <1>8, Assemble

-------------------------------------------------------------------------------
(* open and pipe, from the reservation to the end. *)

\* Task t reserves files for its free descriptors S.
Reserves(t, S) ==
  /\ \A d \in S : /\ filp[t][d] = None
                  /\ filp'[t][d] \in File /\ f_count[filp'[t][d]] = 0 /\ f_count'[filp'[t][d]] = 1
  /\ \A d \in Fd \ S : filp'[t][d] = filp[t][d]
  /\ \A y \in File : (\A d \in S : filp'[t][d] # y) => f_count'[y] = f_count[y]

LEMMA ReserveStep ==
  ASSUME Inductive, NEW t \in Task, NEW place \in {"open", "pipe"}, NEW S \in SUBSET Fd,
         pc[t] = "user", Goto(t, place, S), Reserves(t, S),
         place = "open" => \E d \in Fd : S = {d},
         place = "pipe" => \E d, e \in Fd : d < e /\ S = {d, e},
         filp' \in Filp, \A u \in Task : u # t => filp'[u] = filp[u],
         f_count' \in [File -> Nat], Exact(filp', f_count'),
         close_on_exec' \in [Task -> SUBSET Fd],
         \A u \in Task : u # t => close_on_exec'[u] = close_on_exec[u],
         close_on_exec'[t] \subseteq close_on_exec[t],
         UNCHANGED <<f_inode, f_mode, inodes, content, count, buf, asleep>>
  PROVE  Inductive'
<1>1. /\ f_inode' = f_inode /\ f_mode' = f_mode /\ i_count' = i_count /\ i_pipe' = i_pipe
      /\ head' = head /\ tail' = tail /\ ring' = ring /\ count' = count /\ buf' = buf
      /\ asleep' = asleep
  BY DEF inodes, content
<1>2. pc'[t] = place /\ fds'[t] = S /\ CallTypes' /\ \A u \in Task : u # t => SameCall(u)
  BY <1>1, GotoStep
<1>3. t \notin asleep /\ ~ Reserving(t)
  BY Awake DEF Reserving
<1>4. \A u \in Task : u # t => SameTask(u)
  BY <1>2 DEF SameTask
<1>5. FileTypes /\ InodeTypes /\ ContentTypes /\ SleepTypes
  BY TypesSplit DEF Inductive
<1>6. TypeOK'
  <2>1. FileTypes' /\ InodeTypes' /\ ContentTypes'
    BY <1>1, <1>5 DEF FileTypes, InodeTypes, ContentTypes
  <2>2. SleepTypes'
    BY <1>1, <1>3, <1>4, <1>5 DEF SleepTypes, SameTask, SameCall
  <2>3. QED
    BY <1>2, <2>1, <2>2, TypesSplitNext
<1>7. Marked(filp', close_on_exec')
  <2>1. SUFFICES ASSUME NEW u \in Task, NEW e \in close_on_exec'[u]
                 PROVE  filp'[u][e] # None
    BY DEF Marked
  <2>2. e \in close_on_exec[u] /\ e \in Fd
    BY <2>1
  <2>3. filp[u][e] # None
    BY <2>2 DEF Inductive, Marked
  <2>4. CASE u = t
    BY <2>2, <2>3, <2>4 DEF Reserves
  <2>5. CASE u # t
    BY <2>3, <2>5
  <2>6. QED
    BY <2>4, <2>5
<1>8. ASSUME NEW y \in File
      PROVE  y \in OpenFiles(f_count', pc', fds', filp') <=> y \in OpenFiles(f_count, pc, fds, filp)
  <2>1. Held(y, pc', fds', filp') <=> Held(y, pc, fds, filp) \/ \E d \in S : filp'[t][d] = y
    BY <1>2, <1>3, <1>4 DEF Held, Reserving, SameTask, SameCall
  <2>2. CASE \E d \in S : filp'[t][d] = y
    <3>1. f_count[y] = 0
      BY <2>2 DEF Reserves
    <3>2. QED
      BY <2>1, <2>2, <3>1 DEF OpenFiles
  <2>3. CASE ~ \E d \in S : filp'[t][d] = y
    <3>1. f_count'[y] = f_count[y]
      BY <2>3 DEF Reserves
    <3>2. QED
      BY <2>1, <2>3, <3>1 DEF OpenFiles
  <2>4. QED
    BY <2>2, <2>3
<1>9. Ends(OpenFiles(f_count', pc', fds', filp'), f_inode', f_mode', i_count', i_pipe')
  <2>1. OpenFiles(f_count', pc', fds', filp') = OpenFiles(f_count, pc, fds, filp)
    BY <1>8 DEF OpenFiles
  <2>2. QED
    BY <1>1, <2>1 DEF Inductive
<1>10. ASSUME NEW u \in Task
       PROVE  Call(u)'
  <2>1. CASE u = t
    <3>1. \A d \in S : d \notin close_on_exec'[t]
      BY DEF Inductive, Marked, Reserves
    <3>2. \A d \in S : filp'[t][d] # None /\ f_count'[filp'[t][d]] = 1
      BY DEF Reserves, None, File
    <3>3. QED
      BY <1>2, <2>1, <3>1, <3>2 DEF Call, InCall
  <2>2. CASE u # t
    <3>1. KeepsModes
      BY <1>1 DEF KeepsModes
    <3>2. KeepsReserved(u)
      <4>1. SUFFICES ASSUME Reserving(u), NEW d \in fds[u]
                     PROVE  f_count'[filp[u][d]] = 1
        BY DEF KeepsReserved
      <4>2. filp[u][d] \in File /\ f_count[filp[u][d]] = 1
        BY <4>1, ReservedOnce
      <4>3. \A e \in S : filp'[t][e] # filp[u][d]
        BY <4>2 DEF Reserves
      <4>4. QED
        BY <4>2, <4>3 DEF Reserves
    <3>3. QED
      BY <1>4, <2>2, <3>1, <3>2, CallKept
  <2>3. QED
    BY <2>1, <2>2
<1>11. ASSUME NEW s \in asleep'
       PROVE  SleepsOn(s)'
  <2>1. s \in asleep /\ s \in Task /\ s # t
    BY <1>1, <1>3, <1>5 DEF SleepTypes
  <2>2. SameTask(s) /\ KeepsInodes /\ QuietInode(Using(s))
    BY <1>1, <1>4, <2>1 DEF KeepsInodes, QuietInode
  <2>3. QED
    BY <2>1, <2>2, SleeperKept
<1>12. QED
  BY <1>6, <1>7, <1>9, <1>10, <1>11, Assemble

LEMMA SysOpen ==
  ASSUME Inductive, NEW t \in Task, sys_open(t)
  PROVE  Inductive'
<1>1. PICK d, x : d = Least(FreeFd(t)) /\ x = Least(FreeFile)
  OBVIOUS
<1>2. /\ pc[t] = "user" /\ FreeFd(t) # {} /\ FreeFile # {}
      /\ filp' = [filp EXCEPT ![t][d] = x]
      /\ close_on_exec' = [close_on_exec EXCEPT ![t] = @ \ {d}]
      /\ Goto(t, "open", {d})
      /\ f_count' = [f_count EXCEPT ![x] = @ + 1]
      /\ UNCHANGED <<f_inode, f_mode, inodes, content, count, buf, asleep>>
  BY <1>1 DEF sys_open
<1>3. d \in Fd /\ filp[t][d] = None /\ x \in File /\ f_count[x] = 0
  <2>1. FreeFd(t) \in SUBSET Nat /\ FreeFile \in SUBSET Nat
    BY DEF FreeFd, FreeFile, Fd, File
  <2>2. d \in FreeFd(t) /\ x \in FreeFile
    BY <1>1, <1>2, <2>1, LeastIs
  <2>3. QED
    BY <2>2 DEF FreeFd, FreeFile
<1>4. /\ filp \in Filp /\ close_on_exec \in [Task -> SUBSET Fd] /\ f_count \in [File -> Nat]
      /\ Exact(filp, f_count)
  BY TypesSplit DEF Inductive, FileTypes
<1>5. /\ filp' \in Filp /\ filp'[t][d] = x
      /\ Agree(filp, filp', Task, t) /\ Agree(filp[t], filp'[t], Fd, d)
  BY <1>2, <1>3, <1>4 DEF Filp, Row, Agree
<1>6. /\ f_count' \in [File -> Nat] /\ f_count'[x] = 1
      /\ \A y \in File : y # x => f_count'[y] = f_count[y]
  BY <1>2, <1>3, <1>4
<1>7. ASSUME NEW y \in File
      PROVE  f_count'[y] = Names(filp', y)
  <2>1. /\ Names(filp, y) \in Nat /\ Names(filp', y) \in Nat
        /\ Names(filp', y) = Names(filp, y) - One(filp[t][d] = y) + One(filp'[t][d] = y)
    BY ONLY <1>3, <1>4, <1>5, <1>7, t \in Task, NamesOfOne
  <2>2. One(filp[t][d] = y) = 0 /\ One(filp'[t][d] = y) = IF y = x THEN 1 ELSE 0
    BY <1>3, <1>5, <1>7 DEF One, None, File
  <2>3. f_count[y] = Names(filp, y)
    BY <1>4 DEF Exact
  <2>4. QED
    BY <1>3, <1>6, <2>1, <2>2, <2>3
<1>8. Exact(filp', f_count')
  BY <1>7 DEF Exact
<1>9. Reserves(t, {d})
  BY <1>3, <1>5, <1>6 DEF Reserves, Agree
<1>10. /\ close_on_exec' \in [Task -> SUBSET Fd] /\ close_on_exec'[t] \subseteq close_on_exec[t]
       /\ \A u \in Task : u # t => close_on_exec'[u] = close_on_exec[u]
  BY <1>2, <1>4
<1>11. /\ {d} \in SUBSET Fd /\ \E e \in Fd : {d} = {e}
       /\ \A u \in Task : u # t => filp'[u] = filp[u]
  BY <1>3, <1>5 DEF Agree
<1>12. QED
  BY <1>2, <1>5, <1>6, <1>8, <1>9, <1>10, <1>11, ReserveStep

LEMMA MoreThanOne ==
  ASSUME NEW S, IsFiniteSet(S), NEW X \in SUBSET S, Cardinality(X) > 1, NEW x
  PROVE  X \ {x} # {}
<1>1. IsFiniteSet(X) /\ Cardinality(X) \in Nat
  BY Counted
<1>2. SUFFICES ASSUME X \ {x} = {}
               PROVE  FALSE
  OBVIOUS
<1>3. CASE x \in X
  <2>1. X = {x}
    BY <1>2, <1>3
  <2>2. Cardinality(X) = 1
    BY <2>1, FS_Singleton
  <2>3. QED
    BY <2>2
<1>4. CASE x \notin X
  <2>1. X = {}
    BY <1>2, <1>4
  <2>2. Cardinality(X) = 0
    BY <2>1, FS_EmptySet
  <2>3. QED
    BY <2>2
<1>5. QED
  BY <1>3, <1>4

LEMMA SysPipe ==
  ASSUME Inductive, NEW t \in Task, sys_pipe(t)
  PROVE  Inductive'
<1>1. PICK d, e, x, y : /\ d = Least(FreeFd(t)) /\ e = Least(FreeFd(t) \ {d})
                        /\ x = Least(FreeFile) /\ y = Least(FreeFile \ {x})
  OBVIOUS
<1>2. /\ pc[t] = "user" /\ Cardinality(FreeFd(t)) > 1 /\ Cardinality(FreeFile) > 1
      /\ filp' = [filp EXCEPT ![t][d] = x, ![t][e] = y]
      /\ f_count' = [f_count EXCEPT ![x] = @ + 1, ![y] = @ + 1]
      /\ Goto(t, "pipe", {d, e})
      /\ close_on_exec' = close_on_exec
      /\ UNCHANGED <<f_inode, f_mode, inodes, content, count, buf, asleep>>
  BY <1>1 DEF sys_pipe
<1>3. /\ d \in Fd /\ filp[t][d] = None /\ e \in Fd /\ filp[t][e] = None /\ d < e
      /\ x \in File /\ f_count[x] = 0 /\ y \in File /\ f_count[y] = 0 /\ x # y
  <2>1. /\ FreeFd(t) \in SUBSET Fd /\ FreeFile \in SUBSET File
        /\ FreeFd(t) \in SUBSET Nat /\ FreeFile \in SUBSET Nat
    BY DEF FreeFd, FreeFile, Fd, File
  <2>2. FreeFd(t) \ {d} # {} /\ FreeFile \ {x} # {}
    BY <1>2, <2>1, Finite, MoreThanOne
  <2>3. d \in FreeFd(t) /\ (\A m \in FreeFd(t) : d <= m) /\ x \in FreeFile
    BY <1>1, <2>1, <2>2, LeastIs
  <2>4. FreeFd(t) \ {d} \in SUBSET Nat /\ FreeFile \ {x} \in SUBSET Nat
    BY <2>1
  <2>5. e \in FreeFd(t) \ {d} /\ y \in FreeFile \ {x}
    BY <1>1, <2>2, <2>4, LeastIs
  <2>6. d < e
    BY <2>1, <2>3, <2>5
  <2>7. QED
    BY <2>3, <2>5, <2>6 DEF FreeFd, FreeFile
<1>4. /\ filp \in Filp /\ close_on_exec \in [Task -> SUBSET Fd] /\ f_count \in [File -> Nat]
      /\ Exact(filp, f_count) /\ d # e
  BY <1>3, TypesSplit DEF Inductive, FileTypes, Fd
<1>5. PICK h : h = [filp EXCEPT ![t][d] = x]
  OBVIOUS
<1>6. /\ h \in Filp /\ h[t][d] = x /\ h[t][e] = None
      /\ Agree(filp, h, Task, t) /\ Agree(filp[t], h[t], Fd, d)
  BY <1>3, <1>4, <1>5 DEF Filp, Row, Agree
<1>7. filp' = [h EXCEPT ![t][e] = y]
  BY <1>2, <1>3, <1>4, <1>5 DEF Filp, Row
<1>8. /\ filp' \in Filp /\ filp'[t][d] = x /\ filp'[t][e] = y
      /\ Agree(h, filp', Task, t) /\ Agree(h[t], filp'[t], Fd, e)
  BY <1>3, <1>4, <1>6, <1>7 DEF Filp, Row, Agree
<1>9. /\ f_count' \in [File -> Nat] /\ f_count'[x] = 1 /\ f_count'[y] = 1
      /\ \A z \in File : z # x /\ z # y => f_count'[z] = f_count[z]
  BY <1>2, <1>3, <1>4
<1>10. ASSUME NEW z \in File
       PROVE  f_count'[z] = Names(filp', z)
  <2>1. /\ Names(filp, z) \in Nat /\ Names(h, z) \in Nat
        /\ Names(h, z) = Names(filp, z) - One(filp[t][d] = z) + One(h[t][d] = z)
    BY ONLY <1>3, <1>4, <1>6, <1>10, t \in Task, NamesOfOne
  <2>2. /\ Names(filp', z) \in Nat
        /\ Names(filp', z) = Names(h, z) - One(h[t][e] = z) + One(filp'[t][e] = z)
    BY ONLY <1>3, <1>6, <1>8, <1>10, t \in Task, NamesOfOne
  <2>3. /\ One(filp[t][d] = z) = 0 /\ One(h[t][d] = z) = IF z = x THEN 1 ELSE 0
        /\ One(h[t][e] = z) = 0 /\ One(filp'[t][e] = z) = IF z = y THEN 1 ELSE 0
    BY <1>3, <1>6, <1>8, <1>10 DEF One, None, File
  <2>4. f_count[z] = Names(filp, z)
    BY <1>4 DEF Exact
  <2>5. QED
    BY <1>3, <1>9, <2>1, <2>2, <2>3, <2>4
<1>11. Exact(filp', f_count')
  BY <1>10 DEF Exact
<1>12. Reserves(t, {d, e})
  BY <1>3, <1>6, <1>8, <1>9 DEF Reserves, Agree
<1>13. /\ {d, e} \in SUBSET Fd /\ \E k, l \in Fd : k < l /\ {d, e} = {k, l}
       /\ \A u \in Task : u # t => filp'[u] = filp[u]
  BY <1>3, <1>6, <1>8 DEF Agree
<1>14. QED
  BY <1>2, <1>4, <1>8, <1>9, <1>11, <1>12, <1>13, ReserveStep

\* The reserved files of t become open files.
LEMMA FinishStep ==
  ASSUME Inductive, NEW t \in Task, Reserving(t), Return(t),
         UNCHANGED <<descriptors, f_count, asleep>>,
         f_inode' \in Inodes, f_mode' \in [File -> {"file", "read", "write"}],
         KeepsModes, KeepsInodes, InodeTypes', ContentTypes',
         \A s \in asleep : QuietInode(Using(s)),
         NEW N, N = {filp[t][d] : d \in fds[t]},
         Ends(OpenFiles(f_count, pc, fds, filp) \cup N, f_inode', f_mode', i_count', i_pipe')
  PROVE  Inductive'
<1>1. filp' = filp /\ close_on_exec' = close_on_exec /\ f_count' = f_count /\ asleep' = asleep
  BY DEF descriptors
<1>2. /\ pc'[t] = "user" /\ fds'[t] = {} /\ CallTypes' /\ Call(t)'
      /\ \A u \in Task : u # t => SameCall(u)
  BY ReturnStep
<1>3. t \notin asleep /\ ~ Reserving(t)'
  BY <1>2, Awake DEF Reserving
<1>4. FileTypes /\ SleepTypes
  BY TypesSplit DEF Inductive
<1>5. TypeOK'
  <2>1. FileTypes'
    BY <1>1, <1>4 DEF FileTypes
  <2>2. SleepTypes'
    BY <1>1, <1>2, <1>3, <1>4 DEF SleepTypes, SameCall
  <2>3. QED
    BY <1>2, <2>1, <2>2, TypesSplitNext
<1>6. Exact(filp', f_count') /\ Marked(filp', close_on_exec')
  BY <1>1 DEF Inductive
<1>7. ASSUME NEW y \in File
      PROVE  y \in OpenFiles(f_count', pc', fds', filp') <=>
               y \in OpenFiles(f_count, pc, fds, filp) \cup N
  <2>1. Held(y, pc, fds, filp) <=> Held(y, pc', fds', filp') \/ y \in N
    BY <1>1, <1>2, <1>3 DEF Held, Reserving, SameCall
  <2>2. CASE y \in N
    <3>1. PICK d \in fds[t] : y = filp[t][d]
      BY <2>2
    <3>2. /\ d \in Fd /\ f_count[y] = 1
          /\ \A u \in Task, e \in Fd : filp[u][e] = y => u = t /\ e = d
      BY <3>1, ReservedOnce
    <3>3. ~ Held(y, pc', fds', filp')
      <4>1. SUFFICES ASSUME NEW u \in Task, pc'[u] \in {"open", "pipe"},
                            NEW e \in fds'[u], filp'[u][e] = y
                     PROVE  FALSE
        BY DEF Held
      <4>2. e \in Fd
        BY <1>2, <4>1 DEF CallTypes
      <4>3. u = t
        BY <1>1, <3>2, <4>1, <4>2
      <4>4. QED
        BY <1>2, <4>1, <4>3
    <3>4. QED
      BY <1>1, <2>2, <3>2, <3>3 DEF OpenFiles
  <2>3. CASE y \notin N
    BY <1>1, <2>1, <2>3 DEF OpenFiles
  <2>4. QED
    BY <2>2, <2>3
<1>8. Ends(OpenFiles(f_count', pc', fds', filp'), f_inode', f_mode', i_count', i_pipe')
  <2>1. N \subseteq File
    BY ReservedOnce
  <2>2. OpenFiles(f_count', pc', fds', filp') = OpenFiles(f_count, pc, fds, filp) \cup N
    BY <1>7, <2>1 DEF OpenFiles
  <2>3. QED
    BY <2>2
<1>9. ASSUME NEW u \in Task, u # t
      PROVE  SameTask(u)
  BY <1>1, <1>2, <1>9 DEF SameTask
<1>10. ASSUME NEW u \in Task
       PROVE  Call(u)'
  <2>1. CASE u # t
    <3>1. KeepsReserved(u)
      BY <1>1, ReservedOnce DEF KeepsReserved
    <3>2. QED
      BY <1>9, <2>1, <3>1, CallKept
  <2>2. QED
    BY <1>2, <2>1
<1>11. ASSUME NEW s \in asleep'
       PROVE  SleepsOn(s)'
  <2>1. s \in asleep /\ s \in Task /\ s # t
    BY <1>1, <1>3, <1>4 DEF SleepTypes
  <2>2. QED
    BY <1>9, <2>1, SleeperKept
<1>12. QED
  BY <1>5, <1>6, <1>8, <1>10, <1>11, Assemble

LEMMA OpenDone ==
  ASSUME Inductive, NEW t \in Task, open_done(t)
  PROVE  Inductive'
<1>1. pc[t] = "open" /\ Call(t)
  BY DEF open_done, Inductive, Calls
<1>2. PICK d \in Fd : fds[t] = {d}
  BY <1>1 DEF Call, InCall
<1>3. PICK x : x = filp[t][d]
  OBVIOUS
<1>4. Least(fds[t]) = d
  BY <1>2, LeastOfOne DEF Fd
<1>5. /\ f_count' = [f_count EXCEPT ![x] = 1]
      /\ f_inode' = [f_inode EXCEPT ![x] = Regular]
      /\ f_mode' = [f_mode EXCEPT ![x] = "file"]
      /\ i_count' = [i_count EXCEPT ![Regular] = @ + 1]
      /\ Return(t)
      /\ filp' = filp /\ close_on_exec' = close_on_exec /\ i_pipe' = i_pipe
      /\ head' = head /\ tail' = tail /\ ring' = ring /\ asleep' = asleep
  BY <1>3, <1>4 DEF open_done, descriptors, content
<1>6. Reserving(t)
  BY <1>1 DEF Reserving
<1>7. x \in File /\ f_count[x] = 1 /\ ~ IsOpen(x)
  BY <1>2, <1>3, <1>6, ReservedOnce
<1>8. FileTypes /\ InodeTypes /\ ContentTypes
  BY TypesSplit DEF Inductive
<1>9. UNCHANGED <<descriptors, f_count, asleep>>
  BY <1>5, <1>7, <1>8 DEF FileTypes, descriptors
<1>10. Regular \in Inode /\ Regular \notin Pipe
  BY DEF Regular, Inode
<1>11. /\ f_inode' \in Inodes /\ f_mode' \in [File -> {"file", "read", "write"}]
       /\ InodeTypes' /\ ContentTypes'
  BY <1>5, <1>7, <1>8, <1>10 DEF FileTypes, InodeTypes, ContentTypes, Inodes
<1>12. KeepsModes /\ KeepsInodes
  BY <1>5, <1>7, <1>8 DEF KeepsModes, KeepsInodes, FileTypes, Inodes
<1>13. ASSUME NEW s \in asleep
       PROVE  QuietInode(Using(s))
  <2>1. Using(s) \in Pipe
    BY Sleeping
  <2>2. Using(s) \in Inode /\ Using(s) # Regular
    BY <1>10, <2>1 DEF Inode
  <2>3. QED
    BY <1>5, <1>8, <2>2 DEF QuietInode, InodeTypes
<1>14. PICK O : O = OpenFiles(f_count, pc, fds, filp)
  OBVIOUS
<1>15. O \in SUBSET File /\ x \notin O /\ Ends(O, f_inode, f_mode, i_count, i_pipe)
  BY <1>7, <1>14 DEF OpenFiles, IsOpen, Inductive
<1>16. Ends(O \cup {x}, [f_inode EXCEPT ![x] = Regular], [f_mode EXCEPT ![x] = "file"],
            [i_count EXCEPT ![Regular] = @ + 1], i_pipe)
  BY <1>7, <1>8, <1>15, EndsMore DEF FileTypes, InodeTypes
<1>17. {x} = {filp[t][e] : e \in fds[t]}
  BY <1>2, <1>3
<1>18. Ends(OpenFiles(f_count, pc, fds, filp) \cup {x}, f_inode', f_mode', i_count', i_pipe')
  BY <1>5, <1>14, <1>16
<1>19. QED
  BY <1>5, <1>6, <1>9, <1>11, <1>12, <1>13, <1>17, <1>18, FinishStep

LEMMA PipeDone ==
  ASSUME Inductive, NEW t \in Task, pipe_done(t)
  PROVE  Inductive'
<1>1. pc[t] = "pipe" /\ Call(t)
  BY DEF pipe_done, Inductive, Calls
<1>2. PICK d \in Fd, e \in Fd : d < e /\ fds[t] = {d, e}
  BY <1>1 DEF Call, InCall
<1>3. PICK x, y : x = filp[t][d] /\ y = filp[t][e]
  OBVIOUS
<1>4. Least(fds[t]) = d /\ fds[t] \ {d} = {e} /\ Least({e}) = e
  BY <1>2, LeastOfOne, LeastOfTwo DEF Fd
<1>5. PICK i \in Pipe :
        /\ i_count[i] = 0
        /\ i_count' = [i_count EXCEPT ![i] = 2]
        /\ i_pipe' = [i_pipe EXCEPT ![i] = TRUE]
        /\ head' = [head EXCEPT ![i] = 0]
        /\ tail' = [tail EXCEPT ![i] = 0]
        /\ ring' = [ring EXCEPT ![i] = [n \in DOMAIN @ |-> 0]]
        /\ f_inode' = [f_inode EXCEPT ![x] = i, ![y] = i]
        /\ f_mode' = [f_mode EXCEPT ![x] = "read", ![y] = "write"]
  BY <1>3, <1>4 DEF pipe_done
<1>6. Return(t) /\ filp' = filp /\ UNCHANGED <<descriptors, f_count, asleep>>
  BY DEF pipe_done, descriptors
<1>7. Reserving(t)
  BY <1>1 DEF Reserving
<1>8. x \in File /\ ~ IsOpen(x) /\ y \in File /\ ~ IsOpen(y) /\ x # y
  <2>1. d \in fds[t] /\ e \in fds[t] /\ d # e
    BY <1>2 DEF Fd
  <2>2. /\ x \in File /\ ~ IsOpen(x) /\ y \in File /\ ~ IsOpen(y)
        /\ \A u \in Task, f \in Fd : filp[u][f] = x => u = t /\ f = d
    BY <1>3, <1>7, <2>1, ReservedOnce
  <2>3. QED
    BY <1>3, <2>1, <2>2
<1>9. FileTypes /\ InodeTypes /\ ContentTypes
  BY TypesSplit DEF Inductive
<1>10. i \in Inode
  BY DEF Inode
<1>11. f_inode' \in Inodes /\ f_mode' \in [File -> {"file", "read", "write"}] /\ InodeTypes'
  BY <1>5, <1>8, <1>9, <1>10 DEF FileTypes, InodeTypes, Inodes
<1>12. ContentTypes'
  <2>1. 0 \in 0..PAGE_SIZE - 1 /\ 0 \in Byte
    OBVIOUS
  <2>2. head' \in [Pipe -> 0..PAGE_SIZE - 1] /\ tail' \in [Pipe -> 0..PAGE_SIZE - 1]
    BY <1>5, <1>9, <2>1 DEF ContentTypes
  <2>3. ring \in [Pipe -> [0..PAGE_SIZE - 1 -> Byte]] /\ ring[i] \in [0..PAGE_SIZE - 1 -> Byte]
    BY <1>9 DEF ContentTypes
  <2>4. [n \in DOMAIN ring[i] |-> 0] \in [0..PAGE_SIZE - 1 -> Byte]
    BY <2>1, <2>3
  <2>5. PICK z : z = [n \in DOMAIN ring[i] |-> 0]
    OBVIOUS
  <2>6. ring' = [ring EXCEPT ![i] = z]
    BY <1>5, <2>5
  <2>7. ring' \in [Pipe -> [0..PAGE_SIZE - 1 -> Byte]]
    BY ONLY <2>3, <2>4, <2>5, <2>6
  <2>8. QED
    BY <2>2, <2>7 DEF ContentTypes
<1>13. KeepsModes /\ KeepsInodes
  BY <1>5, <1>8, <1>9 DEF KeepsModes, KeepsInodes, FileTypes, Inodes
<1>14. ASSUME NEW s \in asleep
       PROVE  QuietInode(Using(s))
  <2>1. Using(s) \in Pipe /\ i_count[Using(s)] = 2
    BY Sleeping
  <2>2. Using(s) \in Inode /\ Using(s) # i
    BY <1>5, <2>1 DEF Inode
  <2>3. QED
    BY <1>5, <1>9, <2>1, <2>2 DEF QuietInode, InodeTypes, ContentTypes
<1>15. PICK O : O = OpenFiles(f_count, pc, fds, filp)
  OBVIOUS
<1>16. /\ O \in SUBSET File /\ x \notin O /\ y \notin O
       /\ Ends(O, f_inode, f_mode, i_count, i_pipe)
  BY <1>8, <1>15 DEF OpenFiles, IsOpen, Inductive
<1>17. Ends(O \cup {x, y}, [f_inode EXCEPT ![x] = i, ![y] = i],
            [f_mode EXCEPT ![x] = "read", ![y] = "write"],
            [i_count EXCEPT ![i] = 2], [i_pipe EXCEPT ![i] = TRUE])
  BY <1>5, <1>8, <1>9, <1>16, EndsPipe DEF FileTypes, InodeTypes
<1>18. {x, y} = {filp[t][f] : f \in fds[t]}
  BY <1>2, <1>3
<1>19. Ends(OpenFiles(f_count, pc, fds, filp) \cup {x, y}, f_inode', f_mode', i_count', i_pipe')
  BY <1>5, <1>15, <1>17
<1>20. QED
  BY <1>6, <1>7, <1>11, <1>12, <1>13, <1>14, <1>18, <1>19, FinishStep

LEMMA UndoStep ==
  ASSUME Inductive, NEW t \in Task, Reserving(t), Undo(t)
  PROVE  Inductive'
<1>1. /\ filp' = [filp EXCEPT ![t] = [d \in Fd |-> IF d \in fds[t] THEN None ELSE @[d]]]
      /\ f_count' = [x \in File |-> IF \E d \in fds[t] : filp[t][d] = x THEN 0 ELSE f_count[x]]
      /\ Return(t)
      /\ close_on_exec' = close_on_exec /\ f_inode' = f_inode /\ f_mode' = f_mode
      /\ i_count' = i_count /\ i_pipe' = i_pipe
      /\ head' = head /\ tail' = tail /\ ring' = ring /\ asleep' = asleep
  BY DEF Undo, inodes, content
<1>2. /\ pc'[t] = "user" /\ fds'[t] = {} /\ CallTypes' /\ Call(t)'
      /\ \A u \in Task : u # t => SameCall(u)
  BY <1>1, ReturnStep
<1>3. t \notin asleep /\ ~ Reserving(t)' /\ fds[t] \in SUBSET Fd
  BY <1>2, Awake, TypesSplit DEF Reserving, CallTypes, Inductive
<1>4. FileTypes /\ InodeTypes /\ ContentTypes /\ SleepTypes
  BY TypesSplit DEF Inductive
<1>5. /\ \A u \in Task : u # t => filp'[u] = filp[u]
      /\ \A d \in fds[t] : filp'[t][d] = None
      /\ \A d \in Fd \ fds[t] : filp'[t][d] = filp[t][d]
      /\ filp' \in Filp
  <2>1. filp \in [Task -> Row] /\ filp[t] \in Row
    BY <1>4 DEF FileTypes, Filp
  <2>2. PICK r : r = [d \in Fd |-> IF d \in fds[t] THEN None ELSE filp[t][d]]
    OBVIOUS
  <2>3. filp' = [filp EXCEPT ![t] = r]
    BY <1>1, <2>2
  <2>4. r \in Row
    BY <2>1, <2>2 DEF Row
  <2>5. filp'[t] = r /\ filp' \in [Task -> Row] /\ \A u \in Task : u # t => filp'[u] = filp[u]
    BY ONLY <2>1, <2>3, <2>4, t \in Task
  <2>6. QED
    BY <1>3, <2>2, <2>5 DEF Filp
<1>6. f_count' \in [File -> Nat]
  BY <1>1, <1>4 DEF FileTypes
<1>7. ASSUME NEW u \in Task, u # t
      PROVE  SameTask(u)
  BY <1>1, <1>2, <1>5, <1>7 DEF SameTask
<1>8. TypeOK'
  <2>1. FileTypes' /\ InodeTypes' /\ ContentTypes'
    BY <1>1, <1>4, <1>5, <1>6 DEF FileTypes, InodeTypes, ContentTypes
  <2>2. SleepTypes'
    BY <1>1, <1>3, <1>4, <1>7 DEF SleepTypes, SameTask, SameCall
  <2>3. QED
    BY <1>2, <2>1, <2>2, TypesSplitNext
<1>9. ASSUME NEW y \in File
      PROVE  f_count'[y] = Names(filp', y)
  <2>1. CASE \E d \in fds[t] : filp[t][d] = y
    <3>1. PICK d \in fds[t] : filp[t][d] = y
      BY <2>1
    <3>2. d \in Fd /\ \A u \in Task, e \in Fd : filp[u][e] = y => u = t /\ e = d
      BY <3>1, ReservedOnce
    <3>3. ASSUME NEW u \in Task, NEW e \in Fd
          PROVE  filp'[u][e] # y
      <4>1. CASE u # t
        BY <1>5, <3>2, <4>1
      <4>2. CASE u = t /\ e \in fds[t]
        BY <1>5, <1>9, <4>2 DEF None, File
      <4>3. CASE u = t /\ e \notin fds[t]
        BY <1>5, <3>1, <3>2, <4>3
      <4>4. QED
        BY <4>1, <4>2, <4>3
    <3>4. Names(filp', y) = 0
      BY <3>3, Unnamed
    <3>5. QED
      BY <1>1, <2>1, <3>4
  <2>2. CASE ~ \E d \in fds[t] : filp[t][d] = y
    <3>1. ASSUME NEW u \in Task, NEW e \in Fd
          PROVE  filp[u][e] = y <=> filp'[u][e] = y
      <4>1. CASE u # t
        BY <1>5, <4>1
      <4>2. CASE u = t /\ e \in fds[t]
        BY <1>5, <1>9, <2>2, <4>2 DEF None, File
      <4>3. CASE u = t /\ e \notin fds[t]
        BY <1>5, <4>3
      <4>4. QED
        BY <4>1, <4>2, <4>3
    <3>2. Names(filp, y) = Names(filp', y)
      BY <3>1, SameNames
    <3>3. QED
      BY <1>1, <2>2, <3>2 DEF Inductive, Exact
  <2>3. QED
    BY <2>1, <2>2
<1>10. Marked(filp', close_on_exec')
  <2>1. SUFFICES ASSUME NEW u \in Task, NEW e \in close_on_exec[u]
                 PROVE  filp'[u][e] # None
    BY <1>1 DEF Marked
  <2>2. filp[u][e] # None /\ e \in Fd
    BY <1>4 DEF Inductive, Marked, FileTypes
  <2>3. u # t \/ e \notin fds[t]
    BY ReservedOnce
  <2>4. QED
    BY <1>5, <2>2, <2>3
<1>11. ASSUME NEW y \in File
       PROVE  y \in OpenFiles(f_count', pc', fds', filp') <=> y \in OpenFiles(f_count, pc, fds, filp)
  <2>1. ASSUME NEW u \in Task, u # t
        PROVE  (pc'[u] \in {"open", "pipe"} /\ \E e \in fds'[u] : filp'[u][e] = y) <=>
               (pc[u] \in {"open", "pipe"} /\ \E e \in fds[u] : filp[u][e] = y)
    BY <1>7, <2>1 DEF SameTask, SameCall
  <2>2. Held(y, pc, fds, filp) <=> Held(y, pc', fds', filp') \/ \E d \in fds[t] : filp[t][d] = y
    BY <1>2, <1>3, <2>1 DEF Held, Reserving
  <2>3. CASE \E d \in fds[t] : filp[t][d] = y
    <3>1. f_count'[y] = 0
      BY <1>1, <2>3
    <3>2. QED
      BY <2>2, <2>3, <3>1 DEF OpenFiles
  <2>4. CASE ~ \E d \in fds[t] : filp[t][d] = y
    <3>1. f_count'[y] = f_count[y]
      BY <1>1, <2>4
    <3>2. QED
      BY <2>2, <2>4, <3>1 DEF OpenFiles
  <2>5. QED
    BY <2>3, <2>4
<1>12. Ends(OpenFiles(f_count', pc', fds', filp'), f_inode', f_mode', i_count', i_pipe')
  <2>1. OpenFiles(f_count', pc', fds', filp') = OpenFiles(f_count, pc, fds, filp)
    BY <1>11 DEF OpenFiles
  <2>2. QED
    BY <1>1, <2>1 DEF Inductive
<1>13. ASSUME NEW u \in Task
       PROVE  Call(u)'
  <2>1. CASE u # t
    <3>1. KeepsModes
      BY <1>1 DEF KeepsModes
    <3>2. KeepsReserved(u)
      <4>1. SUFFICES ASSUME Reserving(u), NEW e \in fds[u]
                     PROVE  f_count'[filp[u][e]] = 1
        BY DEF KeepsReserved
      <4>2. /\ e \in Fd /\ filp[u][e] \in File /\ f_count[filp[u][e]] = 1
            /\ \A v \in Task, d \in Fd : filp[v][d] = filp[u][e] => v = u
        BY <4>1, ReservedOnce
      <4>3. \A d \in fds[t] : filp[t][d] # filp[u][e]
        BY <1>3, <2>1, <4>2
      <4>4. QED
        BY <1>1, <4>2, <4>3
    <3>3. QED
      BY <1>7, <2>1, <3>1, <3>2, CallKept
  <2>2. QED
    BY <1>2, <2>1
<1>14. ASSUME NEW s \in asleep'
       PROVE  SleepsOn(s)'
  <2>1. s \in asleep /\ s \in Task /\ s # t
    BY <1>1, <1>3, <1>4 DEF SleepTypes
  <2>2. SameTask(s) /\ KeepsInodes /\ QuietInode(Using(s))
    BY <1>1, <1>7, <2>1 DEF KeepsInodes, QuietInode
  <2>3. QED
    BY <2>1, <2>2, SleeperKept
<1>15. QED
  BY <1>8, <1>9, <1>10, <1>12, <1>13, <1>14, Assemble DEF Exact

-------------------------------------------------------------------------------
(* dup, dup2, fork: descriptors of tasks that are in no call change. *)

InNoCall(u) == pc[u] \in {"none", "user"} /\ pc'[u] = "user" /\ fds'[u] = {}

LEMMA ShareHeld ==
  ASSUME Inductive, \A u \in Task : SameTask(u) \/ InNoCall(u), NEW y
  PROVE  Held(y, pc', fds', filp') <=> Held(y, pc, fds, filp)
BY DEF Held, SameTask, SameCall, InNoCall

LEMMA ShareStep ==
  ASSUME Inductive, \A u \in Task : SameTask(u) \/ InNoCall(u), CallTypes', FileTypes', InodeTypes',
         UNCHANGED <<f_inode, f_mode, content>>,
         Exact(filp', f_count'), Marked(filp', close_on_exec'),
         \A y \in File : f_count'[y] # f_count[y] => IsOpen(y),
         Ends(OpenFiles(f_count', pc', fds', filp'), f_inode', f_mode', i_count', i_pipe'),
         asleep' \subseteq asleep, \A s \in asleep' : i_count'[Using(s)] = i_count[Using(s)]
  PROVE  Inductive'
<1>1. /\ f_inode' = f_inode /\ f_mode' = f_mode
      /\ head' = head /\ tail' = tail /\ ring' = ring
  BY DEF content
<1>2. SleepTypes /\ ContentTypes
  BY TypesSplit DEF Inductive
<1>3. ASSUME NEW s \in asleep'
      PROVE  s \in asleep /\ s \in Task /\ SameTask(s)
  BY <1>2, <1>3 DEF SleepTypes, InNoCall
<1>4. TypeOK'
  <2>1. SleepTypes'
    BY <1>2, <1>3 DEF SleepTypes, SameTask, SameCall
  <2>2. ContentTypes'
    BY <1>1, <1>2 DEF ContentTypes
  <2>3. QED
    BY <2>1, <2>2, TypesSplitNext
<1>5. ASSUME NEW u \in Task
      PROVE  Call(u)'
  <2>1. CASE SameTask(u)
    <3>1. KeepsModes
      BY <1>1 DEF KeepsModes
    <3>2. KeepsReserved(u)
      <4>1. SUFFICES ASSUME Reserving(u), NEW e \in fds[u]
                     PROVE  f_count'[filp[u][e]] = 1
        BY DEF KeepsReserved
      <4>2. QED
        BY <4>1, ReservedOnce
    <3>3. QED
      BY <2>1, <3>1, <3>2, CallKept
  <2>2. CASE InNoCall(u)
    BY <2>2 DEF InNoCall, Call, InCall
  <2>3. QED
    BY <2>1, <2>2
<1>6. ASSUME NEW s \in asleep'
      PROVE  SleepsOn(s)'
  <2>1. KeepsInodes /\ QuietInode(Using(s))
    BY <1>1, <1>6 DEF KeepsInodes, QuietInode
  <2>2. QED
    BY <1>3, <1>6, <2>1, SleeperKept
<1>7. QED
  BY <1>4, <1>5, <1>6, Assemble

LEMMA Dupfd ==
  ASSUME Inductive, NEW t \in Task, NEW d \in Fd, NEW least \in Fd, dupfd(t, d, least)
  PROVE  Inductive'
<1>1. PICK x : x = filp[t][d]
  OBVIOUS
<1>2. PICK e \in FreeFd(t) : /\ filp' = [filp EXCEPT ![t][e] = x]
                             /\ close_on_exec' = [close_on_exec EXCEPT ![t] = @ \ {e}]
  BY <1>1 DEF dupfd
<1>3. /\ pc[t] = "user" /\ x # None /\ f_count' = [f_count EXCEPT ![x] = @ + 1]
      /\ f_inode' = f_inode /\ f_mode' = f_mode /\ UNCHANGED <<f_inode, f_mode, content>>
      /\ i_count' = i_count /\ i_pipe' = i_pipe /\ asleep' = asleep
      /\ pc' = pc /\ fds' = fds /\ count' = count /\ buf' = buf
  BY <1>1 DEF dupfd, inodes, call
<1>4. e \in Fd /\ filp[t][e] = None
  BY DEF FreeFd
<1>5. x \in File /\ IsOpen(x) /\ f_count[x] \in Nat \ {0}
  BY <1>1, <1>3, Owned DEF Reserving
<1>6. FileTypes /\ CallTypes /\ InodeTypes /\ SleepTypes
  BY TypesSplit DEF Inductive
<1>7. /\ filp' \in Filp /\ filp'[t][e] = x
      /\ Agree(filp, filp', Task, t) /\ Agree(filp[t], filp'[t], Fd, e)
  BY <1>2, <1>4, <1>5, <1>6 DEF FileTypes, Filp, Row, Agree
<1>8. /\ close_on_exec' \in [Task -> SUBSET Fd]
      /\ \A u \in Task : u # t => close_on_exec'[u] = close_on_exec[u]
      /\ close_on_exec'[t] = close_on_exec[t] \ {e}
  BY <1>2, <1>6 DEF FileTypes
<1>9. f_count' \in [File -> Nat]
      /\ \A y \in File : f_count'[y] = (IF y = x THEN f_count[y] + 1 ELSE f_count[y])
                         /\ f_count[y] \in Nat
  BY <1>3, <1>5, <1>6 DEF FileTypes
<1>10. FileTypes' /\ CallTypes' /\ InodeTypes'
  BY <1>3, <1>6, <1>7, <1>8, <1>9 DEF FileTypes, CallTypes, InodeTypes
<1>11. ASSUME NEW u \in Task
       PROVE  SameTask(u) \/ InNoCall(u)
  <2>1. CASE u = t
    BY <1>3, <2>1 DEF InNoCall, Inductive, Calls, Call, InCall
  <2>2. CASE u # t
    BY <1>3, <1>7, <1>8, <2>2 DEF SameTask, SameCall, Agree
  <2>3. QED
    BY <2>1, <2>2
<1>12. ASSUME NEW y \in File
       PROVE  f_count'[y] = Names(filp', y)
  <2>1. /\ Names(filp, y) \in Nat /\ Names(filp', y) \in Nat
        /\ Names(filp', y) = Names(filp, y) - One(filp[t][e] = y) + One(filp'[t][e] = y)
    BY ONLY <1>4, <1>6, <1>7, <1>12, t \in Task, NamesOfOne DEF FileTypes
  <2>2. One(filp[t][e] = y) = 0 /\ One(filp'[t][e] = y) = IF y = x THEN 1 ELSE 0
    BY <1>4, <1>7, <1>12 DEF One, None, File
  <2>3. f_count[y] = Names(filp, y)
    BY DEF Inductive, Exact
  <2>4. QED
    BY <1>9, <2>1, <2>2, <2>3
<1>13. Marked(filp', close_on_exec')
  <2>1. SUFFICES ASSUME NEW u \in Task, NEW n \in close_on_exec'[u]
                 PROVE  filp'[u][n] # None
    BY DEF Marked
  <2>2. n \in close_on_exec[u] /\ n \in Fd /\ (u # t \/ n # e)
    BY <1>8, <2>1
  <2>3. QED
    BY <1>7, <2>2 DEF Inductive, Marked, Agree
<1>14. ASSUME NEW y \in File
       PROVE  y \in OpenFiles(f_count', pc', fds', filp') <=> y \in OpenFiles(f_count, pc, fds, filp)
  <2>1. Held(y, pc', fds', filp') <=> Held(y, pc, fds, filp)
    BY <1>11, ShareHeld
  <2>2. f_count'[y] > 0 <=> f_count[y] > 0
    BY <1>5, <1>9
  <2>3. QED
    BY <2>1, <2>2 DEF OpenFiles
<1>15. Ends(OpenFiles(f_count', pc', fds', filp'), f_inode', f_mode', i_count', i_pipe')
  <2>1. OpenFiles(f_count', pc', fds', filp') = OpenFiles(f_count, pc, fds, filp)
    BY <1>14 DEF OpenFiles
  <2>2. QED
    BY <1>3, <2>1 DEF Inductive
<1>16. \A y \in File : f_count'[y] # f_count[y] => IsOpen(y)
  BY <1>5, <1>9
<1>17. asleep' \subseteq asleep /\ \A s \in asleep' : i_count'[Using(s)] = i_count[Using(s)]
  BY <1>3
<1>18. Exact(filp', f_count')
  BY <1>12 DEF Exact
<1>19. QED
  BY <1>3, <1>10, <1>11, <1>13, <1>15, <1>16, <1>17, <1>18, ShareStep

LEMMA SysDup2 ==
  ASSUME Inductive, NEW t \in Task, NEW d \in Fd, NEW e \in Fd, sys_dup2(t, d, e)
  PROVE  Inductive'
<1>1. PICK x, y : x = filp[t][d] /\ y = filp[t][e]
  OBVIOUS
<1>2. /\ pc[t] = "user" /\ d # e /\ x # None /\ y # None
      /\ filp' = [filp EXCEPT ![t][e] = x]
      /\ close_on_exec' = [close_on_exec EXCEPT ![t] = @ \ {e}]
      /\ f_count' = IF x = y THEN f_count ELSE [f_count EXCEPT ![x] = @ + 1, ![y] = @ - 1]
      /\ PutLast(y)
      /\ f_inode' = f_inode /\ f_mode' = f_mode /\ UNCHANGED <<f_inode, f_mode, content>>
      /\ pc' = pc /\ fds' = fds /\ count' = count /\ buf' = buf
  BY <1>1 DEF sys_dup2, PutLast, call
<1>3. /\ x \in File /\ IsOpen(x) /\ f_count[x] \in Nat \ {0}
      /\ y \in File /\ IsOpen(y) /\ f_count[y] \in Nat \ {0}
  BY <1>1, <1>2, Owned DEF Reserving
<1>4. FileTypes /\ CallTypes /\ InodeTypes /\ SleepTypes
  BY TypesSplit DEF Inductive
<1>5. /\ filp' \in Filp /\ filp'[t][e] = x
      /\ Agree(filp, filp', Task, t) /\ Agree(filp[t], filp'[t], Fd, e)
  BY <1>2, <1>3, <1>4 DEF FileTypes, Filp, Row, Agree
<1>6. /\ close_on_exec' \in [Task -> SUBSET Fd]
      /\ \A u \in Task : u # t => close_on_exec'[u] = close_on_exec[u]
      /\ close_on_exec'[t] = close_on_exec[t] \ {e}
  BY <1>2, <1>4 DEF FileTypes
<1>7. \A z \in File : f_count[z] \in Nat
  BY <1>4 DEF FileTypes
<1>8. f_count' \in [File -> Nat]
      /\ \A z \in File : f_count'[z] = f_count[z] - (IF z = y THEN 1 ELSE 0) + (IF z = x THEN 1 ELSE 0)
  <2>1. CASE x = y
    BY <1>2, <1>4, <1>7, <2>1 DEF FileTypes
  <2>2. CASE x # y
    <3>1. f_count' = [f_count EXCEPT ![x] = @ + 1, ![y] = @ - 1]
      BY <1>2, <2>2
    <3>2. f_count \in [File -> Nat] /\ f_count[x] + 1 \in Nat /\ f_count[y] - 1 \in Nat
      BY <1>3, <1>4 DEF FileTypes
    <3>3. \A z \in File : f_count'[z] = IF z = x THEN f_count[x] + 1
                                        ELSE IF z = y THEN f_count[y] - 1 ELSE f_count[z]
      BY <1>3, <2>2, <3>1, <3>2
    <3>4. f_count' \in [File -> Nat]
      BY <1>3, <2>2, <3>1, <3>2
    <3>5. QED
      BY <1>3, <1>7, <2>2, <3>3, <3>4
  <2>3. QED
    BY <2>1, <2>2
<1>9. FileTypes' /\ CallTypes'
  BY <1>2, <1>4, <1>5, <1>6, <1>8 DEF FileTypes, CallTypes
<1>10. ASSUME NEW u \in Task
       PROVE  SameTask(u) \/ InNoCall(u)
  <2>1. CASE u = t
    BY <1>2, <2>1 DEF InNoCall, Inductive, Calls, Call, InCall
  <2>2. CASE u # t
    BY <1>2, <1>5, <1>6, <2>2 DEF SameTask, SameCall, Agree
  <2>3. QED
    BY <2>1, <2>2
<1>11. ASSUME NEW z \in File
       PROVE  f_count'[z] = Names(filp', z)
  <2>1. /\ Names(filp, z) \in Nat /\ Names(filp', z) \in Nat
        /\ Names(filp', z) = Names(filp, z) - One(filp[t][e] = z) + One(filp'[t][e] = z)
    BY ONLY <1>4, <1>5, <1>11, t \in Task, e \in Fd, NamesOfOne DEF FileTypes
  <2>2. /\ One(filp[t][e] = z) = IF z = y THEN 1 ELSE 0
        /\ One(filp'[t][e] = z) = IF z = x THEN 1 ELSE 0
    BY <1>1, <1>5 DEF One
  <2>3. f_count[z] = Names(filp, z)
    BY DEF Inductive, Exact
  <2>4. QED
    BY <1>8, <2>1, <2>2, <2>3
<1>12. Marked(filp', close_on_exec')
  <2>1. SUFFICES ASSUME NEW u \in Task, NEW n \in close_on_exec'[u]
                 PROVE  filp'[u][n] # None
    BY DEF Marked
  <2>2. n \in close_on_exec[u] /\ n \in Fd /\ (u # t \/ n # e)
    BY <1>6, <2>1
  <2>3. QED
    BY <1>5, <2>2 DEF Inductive, Marked, Agree
<1>13. x = y => f_count[y] # 1
  <2>1. SUFFICES ASSUME x = y, f_count[y] = 1
                 PROVE  FALSE
    OBVIOUS
  <2>2. Names(filp, y) = 1
    BY <1>3, <2>1 DEF Inductive, Exact
  <2>3. \A u \in Task, n \in Fd : filp[u][n] = y => u = t /\ n = e
    BY <1>1, <2>2, Named
  <2>4. QED
    BY <1>1, <1>2, <2>1, <2>3
<1>14. ASSUME NEW z \in File
       PROVE  z \in OpenFiles(f_count', pc', fds', filp') <=>
                z \in OpenFiles(f_count, pc, fds, filp) /\ ~ (z = y /\ f_count[y] = 1)
  <2>1. Held(z, pc', fds', filp') <=> Held(z, pc, fds, filp)
    BY <1>10, ShareHeld
  <2>2. f_count'[z] > 0 <=> f_count[z] > 0 /\ ~ (z = y /\ f_count[y] = 1)
    BY <1>3, <1>7, <1>8, <1>13, <1>14
  <2>3. QED
    BY <2>1, <2>2 DEF OpenFiles
<1>15. PICK O, P : O = OpenFiles(f_count', pc', fds', filp') /\ P = OpenFiles(f_count, pc, fds, filp)
  OBVIOUS
<1>16. /\ f_count[y] = 1 => O = P \ {y}
       /\ f_count[y] # 1 => O = P
  BY <1>14, <1>15 DEF OpenFiles
<1>17. /\ Ends(O, f_inode', f_mode', i_count', i_pipe')
       /\ InodeTypes'
       /\ asleep' \subseteq asleep
       /\ \A s \in asleep' : i_count'[Using(s)] = i_count[Using(s)]
  BY <1>2, <1>3, <1>15, <1>16, EndsAfterPut
<1>18. \A z \in File : f_count'[z] # f_count[z] => IsOpen(z)
  BY <1>3, <1>7, <1>8
<1>19. Exact(filp', f_count')
  BY <1>11 DEF Exact
<1>20. QED
  BY <1>2, <1>9, <1>10, <1>12, <1>15, <1>17, <1>18, <1>19, ShareStep

LEMMA Fork ==
  ASSUME Inductive, NEW t \in Task, NEW u \in Task, fork(t, u)
  PROVE  Inductive'
<1>1. /\ pc[t] = "user" /\ pc[u] = "none"
      /\ pc' = [pc EXCEPT ![u] = "user"]
      /\ filp' = [filp EXCEPT ![u] = filp[t]]
      /\ close_on_exec' = [close_on_exec EXCEPT ![u] = close_on_exec[t]]
      /\ f_count' = [x \in File |-> f_count[x] + NamesIn(filp[t], x)]
      /\ f_inode' = f_inode /\ f_mode' = f_mode /\ UNCHANGED <<f_inode, f_mode, content>>
      /\ i_count' = i_count /\ i_pipe' = i_pipe /\ asleep' = asleep
      /\ fds' = fds /\ count' = count /\ buf' = buf
  BY DEF fork, inodes, NamesIn
<1>2. FileTypes /\ CallTypes /\ InodeTypes /\ SleepTypes
  BY TypesSplit DEF Inductive
<1>3. (\A d \in Fd : filp[u][d] = None) /\ fds[u] = {} /\ fds[t] = {}
  BY <1>1 DEF Inductive, Calls, Call, InCall
<1>4. /\ filp' \in Filp /\ filp'[u] = filp[t] /\ Agree(filp, filp', Task, u)
      /\ filp'[t] = filp[t]
  BY <1>1, <1>2 DEF FileTypes, Filp, Agree
<1>5. /\ close_on_exec' \in [Task -> SUBSET Fd] /\ close_on_exec'[u] = close_on_exec[t]
      /\ \A v \in Task : v # u => close_on_exec'[v] = close_on_exec[v]
  BY <1>1, <1>2 DEF FileTypes
<1>6. ASSUME NEW y \in File
      PROVE  /\ Names(filp, y) \in Nat /\ NamesIn(filp[t], y) \in Nat
             /\ Names(filp', y) = Names(filp, y) + NamesIn(filp[t], y)
             /\ f_count[y] = Names(filp, y) /\ f_count'[y] = f_count[y] + NamesIn(filp[t], y)
  <2>1. \A d \in Fd : filp[u][d] # y
    BY <1>3, <1>6 DEF None, File
  <2>2. /\ Names(filp, y) \in Nat /\ NamesIn(filp'[u], y) \in Nat
        /\ Names(filp', y) = Names(filp, y) + NamesIn(filp'[u], y)
    BY ONLY <1>2, <1>4, <2>1, u \in Task, NamesOfRow DEF FileTypes
  <2>3. f_count[y] = Names(filp, y) /\ f_count'[y] = f_count[y] + NamesIn(filp[t], y)
    BY <1>1 DEF Inductive, Exact
  <2>4. QED
    BY <1>4, <2>2, <2>3
<1>7. Exact(filp', f_count')
  BY <1>6 DEF Exact
<1>8. f_count' \in [File -> Nat]
  <2>1. \A y \in File : f_count[y] + NamesIn(filp[t], y) \in Nat
    BY <1>6
  <2>2. QED
    BY <1>1, <2>1
<1>9. FileTypes' /\ CallTypes' /\ InodeTypes'
  BY <1>1, <1>2, <1>4, <1>5, <1>8 DEF FileTypes, CallTypes, InodeTypes
<1>10. ASSUME NEW v \in Task
       PROVE  SameTask(v) \/ InNoCall(v)
  <2>1. CASE v = u
    BY <1>1, <1>2, <1>3, <2>1 DEF InNoCall, CallTypes
  <2>2. CASE v # u
    BY <1>1, <1>2, <1>4, <1>5, <2>2 DEF SameTask, SameCall, Agree, CallTypes
  <2>3. QED
    BY <2>1, <2>2
<1>11. Marked(filp', close_on_exec')
  <2>1. \A v \in Task : v # u => filp'[v] = filp[v]
    BY <1>4 DEF Agree
  <2>2. QED
    BY <1>4, <1>5, <2>1 DEF Inductive, Marked
<1>12. ASSUME NEW y \in File, NamesIn(filp[t], y) # 0
       PROVE  IsOpen(y)
  <2>1. \E d \in Fd : filp[t][d] = y
    <3>1. SUFFICES ASSUME \A d \in Fd : filp[t][d] # y
                   PROVE  FALSE
      OBVIOUS
    <3>2. {d \in Fd : filp[t][d] = y} = {}
      BY <3>1
    <3>3. NamesIn(filp[t], y) = 0
      BY <3>2, FS_EmptySet DEF NamesIn
    <3>4. QED
      BY <1>12, <3>3
  <2>2. QED
    BY <1>1, <2>1, Owned DEF Reserving, None, File
<1>13. ASSUME NEW y \in File
       PROVE  y \in OpenFiles(f_count', pc', fds', filp') <=> y \in OpenFiles(f_count, pc, fds, filp)
  <2>1. Held(y, pc', fds', filp') <=> Held(y, pc, fds, filp)
    BY <1>10, ShareHeld
  <2>2. CASE NamesIn(filp[t], y) = 0
    <3>1. f_count'[y] = f_count[y]
      BY <1>6, <2>2
    <3>2. QED
      BY <2>1, <3>1 DEF OpenFiles
  <2>3. CASE NamesIn(filp[t], y) # 0
    <3>1. IsOpen(y)
      BY <1>12, <2>3
    <3>2. f_count[y] > 0 /\ f_count'[y] > 0
      BY <1>6, <3>1 DEF IsOpen, OpenFiles
    <3>3. QED
      BY <2>1, <3>2 DEF OpenFiles
  <2>4. QED
    BY <2>2, <2>3
<1>14. Ends(OpenFiles(f_count', pc', fds', filp'), f_inode', f_mode', i_count', i_pipe')
  <2>1. OpenFiles(f_count', pc', fds', filp') = OpenFiles(f_count, pc, fds, filp)
    BY <1>13 DEF OpenFiles
  <2>2. QED
    BY <1>1, <2>1 DEF Inductive
<1>15. \A y \in File : f_count'[y] # f_count[y] => IsOpen(y)
  BY <1>6, <1>12
<1>16. asleep' \subseteq asleep /\ \A s \in asleep' : i_count'[Using(s)] = i_count[Using(s)]
  BY <1>1
<1>17. QED
  BY <1>1, <1>7, <1>9, <1>10, <1>11, <1>14, <1>15, <1>16, ShareStep

-------------------------------------------------------------------------------
(* The ring. *)

LEMMA Wrapped ==
  ASSUME NEW x \in Int, PAGE_SIZE <= x, x < 2 * PAGE_SIZE
  PROVE  x % PAGE_SIZE = x - PAGE_SIZE
<1> DEFINE q == x \div PAGE_SIZE
           r == x % PAGE_SIZE
<1>1. q \in Int /\ r \in 0..PAGE_SIZE - 1 /\ x = PAGE_SIZE * q + r
  OBVIOUS
<1>2. q = 1
  <2>1. CASE q <= 0
    <3>1. PAGE_SIZE * q <= 0
      BY <1>1, <2>1
    <3>2. QED
      BY <1>1, <3>1
  <2>2. CASE q >= 2
    <3>1. PAGE_SIZE * q >= PAGE_SIZE * 2
      BY <1>1, <2>2
    <3>2. QED
      BY <1>1, <3>1
  <2>3. QED
    BY <1>1, <2>1, <2>2
<1>3. QED
  BY <1>1, <1>2

LEMMA ModRange ==
  ASSUME NEW x \in Int, - PAGE_SIZE <= x, x < 2 * PAGE_SIZE
  PROVE  x % PAGE_SIZE = IF x < 0 THEN x + PAGE_SIZE
                         ELSE IF x >= PAGE_SIZE THEN x - PAGE_SIZE ELSE x
<1>1. CASE x < 0
  BY <1>1
<1>2. CASE x >= 0 /\ x < PAGE_SIZE
  BY <1>2
<1>3. CASE x >= PAGE_SIZE
  BY <1>3, Wrapped
<1>4. QED
  BY <1>1, <1>2, <1>3

\* How many bytes lie between l and h; the head, or the tail, moves by k.
Between(h, l) == (h - l) % PAGE_SIZE

LEMMA BetweenIs ==
  ASSUME NEW h \in 0..PAGE_SIZE - 1, NEW l \in 0..PAGE_SIZE - 1
  PROVE  Between(h, l) \in 0..PAGE_SIZE - 1
         /\ Between(h, l) = IF h >= l THEN h - l ELSE h - l + PAGE_SIZE
<1>1. h - l \in Int /\ - PAGE_SIZE <= h - l /\ h - l < PAGE_SIZE
  OBVIOUS
<1>2. Between(h, l) = IF h - l < 0 THEN h - l + PAGE_SIZE ELSE h - l
  <2>1. PICK x : x = h - l
    OBVIOUS
  <2>2. x \in Int /\ - PAGE_SIZE <= x /\ x < 2 * PAGE_SIZE
    BY <1>1, <2>1
  <2>3. x % PAGE_SIZE = IF x < 0 THEN x + PAGE_SIZE ELSE IF x >= PAGE_SIZE THEN x - PAGE_SIZE ELSE x
    BY ONLY <2>2, ModRange
  <2>4. QED
    BY <1>1, <2>1, <2>3 DEF Between
<1>3. QED
  BY <1>1, <1>2

LEMMA MovedIs ==
  ASSUME NEW h \in 0..PAGE_SIZE - 1, NEW k \in 0..PAGE_SIZE - 1
  PROVE  (h + k) % PAGE_SIZE \in 0..PAGE_SIZE - 1
         /\ (h + k) % PAGE_SIZE = IF h + k >= PAGE_SIZE THEN h + k - PAGE_SIZE ELSE h + k
<1>1. h + k \in Int /\ 0 <= h + k /\ h + k < 2 * PAGE_SIZE
  OBVIOUS
<1>2. (h + k) % PAGE_SIZE = IF h + k >= PAGE_SIZE THEN h + k - PAGE_SIZE ELSE h + k
  <2>1. PICK x : x = h + k
    OBVIOUS
  <2>2. x \in Int /\ - PAGE_SIZE <= x /\ x < 2 * PAGE_SIZE
    BY <1>1, <2>1
  <2>3. x % PAGE_SIZE = IF x < 0 THEN x + PAGE_SIZE ELSE IF x >= PAGE_SIZE THEN x - PAGE_SIZE ELSE x
    BY ONLY <2>2, ModRange
  <2>4. QED
    BY <1>1, <2>1, <2>3
<1>3. QED
  BY <1>1, <1>2

LEMMA HeadMoves ==
  ASSUME NEW h \in 0..PAGE_SIZE - 1, NEW l \in 0..PAGE_SIZE - 1,
         NEW k \in 0..PAGE_SIZE - 1 - Between(h, l)
  PROVE  Between((h + k) % PAGE_SIZE, l) = Between(h, l) + k
<1>1. Between(h, l) \in 0..PAGE_SIZE - 1
      /\ Between(h, l) = IF h >= l THEN h - l ELSE h - l + PAGE_SIZE
  BY BetweenIs
<1>2. PICK m : m = (h + k) % PAGE_SIZE
  OBVIOUS
<1>3. k \in 0..PAGE_SIZE - 1
  BY <1>1
<1>4. m \in 0..PAGE_SIZE - 1 /\ m = IF h + k >= PAGE_SIZE THEN h + k - PAGE_SIZE ELSE h + k
  BY <1>2, <1>3, MovedIs
<1>5. Between(m, l) = IF m >= l THEN m - l ELSE m - l + PAGE_SIZE
  BY <1>4, BetweenIs
<1>6. Between(m, l) = Between(h, l) + k
  BY <1>1, <1>3, <1>4, <1>5
<1>7. QED
  BY <1>2, <1>6

LEMMA TailMoves ==
  ASSUME NEW h \in 0..PAGE_SIZE - 1, NEW l \in 0..PAGE_SIZE - 1, NEW k \in 0..Between(h, l)
  PROVE  Between(h, (l + k) % PAGE_SIZE) = Between(h, l) - k
<1>1. Between(h, l) \in 0..PAGE_SIZE - 1
      /\ Between(h, l) = IF h >= l THEN h - l ELSE h - l + PAGE_SIZE
  BY BetweenIs
<1>2. PICK m : m = (l + k) % PAGE_SIZE
  OBVIOUS
<1>3. k \in 0..PAGE_SIZE - 1
  BY <1>1
<1>4. m \in 0..PAGE_SIZE - 1 /\ m = IF l + k >= PAGE_SIZE THEN l + k - PAGE_SIZE ELSE l + k
  BY <1>2, <1>3, MovedIs
<1>5. Between(h, m) = IF h >= m THEN h - m ELSE h - m + PAGE_SIZE
  BY <1>4, BetweenIs
<1>6. Between(h, m) = Between(h, l) - k
  BY <1>1, <1>3, <1>4, <1>5
<1>7. QED
  BY <1>2, <1>6

LEMMA SplitMessage ==
  ASSUME NEW S, NEW s \in Seq(S), NEW k \in 0..Len(s)
  PROVE  /\ SubSeq(s, 1, k) \in Seq(S) /\ Len(SubSeq(s, 1, k)) = k
         /\ SubSeq(s, k + 1, Len(s)) \in Seq(S) /\ Len(SubSeq(s, k + 1, Len(s))) = Len(s) - k
OBVIOUS

-------------------------------------------------------------------------------
(* Reading and writing a pipe. *)

\* Task t does something to the ring of i and may go to sleep there.
LEMMA PipeStep ==
  ASSUME Inductive, NEW t \in Task, NEW i \in Pipe, UNCHANGED <<descriptors, files, inodes>>,
         t \notin asleep, ~ Reserving(t), ~ Reserving(t)',
         \A u \in Task : u # t => SameCall(u), CallTypes', ContentTypes', Call(t)',
         asleep' \subseteq wake_up(i) \cup {t},
         t \in asleep' => pc'[t] \in {"read", "write"} /\ SleepsOn(t)',
         \A j \in Pipe : j # i => head'[j] = head[j] /\ tail'[j] = tail[j]
  PROVE  Inductive'
<1>1. /\ filp' = filp /\ close_on_exec' = close_on_exec /\ f_inode' = f_inode /\ i_count' = i_count
  BY DEF descriptors, files, inodes
<1>2. SleepTypes
  BY TypesSplit DEF Inductive
<1>3. \A s \in asleep' : s = t \/ (s \in asleep /\ s \in Task /\ s # t /\ Using(s) # i)
  BY <1>2 DEF wake_up, SleepTypes
<1>4. SleepTypes'
  <2>1. ASSUME NEW s \in asleep'
        PROVE  s \in Task /\ pc'[s] \in {"read", "write"}
    BY <1>2, <1>3, <2>1 DEF SleepTypes, SameCall
  <2>2. QED
    BY <2>1 DEF SleepTypes
<1>5. ASSUME NEW s \in asleep'
      PROVE  SleepsOn(s)'
  <2>1. CASE s = t
    BY <1>5, <2>1
  <2>2. CASE s # t
    <3>1. s \in asleep /\ s \in Task /\ Using(s) # i /\ Using(s) \in Pipe
      BY <1>3, <1>5, <2>2, Sleeping
    <3>2. SameTask(s) /\ KeepsInodes /\ QuietInode(Using(s))
      BY <1>1, <2>2, <3>1 DEF SameTask, KeepsInodes, QuietInode
    <3>3. QED
      BY <3>1, <3>2, SleeperKept
  <2>3. QED
    BY <2>1, <2>2
<1>6. QED
  BY <1>4, <1>5, OneTaskOnly

\* An end that a task has open.
LEMMA EndIs ==
  ASSUME Inductive, NEW t \in Task, NEW d \in Fd, NEW mode \in {"read", "write"},
         ~ Reserving(t), Open(t, d, mode)
  PROVE  f_inode[filp[t][d]] \in Pipe
<1>1. filp[t][d] \in File /\ IsOpen(filp[t][d]) /\ f_mode[filp[t][d]] = mode
  BY Owned DEF Open
<1>2. QED
  BY <1>1 DEF Inductive, Ends, Modes, IsOpen

LEMMA ReadStep ==
  ASSUME Inductive, NEW t \in Task, NEW d \in Fd, NEW n \in 1..MaxCount, t \notin asleep,
         ~ Reserving(t), Open(t, d, "read"), ReadPipe(t, d, n),
         UNCHANGED <<descriptors, files, inodes>>
  PROVE  Inductive'
<1>1. PICK i : i = f_inode[filp[t][d]]
  OBVIOUS
<1>2. i \in Pipe
  BY <1>1, EndIs
<1>3. CallTypes /\ ContentTypes
  BY TypesSplit DEF Inductive
<1>4. head[i] \in 0..PAGE_SIZE - 1 /\ tail[i] \in 0..PAGE_SIZE - 1
  BY <1>2, <1>3 DEF ContentTypes
<1>5. Size(i) = Between(head[i], tail[i]) /\ Size(i) \in 0..PAGE_SIZE - 1
  BY <1>4, BetweenIs DEF Size, Between
<1>6. PICK k : k = Smaller(n, Size(i))
  OBVIOUS
<1>7. k \in 0..Size(i) /\ k <= n /\ (k = 0 => Size(i) = 0)
  BY <1>5, <1>6 DEF Smaller
<1>8. CASE asleep' = wake_up(i) /\ Return(t) /\ head' = head /\ (\A j \in Pipe : j # i => tail'[j] = tail[j])
           /\ ContentTypes'
  <2>1. /\ pc'[t] = "user" /\ CallTypes' /\ Call(t)'
        /\ \A u \in Task : u # t => SameCall(u)
    BY <1>8, ReturnStep
  <2>2. ~ Reserving(t)' /\ t \notin asleep' /\ asleep' \subseteq wake_up(i) \cup {t}
    BY <1>8, <2>1 DEF Reserving, wake_up
  <2>3. QED
    BY <1>2, <1>8, <2>1, <2>2, PipeStep
<1>9. CASE k = 0 /\ i_count[i] # 2
  <2>1. asleep' = wake_up(i) /\ Return(t) /\ UNCHANGED content
    BY <1>1, <1>6, <1>9 DEF ReadPipe
  <2>2. head' = head /\ tail' = tail /\ ring' = ring
    BY <2>1 DEF content
  <2>3. ContentTypes'
    BY <1>3, <2>2 DEF ContentTypes
  <2>4. QED
    BY <1>8, <2>1, <2>2, <2>3
<1>10. CASE k = 0 /\ i_count[i] = 2
  <2>1. /\ asleep' = wake_up(i) \cup {t} /\ Goto(t, "read", {d})
        /\ count' = [count EXCEPT ![t] = n]
        /\ UNCHANGED content /\ buf' = buf
    BY <1>1, <1>6, <1>10 DEF ReadPipe
  <2>2. head' = head /\ tail' = tail /\ ring' = ring
    BY <2>1 DEF content
  <2>3. ContentTypes'
    BY <1>3, <2>2 DEF ContentTypes
  <2>4. /\ pc'[t] = "read" /\ fds'[t] = {d}
        /\ pc' \in [Task -> {"none", "user", "open", "pipe", "read", "write", "exec", "exit"}]
        /\ fds' \in [Task -> SUBSET Fd]
        /\ \A u \in Task : u # t => pc'[u] = pc[u] /\ fds'[u] = fds[u]
    BY <2>1, GotoTypes
  <2>5. count' \in [Task -> 0..MaxCount] /\ count'[t] = n
        /\ \A u \in Task : u # t => count'[u] = count[u]
    BY <1>3, <2>1 DEF CallTypes
  <2>6. CallTypes' /\ \A u \in Task : u # t => SameCall(u)
    BY <1>3, <2>1, <2>4, <2>5 DEF CallTypes, SameCall
  <2>7. filp' = filp /\ f_mode' = f_mode /\ f_inode' = f_inode /\ i_count' = i_count
    BY DEF descriptors, files, inodes
  <2>8. Call(t)'
    BY <2>4, <2>5, <2>7 DEF Call, InCall, EndOf, Open
  <2>9. SleepsOn(t)'
    <3>1. Least(fds'[t]) = d
      BY <2>4, LeastOfOne DEF Fd
    <3>2. Bytes(i, head, tail) = 0
      BY <1>7, <1>10 DEF Bytes, Size
    <3>3. QED
      BY <1>1, <1>10, <2>2, <2>4, <2>7, <3>1, <3>2 DEF SleepsOn, Idle, Bytes
  <2>10. ~ Reserving(t)'
    BY <2>4 DEF Reserving
  <2>11. \A j \in Pipe : j # i => head'[j] = head[j] /\ tail'[j] = tail[j]
    BY <2>2
  <2>12. asleep' \subseteq wake_up(i) \cup {t}
    BY <2>1
  <2>13. QED
    BY <1>2, <2>3, <2>4, <2>6, <2>8, <2>9, <2>10, <2>11, <2>12, PipeStep
<1>11. CASE k > 0
  <2>1. /\ tail' = [tail EXCEPT ![i] = (tail[i] + k) % PAGE_SIZE]
        /\ ring' = [ring EXCEPT ![i] = [m \in DOMAIN ring[i] |->
                      IF (m - tail[i]) % PAGE_SIZE < k THEN 0 ELSE ring[i][m]]]
        /\ asleep' = wake_up(i) /\ Return(t) /\ head' = head
    <3>1. k # 0
      BY <1>11
    <3>2. QED
      BY <1>1, <1>6, <3>1 DEF ReadPipe
  <2>2. (tail[i] + k) % PAGE_SIZE \in 0..PAGE_SIZE - 1
    <3>1. k \in 0..PAGE_SIZE - 1
      BY <1>5, <1>7
    <3>2. QED
      BY <1>4, <3>1, MovedIs
  <2>3. PICK l, z : /\ l = (tail[i] + k) % PAGE_SIZE
                    /\ z = [m \in DOMAIN ring[i] |-> IF (m - tail[i]) % PAGE_SIZE < k THEN 0 ELSE ring[i][m]]
    OBVIOUS
  <2>4. z \in [0..PAGE_SIZE - 1 -> Byte]
    <3>1. ring[i] \in [0..PAGE_SIZE - 1 -> Byte] /\ 0 \in Byte
      BY <1>2, <1>3 DEF ContentTypes
    <3>2. QED
      BY ONLY <2>3, <3>1
  <2>5. tail' = [tail EXCEPT ![i] = l] /\ ring' = [ring EXCEPT ![i] = z] /\ l \in 0..PAGE_SIZE - 1
    BY <2>1, <2>2, <2>3
  <2>6. ContentTypes' /\ \A j \in Pipe : j # i => tail'[j] = tail[j]
    <3>1. head' \in [Pipe -> 0..PAGE_SIZE - 1] /\ tail' \in [Pipe -> 0..PAGE_SIZE - 1]
      BY ONLY <1>2, <1>3, <2>1, <2>5 DEF ContentTypes
    <3>2. ring' \in [Pipe -> [0..PAGE_SIZE - 1 -> Byte]]
      BY ONLY <1>2, <1>3, <2>4, <2>5 DEF ContentTypes
    <3>3. \A j \in Pipe : j # i => tail'[j] = tail[j]
      BY ONLY <1>2, <1>3, <2>5 DEF ContentTypes
    <3>4. QED
      BY ONLY <3>1, <3>2, <3>3 DEF ContentTypes
  <2>7. asleep' = wake_up(i) /\ Return(t) /\ head' = head
    BY <2>1
  <2>8. QED
    BY <1>8, <2>6, <2>7
<1>12. QED
  BY <1>5, <1>7, <1>9, <1>10, <1>11

LEMMA WriteStep ==
  ASSUME Inductive, NEW t \in Task, NEW d \in Fd, NEW s \in Seq(Byte), t \notin asleep,
         ~ Reserving(t), Open(t, d, "write"), WritePipe(t, d, s),
         UNCHANGED <<descriptors, files, inodes>>
  PROVE  Inductive'
<1>1. PICK i : i = f_inode[filp[t][d]]
  OBVIOUS
<1>2. i \in Pipe
  BY <1>1, EndIs
<1>3. CallTypes /\ ContentTypes
  BY TypesSplit DEF Inductive
<1>4. head[i] \in 0..PAGE_SIZE - 1 /\ tail[i] \in 0..PAGE_SIZE - 1
  BY <1>2, <1>3 DEF ContentTypes
<1>5. Size(i) = Between(head[i], tail[i]) /\ Size(i) \in 0..PAGE_SIZE - 1
  BY <1>4, BetweenIs DEF Size, Between
<1>6. PICK k, chunk, rest : /\ k = Smaller(Len(s), PAGE_SIZE - 1 - Size(i))
                            /\ chunk = SubSeq(s, 1, k) /\ rest = SubSeq(s, k + 1, Len(s))
  OBVIOUS
<1>7. Fill(i, chunk) /\ Proceed(t, d, rest)
  BY <1>1, <1>6 DEF WritePipe
<1>8. /\ k \in 0..Len(s) /\ k \in 0..PAGE_SIZE - 1 - Size(i) /\ k \in 0..PAGE_SIZE - 1
      /\ k = Len(s) \/ k = PAGE_SIZE - 1 - Size(i)
  BY <1>5, <1>6 DEF Smaller
<1>9. /\ chunk \in Seq(Byte) /\ Len(chunk) = k
      /\ rest \in Seq(Byte) /\ Len(rest) = Len(s) - k
  BY <1>6, <1>8, SplitMessage
<1>10. PICK h, z : /\ h = (head[i] + k) % PAGE_SIZE
                   /\ z = [m \in DOMAIN ring[i] |->
                             LET n == (m - head[i]) % PAGE_SIZE
                             IN IF n < Len(chunk) THEN chunk[n + 1] ELSE ring[i][m]]
  OBVIOUS
<1>11. head' = [head EXCEPT ![i] = h] /\ ring' = [ring EXCEPT ![i] = z] /\ tail' = tail
  BY <1>7, <1>9, <1>10 DEF Fill
<1>12. h \in 0..PAGE_SIZE - 1 /\ Between(h, tail[i]) = Between(head[i], tail[i]) + k
  <2>1. (head[i] + k) % PAGE_SIZE \in 0..PAGE_SIZE - 1
    BY <1>4, <1>8, MovedIs
  <2>2. k \in 0..PAGE_SIZE - 1 - Between(head[i], tail[i])
    BY <1>5, <1>8
  <2>3. Between((head[i] + k) % PAGE_SIZE, tail[i]) = Between(head[i], tail[i]) + k
    BY <1>4, <2>2, HeadMoves
  <2>4. QED
    BY <1>10, <2>1, <2>3
<1>13. z \in [0..PAGE_SIZE - 1 -> Byte]
  <2>1. ring[i] \in [0..PAGE_SIZE - 1 -> Byte]
    BY <1>2, <1>3 DEF ContentTypes
  <2>2. ASSUME NEW m \in 0..PAGE_SIZE - 1
        PROVE  z[m] \in Byte
    <3>1. (m - head[i]) % PAGE_SIZE \in 0..PAGE_SIZE - 1
      BY <1>4, BetweenIs DEF Between
    <3>2. z[m] = IF (m - head[i]) % PAGE_SIZE < Len(chunk)
                   THEN chunk[((m - head[i]) % PAGE_SIZE) + 1] ELSE ring[i][m]
      BY <1>10, <2>1
    <3>3. CASE (m - head[i]) % PAGE_SIZE < Len(chunk)
      <4>1. ((m - head[i]) % PAGE_SIZE) + 1 \in 1..Len(chunk)
        BY <1>9, <3>1, <3>3
      <4>2. chunk[((m - head[i]) % PAGE_SIZE) + 1] \in Byte
        BY <1>9, <4>1
      <4>3. QED
        BY <3>2, <3>3, <4>2
    <3>4. CASE ~ ((m - head[i]) % PAGE_SIZE < Len(chunk))
      BY <2>1, <3>2, <3>4
    <3>5. QED
      BY <3>3, <3>4
  <2>3. z = [m \in 0..PAGE_SIZE - 1 |-> z[m]]
    BY <1>10, <2>1
  <2>4. QED
    BY <2>2, <2>3
<1>14. /\ ContentTypes'
       /\ head'[i] = h /\ \A j \in Pipe : j # i => head'[j] = head[j] /\ tail'[j] = tail[j]
  BY ONLY <1>2, <1>3, <1>11, <1>12, <1>13 DEF ContentTypes
<1>15. CASE rest = <<>> \/ i_count[i] # 2
  <2>1. asleep' = wake_up(i) /\ Return(t)
    BY <1>1, <1>7, <1>15 DEF Proceed
  <2>2. /\ pc'[t] = "user" /\ CallTypes' /\ Call(t)'
        /\ \A u \in Task : u # t => SameCall(u)
    BY <2>1, ReturnStep
  <2>3. ~ Reserving(t)' /\ t \notin asleep' /\ asleep' \subseteq wake_up(i) \cup {t}
    BY <2>1, <2>2 DEF Reserving, wake_up
  <2>4. QED
    BY <1>2, <1>14, <2>2, <2>3, PipeStep
<1>16. CASE ~ (rest = <<>> \/ i_count[i] # 2)
  <2>1. /\ asleep' = wake_up(i) \cup {t} /\ Goto(t, "write", {d})
        /\ buf' = [buf EXCEPT ![t] = rest] /\ count' = count
    BY <1>1, <1>7, <1>16 DEF Proceed
  <2>2. /\ pc'[t] = "write" /\ fds'[t] = {d}
        /\ pc' \in [Task -> {"none", "user", "open", "pipe", "read", "write", "exec", "exit"}]
        /\ fds' \in [Task -> SUBSET Fd]
        /\ \A u \in Task : u # t => pc'[u] = pc[u] /\ fds'[u] = fds[u]
    BY <2>1, GotoTypes
  <2>3. buf' \in [Task -> Seq(Byte)] /\ buf'[t] = rest
        /\ \A u \in Task : u # t => buf'[u] = buf[u]
    BY <1>3, <1>9, <2>1 DEF CallTypes
  <2>4. CallTypes' /\ \A u \in Task : u # t => SameCall(u)
    BY <1>3, <2>1, <2>2, <2>3 DEF CallTypes, SameCall
  <2>5. filp' = filp /\ f_mode' = f_mode /\ f_inode' = f_inode /\ i_count' = i_count
    BY DEF descriptors, files, inodes
  <2>6. Call(t)'
    BY <1>16, <2>2, <2>3, <2>5 DEF Call, InCall, EndOf, Open
  <2>7. k = PAGE_SIZE - 1 - Size(i)
    <3>1. Len(rest) # 0
      BY <1>9, <1>16
    <3>2. QED
      BY <1>8, <1>9, <3>1
  <2>8. SleepsOn(t)'
    <3>1. Least(fds'[t]) = d
      BY <2>2, LeastOfOne DEF Fd
    <3>2. Between(h, tail[i]) = PAGE_SIZE - 1
      BY <1>5, <1>12, <2>7
    <3>3. Bytes(i, head', tail') = PAGE_SIZE - 1
      BY <1>11, <1>14, <3>2 DEF Bytes, Between
    <3>4. QED
      BY <1>1, <1>16, <2>2, <2>5, <3>1, <3>3 DEF SleepsOn, Idle
  <2>9. ~ Reserving(t)'
    BY <2>2 DEF Reserving
  <2>10. asleep' \subseteq wake_up(i) \cup {t}
    BY <2>1
  <2>11. QED
    BY <1>2, <1>14, <2>2, <2>4, <2>6, <2>8, <2>9, <2>10, PipeStep
<1>17. QED
  BY <1>15, <1>16

LEMMA SysRead ==
  ASSUME Inductive, NEW t \in Task, NEW d \in Fd, sys_read(t, d)
  PROVE  Inductive'
<1>1. pc[t] = "user" /\ Open(t, d, "read") /\ UNCHANGED <<descriptors, files, inodes>>
  BY DEF sys_read
<1>2. PICK n \in 1..MaxCount : ReadPipe(t, d, n)
  BY DEF sys_read
<1>3. t \notin asleep /\ ~ Reserving(t)
  BY <1>1, Awake DEF Reserving
<1>4. QED
  BY <1>1, <1>2, <1>3, ReadStep

LEMMA ReadOn ==
  ASSUME Inductive, NEW t \in Task, read_pipe(t)
  PROVE  Inductive'
<1>1. /\ pc[t] = "read" /\ t \notin asleep /\ ReadPipe(t, Least(fds[t]), count[t])
      /\ UNCHANGED <<descriptors, files, inodes>>
  BY DEF read_pipe
<1>2. Call(t) /\ count[t] \in 0..MaxCount
  BY TypesSplit DEF Inductive, Calls, CallTypes
<1>3. PICK d \in Fd : fds[t] = {d} /\ EndOf(filp[t], d, f_mode, "read") /\ count[t] > 0
  BY <1>1, <1>2 DEF Call, InCall
<1>4. Least(fds[t]) = d
  BY <1>3, LeastOfOne DEF Fd
<1>5. Open(t, d, "read") /\ ~ Reserving(t)
  BY <1>1, <1>3 DEF Open, EndOf, Reserving
<1>6. PICK n : n = count[t]
  OBVIOUS
<1>7. n \in 1..MaxCount /\ ReadPipe(t, d, n)
  BY <1>1, <1>2, <1>3, <1>4, <1>6
<1>8. QED
  BY <1>1, <1>5, <1>7, ReadStep

LEMMA SysWrite ==
  ASSUME Inductive, NEW t \in Task, NEW d \in Fd, sys_write(t, d)
  PROVE  Inductive'
<1>1. pc[t] = "user" /\ Open(t, d, "write") /\ UNCHANGED <<descriptors, files, inodes>>
  BY DEF sys_write
<1>2. t \notin asleep /\ ~ Reserving(t)
  BY <1>1, Awake DEF Reserving
<1>3. PICK i : i = f_inode[filp[t][d]]
  OBVIOUS
<1>4. i \in Pipe
  BY <1>1, <1>2, <1>3, EndIs
<1>5. CASE i_count[i] = 2
  <2>1. PICK s \in Message : WritePipe(t, d, s)
    BY <1>3, <1>5 DEF sys_write
  <2>2. s \in Seq(Byte)
    OBVIOUS
  <2>3. QED
    BY <1>1, <1>2, <2>1, <2>2, WriteStep
<1>6. CASE i_count[i] # 2
  <2>1. asleep' = wake_up(i) /\ UNCHANGED <<content, call>>
    BY <1>3, <1>6 DEF sys_write
  <2>2. /\ head' = head /\ tail' = tail /\ ring' = ring
        /\ pc' = pc /\ fds' = fds /\ count' = count /\ buf' = buf
    BY <2>1 DEF content, call
  <2>3. CallTypes' /\ ContentTypes'
    BY <2>2, TypesSplit DEF Inductive, CallTypes, ContentTypes
  <2>4. (\A u \in Task : u # t => SameCall(u)) /\ ~ Reserving(t)'
    BY <1>2, <2>2 DEF SameCall, Reserving
  <2>5. Call(t)'
    BY <1>1, <2>2 DEF Inductive, Calls, Call, InCall
  <2>6. t \notin asleep' /\ asleep' \subseteq wake_up(i) \cup {t}
    BY <1>2, <2>1 DEF wake_up
  <2>7. \A j \in Pipe : j # i => head'[j] = head[j] /\ tail'[j] = tail[j]
    BY <2>2
  <2>8. QED
    BY <1>1, <1>2, <1>4, <2>3, <2>4, <2>5, <2>6, <2>7, PipeStep
<1>7. QED
  BY <1>5, <1>6

LEMMA WriteOn ==
  ASSUME Inductive, NEW t \in Task, write_pipe(t)
  PROVE  Inductive'
<1>1. /\ pc[t] = "write" /\ t \notin asleep /\ WritePipe(t, Least(fds[t]), buf[t])
      /\ UNCHANGED <<descriptors, files, inodes>>
  BY DEF write_pipe
<1>2. Call(t) /\ buf[t] \in Seq(Byte)
  BY TypesSplit DEF Inductive, Calls, CallTypes
<1>3. PICK d \in Fd : fds[t] = {d} /\ EndOf(filp[t], d, f_mode, "write")
  BY <1>1, <1>2 DEF Call, InCall
<1>4. Least(fds[t]) = d
  BY <1>3, LeastOfOne DEF Fd
<1>5. Open(t, d, "write") /\ ~ Reserving(t)
  BY <1>1, <1>3 DEF Open, EndOf, Reserving
<1>6. PICK s : s = buf[t]
  OBVIOUS
<1>7. s \in Seq(Byte) /\ WritePipe(t, d, s)
  BY <1>1, <1>2, <1>4, <1>6
<1>8. QED
  BY <1>1, <1>5, <1>7, WriteStep

-------------------------------------------------------------------------------
(* The theorems. *)

LEMMA InitInductive ==
  ASSUME Init
  PROVE  Inductive
<1>1. /\ filp = [t \in Task |-> [d \in Fd |-> None]]
      /\ close_on_exec = [t \in Task |-> {}]
      /\ f_count = [x \in File |-> 0] /\ f_inode = [x \in File |-> Regular]
      /\ f_mode = [x \in File |-> "file"]
      /\ i_count = [i \in Inode |-> 0] /\ i_pipe = [i \in Pipe |-> FALSE]
      /\ head = [i \in Pipe |-> 0] /\ tail = [i \in Pipe |-> 0]
      /\ ring = [i \in Pipe |-> [n \in 0..PAGE_SIZE - 1 |-> 0]]
      /\ fds = [t \in Task |-> {}] /\ count = [t \in Task |-> 0]
      /\ buf = [t \in Task |-> <<>>] /\ asleep = {}
  BY DEF Init
<1>2. PICK first \in Task : pc = [t \in Task |-> IF t = first THEN "user" ELSE "none"]
  BY DEF Init
<1>3. CallTypes
  BY <1>1, <1>2 DEF CallTypes
<1>4. FileTypes
  BY <1>1 DEF FileTypes, Filp, Row, Inodes, Inode
<1>5. InodeTypes /\ ContentTypes /\ SleepTypes
  BY <1>1 DEF InodeTypes, ContentTypes, SleepTypes
<1>6. TypeOK
  BY <1>3, <1>4, <1>5, TypesSplit
<1>7. \A x \in File, t \in Task, d \in Fd : filp[t][d] # x
  BY <1>1 DEF None, File
<1>8. Exact(filp, f_count) /\ Marked(filp, close_on_exec)
  BY <1>1, <1>7, Unnamed DEF Exact, Marked
<1>9. Calls
  BY <1>1, <1>2 DEF Calls, Call, InCall
<1>10. OpenFiles(f_count, pc, fds, filp) = {}
  BY <1>1 DEF OpenFiles
<1>11. Ends({}, f_inode, f_mode, i_count, i_pipe)
  <2>1. \A i \in Inode : {x \in {} : f_inode[x] = i} = {}
    OBVIOUS
  <2>2. InodesCounted({}, f_inode, i_count)
    BY <1>1, <2>1, FS_EmptySet DEF InodesCounted
  <2>3. Alive(i_count, i_pipe)
    BY <1>1 DEF Alive, Inode
  <2>4. QED
    BY <2>2, <2>3 DEF Ends, TwoEnds, Modes
<1>12. Sleepers
  BY <1>1 DEF Sleepers
<1>13. QED
  BY <1>6, <1>8, <1>9, <1>10, <1>11, <1>12 DEF Inductive

LEMMA StepInductive ==
  ASSUME Inductive, [Next]_vars
  PROVE  Inductive'
<1>1. CASE UNCHANGED vars
  BY <1>1 DEF vars, descriptors, files, inodes, content, call, Inductive, TypeOK, Calls, Call,
              Sleepers
<1>2. ASSUME NEW t \in Task,
             \/ sys_open(t) \/ open_done(t) \/ open_failed(t)
             \/ sys_pipe(t) \/ pipe_done(t) \/ pipe_failed(t)
             \/ execve(t) \/ exec_close(t) \/ do_exit(t) \/ exit_close(t)
             \/ read_pipe(t) \/ write_pipe(t)
      PROVE  Inductive'
  <2>1. CASE open_failed(t) \/ pipe_failed(t)
    BY <2>1, UndoStep DEF open_failed, pipe_failed, Reserving
  <2>2. QED
    BY <1>2, <2>1, SysOpen, OpenDone, SysPipe, PipeDone, Execve, ExecClose, DoExit, ExitClose,
       ReadOn, WriteOn
<1>3. ASSUME NEW t \in Task, NEW d \in Fd,
             sys_close(t, d) \/ sys_fcntl(t, d) \/ sys_read(t, d) \/ sys_write(t, d)
      PROVE  Inductive'
  BY <1>3, SysClose, SysFcntl, SysRead, SysWrite
<1>4. ASSUME NEW t \in Task, NEW d \in Fd, NEW e \in Fd, dupfd(t, d, e) \/ sys_dup2(t, d, e)
      PROVE  Inductive'
  BY <1>4, Dupfd, SysDup2
<1>5. ASSUME NEW t \in Task, NEW u \in Task, fork(t, u)
      PROVE  Inductive'
  BY <1>5, Fork
<1>6. CASE Next
  BY <1>2, <1>3, <1>4, <1>5, <1>6 DEF Next
<1>7. QED
  BY <1>1, <1>6

\* The inductive invariant holds.
THEOREM FilesInvariant == Spec => []Inductive
<1>1. Init => Inductive
  BY InitInductive
<1>2. Inductive /\ [Next]_vars => Inductive'
  BY StepInductive
<1>3. QED
  BY <1>1, <1>2, PTL DEF Spec

\* The types of descriptors, files, inodes and rings; no count goes below 0.
THEOREM FilesTypes == Spec => []TypeOK
<1>1. Inductive => TypeOK
  BY DEF Inductive
<1>2. QED
  BY <1>1, FilesInvariant, PTL

\* f_count is the number of descriptors of the file, and close-on-exec marks are
\* on open descriptors (sys_open, sys_close, dupfd, sys_dup2, copy_process, do_execve, do_exit).
THEOREM FileCountsAreExact == Spec => []FileCounts
<1>1. Inductive => FileCounts
  BY InductiveImplies
<1>2. QED
  BY <1>1, FilesInvariant, PTL

\* i_count is the number of open files of an inode, and a pipe in use has one file
\* for reading and one for writing at most ("i_count != 2" in read_pipe and write_pipe).
THEOREM PipeEndsAreTwo == Spec => []PipeEnds
<1>1. Inductive => PipeEnds
  BY InductiveImplies
<1>2. QED
  BY <1>1, FilesInvariant, PTL

\* Whoever sleeps in read_pipe or write_pipe has nothing to read, or no room, and
\* somebody has the other end open.
THEOREM NobodySleepsIdly == Spec => []NoIdleSleeper
<1>1. Inductive => NoIdleSleeper
  BY InductiveImplies
<1>2. QED
  BY <1>1, FilesInvariant, PTL

-------------------------------------------------------------------------------
(* A pipe is a FIFO. *)

\* What lies in the ring r between l and h.
At(l, n) == (l + n - 1) % PAGE_SIZE
RingBytes(r, h, l) == [n \in 1..Between(h, l) |-> r[At(l, n)]]

LEMMA AtIs ==
  ASSUME NEW l \in 0..PAGE_SIZE - 1, NEW n \in 1..PAGE_SIZE
  PROVE  /\ At(l, n) \in 0..PAGE_SIZE - 1
         /\ At(l, n) = IF l + n - 1 >= PAGE_SIZE THEN l + n - 1 - PAGE_SIZE ELSE l + n - 1
<1>1. PICK k : k = n - 1
  OBVIOUS
<1>2. k \in 0..PAGE_SIZE - 1 /\ l + n - 1 = l + k
  BY <1>1
<1>3. (l + k) % PAGE_SIZE \in 0..PAGE_SIZE - 1
      /\ (l + k) % PAGE_SIZE = IF l + k >= PAGE_SIZE THEN l + k - PAGE_SIZE ELSE l + k
  BY <1>2, MovedIs
<1>4. At(l, n) = (l + k) % PAGE_SIZE
  BY <1>2 DEF At
<1>5. QED
  BY <1>2, <1>3, <1>4

Ring == [0..PAGE_SIZE - 1 -> Byte]

LEMMA RingBytesIs ==
  ASSUME NEW r \in Ring, NEW h \in 0..PAGE_SIZE - 1, NEW l \in 0..PAGE_SIZE - 1
  PROVE  /\ RingBytes(r, h, l) \in Seq(Byte) /\ Len(RingBytes(r, h, l)) = Between(h, l)
         /\ Between(h, l) \in 0..PAGE_SIZE - 1
         /\ \A n \in 1..Between(h, l) : RingBytes(r, h, l)[n] = r[At(l, n)]
<1>1. Between(h, l) \in 0..PAGE_SIZE - 1
  BY BetweenIs
<1>2. ASSUME NEW n \in 1..Between(h, l)
      PROVE  At(l, n) \in 0..PAGE_SIZE - 1
  <2>1. n \in 1..PAGE_SIZE
    BY <1>1
  <2>2. QED
    BY ONLY <2>1, l \in 0..PAGE_SIZE - 1, AtIs
<1>3. ASSUME NEW n \in 1..Between(h, l)
      PROVE  r[At(l, n)] \in Byte
  <2>1. PICK a : a = At(l, n)
    OBVIOUS
  <2>2. a \in 0..PAGE_SIZE - 1 /\ r \in [0..PAGE_SIZE - 1 -> Byte]
    BY <1>2, <2>1 DEF Ring
  <2>3. QED
    BY ONLY <2>1, <2>2
<1>4. PICK b : b = Between(h, l)
  OBVIOUS
<1>5. RingBytes(r, h, l) \in [1..b -> Byte] /\ b \in Nat
  BY <1>1, <1>3, <1>4 DEF RingBytes
<1>6. RingBytes(r, h, l) \in Seq(Byte) /\ Len(RingBytes(r, h, l)) = b
  BY <1>5
<1>7. QED
  BY <1>1, <1>4, <1>6 DEF RingBytes

\* Distances on a ring.
Around(x) == IF x < 0 THEN x + PAGE_SIZE ELSE IF x >= PAGE_SIZE THEN x - PAGE_SIZE ELSE x

\* a is place n from l on; a is place n from the place k after l on.
PutAt(h, l, n, a, b, k) == /\ h \in 0..PAGE_SIZE - 1 /\ l \in 0..PAGE_SIZE - 1 /\ n \in 1..PAGE_SIZE
                           /\ a = Around(l + n - 1) /\ b = Around(h - l)
                           /\ k \in 0..PAGE_SIZE - 1 - b
GetAt(l, n, g, a, k) == /\ l \in 0..PAGE_SIZE - 1 /\ k \in 0..PAGE_SIZE - 1
                        /\ n \in 1..PAGE_SIZE /\ k + n <= PAGE_SIZE
                        /\ g = Around(l + k) /\ a = Around(g + n - 1)

LEMMA PutPlace ==
  ASSUME NEW h, NEW l, NEW n, NEW a, NEW b, NEW k, PutAt(h, l, n, a, b, k)
  PROVE  /\ n <= b => ~ (Around(a - h) < k)
         /\ n > b => Around(a - h) = n - b - 1
BY DEF PutAt, Around

LEMMA GetPlace ==
  ASSUME NEW l, NEW n, NEW g, NEW a, NEW k, GetAt(l, n, g, a, k)
  PROVE  a = Around(l + k + n - 1) /\ Around(a - l) = k + n - 1
BY DEF GetAt, Around

LEMMA BetweenAround ==
  ASSUME NEW h \in 0..PAGE_SIZE - 1, NEW l \in 0..PAGE_SIZE - 1
  PROVE  Between(h, l) = Around(h - l) /\ Between(h, l) \in 0..PAGE_SIZE - 1
<1>1. Between(h, l) \in 0..PAGE_SIZE - 1
      /\ Between(h, l) = IF h >= l THEN h - l ELSE h - l + PAGE_SIZE
  BY BetweenIs
<1>2. QED
  BY <1>1 DEF Around

LEMMA AtAround ==
  ASSUME NEW l \in 0..PAGE_SIZE - 1, NEW n \in 1..PAGE_SIZE
  PROVE  At(l, n) = Around(l + n - 1) /\ At(l, n) \in 0..PAGE_SIZE - 1
<1>1. /\ At(l, n) \in 0..PAGE_SIZE - 1
      /\ At(l, n) = IF l + n - 1 >= PAGE_SIZE THEN l + n - 1 - PAGE_SIZE ELSE l + n - 1
  BY AtIs
<1>2. QED
  BY <1>1 DEF Around

\* z is r after s has been put at h, or k bytes have been taken at l.
PutInto(r, z, h, s) == \A m \in 0..PAGE_SIZE - 1 :
                         z[m] = IF Between(m, h) < Len(s) THEN s[Between(m, h) + 1] ELSE r[m]
PutAll(r, z, h, l, g, s) ==
  /\ r \in Ring /\ z \in Ring /\ h \in 0..PAGE_SIZE - 1 /\ l \in 0..PAGE_SIZE - 1
  /\ s \in Seq(Byte) /\ Len(s) \in 0..PAGE_SIZE - 1 - Between(h, l)
  /\ PutInto(r, z, h, s) /\ g = (h + Len(s)) % PAGE_SIZE
TakenFrom(r, z, l, k) == \A m \in 0..PAGE_SIZE - 1 :
                           z[m] = IF Between(m, l) < k THEN 0 ELSE r[m]

LEMMA RingPut ==
  ASSUME NEW r, NEW z, NEW h, NEW l, NEW g, NEW s, PutAll(r, z, h, l, g, s)
  PROVE  RingBytes(z, g, l) = RingBytes(r, h, l) \o s
<1>0. PICK k : k = Len(s)
  OBVIOUS
<1> r \in Ring /\ z \in Ring /\ h \in 0..PAGE_SIZE - 1 /\ l \in 0..PAGE_SIZE - 1
  BY DEF PutAll
<1> s \in Seq(Byte) /\ k = Len(s) /\ k \in 0..PAGE_SIZE - 1 - Between(h, l)
  BY <1>0 DEF PutAll
<1> PutInto(r, z, h, s) /\ g = (h + k) % PAGE_SIZE
  BY <1>0 DEF PutAll
<1>1. PICK b, q, p : b = Between(h, l) /\ q = RingBytes(r, h, l) /\ p = RingBytes(z, g, l)
  OBVIOUS
<1>2. b = Around(h - l) /\ b \in 0..PAGE_SIZE - 1 /\ k \in 0..PAGE_SIZE - 1 - b
  BY <1>1, BetweenAround
<1>3. k \in 0..PAGE_SIZE - 1
  BY <1>2
<1>4. g \in 0..PAGE_SIZE - 1
  BY <1>3, MovedIs
<1>5. Between(g, l) = b + k
  BY <1>1, HeadMoves
<1>6. q \in Seq(Byte) /\ Len(q) = b /\ \A n \in 1..b : q[n] = r[At(l, n)]
  <2>1. /\ RingBytes(r, h, l) \in Seq(Byte) /\ Len(RingBytes(r, h, l)) = Between(h, l)
        /\ \A n \in 1..Between(h, l) : RingBytes(r, h, l)[n] = r[At(l, n)]
    BY ONLY r \in Ring, h \in 0..PAGE_SIZE - 1, l \in 0..PAGE_SIZE - 1, RingBytesIs
  <2>2. QED
    BY ONLY <1>1, <2>1
<1>7. p \in Seq(Byte) /\ Len(p) = b + k /\ \A n \in 1..b + k : p[n] = z[At(l, n)]
  <2>1. /\ RingBytes(z, g, l) \in Seq(Byte) /\ Len(RingBytes(z, g, l)) = Between(g, l)
        /\ \A n \in 1..Between(g, l) : RingBytes(z, g, l)[n] = z[At(l, n)]
    BY ONLY <1>4, z \in Ring, l \in 0..PAGE_SIZE - 1, RingBytesIs
  <2>2. Between(g, l) = b + k /\ p = RingBytes(z, g, l)
    BY ONLY <1>1, <1>5
  <2>3. QED
    BY ONLY <2>1, <2>2
<1>8. /\ q \o s \in Seq(Byte) /\ Len(q \o s) = b + k
      /\ \A n \in 1..b + k : (q \o s)[n] = IF n <= b THEN q[n] ELSE s[n - b]
  <2>1. /\ q \o s \in Seq(Byte) /\ Len(q \o s) = Len(q) + Len(s)
        /\ \A n \in 1..Len(q) + Len(s) : (q \o s)[n] = IF n <= Len(q) THEN q[n] ELSE s[n - Len(q)]
    <3>1. q \in Seq(Byte) /\ s \in Seq(Byte)
      BY <1>6
    <3>2. QED
      BY ONLY <3>1, ConcatProperties
  <2>2. k = Len(s)
    OBVIOUS
  <2>3. QED
    BY ONLY <1>6, <2>1, <2>2
<1>9. ASSUME NEW n \in 1..b + k
      PROVE  p[n] = (q \o s)[n]
  <2>1. n \in 1..PAGE_SIZE
    BY <1>2
  <2>2. PICK a : a = At(l, n)
    OBVIOUS
  <2>3. a = Around(l + n - 1) /\ a \in 0..PAGE_SIZE - 1
    BY <2>1, <2>2, AtAround
  <2>4. Between(a, h) = Around(a - h)
    BY <2>3, BetweenAround
  <2>5. /\ n <= b => ~ (Between(a, h) < k)
        /\ n > b => Between(a, h) = n - b - 1
    <3>1. h \in 0..PAGE_SIZE - 1 /\ l \in 0..PAGE_SIZE - 1 /\ PAGE_SIZE \in Nat
      OBVIOUS
    <3>2. /\ n <= b => ~ (Around(a - h) < k)
          /\ n > b => Around(a - h) = n - b - 1
      <4>1. PutAt(h, l, n, a, b, k)
        BY ONLY <1>2, <2>1, <2>3, <3>1 DEF PutAt
      <4>2. QED
        BY ONLY <4>1, PutPlace
    <3>3. QED
      BY ONLY <2>4, <3>2
  <2>6. z[a] = IF Between(a, h) < k THEN s[Between(a, h) + 1] ELSE r[a]
    BY <2>3 DEF PutInto
  <2>7. p[n] = z[a]
    BY <1>7, <1>9, <2>2
  <2>8. (q \o s)[n] = IF n <= b THEN q[n] ELSE s[n - b]
    BY <1>8, <1>9
  <2>9. CASE n <= b
    <3>1. q[n] = r[a]
      BY <1>2, <1>6, <2>1, <2>2, <2>9
    <3>2. ~ (Between(a, h) < k)
      BY ONLY <2>5, <2>9
    <3>3. z[a] = r[a]
      BY ONLY <2>6, <3>2
    <3>4. QED
      BY ONLY <2>7, <2>8, <2>9, <3>1, <3>3
  <2>10. CASE n > b
    <3>1. Between(a, h) < k /\ Between(a, h) + 1 = n - b /\ ~ (n <= b)
      BY ONLY <1>2, <1>3, <1>9, <2>1, <2>5, <2>10, FilesAssumption
    <3>2. z[a] = s[n - b]
      BY ONLY <2>6, <3>1
    <3>3. QED
      BY ONLY <2>7, <2>8, <3>1, <3>2
  <2>11. n <= b \/ n > b
    BY ONLY <1>2, <2>1, FilesAssumption
  <2>12. QED
    BY ONLY <2>9, <2>10, <2>11
<1>10. p = q \o s
  BY <1>7, <1>8, <1>9, SeqEqual
<1>11. QED
  BY <1>1, <1>10

LEMMA SubSeqFrom ==
  ASSUME NEW S, NEW q \in Seq(S), NEW b, b = Len(q), NEW k \in 0..b
  PROVE  /\ SubSeq(q, k + 1, b) \in Seq(S) /\ Len(SubSeq(q, k + 1, b)) = b - k
         /\ \A n \in 1..b - k : SubSeq(q, k + 1, b)[n] = q[k + n]
OBVIOUS

LEMMA RingGet ==
  ASSUME NEW r \in Ring, NEW h \in 0..PAGE_SIZE - 1, NEW l \in 0..PAGE_SIZE - 1,
         NEW k \in 0..Between(h, l), NEW z \in Ring,
         TakenFrom(r, z, l, k),
         NEW g, g = (l + k) % PAGE_SIZE
  PROVE  RingBytes(z, h, g) = SubSeq(RingBytes(r, h, l), k + 1, Len(RingBytes(r, h, l)))
<1>1. PICK b, q, p : b = Between(h, l) /\ q = RingBytes(r, h, l) /\ p = RingBytes(z, h, g)
  OBVIOUS
<1>2. b \in 0..PAGE_SIZE - 1 /\ k \in 0..b
  BY <1>1, BetweenAround
<1>3. k \in 0..PAGE_SIZE - 1
  BY <1>2
<1>4. /\ g \in 0..PAGE_SIZE - 1
      /\ g = IF l + k >= PAGE_SIZE THEN l + k - PAGE_SIZE ELSE l + k
  BY <1>3, MovedIs
<1>5. g = Around(l + k)
  BY <1>3, <1>4 DEF Around
<1>6. Between(h, g) = b - k
  BY <1>1, TailMoves
<1>7. q \in Seq(Byte) /\ Len(q) = b /\ \A n \in 1..b : q[n] = r[At(l, n)]
  <2>1. /\ RingBytes(r, h, l) \in Seq(Byte) /\ Len(RingBytes(r, h, l)) = Between(h, l)
        /\ \A n \in 1..Between(h, l) : RingBytes(r, h, l)[n] = r[At(l, n)]
    BY ONLY r \in Ring, h \in 0..PAGE_SIZE - 1, l \in 0..PAGE_SIZE - 1, RingBytesIs
  <2>2. QED
    BY ONLY <1>1, <2>1
<1>8. p \in Seq(Byte) /\ Len(p) = b - k /\ \A n \in 1..b - k : p[n] = z[At(g, n)]
  <2>1. /\ RingBytes(z, h, g) \in Seq(Byte) /\ Len(RingBytes(z, h, g)) = Between(h, g)
        /\ \A n \in 1..Between(h, g) : RingBytes(z, h, g)[n] = z[At(g, n)]
    BY ONLY <1>4, z \in Ring, h \in 0..PAGE_SIZE - 1, RingBytesIs
  <2>2. QED
    BY ONLY <1>1, <1>6, <2>1
<1>9. PICK o : o = SubSeq(q, k + 1, b)
  OBVIOUS
<1>10. o \in Seq(Byte) /\ Len(o) = b - k /\ \A n \in 1..b - k : o[n] = q[k + n]
  BY ONLY <1>2, <1>7, <1>9, SubSeqFrom
<1>11. ASSUME NEW n \in 1..b - k
       PROVE  p[n] = o[n]
  <2>1. n \in 1..PAGE_SIZE /\ k + n \in 1..b /\ k + n \in 1..PAGE_SIZE /\ k + n <= PAGE_SIZE
    BY ONLY <1>2, <1>3, <1>11, FilesAssumption
  <2>2. PICK a, j, c : a = At(g, n) /\ j = k + n /\ c = At(l, j)
    OBVIOUS
  <2>3. a = Around(g + n - 1) /\ a \in 0..PAGE_SIZE - 1
    BY <1>4, <2>1, <2>2, AtAround
  <2>4. c = Around(l + j - 1)
    BY <2>1, <2>2, AtAround
  <2>5. a = Around(l + k + n - 1) /\ Around(a - l) = k + n - 1
    <3>1. l \in 0..PAGE_SIZE - 1 /\ PAGE_SIZE \in Nat
      OBVIOUS
    <3>2. GetAt(l, n, g, a, k)
      BY ONLY <1>3, <1>5, <2>1, <2>3, <3>1 DEF GetAt
    <3>3. QED
      BY ONLY <3>2, GetPlace
  <2>6. a = c
    <3>1. l + k + n - 1 = l + j - 1
      BY ONLY <1>3, <2>1, <2>2, l \in 0..PAGE_SIZE - 1, FilesAssumption
    <3>2. QED
      BY <2>4, <2>5, <3>1
  <2>7. Between(a, l) = k + n - 1
    BY <2>3, <2>5, BetweenAround
  <2>8. ~ (Between(a, l) < k)
    BY ONLY <1>3, <2>1, <2>7, FilesAssumption
  <2>9. z[a] = r[a]
    BY <2>3, <2>8 DEF TakenFrom
  <2>10. q[j] = r[c]
    BY <1>7, <2>1, <2>2
  <2>11. QED
    BY <1>8, <1>10, <1>11, <2>2, <2>6, <2>9, <2>10
<1>12. p = o
  BY <1>8, <1>10, <1>11, SeqEqual
<1>13. QED
  BY <1>1, <1>7, <1>9, <1>12

\* What happens to pipe i is a step of the FIFO, or nothing.
View(i) == <<Content(i), head[i], tail[i], i_pipe[i]>>
FifoStep(i) == F(i)!Next \/ UNCHANGED View(i)

LEMMA ContentIs ==
  ASSUME NEW i \in Pipe
  PROVE  Content(i) = IF i_pipe[i] THEN RingBytes(ring[i], head[i], tail[i]) ELSE <<>>
BY DEF Content, RingBytes, Size, Between, At

LEMMA ContentIsNext ==
  ASSUME NEW i \in Pipe
  PROVE  Content(i)' = IF i_pipe'[i] THEN RingBytes(ring'[i], head'[i], tail'[i]) ELSE <<>>
BY DEF Content, RingBytes, Size, Between, At

LEMMA FifoQuiet ==
  ASSUME NEW i \in Pipe, head'[i] = head[i], tail'[i] = tail[i], ring'[i] = ring[i],
         i_pipe'[i] = i_pipe[i]
  PROVE  FifoStep(i)
<1>1. Content(i)' = Content(i)
  BY ContentIs, ContentIsNext
<1>2. QED
  BY <1>1 DEF FifoStep, View

\* The last close destroys the pipe and leaves other pipes alone.
LEMMA PutIsFifo ==
  ASSUME Inductive, NEW x \in File, PutLast(x), UNCHANGED content, NEW i \in Pipe
  PROVE  FifoStep(i)
<1>1. head' = head /\ tail' = tail /\ ring' = ring
  BY DEF content
<1>2. /\ i_pipe \in [Pipe -> BOOLEAN] /\ f_inode[x] \in Inode
      /\ i_pipe[i] <=> i_count[i] > 0
  BY TypesSplit DEF Inductive, InodeTypes, FileTypes, Inodes, Ends, Alive
<1>3. CASE i_pipe'[i] = i_pipe[i]
  BY <1>1, <1>3, FifoQuiet
<1>4. CASE i_pipe'[i] # i_pipe[i]
  <2>1. f_count[x] = 1
    BY <1>4 DEF PutLast, inodes
  <2>2. i_pipe' = PutPipe(i_count, i_pipe, f_inode[x])
    BY <2>1, IputIs DEF PutLast
  <2>3. f_inode[x] = i /\ i_count[i] = 1
    BY <1>2, <1>4, <2>2 DEF PutPipe
  <2>4. i_pipe[i] = TRUE /\ i_pipe'[i] = FALSE
    BY <1>2, <2>2, <2>3 DEF PutPipe
  <2>5. Content(i)' = <<>>
    BY <2>4, ContentIsNext
  <2>6. F(i)!Destroy
    BY <1>1, <2>4, <2>5 DEF F!Destroy
  <2>7. QED
    BY <2>6 DEF F!Next, FifoStep
<1>5. QED
  BY <1>3, <1>4

\* A new pipe is empty.
LEMMA PipeDoneIsFifo ==
  ASSUME Inductive, NEW t \in Task, pipe_done(t), NEW j \in Pipe
  PROVE  FifoStep(j)
<1>1. PICK i \in Pipe :
        /\ i_count[i] = 0
        /\ i_pipe' = [i_pipe EXCEPT ![i] = TRUE]
        /\ head' = [head EXCEPT ![i] = 0]
        /\ tail' = [tail EXCEPT ![i] = 0]
        /\ ring' = [ring EXCEPT ![i] = [n \in DOMAIN @ |-> 0]]
  BY DEF pipe_done
<1>2. /\ i_pipe \in [Pipe -> BOOLEAN] /\ (i_pipe[i] <=> i_count[i] > 0)
      /\ ContentTypes
  BY TypesSplit DEF Inductive, InodeTypes, Ends, Alive
<1>3. CASE j # i
  <2>1. /\ head'[j] = head[j] /\ tail'[j] = tail[j] /\ ring'[j] = ring[j]
        /\ i_pipe'[j] = i_pipe[j]
    BY <1>1, <1>2, <1>3 DEF ContentTypes
  <2>2. QED
    BY <2>1, FifoQuiet
<1>4. CASE j = i
  <2>1. ~ (i_count[i] > 0) /\ i_pipe[i] \in BOOLEAN
    BY <1>1, <1>2
  <2>2. i_pipe[i] = FALSE
    BY <1>2, <2>1
  <2>3. i_pipe'[i] = TRUE
    BY <1>1, <1>2
  <2>4. head'[i] = 0 /\ tail'[i] = 0
    BY ONLY <1>1, <1>2 DEF ContentTypes
  <2>5. Between(0, 0) = 0
    <3>1. 0 \in 0..PAGE_SIZE - 1
      OBVIOUS
    <3>2. QED
      BY <3>1, BetweenIs
  <2>6. RingBytes(ring'[i], 0, 0) = <<>>
    BY <2>5 DEF RingBytes
  <2>7. Content(i)' = <<>>
    BY <2>3, <2>4, <2>6, ContentIsNext
  <2>8. F(i)!Create
    BY <2>2, <2>3, <2>4, <2>7 DEF F!Create
  <2>9. QED
    BY <1>4, <2>8 DEF F!Next, FifoStep
<1>5. QED
  BY <1>3, <1>4

\* An end that is open makes the pipe alive.
LEMMA EndAlive ==
  ASSUME Inductive, NEW t \in Task, NEW d \in Fd, NEW mode \in {"read", "write"},
         ~ Reserving(t), Open(t, d, mode)
  PROVE  i_pipe[f_inode[filp[t][d]]] = TRUE
<1>1. PICK x, i : x = filp[t][d] /\ i = f_inode[x]
  OBVIOUS
<1>2. x \in File /\ IsOpen(x) /\ i \in Pipe
  BY <1>1, Owned, EndIs DEF Open
<1>3. PICK O : O = OpenFiles(f_count, pc, fds, filp)
  OBVIOUS
<1>4. O \in SUBSET File /\ x \in EndsOn(O, f_inode, i)
  BY <1>1, <1>2, <1>3 DEF OpenFiles, IsOpen, EndsOn
<1>5. EndsOn(O, f_inode, i) \in SUBSET File
  BY <1>4 DEF EndsOn
<1>6. Cardinality(EndsOn(O, f_inode, i)) >= 1
  BY ONLY <1>4, <1>5, Finite, Counted
<1>7. i_count[i] = Cardinality(EndsOn(O, f_inode, i)) /\ i_count[i] \in Nat
  BY <1>2, <1>3, TypesSplit DEF Inductive, Ends, InodesCounted, EndsOn, Inode, InodeTypes
<1>8. i_pipe \in [Pipe -> BOOLEAN] /\ (i_pipe[i] <=> i_count[i] > 0)
  BY <1>2, TypesSplit DEF Inductive, InodeTypes, Ends, Alive
<1>9. QED
  BY <1>1, <1>2, <1>6, <1>7, <1>8

LEMMA ReadIsFifo ==
  ASSUME Inductive, NEW t \in Task, NEW d \in Fd, NEW n \in 1..MaxCount,
         ~ Reserving(t), Open(t, d, "read"), ReadPipe(t, d, n), UNCHANGED inodes,
         NEW j \in Pipe
  PROVE  FifoStep(j)
<1>1. PICK i : i = f_inode[filp[t][d]]
  OBVIOUS
<1>2. i \in Pipe /\ i_pipe[i] = TRUE /\ i_pipe' = i_pipe
  BY <1>1, EndIs, EndAlive DEF inodes
<1>3. ContentTypes
  BY TypesSplit DEF Inductive
<1>4. PICK h, l, r, k : h = head[i] /\ l = tail[i] /\ r = ring[i] /\ k = Smaller(n, Size(i))
  OBVIOUS
<1>5. /\ h \in 0..PAGE_SIZE - 1 /\ l \in 0..PAGE_SIZE - 1 /\ r \in Ring
      /\ DOMAIN r = 0..PAGE_SIZE - 1
  BY <1>2, <1>3, <1>4 DEF ContentTypes, Ring
<1>6. Size(i) = Between(h, l) /\ Between(h, l) \in 0..PAGE_SIZE - 1 /\ k \in 0..Between(h, l)
  <2>1. Size(i) = Between(h, l) /\ Between(h, l) \in 0..PAGE_SIZE - 1
    BY <1>4, <1>5, BetweenIs DEF Size, Between
  <2>2. QED
    BY <1>4, <2>1 DEF Smaller
<1>7. CASE UNCHANGED content
  BY <1>2, <1>7, FifoQuiet DEF content
<1>8. CASE k > 0
  <2>1. PICK g, z : /\ g = (l + k) % PAGE_SIZE
                    /\ z = [m \in DOMAIN r |-> IF (m - l) % PAGE_SIZE < k THEN 0 ELSE r[m]]
    OBVIOUS
  <2>2. tail' = [tail EXCEPT ![i] = g] /\ ring' = [ring EXCEPT ![i] = z] /\ head' = head
    <3>1. k # 0
      BY <1>8
    <3>2. QED
      BY <1>1, <1>4, <2>1, <3>1 DEF ReadPipe
  <2>3. CASE j # i
    <3>1. /\ head'[j] = head[j] /\ tail'[j] = tail[j] /\ ring'[j] = ring[j]
          /\ i_pipe'[j] = i_pipe[j]
      BY <1>2, <1>3, <2>2, <2>3 DEF ContentTypes
    <3>2. QED
      BY <3>1, FifoQuiet
  <2>4. CASE j = i
    <3>1. head'[i] = h /\ tail'[i] = g /\ ring'[i] = z /\ i_pipe'[i] = TRUE
      BY <1>2, <1>3, <1>4, <2>2 DEF ContentTypes
    <3>2. z \in Ring
      <4>1. 0 \in Byte
        OBVIOUS
      <4>2. QED
        BY ONLY <1>5, <2>1, <4>1 DEF Ring
    <3>3. TakenFrom(r, z, l, k)
      BY ONLY <1>5, <2>1 DEF Between, TakenFrom
    <3>4. RingBytes(z, h, g) = SubSeq(RingBytes(r, h, l), k + 1, Len(RingBytes(r, h, l)))
      <4>1. g = (l + k) % PAGE_SIZE
        BY <2>1
      <4>2. h \in 0..PAGE_SIZE - 1 /\ l \in 0..PAGE_SIZE - 1 /\ r \in Ring /\ k \in 0..Between(h, l)
        BY <1>5, <1>6
      <4>3. QED
        BY ONLY <3>2, <3>3, <4>1, <4>2, RingGet
    <3>5. PICK q, p : q = RingBytes(r, h, l) /\ p = RingBytes(z, h, g)
      OBVIOUS
    <3>6. Content(i) = q /\ Content(i)' = p
      BY <1>2, <1>4, <3>1, <3>5, ContentIs, ContentIsNext
    <3>7. Len(q) = Between(h, l)
      BY <1>5, <3>5, RingBytesIs
    <3>8. k \in 1..Len(q)
      BY <1>6, <1>8, <3>7
    <3>9. p = SubSeq(q, k + 1, Len(q))
      BY <3>4, <3>5
    <3>10. (PAGE_SIZE - 1) + 1 = PAGE_SIZE
      OBVIOUS
    <3>11. tail'[i] = (tail[i] + k) % PAGE_SIZE /\ head'[i] = head[i] /\ i_pipe'[i] = i_pipe[i]
      BY <1>2, <1>4, <2>1, <3>1
    <3>12. F(i)!Get
      BY <1>2, <3>6, <3>8, <3>9, <3>10, <3>11 DEF F!Get
    <3>13. QED
      BY <2>4, <3>12 DEF F!Next, FifoStep
  <2>5. QED
    BY <2>3, <2>4
<1>9. k = 0 => UNCHANGED content
  BY <1>1, <1>4 DEF ReadPipe
<1>10. QED
  BY <1>6, <1>7, <1>8, <1>9

LEMMA WriteIsFifo ==
  ASSUME Inductive, NEW t \in Task, NEW d \in Fd, NEW s \in Seq(Byte),
         ~ Reserving(t), Open(t, d, "write"), WritePipe(t, d, s), UNCHANGED inodes,
         NEW j \in Pipe
  PROVE  FifoStep(j)
<1>1. PICK i : i = f_inode[filp[t][d]]
  OBVIOUS
<1>2. i \in Pipe /\ i_pipe[i] = TRUE /\ i_pipe' = i_pipe
  BY <1>1, EndIs, EndAlive DEF inodes
<1>3. ContentTypes
  BY TypesSplit DEF Inductive
<1>4. PICK h, l, r, k, chunk : /\ h = head[i] /\ l = tail[i] /\ r = ring[i]
                               /\ k = Smaller(Len(s), PAGE_SIZE - 1 - Size(i))
                               /\ chunk = SubSeq(s, 1, k)
  OBVIOUS
<1>5. /\ h \in 0..PAGE_SIZE - 1 /\ l \in 0..PAGE_SIZE - 1 /\ r \in Ring
      /\ DOMAIN r = 0..PAGE_SIZE - 1
  BY <1>2, <1>3, <1>4 DEF ContentTypes, Ring
<1>6. Size(i) = Between(h, l) /\ Between(h, l) \in 0..PAGE_SIZE - 1
  BY <1>4, <1>5, BetweenIs DEF Size, Between
<1>7. k \in 0..Len(s) /\ k \in 0..PAGE_SIZE - 1 - Between(h, l) /\ k \in 0..PAGE_SIZE - 1
  BY <1>4, <1>6 DEF Smaller
<1>8. chunk \in Seq(Byte) /\ Len(chunk) = k
  BY <1>4, <1>7, SplitMessage
<1>9. Fill(i, chunk)
  BY <1>1, <1>4 DEF WritePipe
<1>10. PICK g, z : /\ g = (h + k) % PAGE_SIZE
                   /\ z = [m \in DOMAIN r |->
                             LET n == (m - h) % PAGE_SIZE
                             IN IF n < Len(chunk) THEN chunk[n + 1] ELSE r[m]]
  OBVIOUS
<1>11. head' = [head EXCEPT ![i] = g] /\ ring' = [ring EXCEPT ![i] = z] /\ tail' = tail
  BY <1>4, <1>8, <1>9, <1>10 DEF Fill
<1>12. CASE j # i
  <2>1. /\ head'[j] = head[j] /\ tail'[j] = tail[j] /\ ring'[j] = ring[j]
        /\ i_pipe'[j] = i_pipe[j]
    BY <1>2, <1>3, <1>11, <1>12 DEF ContentTypes
  <2>2. QED
    BY <2>1, FifoQuiet
<1>13. CASE j = i
  <2>1. head'[i] = g /\ tail'[i] = l /\ ring'[i] = z /\ i_pipe'[i] = TRUE
    BY <1>2, <1>3, <1>4, <1>11 DEF ContentTypes
  <2>2. PutInto(r, z, h, chunk)
    BY ONLY <1>5, <1>10 DEF Between, PutInto
  <2>3. z \in Ring
    <3>1. ASSUME NEW m \in 0..PAGE_SIZE - 1
          PROVE  z[m] \in Byte
      <4>1. Between(m, h) \in 0..PAGE_SIZE - 1 /\ r[m] \in Byte
        BY <1>5, BetweenIs DEF Ring
      <4>0. z[m] = IF Between(m, h) < k THEN chunk[Between(m, h) + 1] ELSE r[m]
        BY <1>8, <2>2 DEF PutInto
      <4>2. CASE Between(m, h) < k
        <5>1. Between(m, h) + 1 \in 1..Len(chunk)
          BY <1>7, <1>8, <4>1, <4>2
        <5>2. chunk[Between(m, h) + 1] \in Byte
          BY <1>8, <5>1
        <5>3. QED
          BY <4>0, <4>2, <5>2
      <4>3. CASE ~ (Between(m, h) < k)
        BY <4>0, <4>1, <4>3
      <4>4. QED
        BY <4>2, <4>3
    <3>2. z = [m \in 0..PAGE_SIZE - 1 |-> z[m]]
      BY <1>5, <1>10
    <3>3. QED
      BY ONLY <3>1, <3>2 DEF Ring
  <2>4. RingBytes(z, g, l) = RingBytes(r, h, l) \o chunk
    <3>1. k = Len(chunk)
      BY <1>8
    <3>2. g = (h + k) % PAGE_SIZE
      BY <1>10
    <3>3. /\ h \in 0..PAGE_SIZE - 1 /\ l \in 0..PAGE_SIZE - 1 /\ r \in Ring /\ chunk \in Seq(Byte)
          /\ k \in 0..PAGE_SIZE - 1 - Between(h, l)
      BY <1>5, <1>7, <1>8
    <3>4. PutAll(r, z, h, l, g, chunk)
      BY ONLY <2>2, <2>3, <3>1, <3>2, <3>3 DEF PutAll
    <3>5. QED
      BY ONLY <3>4, RingPut
  <2>5. PICK q, p : q = RingBytes(r, h, l) /\ p = RingBytes(z, g, l)
    OBVIOUS
  <2>6. Content(i) = q /\ Content(i)' = p
    BY <1>2, <1>4, <2>1, <2>5, ContentIs, ContentIsNext
  <2>7. Len(q) = Between(h, l) /\ q \in Seq(Byte)
    BY <1>5, <2>5, RingBytesIs
  <2>8. p = q \o chunk
    BY <2>4, <2>5
  <2>9. head'[i] = (head[i] + k) % PAGE_SIZE /\ tail'[i] = tail[i] /\ i_pipe'[i] = i_pipe[i]
    BY <1>2, <1>4, <1>10, <2>1
  <2>10. CASE k = 0
    <3>1. chunk = <<>>
      BY <1>8, <2>10
    <3>2. p = q
      BY <2>7, <2>8, <3>1, ConcatEmptySeq
    <3>3. (h + 0) % PAGE_SIZE = h
      <4>1. 0 \in 0..PAGE_SIZE - 1
        OBVIOUS
      <4>2. (h + 0) % PAGE_SIZE = IF h + 0 >= PAGE_SIZE THEN h + 0 - PAGE_SIZE ELSE h + 0
        BY ONLY <1>5, <4>1, MovedIs
      <4>3. QED
        BY <1>5, <4>2
    <3>4. head'[i] = head[i]
      BY <1>4, <2>9, <2>10, <3>3
    <3>5. QED
      BY <1>13, <2>6, <2>9, <3>2, <3>4 DEF FifoStep, View
  <2>11. CASE k > 0
    <3>1. (PAGE_SIZE - 1) + 1 = PAGE_SIZE
      OBVIOUS
    <3>2. k \in 1..(PAGE_SIZE - 1) - Len(q)
      BY <1>6, <1>7, <2>7, <2>11
    <3>3. chunk \in [1..k -> Byte]
      BY <1>8
    <3>4. F(i)!Put
      BY <1>2, <2>6, <2>8, <2>9, <3>1, <3>2, <3>3 DEF F!Put
    <3>5. QED
      BY <1>13, <3>4 DEF F!Next, FifoStep
  <2>12. QED
    BY <1>7, <2>10, <2>11
<1>14. QED
  BY <1>12, <1>13

LEMMA NothingIsFifo ==
  ASSUME UNCHANGED <<i_pipe, content>>, NEW i \in Pipe
  PROVE  FifoStep(i)
BY FifoQuiet DEF content

LEMMA CloseIsFifo ==
  ASSUME Inductive, NEW t \in Task, pc[t] \in {"user", "exec", "exit"}, NEW d \in Fd,
         filp[t][d] # None, CloseFd(t, d), NEW i \in Pipe
  PROVE  FifoStep(i)
<1>1. PICK x : x = filp[t][d]
  OBVIOUS
<1>2. x \in File
  BY <1>1, Owned DEF Reserving
<1>3. PutLast(x) /\ UNCHANGED content
  BY <1>1 DEF CloseFd, PutLast
<1>4. QED
  BY <1>2, <1>3, PutIsFifo

LEMMA ExecCloseIsFifo ==
  ASSUME Inductive, NEW t \in Task, exec_close(t), NEW i \in Pipe
  PROVE  FifoStep(i)
<1>1. PICK d : d = Least(close_on_exec[t])
  OBVIOUS
<1>2. pc[t] = "exec" /\ CloseFd(t, d)
  BY <1>1 DEF exec_close
<1>3. close_on_exec[t] # {}
  BY <1>2 DEF Inductive, Calls, Call, InCall
<1>4. close_on_exec[t] \in SUBSET Fd
  BY TypesSplit DEF Inductive, FileTypes
<1>5. d \in close_on_exec[t] /\ d \in Fd
  <2>1. close_on_exec[t] \in SUBSET Nat
    BY <1>4 DEF Fd
  <2>2. QED
    BY <1>1, <1>3, <1>4, <2>1, LeastIs
<1>6. filp[t][d] # None
  BY <1>5 DEF Inductive, Marked
<1>7. QED
  BY <1>2, <1>5, <1>6, CloseIsFifo

LEMMA ExitCloseIsFifo ==
  ASSUME Inductive, NEW t \in Task, exit_close(t), NEW i \in Pipe
  PROVE  FifoStep(i)
<1>1. CASE FreeFd(t) = Fd
  <2>1. UNCHANGED <<i_pipe, content>>
    BY <1>1 DEF exit_close, inodes
  <2>2. QED
    BY <2>1, NothingIsFifo
<1>2. CASE FreeFd(t) # Fd
  <2>1. PICK d : d = Least(Fd \ FreeFd(t))
    OBVIOUS
  <2>2. pc[t] = "exit" /\ CloseFd(t, d)
    BY <1>2, <2>1 DEF exit_close
  <2>3. Fd \ FreeFd(t) \in SUBSET Nat /\ Fd \ FreeFd(t) # {}
    BY <1>2 DEF FreeFd, Fd
  <2>4. d \in Fd /\ filp[t][d] # None
    BY <2>1, <2>3, LeastIs DEF FreeFd
  <2>5. QED
    BY <2>2, <2>4, CloseIsFifo
<1>3. QED
  BY <1>1, <1>2

LEMMA Dup2IsFifo ==
  ASSUME Inductive, NEW t \in Task, NEW d \in Fd, NEW e \in Fd, sys_dup2(t, d, e), NEW i \in Pipe
  PROVE  FifoStep(i)
<1>1. PICK y : y = filp[t][e]
  OBVIOUS
<1>2. pc[t] = "user" /\ y # None /\ PutLast(y) /\ UNCHANGED content
  BY <1>1 DEF sys_dup2, PutLast
<1>3. y \in File
  BY <1>1, <1>2, Owned DEF Reserving
<1>4. QED
  BY <1>2, <1>3, PutIsFifo

LEMMA SysReadIsFifo ==
  ASSUME Inductive, NEW t \in Task, NEW d \in Fd, sys_read(t, d), NEW i \in Pipe
  PROVE  FifoStep(i)
<1>1. pc[t] = "user" /\ Open(t, d, "read") /\ UNCHANGED inodes
  BY DEF sys_read
<1>2. PICK n \in 1..MaxCount : ReadPipe(t, d, n)
  BY DEF sys_read
<1>3. QED
  BY <1>1, <1>2, ReadIsFifo DEF Reserving

LEMMA ReadOnIsFifo ==
  ASSUME Inductive, NEW t \in Task, read_pipe(t), NEW i \in Pipe
  PROVE  FifoStep(i)
<1>1. pc[t] = "read" /\ ReadPipe(t, Least(fds[t]), count[t]) /\ UNCHANGED inodes
  BY DEF read_pipe
<1>2. Call(t) /\ count[t] \in 0..MaxCount
  BY TypesSplit DEF Inductive, Calls, CallTypes
<1>3. PICK d \in Fd : fds[t] = {d} /\ EndOf(filp[t], d, f_mode, "read") /\ count[t] > 0
  BY <1>1, <1>2 DEF Call, InCall
<1>4. Least(fds[t]) = d
  BY <1>3, LeastOfOne DEF Fd
<1>5. Open(t, d, "read") /\ ~ Reserving(t)
  BY <1>1, <1>3 DEF Open, EndOf, Reserving
<1>6. PICK n : n = count[t]
  OBVIOUS
<1>7. n \in 1..MaxCount /\ ReadPipe(t, d, n)
  BY <1>1, <1>2, <1>3, <1>4, <1>6
<1>8. QED
  BY <1>1, <1>5, <1>7, ReadIsFifo

LEMMA SysWriteIsFifo ==
  ASSUME Inductive, NEW t \in Task, NEW d \in Fd, sys_write(t, d), NEW i \in Pipe
  PROVE  FifoStep(i)
<1>1. pc[t] = "user" /\ Open(t, d, "write") /\ UNCHANGED inodes
  BY DEF sys_write
<1>2. CASE \E s \in Message : WritePipe(t, d, s)
  <2>1. PICK s \in Message : WritePipe(t, d, s)
    BY <1>2
  <2>2. s \in Seq(Byte)
    OBVIOUS
  <2>3. QED
    BY <1>1, <2>1, <2>2, WriteIsFifo DEF Reserving
<1>3. CASE UNCHANGED content
  BY <1>1, <1>3, NothingIsFifo DEF inodes
<1>4. QED
  BY <1>2, <1>3 DEF sys_write

LEMMA WriteOnIsFifo ==
  ASSUME Inductive, NEW t \in Task, write_pipe(t), NEW i \in Pipe
  PROVE  FifoStep(i)
<1>1. pc[t] = "write" /\ WritePipe(t, Least(fds[t]), buf[t]) /\ UNCHANGED inodes
  BY DEF write_pipe
<1>2. Call(t) /\ buf[t] \in Seq(Byte)
  BY TypesSplit DEF Inductive, Calls, CallTypes
<1>3. PICK d \in Fd : fds[t] = {d} /\ EndOf(filp[t], d, f_mode, "write")
  BY <1>1, <1>2 DEF Call, InCall
<1>4. Least(fds[t]) = d
  BY <1>3, LeastOfOne DEF Fd
<1>5. Open(t, d, "write") /\ ~ Reserving(t)
  BY <1>1, <1>3 DEF Open, EndOf, Reserving
<1>6. PICK s : s = buf[t]
  OBVIOUS
<1>7. s \in Seq(Byte) /\ WritePipe(t, d, s)
  BY <1>1, <1>2, <1>4, <1>6
<1>8. QED
  BY <1>1, <1>5, <1>7, WriteIsFifo

LEMMA EveryStepIsFifo ==
  ASSUME Inductive, [Next]_vars, NEW i \in Pipe
  PROVE  FifoStep(i)
<1>1. CASE UNCHANGED vars
  <2>1. UNCHANGED <<i_pipe, content>>
    BY <1>1 DEF vars, inodes
  <2>2. QED
    BY <2>1, NothingIsFifo
<1>2. ASSUME NEW t \in Task,
             \/ sys_open(t) \/ open_done(t) \/ open_failed(t) \/ sys_pipe(t) \/ pipe_failed(t)
             \/ execve(t) \/ do_exit(t)
      PROVE  FifoStep(i)
  <2>1. UNCHANGED <<i_pipe, content>>
    BY <1>2 DEF sys_open, open_done, open_failed, sys_pipe, pipe_failed, execve, do_exit, Undo,
                inodes
  <2>2. QED
    BY <2>1, NothingIsFifo
<1>3. ASSUME NEW t \in Task,
             pipe_done(t) \/ exec_close(t) \/ exit_close(t) \/ read_pipe(t) \/ write_pipe(t)
      PROVE  FifoStep(i)
  BY <1>3, PipeDoneIsFifo, ExecCloseIsFifo, ExitCloseIsFifo, ReadOnIsFifo, WriteOnIsFifo
<1>4. ASSUME NEW t \in Task, NEW d \in Fd,
             sys_close(t, d) \/ sys_fcntl(t, d) \/ sys_read(t, d) \/ sys_write(t, d)
      PROVE  FifoStep(i)
  <2>1. CASE sys_close(t, d)
    <3>1. pc[t] = "user" /\ filp[t][d] # None /\ CloseFd(t, d)
      BY <2>1 DEF sys_close
    <3>2. QED
      BY <3>1, CloseIsFifo
  <2>2. CASE sys_fcntl(t, d)
    <3>1. UNCHANGED <<i_pipe, content>>
      BY <2>2 DEF sys_fcntl, inodes
    <3>2. QED
      BY <3>1, NothingIsFifo
  <2>3. QED
    BY <1>4, <2>1, <2>2, SysReadIsFifo, SysWriteIsFifo
<1>5. ASSUME NEW t \in Task, NEW d \in Fd, NEW e \in Fd, dupfd(t, d, e) \/ sys_dup2(t, d, e)
      PROVE  FifoStep(i)
  <2>1. CASE dupfd(t, d, e)
    <3>1. UNCHANGED <<i_pipe, content>>
      BY <2>1 DEF dupfd, inodes
    <3>2. QED
      BY <3>1, NothingIsFifo
  <2>2. QED
    BY <1>5, <2>1, Dup2IsFifo
<1>6. ASSUME NEW t \in Task, NEW u \in Task, fork(t, u)
      PROVE  FifoStep(i)
  <2>1. UNCHANGED <<i_pipe, content>>
    BY <1>6 DEF fork, inodes
  <2>2. QED
    BY <2>1, NothingIsFifo
<1>7. CASE Next
  BY <1>2, <1>3, <1>4, <1>5, <1>6, <1>7 DEF Next
<1>8. QED
  BY <1>1, <1>7

\* Every pipe is a FIFO: it implements Fifo.tla, whatever forks, closes, dup2s and
\* exits happen while readers and writers sleep in it.
THEOREM PipeImplementsFifo == Spec => PipeIsFifo
<1>1. Init => \A i \in Pipe : F(i)!Init
  <2>1. SUFFICES ASSUME Init, NEW i \in Pipe
                 PROVE  F(i)!Init
    OBVIOUS
  <2>2. i_pipe[i] = FALSE /\ head[i] = 0 /\ tail[i] = 0
    BY <2>1 DEF Init
  <2>3. Content(i) = <<>>
    BY <2>2, ContentIs
  <2>4. QED
    BY <2>2, <2>3 DEF F!Init
<1>2. Inductive /\ [Next]_vars =>
        [\A i \in Pipe : [F(i)!Next]_<<Content(i), head[i], tail[i], i_pipe[i]>>]_<<inodes, content>>
  <2>1. SUFFICES ASSUME Inductive, [Next]_vars, NEW i \in Pipe
                 PROVE  [F(i)!Next]_<<Content(i), head[i], tail[i], i_pipe[i]>>
    OBVIOUS
  <2>2. FifoStep(i)
    BY <2>1, EveryStepIsFifo
  <2>3. QED
    BY <2>2 DEF FifoStep, View
<1>3. QED
  BY <1>1, <1>2, FilesInvariant, PTL DEF Spec, PipeIsFifo

===============================================================================
