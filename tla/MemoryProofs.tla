----------------------------- MODULE MemoryProofs -----------------------------
(***************************************************************************)
(* Theorems about Memory.tla, for every number of tasks, of pages and of   *)
(* page directory entries: the counts of mem_map are exact, a page that    *)
(* can be written to is one task's alone, what verify_area saw stays, and  *)
(* so every task has a memory of its own (PrivateMemory.tla).              *)
(***************************************************************************)
EXTENDS Memory, FiniteSetTheorems, TLAPS

USE MemoryAssumption

Tables == [Dir -> Page \cup {LOW, None}]
Entries == [Addr -> [page : Page \cup {LOW, None}, rw : BOOLEAN]]

\* The parts of Users(p).
InEntries(f, p) == Cardinality({x \in Slot \X Addr : f[x[1]][x[2]].page = p})
InTables(g, p) == Cardinality({x \in Slot \X Dir : g[x[1]][x[2]] = p})
InSlots(h, p) == Cardinality({t \in Slot : h[t] = p})
TablesIn(dir, p) == Cardinality({d \in Dir : dir[d] = p})
In(S, p) == Cardinality({p} \cap S)

-------------------------------------------------------------------------------
(* Sets. *)

LEMMA LeastNatural ==
  ASSUME NEW S \in SUBSET Nat, S # {}
  PROVE  \E n \in S : \A m \in S : n <= m
<1>1. PICK n \in S : \A m \in S : ~ (<<m, n>> \in OpToRel(<, Nat))
  <2>1. PICK n \in S : \A m \in Nat : <<m, n>> \in OpToRel(<, Nat) => m \notin S
    BY NatLessThanWellFounded, WFMin
  <2>2. QED
    BY <2>1
<1>2. \A m \in S : ~ (m < n)
  BY <1>1 DEF OpToRel
<1>3. QED
  BY <1>2

LEMMA Finite ==
  /\ IsFiniteSet(Slot) /\ IsFiniteSet(Addr) /\ IsFiniteSet(Dir)
  /\ IsFiniteSet(Slot \X Addr) /\ IsFiniteSet(Slot \X Dir)
<1>1. NR_TASKS - 1 \in Int /\ DIRS - 1 \in Int /\ DIRS * PTRS - 1 \in Int
  OBVIOUS
<1>2. IsFiniteSet(Slot) /\ IsFiniteSet(Addr) /\ IsFiniteSet(Dir)
  BY <1>1, FS_Interval DEF Slot, Addr, Dir
<1>3. QED
  BY <1>2, FS_Product

LEMMA Counted ==
  ASSUME NEW S, IsFiniteSet(S), NEW X \in SUBSET S
  PROVE  /\ IsFiniteSet(X) /\ Cardinality(X) \in Nat
         /\ Cardinality(X) = 0 <=> X = {}
         /\ \A x \in X : Cardinality(X) >= 1
         /\ Cardinality(X) = 1 => \A x, y \in X : x = y
<1>1. IsFiniteSet(X) /\ Cardinality(X) \in Nat
  BY FS_Subset, FS_CardinalityType
<1>2. Cardinality(X) = 0 <=> X = {}
  BY <1>1, FS_EmptySet
<1>3. Cardinality(X) = 1 => \A x, y \in X : x = y
  <2>1. Cardinality(X) = 1 => \E z : X = {z}
    BY <1>1, FS_Singleton
  <2>2. QED
    BY <2>1
<1>4. QED
  BY <1>1, <1>2, <1>3

\* Two sets that differ at one element at most.
LEMMA OneDiffers ==
  ASSUME NEW S, IsFiniteSet(S), NEW X \in SUBSET S, NEW Y \in SUBSET S, NEW x \in S,
         \A y \in S : y # x => (y \in X <=> y \in Y)
  PROVE  /\ Cardinality(X) \in Nat /\ Cardinality(Y) \in Nat
         /\ Cardinality(Y) = Cardinality(X) - (IF x \in X THEN 1 ELSE 0)
                                            + (IF x \in Y THEN 1 ELSE 0)
<1> DEFINE Z == X \ {x}
<1>1. IsFiniteSet(X) /\ IsFiniteSet(Y) /\ Cardinality(X) \in Nat /\ Cardinality(Y) \in Nat
  BY Counted
<1>2. IsFiniteSet(Z) /\ Cardinality(Z) = IF x \in X THEN Cardinality(X) - 1 ELSE Cardinality(X)
  BY <1>1, FS_RemoveElement
<1>3. Cardinality(Z) = IF x \in Y THEN Cardinality(Y) - 1 ELSE Cardinality(Y)
  <2>1. Z = Y \ {x}
    OBVIOUS
  <2>2. QED
    BY <1>1, <2>1, FS_RemoveElement
<1>4. QED
  BY <1>1, <1>2, <1>3

\* Disjoint sets.
LEMMA Disjoint ==
  ASSUME NEW S, IsFiniteSet(S), NEW X \in SUBSET S, NEW Y \in SUBSET S, X \cap Y = {}
  PROVE  /\ Cardinality(X) \in Nat /\ Cardinality(Y) \in Nat
         /\ Cardinality(X \cup Y) = Cardinality(X) + Cardinality(Y)
<1>1. IsFiniteSet(X) /\ IsFiniteSet(Y) /\ Cardinality(X) \in Nat /\ Cardinality(Y) \in Nat
  BY Counted
<1>2. Cardinality(X \cap Y) = 0
  BY FS_EmptySet
<1>3. Cardinality(X \cup Y) = Cardinality(X) + Cardinality(Y) - Cardinality(X \cap Y)
  BY <1>1, FS_Union
<1>4. QED
  BY <1>1, <1>2, <1>3

\* V is made of R and X.
Parts(S, V, R, X) == /\ R \in SUBSET S /\ X \in SUBSET S
                     /\ R \cap X = {} /\ V = R \cup X

LEMMA PartReplaced ==
  ASSUME NEW S, IsFiniteSet(S), NEW Rest, NEW X, NEW Y, NEW V, NEW W,
         Parts(S, V, Rest, X), Parts(S, W, Rest, Y)
  PROVE  /\ Cardinality(V) \in Nat /\ Cardinality(W) \in Nat
         /\ Cardinality(X) \in Nat /\ Cardinality(Y) \in Nat
         /\ Cardinality(X) <= Cardinality(V)
         /\ Cardinality(W) = Cardinality(V) - Cardinality(X) + Cardinality(Y)
<1>1. /\ Cardinality(Rest) \in Nat /\ Cardinality(X) \in Nat
      /\ Cardinality(V) = Cardinality(Rest) + Cardinality(X)
  BY Disjoint DEF Parts
<1>2. /\ Cardinality(Y) \in Nat
      /\ Cardinality(W) = Cardinality(Rest) + Cardinality(Y)
  BY Disjoint DEF Parts
<1>3. QED
  BY <1>1, <1>2

\* A row of a relation has as many elements as it relates its index to.
LEMMA RowSize ==
  ASSUME NEW S, NEW A, IsFiniteSet(A), NEW t \in S, NEW R \in SUBSET A
  PROVE  Cardinality({<<t, a>> : a \in R}) = Cardinality(R)
<1> DEFINE f == [a \in R |-> <<t, a>>]
           T == {<<t, a>> : a \in R}
<1>1. f \in Bijection(R, T)
  <2>1. f \in [R -> T]
    OBVIOUS
  <2>2. \A a, b \in R : f[a] = f[b] => a = b
    OBVIOUS
  <2>3. \A y \in T : \E a \in R : f[a] = y
    OBVIOUS
  <2>4. QED
    BY <2>1, <2>2, <2>3 DEF Bijection, Injection, Surjection, IsInjective
<1>2. IsFiniteSet(R)
  BY Counted
<1>3. QED
  BY <1>1, <1>2, FS_Bijection DEF ExistsBijection

\* Q is the row t of the relation X.
IsRow(Q, X, A, t) == Q \in SUBSET A /\ \A a \in A : a \in Q <=> <<t, a>> \in X
OtherRowsSame(X, Y, S, A, t) ==
  \A s \in S, a \in A : s # t => (<<s, a>> \in X <=> <<s, a>> \in Y)

\* Two relations that differ in one row at most.
LEMMA OneRowDiffers ==
  ASSUME NEW S, NEW A, IsFiniteSet(A), IsFiniteSet(S \X A), NEW t \in S,
         NEW X \in SUBSET (S \X A), NEW Y \in SUBSET (S \X A),
         OtherRowsSame(X, Y, S, A, t),
         NEW Q, NEW R, IsRow(Q, X, A, t), IsRow(R, Y, A, t)
  PROVE  /\ Cardinality(X) \in Nat /\ Cardinality(Y) \in Nat
         /\ Cardinality(Q) \in Nat /\ Cardinality(R) \in Nat
         /\ Cardinality(Q) <= Cardinality(X)
         /\ Cardinality(Y) = Cardinality(X) - Cardinality(Q) + Cardinality(R)
<1> DEFINE XQ == {<<t, a>> : a \in Q}
           YR == {<<t, a>> : a \in R}
           Rest == {x \in S \X A : x \in X /\ x[1] # t}
<1>1. Cardinality(XQ) = Cardinality(Q) /\ Cardinality(YR) = Cardinality(R)
  BY RowSize DEF IsRow
<1>2. Parts(S \X A, X, Rest, XQ)
  BY DEF Parts, IsRow
<1>3. Parts(S \X A, Y, Rest, YR)
  BY DEF Parts, IsRow, OtherRowsSame
<1> HIDE DEF XQ, YR, Rest
<1>4. QED
  BY <1>1, <1>2, <1>3, PartReplaced

-------------------------------------------------------------------------------
(* Counts.                                                                 *)

\* f and g agree but for t.
Agree(f, g, S, t) == \A u \in S : u # t => g[u] = f[u]

LEMMA EntriesOfRow ==
  ASSUME NEW f \in [Slot -> Entries], NEW g \in [Slot -> Entries], NEW t \in Slot, NEW p,
         Agree(f, g, Slot, t)
  PROVE  /\ InEntries(f, p) \in Nat /\ InEntries(g, p) \in Nat
         /\ Mappings(f[t], p) \in Nat /\ Mappings(g[t], p) \in Nat
         /\ Mappings(f[t], p) <= InEntries(f, p)
         /\ InEntries(g, p) = InEntries(f, p) - Mappings(f[t], p) + Mappings(g[t], p)
<1> DEFINE X == {x \in Slot \X Addr : f[x[1]][x[2]].page = p}
           Y == {x \in Slot \X Addr : g[x[1]][x[2]].page = p}
           Q == {a \in Addr : f[t][a].page = p}
           R == {a \in Addr : g[t][a].page = p}
<1>1. /\ X \in SUBSET (Slot \X Addr) /\ Y \in SUBSET (Slot \X Addr)
  OBVIOUS
<1>2. OtherRowsSame(X, Y, Slot, Addr, t)
  BY DEF Agree, OtherRowsSame
<1>3. IsRow(Q, X, Addr, t) /\ IsRow(R, Y, Addr, t)
  BY DEF IsRow
<1>4. /\ InEntries(f, p) = Cardinality(X) /\ InEntries(g, p) = Cardinality(Y)
      /\ Mappings(f[t], p) = Cardinality(Q) /\ Mappings(g[t], p) = Cardinality(R)
  BY DEF InEntries, Mappings
<1> HIDE DEF X, Y, Q, R
<1>5. IsFiniteSet(Addr) /\ IsFiniteSet(Slot \X Addr)
  BY Finite
<1>6. QED
  BY <1>1, <1>2, <1>3, <1>4, <1>5, OneRowDiffers

LEMMA TablesOfRow ==
  ASSUME NEW f \in [Slot -> Tables], NEW g \in [Slot -> Tables], NEW t \in Slot, NEW p,
         Agree(f, g, Slot, t)
  PROVE  /\ InTables(f, p) \in Nat /\ InTables(g, p) \in Nat
         /\ TablesIn(f[t], p) \in Nat /\ TablesIn(g[t], p) \in Nat
         /\ TablesIn(f[t], p) <= InTables(f, p)
         /\ InTables(g, p) = InTables(f, p) - TablesIn(f[t], p) + TablesIn(g[t], p)
<1> DEFINE X == {x \in Slot \X Dir : f[x[1]][x[2]] = p}
           Y == {x \in Slot \X Dir : g[x[1]][x[2]] = p}
           Q == {d \in Dir : f[t][d] = p}
           R == {d \in Dir : g[t][d] = p}
<1>1. /\ X \in SUBSET (Slot \X Dir) /\ Y \in SUBSET (Slot \X Dir)
  OBVIOUS
<1>2. OtherRowsSame(X, Y, Slot, Dir, t)
  BY DEF Agree, OtherRowsSame
<1>3. IsRow(Q, X, Dir, t) /\ IsRow(R, Y, Dir, t)
  BY DEF IsRow
<1>4. /\ InTables(f, p) = Cardinality(X) /\ InTables(g, p) = Cardinality(Y)
      /\ TablesIn(f[t], p) = Cardinality(Q) /\ TablesIn(g[t], p) = Cardinality(R)
  BY DEF InTables, TablesIn
<1> HIDE DEF X, Y, Q, R
<1>5. IsFiniteSet(Dir) /\ IsFiniteSet(Slot \X Dir)
  BY Finite
<1>6. QED
  BY <1>1, <1>2, <1>3, <1>4, <1>5, OneRowDiffers

One(b) == IF b THEN 1 ELSE 0

LEMMA SlotsOfOne ==
  ASSUME NEW f, NEW g, NEW t \in Slot, NEW p, Agree(f, g, Slot, t)
  PROVE  /\ InSlots(f, p) \in Nat /\ InSlots(g, p) \in Nat
         /\ InSlots(g, p) = InSlots(f, p) - One(f[t] = p) + One(g[t] = p)
<1> DEFINE X == {u \in Slot : f[u] = p}
           Y == {u \in Slot : g[u] = p}
<1>1. X \in SUBSET Slot /\ Y \in SUBSET Slot
  OBVIOUS
<1>2. \A u \in Slot : u # t => (u \in X <=> u \in Y)
  BY DEF Agree
<1>3. (t \in X <=> f[t] = p) /\ (t \in Y <=> g[t] = p)
  OBVIOUS
<1>4. InSlots(f, p) = Cardinality(X) /\ InSlots(g, p) = Cardinality(Y)
  BY DEF InSlots
<1> HIDE DEF X, Y
<1>5. /\ Cardinality(X) \in Nat /\ Cardinality(Y) \in Nat
      /\ Cardinality(Y) = Cardinality(X) - (IF t \in X THEN 1 ELSE 0)
                                         + (IF t \in Y THEN 1 ELSE 0)
  BY <1>1, <1>2, Finite, OneDiffers
<1>6. QED
  BY <1>3, <1>4, <1>5 DEF One

LEMMA MappingsOfOne ==
  ASSUME NEW r \in Entries, NEW s \in Entries, NEW a \in Addr, NEW p, Agree(r, s, Addr, a)
  PROVE  /\ Mappings(r, p) \in Nat /\ Mappings(s, p) \in Nat
         /\ Mappings(s, p) = Mappings(r, p) - One(r[a].page = p) + One(s[a].page = p)
<1> DEFINE X == {b \in Addr : r[b].page = p}
           Y == {b \in Addr : s[b].page = p}
<1>1. X \in SUBSET Addr /\ Y \in SUBSET Addr
  OBVIOUS
<1>2. \A b \in Addr : b # a => (b \in X <=> b \in Y)
  BY DEF Agree
<1>3. (a \in X <=> r[a].page = p) /\ (a \in Y <=> s[a].page = p)
  OBVIOUS
<1>4. Mappings(r, p) = Cardinality(X) /\ Mappings(s, p) = Cardinality(Y)
  BY DEF Mappings
<1> HIDE DEF X, Y
<1>5. /\ Cardinality(X) \in Nat /\ Cardinality(Y) \in Nat
      /\ Cardinality(Y) = Cardinality(X) - (IF a \in X THEN 1 ELSE 0)
                                         + (IF a \in Y THEN 1 ELSE 0)
  BY <1>1, <1>2, Finite, OneDiffers
<1>6. QED
  BY <1>3, <1>4, <1>5 DEF One

LEMMA TablesOfOne ==
  ASSUME NEW r \in Tables, NEW s \in Tables, NEW d \in Dir, NEW p, Agree(r, s, Dir, d)
  PROVE  /\ TablesIn(r, p) \in Nat /\ TablesIn(s, p) \in Nat
         /\ TablesIn(s, p) = TablesIn(r, p) - One(r[d] = p) + One(s[d] = p)
<1> DEFINE X == {e \in Dir : r[e] = p}
           Y == {e \in Dir : s[e] = p}
<1>1. X \in SUBSET Dir /\ Y \in SUBSET Dir
  OBVIOUS
<1>2. \A e \in Dir : e # d => (e \in X <=> e \in Y)
  BY DEF Agree
<1>3. (d \in X <=> r[d] = p) /\ (d \in Y <=> s[d] = p)
  OBVIOUS
<1>4. TablesIn(r, p) = Cardinality(X) /\ TablesIn(s, p) = Cardinality(Y)
  BY DEF TablesIn
<1> HIDE DEF X, Y
<1>5. /\ Cardinality(X) \in Nat /\ Cardinality(Y) \in Nat
      /\ Cardinality(Y) = Cardinality(X) - (IF d \in X THEN 1 ELSE 0)
                                         + (IF d \in Y THEN 1 ELSE 0)
  BY <1>1, <1>2, Finite, OneDiffers
<1>6. QED
  BY <1>3, <1>4, <1>5 DEF One

LEMMA Nothing ==
  ASSUME NEW p \in Page
  PROVE  Mappings(NoEntries, p) = 0 /\ TablesIn(NoTables, p) = 0
<1>1. {a \in Addr : NoEntries[a].page = p} = {} /\ {d \in Dir : NoTables[d] = p} = {}
  BY DEF NoEntries, NotPresent, NoTables, None, Page
<1>2. QED
  BY <1>1, FS_EmptySet DEF Mappings, TablesIn

LEMMA InOne ==
  ASSUME NEW p, NEW S
  PROVE  In(S, p) = One(p \in S)
<1>1. CASE p \in S
  <2>1. {p} \cap S = {p}
    BY <1>1
  <2>2. Cardinality({p}) = 1
    BY FS_Singleton
  <2>3. QED
    BY <1>1, <2>1, <2>2 DEF In, One
<1>2. CASE p \notin S
  <2>1. {p} \cap S = {}
    BY <1>2
  <2>2. QED
    BY <1>2, <2>1, FS_EmptySet DEF In, One
<1>3. QED
  BY <1>1, <1>2

\* A place where a page is used counts; if the count is one there is no other.
LEMMA Mapped ==
  ASSUME NEW f \in [Slot -> Entries], NEW t \in Slot, NEW a \in Addr, NEW p, f[t][a].page = p
  PROVE  /\ InEntries(f, p) >= 1 /\ InEntries(f, p) \in Nat
         /\ InEntries(f, p) = 1 =>
              \A u \in Slot, b \in Addr : f[u][b].page = p => u = t /\ b = a
<1> DEFINE X == {x \in Slot \X Addr : f[x[1]][x[2]].page = p}
<1>1. X \in SUBSET (Slot \X Addr) /\ <<t, a>> \in X
  OBVIOUS
<1>2. \A u \in Slot, b \in Addr : f[u][b].page = p => <<u, b>> \in X
  OBVIOUS
<1>3. InEntries(f, p) = Cardinality(X)
  BY DEF InEntries
<1> HIDE DEF X
<1>4. /\ Cardinality(X) >= 1 /\ Cardinality(X) \in Nat
      /\ Cardinality(X) = 1 => \A x, y \in X : x = y
  BY <1>1, Finite, Counted
<1>5. QED
  BY <1>1, <1>2, <1>3, <1>4

LEMMA Tabled ==
  ASSUME NEW f \in [Slot -> Tables], NEW t \in Slot, NEW d \in Dir, NEW p, f[t][d] = p
  PROVE  InTables(f, p) >= 1 /\ InTables(f, p) \in Nat
<1> DEFINE X == {x \in Slot \X Dir : f[x[1]][x[2]] = p}
<1>1. X \in SUBSET (Slot \X Dir) /\ <<t, d>> \in X
  OBVIOUS
<1>2. InTables(f, p) = Cardinality(X)
  BY DEF InTables
<1> HIDE DEF X
<1>3. QED
  BY <1>1, <1>2, Finite, Counted

LEMMA Slotted ==
  ASSUME NEW f, NEW t \in Slot, NEW p, f[t] = p
  PROVE  /\ InSlots(f, p) >= 1 /\ InSlots(f, p) \in Nat
         /\ InSlots(f, p) = 1 => \A u \in Slot : f[u] = p => u = t
<1> DEFINE X == {u \in Slot : f[u] = p}
<1>1. X \in SUBSET Slot /\ t \in X /\ \A u \in Slot : f[u] = p => u \in X
  OBVIOUS
<1>2. InSlots(f, p) = Cardinality(X)
  BY DEF InSlots
<1> HIDE DEF X
<1>3. /\ Cardinality(X) >= 1 /\ Cardinality(X) \in Nat
      /\ Cardinality(X) = 1 => \A x, y \in X : x = y
  BY <1>1, Finite, Counted
<1>4. QED
  BY <1>1, <1>2, <1>3

\* A row that maps p nowhere.
LEMMA Unmapped ==
  ASSUME NEW r, NEW p, \A a \in Addr : r[a].page # p
  PROVE  Mappings(r, p) = 0
<1>1. {a \in Addr : r[a].page = p} = {}
  OBVIOUS
<1>2. QED
  BY <1>1, FS_EmptySet DEF Mappings

LEMMA Untabled ==
  ASSUME NEW r, NEW p, \A d \in Dir : r[d] # p
  PROVE  TablesIn(r, p) = 0
<1>1. {d \in Dir : r[d] = p} = {}
  OBVIOUS
<1>2. QED
  BY <1>1, FS_EmptySet DEF TablesIn

LEMMA Sizes ==
  ASSUME NEW r, NEW p
  PROVE  /\ Mappings(r, p) \in Nat /\ TablesIn(r, p) \in Nat
         /\ InEntries(r, p) \in Nat /\ InTables(r, p) \in Nat /\ InSlots(r, p) \in Nat
<1>1. IsFiniteSet({a \in Addr : r[a].page = p}) /\ IsFiniteSet({d \in Dir : r[d] = p})
  BY Finite, FS_Subset
<1>2. /\ IsFiniteSet({x \in Slot \X Addr : r[x[1]][x[2]].page = p})
      /\ IsFiniteSet({x \in Slot \X Dir : r[x[1]][x[2]] = p})
      /\ IsFiniteSet({t \in Slot : r[t] = p})
  BY Finite, FS_Subset
<1>3. QED
  BY <1>1, <1>2, FS_CardinalityType DEF Mappings, TablesIn, InEntries, InTables, InSlots

\* The directory of a page.
LEMMA DirOfAddr == \A a \in Addr : DirOf(a) \in Dir
<1> SUFFICES ASSUME NEW a \in Addr
             PROVE  DirOf(a) \in Dir
  OBVIOUS
<1>1. a \in Nat /\ a < DIRS * PTRS /\ DIRS \in Nat /\ PTRS \in Nat /\ PTRS > 0
  BY DEF Addr
<1>2. PICK q \in Nat, r \in Nat : a = q * PTRS + r /\ r < PTRS /\ q = a \div PTRS
  BY <1>1
<1>3. q < DIRS
  BY <1>1, <1>2
<1>4. QED
  BY <1>1, <1>2, <1>3 DEF DirOf, Dir

-------------------------------------------------------------------------------
(* Free pages.                                                             *)

LEMMA FreePage ==
  ASSUME NEW map \in [Page -> Nat], Free(map) # {}
  PROVE  /\ get_free_page(map) \in Page
         /\ map[get_free_page(map)] = 0
         /\ Taken(map) \in [Page -> Nat]
         /\ \A p \in Page : Taken(map)[p] = map[p] + One(p = get_free_page(map))
<1> DEFINE S == {PAGING_PAGES - p : p \in Free(map)}
<1>1. S \in SUBSET Nat /\ S # {}
  BY DEF Free, Page
<1> HIDE DEF S
<1>2. PICK n \in S : \A m \in S : n <= m
  BY <1>1, LeastNatural
<1> USE DEF S
<1>3. PICK p \in Free(map) : n = PAGING_PAGES - p
  BY <1>2
<1>4. \A q \in Free(map) : q <= p
  <2> TAKE q \in Free(map)
  <2>1. n <= PAGING_PAGES - q
    BY <1>2
  <2>2. QED
    BY <2>1, <1>3 DEF Free, Page
<1>5. get_free_page(map) \in Free(map)
  BY <1>3, <1>4 DEF get_free_page
<1>6. QED
  BY <1>5 DEF Free, Taken, One

-------------------------------------------------------------------------------
(* copy_page_tables.                                                       *)

Copying == [ok : BOOLEAN, map : [Page -> Nat], from : Tables, old : Entries,
            dir : Tables, new : Entries]

\* Directory entry d has been copied: to table q, from m to n.
DirCopied(m, n, d, q) ==
  /\ n.ok /\ n.from = m.from
  /\ q \in Page /\ m.map[q] = 0
  /\ n.dir[d] = q /\ Agree(m.dir, n.dir, Dir, d)
  /\ \A a \in Addr :
       IF DirOf(a) = d
         THEN /\ n.new[a] = ReadOnly(m.old[a])
              /\ n.old[a] = IF m.old[a].page # LOW THEN ReadOnly(m.old[a]) ELSE m.old[a]
         ELSE n.new[a] = m.new[a] /\ n.old[a] = m.old[a]
  /\ \A p \in Page : n.map[p] = m.map[p] + One(p = q)
                      + Cardinality({a \in Addr : DirOf(a) = d /\ m.old[a].page = p})

LEMMA ReadOnlyEntry ==
  ASSUME NEW e \in [page : Page \cup {LOW, None}, rw : BOOLEAN]
  PROVE  /\ ReadOnly(e) \in [page : Page \cup {LOW, None}, rw : BOOLEAN]
         /\ ReadOnly(e).page = e.page /\ ReadOnly(e).rw = FALSE
BY DEF ReadOnly

LEMMA CopyDirCases ==
  ASSUME NEW m \in Copying, NEW d \in Dir
  PROVE  /\ CopyDir(m, d) \in Copying
         /\ \/ CopyDir(m, d) = m /\ (m.ok => m.from[d] = None)
            \/ CopyDir(m, d) = [m EXCEPT !.ok = FALSE]
            \/ /\ m.ok /\ m.from[d] # None
               /\ \E q \in Page : DirCopied(m, CopyDir(m, d), d, q)
<1>1. CASE ~ m.ok \/ m.from[d] = None
  BY <1>1 DEF CopyDir
<1>2. CASE m.ok /\ m.from[d] # None /\ Free(m.map) = {}
  BY <1>2 DEF CopyDir, Copying
<1>3. CASE m.ok /\ m.from[d] # None /\ Free(m.map) # {}
  <2> DEFINE q == get_free_page(m.map)
             new == [a \in Addr |-> IF DirOf(a) = d THEN ReadOnly(m.old[a]) ELSE m.new[a]]
             old == [a \in Addr |-> IF DirOf(a) = d /\ m.old[a].page # LOW
                                      THEN ReadOnly(m.old[a]) ELSE m.old[a]]
             map == [p \in Page |-> Taken(m.map)[p] + Cardinality(
                       {a \in Addr : DirOf(a) = d /\ m.old[a].page = p})]
             dir == [m.dir EXCEPT ![d] = q]
  <2>1. CopyDir(m, d) = [m EXCEPT !.dir = dir, !.new = new, !.old = old, !.map = map]
    BY <1>3 DEF CopyDir, Copying
  <2>2. /\ q \in Page /\ m.map[q] = 0 /\ Taken(m.map) \in [Page -> Nat]
        /\ \A p \in Page : Taken(m.map)[p] = m.map[p] + One(p = q)
    BY <1>3, FreePage DEF Copying
  <2>3. new \in Entries /\ old \in Entries
    BY ReadOnlyEntry DEF Copying, Entries
  <2>4. dir \in Tables
    BY <2>2 DEF Copying, Tables
  <2>5. map \in [Page -> Nat]
    <3>1. \A p \in Page :
            Cardinality({a \in Addr : DirOf(a) = d /\ m.old[a].page = p}) \in Nat
      BY Finite, FS_Subset, FS_CardinalityType
    <3>2. QED
      BY <2>2, <3>1
  <2>6. /\ dir[d] = q /\ Agree(m.dir, dir, Dir, d)
    BY DEF Copying, Tables, Agree
  <2>7. \A p \in Page : map[p] = m.map[p] + One(p = q)
                + Cardinality({a \in Addr : DirOf(a) = d /\ m.old[a].page = p})
    BY <2>2
  <2>8. \A a \in Addr :
          IF DirOf(a) = d
            THEN /\ new[a] = ReadOnly(m.old[a])
                 /\ old[a] = IF m.old[a].page # LOW THEN ReadOnly(m.old[a]) ELSE m.old[a]
            ELSE new[a] = m.new[a] /\ old[a] = m.old[a]
    OBVIOUS
  <2> HIDE DEF q, new, old, map, dir
  <2>9. PICK n \in Copying : n = [m EXCEPT !.dir = dir, !.new = new, !.old = old, !.map = map]
    BY <2>3, <2>4, <2>5 DEF Copying
  <2>10. /\ n.dir = dir /\ n.new = new /\ n.old = old /\ n.map = map
         /\ n.ok = m.ok /\ n.from = m.from
    BY <2>9 DEF Copying
  <2>11. DirCopied(m, n, d, q)
    BY <1>3, <2>2, <2>6, <2>7, <2>8, <2>10 DEF DirCopied
  <2>12. QED
    BY <1>3, <2>1, <2>2, <2>9, <2>11
<1>4. QED
  BY <1>1, <1>2, <1>3

\* What has been copied when the first d directory entries have been looked at.
DirsCopied(m, d, map, from) ==
  \A e \in Dir : m.dir[e] # None =>
    e < d /\ from[e] # None /\ m.dir[e] \in Page /\ map[m.dir[e]] = 0

AllCopied(m, d, from) ==
  m.ok => \A e \in Dir : e < d /\ from[e] # None => m.dir[e] # None

PagesCopied(m, old) ==
  \A a \in Addr :
    IF m.dir[DirOf(a)] = None
      THEN m.new[a] = NotPresent /\ m.old[a] = old[a]
      ELSE /\ m.new[a] = ReadOnly(old[a])
           /\ m.old[a] = IF old[a].page # LOW THEN ReadOnly(old[a]) ELSE old[a]

CopiesCounted(m, map) ==
  \A p \in Page : m.map[p] = map[p] + Mappings(m.new, p) + TablesIn(m.dir, p)

CopyState(m, d, map, from, old) ==
  /\ m \in Copying /\ m.from = from
  /\ DirsCopied(m, d, map, from) /\ AllCopied(m, d, from)
  /\ PagesCopied(m, old) /\ CopiesCounted(m, map)

CopyStart(map, from, old) == [ok |-> TRUE, map |-> map, from |-> from, old |-> old,
                              dir |-> NoTables, new |-> NoEntries]

LEMMA NoneType == /\ NoTables \in Tables /\ NoEntries \in Entries
                  /\ \A p \in Page : p # None /\ p # LOW
BY DEF NoTables, Tables, NoEntries, NotPresent, Entries, None, LOW, Page

LEMMA CopyBegins ==
  ASSUME NEW map \in [Page -> Nat], NEW from \in Tables, NEW old \in Entries
  PROVE  CopyState(CopyStart(map, from, old), 0, map, from, old)
<1> DEFINE m == CopyStart(map, from, old)
<1>1. m \in Copying /\ m.from = from /\ m.dir = NoTables /\ m.new = NoEntries
      /\ m.old = old /\ m.map = map /\ m.ok
  BY NoneType DEF CopyStart, Copying
<1>2. \A e \in Dir : NoTables[e] = None
  BY DEF NoTables
<1>3. \A a \in Addr : NoEntries[a] = NotPresent
  BY DEF NoEntries
<1>4. \A p \in Page : map[p] = map[p] + Mappings(NoEntries, p) + TablesIn(NoTables, p)
  BY Nothing
<1>5. \A e \in Dir : ~ (e < 0)
  BY DEF Dir
<1>6. \A a \in Addr : NoTables[DirOf(a)] = None
  BY <1>2, DirOfAddr
<1> HIDE DEF m
<1>7. \A e \in Dir : m.dir[e] = None
  BY <1>1, <1>2
<1>8. \A a \in Addr : m.dir[DirOf(a)] = None /\ m.new[a] = NotPresent /\ m.old[a] = old[a]
  BY <1>1, <1>3, <1>6
<1>9. \A p \in Page : m.map[p] = map[p] + Mappings(m.new, p) + TablesIn(m.dir, p)
  BY <1>1, <1>4
<1>10. DirsCopied(m, 0, map, from) /\ AllCopied(m, 0, from)
  BY <1>5, <1>7 DEF DirsCopied, AllCopied
<1>11. PagesCopied(m, old) /\ CopiesCounted(m, map)
  BY <1>8, <1>9 DEF PagesCopied, CopiesCounted
<1>12. QED
  BY <1>1, <1>10, <1>11 DEF CopyState, m

\* The pages of one directory entry are added to those copied before.
PagesAdded(r, s, old, d) ==
  \A a \in Addr : IF DirOf(a) = d THEN r[a].page = None /\ s[a].page = old[a].page
                                  ELSE r[a] = s[a]

LEMMA MappingsAdded ==
  ASSUME NEW r, NEW s, NEW old, NEW d \in Dir, NEW p \in Page, PagesAdded(r, s, old, d)
  PROVE  Mappings(s, p) = Mappings(r, p)
                          + Cardinality({a \in Addr : DirOf(a) = d /\ old[a].page = p})
<1> DEFINE X == {a \in Addr : r[a].page = p}
           Y == {a \in Addr : DirOf(a) = d /\ old[a].page = p}
           Z == {a \in Addr : s[a].page = p}
<1>1. X \in SUBSET Addr /\ Y \in SUBSET Addr /\ Z \in SUBSET Addr
  OBVIOUS
<1>2. ASSUME NEW a \in Addr
      PROVE  (a \in Z <=> a \in X \/ a \in Y) /\ ~ (a \in X /\ a \in Y)
  <2>1. IF DirOf(a) = d THEN r[a].page = None /\ s[a].page = old[a].page
                        ELSE r[a] = s[a]
    BY DEF PagesAdded
  <2>2. p # None
    BY NoneType
  <2>3. QED
    BY ONLY <2>1, <2>2, a \in Addr
<1>3. Mappings(s, p) = Cardinality(Z) /\ Mappings(r, p) = Cardinality(X)
  BY DEF Mappings
<1>4. Cardinality(Z) = Cardinality(X) + Cardinality(Y)
  <2> HIDE DEF X, Y, Z
  <2>1. X \cap Y = {} /\ Z = X \cup Y
    BY ONLY <1>1, <1>2
  <2>2. Cardinality(X \cup Y) = Cardinality(X) + Cardinality(Y)
    BY <1>1, <2>1, Finite, Disjoint
  <2>3. QED
    BY ONLY <2>1, <2>2
<1>5. QED
  BY <1>3, <1>4

LEMMA CopyGoesOn ==
  ASSUME NEW map \in [Page -> Nat], NEW from \in Tables, NEW old \in Entries,
         NEW m, NEW d \in Dir, CopyState(m, d, map, from, old)
  PROVE  CopyState(CopyDir(m, d), d + 1, map, from, old)
<1> DEFINE n == CopyDir(m, d)
<1>1. m \in Copying /\ n \in Copying
  BY CopyDirCases DEF CopyState
<1>2. \A e \in Dir : e < d + 1 <=> e < d \/ e = d
  BY DEF Dir
<1>3. CASE n = m /\ (m.ok => m.from[d] = None)
  <2>1. DirsCopied(m, d + 1, map, from) /\ AllCopied(m, d + 1, from)
    BY <1>2, <1>3 DEF CopyState, DirsCopied, AllCopied
  <2>2. QED
    BY <1>1, <1>3, <2>1 DEF CopyState
<1>4. CASE n = [m EXCEPT !.ok = FALSE]
  <2>1. n.ok = FALSE /\ n.from = m.from /\ n.dir = m.dir /\ n.new = m.new /\ n.old = m.old
        /\ n.map = m.map
    BY <1>1, <1>4 DEF Copying
  <2> HIDE DEF n
  <2>2. DirsCopied(n, d + 1, map, from) /\ AllCopied(n, d + 1, from)
    BY <1>2, <2>1 DEF CopyState, DirsCopied, AllCopied
  <2>3. PagesCopied(n, old) /\ CopiesCounted(n, map)
    BY <2>1 DEF CopyState, PagesCopied, CopiesCounted
  <2>4. QED
    BY <1>1, <2>1, <2>2, <2>3 DEF CopyState, n
<1>5. ASSUME m.ok, m.from[d] # None, NEW q \in Page, DirCopied(m, n, d, q)
      PROVE  CopyState(n, d + 1, map, from, old)
  <2> HIDE DEF n
  <2>1. m.dir[d] = None /\ ~ (d < d)
    BY DEF CopyState, DirsCopied, Dir
  <2>2. n.dir[d] = q /\ q # None /\ \A e \in Dir : e # d => n.dir[e] = m.dir[e]
    BY <1>5, NoneType DEF DirCopied, Agree
  <2>3. map[q] = 0
    <3>1. m.map[q] = 0 /\ m.map[q] = map[q] + Mappings(m.new, q) + TablesIn(m.dir, q)
      BY <1>5 DEF DirCopied, CopyState, CopiesCounted
    <3>2. Mappings(m.new, q) \in Nat /\ TablesIn(m.dir, q) \in Nat /\ map[q] \in Nat
      BY Sizes
    <3>3. map[q] + Mappings(m.new, q) + TablesIn(m.dir, q) = 0
      BY <3>1
    <3>4. \A i, j, k \in Nat : i + j + k = 0 => i = 0
      OBVIOUS
    <3>5. QED
      BY <3>2, <3>3, <3>4
  <2>4. \A a \in Addr : DirOf(a) = d => m.new[a] = NotPresent /\ m.old[a] = old[a]
    BY <2>1 DEF CopyState, PagesCopied
  <2>5. \A a \in Addr :
          IF n.dir[DirOf(a)] = None
            THEN n.new[a] = NotPresent /\ n.old[a] = old[a]
            ELSE /\ n.new[a] = ReadOnly(old[a])
                 /\ n.old[a] = IF old[a].page # LOW THEN ReadOnly(old[a]) ELSE old[a]
    <3> SUFFICES ASSUME NEW a \in Addr
                 PROVE  IF n.dir[DirOf(a)] = None
                          THEN n.new[a] = NotPresent /\ n.old[a] = old[a]
                          ELSE /\ n.new[a] = ReadOnly(old[a])
                               /\ n.old[a] = IF old[a].page # LOW THEN ReadOnly(old[a]) ELSE old[a]
      OBVIOUS
    <3>1. CASE DirOf(a) = d
      BY <1>5, <2>2, <2>4, <3>1 DEF DirCopied
    <3>2. CASE DirOf(a) # d
      BY <1>5, <2>2, <3>2, DirOfAddr DEF DirCopied, CopyState, PagesCopied
    <3>3. QED
      BY <3>1, <3>2
  <2>6. \A p \in Page : n.map[p] = map[p] + Mappings(n.new, p) + TablesIn(n.dir, p)
    <3> SUFFICES ASSUME NEW p \in Page
                 PROVE  n.map[p] = map[p] + Mappings(n.new, p) + TablesIn(n.dir, p)
      OBVIOUS
    <3> DEFINE more == Cardinality({a \in Addr : DirOf(a) = d /\ m.old[a].page = p})
    <3>1. n.map[p] = m.map[p] + One(p = q) + more
      BY <1>5 DEF DirCopied
    <3>2. m.map[p] = map[p] + Mappings(m.new, p) + TablesIn(m.dir, p)
      BY DEF CopyState, CopiesCounted
    <3>3. Mappings(n.new, p) = Mappings(m.new, p) + more
      <4>1. \A a \in Addr : m.old[a] \in [page : Page \cup {LOW, None}, rw : BOOLEAN]
        BY <1>1 DEF Copying, Entries
      <4>2. \A a \in Addr : ReadOnly(m.old[a]).page = m.old[a].page
        BY <4>1, ReadOnlyEntry
      <4>3. \A a \in Addr : DirOf(a) = d =>
              m.new[a].page = None /\ n.new[a].page = m.old[a].page
        BY <1>5, <2>4, <4>2 DEF DirCopied, NotPresent
      <4>4. \A a \in Addr : DirOf(a) # d => m.new[a] = n.new[a]
        BY <1>5 DEF DirCopied
      <4>5. PagesAdded(m.new, n.new, m.old, d)
        BY <4>3, <4>4 DEF PagesAdded
      <4>6. QED
        BY <4>5, MappingsAdded
    <3>4. TablesIn(n.dir, p) = TablesIn(m.dir, p) + One(p = q)
      <4>1. m.dir \in Tables /\ n.dir \in Tables /\ Agree(m.dir, n.dir, Dir, d)
        BY <1>1, <1>5 DEF Copying, DirCopied
      <4>2. /\ TablesIn(m.dir, p) \in Nat /\ TablesIn(n.dir, p) \in Nat
            /\ TablesIn(n.dir, p) = TablesIn(m.dir, p) - One(m.dir[d] = p) + One(n.dir[d] = p)
        BY <4>1, TablesOfOne
      <4>3. One(m.dir[d] = p) = 0 /\ One(n.dir[d] = p) = One(p = q)
        BY <2>1, <2>2, NoneType DEF One
      <4>4. One(p = q) \in Nat
        BY DEF One
      <4>5. QED
        BY <4>2, <4>3, <4>4
    <3> HIDE DEF more
    <3>5. more \in Nat /\ One(p = q) \in Nat /\ map[p] \in Nat
      <4>1. more \in Nat
        BY Finite, FS_Subset, FS_CardinalityType DEF more
      <4>2. QED
        BY <4>1 DEF One
    <3>6. QED
      BY <3>1, <3>2, <3>3, <3>4, <3>5, Sizes
  <2>7. DirsCopied(n, d + 1, map, from)
    BY <1>2, <1>5, <2>2, <2>3 DEF CopyState, DirsCopied
  <2>8. AllCopied(n, d + 1, from)
    BY <1>2, <1>5, <2>2 DEF CopyState, AllCopied
  <2>9. n.from = from
    BY <1>5 DEF CopyState, DirCopied
  <2>10. QED
    BY <1>1, <2>5, <2>6, <2>7, <2>8, <2>9 DEF CopyState, PagesCopied, CopiesCounted
<1>6. QED
  <2> HIDE DEF n
  <2>1. \/ n = m /\ (m.ok => m.from[d] = None)
        \/ n = [m EXCEPT !.ok = FALSE]
        \/ m.ok /\ m.from[d] # None /\ \E q \in Page : DirCopied(m, n, d, q)
    BY <1>1, CopyDirCases DEF n
  <2>2. QED
    BY <1>3, <1>4, <1>5, <2>1 DEF n

\* g is copied[] of copy_page_tables, up to n.
IsCopied(g, n, s) == g = [d \in 0..n |-> IF d = 0 THEN s ELSE CopyDir(g[d - 1], d - 1)]

LEMMA CopiedExists ==
  ASSUME NEW s, NEW N \in Nat
  PROVE  \E g : IsCopied(g, N, s)
<1> DEFINE S == {n \in Nat : ~ \E g : IsCopied(g, n, s)}
<1> SUFFICES ASSUME S # {}
             PROVE  FALSE
  OBVIOUS
<1>1. S \in SUBSET Nat
  OBVIOUS
<1> HIDE DEF S
<1>2. PICK n \in S : \A m \in S : n <= m
  BY <1>1, LeastNatural
<1> USE DEF S
<1>3. CASE n = 0
  <2>1. IsCopied([d \in 0..0 |-> s], 0, s)
    BY DEF IsCopied
  <2>2. QED
    BY <1>2, <1>3, <2>1
<1>4. CASE n # 0
  <2>1. n - 1 \in Nat /\ n \in Nat /\ n - 1 \notin S
    BY <1>2, <1>4
  <2>2. PICK g : IsCopied(g, n - 1, s)
    BY <2>1
  <2> DEFINE h == [d \in 0..n |-> IF d = n THEN CopyDir(g[n - 1], n - 1) ELSE g[d]]
  <2>3. \A d \in 0..n - 1 : g[d] = IF d = 0 THEN s ELSE CopyDir(g[d - 1], d - 1)
    BY <2>1, <2>2 DEF IsCopied
  <2>4. ASSUME NEW d \in 0..n
        PROVE  h[d] = IF d = 0 THEN s ELSE CopyDir(h[d - 1], d - 1)
    <3>1. CASE d = n
      <4>1. n - 1 \in 0..n /\ h[n - 1] = g[n - 1] /\ h[n] = CopyDir(g[n - 1], n - 1)
        BY <1>4, <2>1
      <4>2. QED
        BY <1>4, <3>1, <4>1
    <3>2. CASE d # n /\ d # 0
      <4>1. d \in 0..n - 1 /\ d - 1 \in 0..n /\ d - 1 # n
        BY <2>1, <3>2
      <4>2. h[d] = g[d] /\ h[d - 1] = g[d - 1]
        BY <3>2, <4>1
      <4>3. QED
        BY <2>3, <3>2, <4>1, <4>2
    <3>3. CASE d # n /\ d = 0
      <4>1. d \in 0..n - 1 /\ h[d] = g[d]
        BY <2>1, <3>3
      <4>2. QED
        BY <2>3, <3>3, <4>1
    <3>4. QED
      BY <3>1, <3>2, <3>3
  <2>5. h = [d \in 0..n |-> h[d]]
    OBVIOUS
  <2> HIDE DEF h
  <2>6. IsCopied(h, n, s)
    BY <2>4, <2>5 DEF IsCopied
  <2>7. QED
    BY <1>2, <2>6
<1>5. QED
  BY <1>3, <1>4

LEMMA CopiedStates ==
  ASSUME NEW map \in [Page -> Nat], NEW from \in Tables, NEW old \in Entries,
         NEW g, IsCopied(g, DIRS, CopyStart(map, from, old))
  PROVE  CopyState(g[DIRS], DIRS, map, from, old)
<1> DEFINE S == {d \in 0..DIRS : ~ CopyState(g[d], d, map, from, old)}
<1>1. \A d \in 0..DIRS : g[d] = IF d = 0 THEN CopyStart(map, from, old)
                                          ELSE CopyDir(g[d - 1], d - 1)
  BY DEF IsCopied
<1>2. ASSUME S # {}
      PROVE  FALSE
  <2>1. S \in SUBSET Nat
    OBVIOUS
  <2> HIDE DEF S
  <2>2. PICK d \in S : \A e \in S : d <= e
    BY <1>2, <2>1, LeastNatural
  <2> USE DEF S
  <2>3. d # 0
    <3>1. 0 \in 0..DIRS
      OBVIOUS
    <3>2. CopyState(g[0], 0, map, from, old)
      BY <1>1, <3>1, CopyBegins
    <3>3. QED
      BY <2>2, <3>2
  <2>4. d \in 0..DIRS /\ d - 1 \in 0..DIRS /\ d - 1 \in Dir /\ d - 1 \notin S /\ (d - 1) + 1 = d
    BY <2>2, <2>3 DEF Dir
  <2>5. CopyState(g[d - 1], d - 1, map, from, old)
    BY <2>4
  <2>6. CopyState(CopyDir(g[d - 1], d - 1), (d - 1) + 1, map, from, old)
    BY <2>4, <2>5, CopyGoesOn
  <2>7. CopyState(g[d], d, map, from, old)
    BY <1>1, <2>3, <2>4, <2>6
  <2>8. QED
    BY <2>2, <2>7
<1>3. DIRS \in 0..DIRS
  OBVIOUS
<1>4. QED
  BY <1>2, <1>3

LEMMA CopyPageTables ==
  ASSUME NEW map \in [Page -> Nat], NEW from \in Tables, NEW old \in Entries
  PROVE  CopyState(copy_page_tables(map, from, old), DIRS, map, from, old)
<1> DEFINE s == CopyStart(map, from, old)
           c == CHOOSE g : IsCopied(g, DIRS, s)
<1>1. \E g : IsCopied(g, DIRS, s)
  BY CopiedExists
<1>2. IsCopied(c, DIRS, s)
  BY <1>1
<1>3. copy_page_tables(map, from, old) = c[DIRS]
  BY DEF copy_page_tables, IsCopied, CopyStart
<1> HIDE DEF s, c
<1>4. CopyState(c[DIRS], DIRS, map, from, old)
  BY <1>2, CopiedStates DEF s
<1>5. QED
  BY <1>3, <1>4

-------------------------------------------------------------------------------
(* The invariant.                                                          *)

Gone == {"none", "exit", "zombie"}

\* What the tables of t have to do with the place where it is.
Shaped(t) ==
  /\ pc[t] = "none" <=> task[t] = None
  /\ pc[t] \in Gone => pg_dir[t] = NoTables /\ pte[t] = NoEntries
  /\ pc[t] = "exec" <=> arg[t] # None
  /\ \A a \in Addr : Present(t, a) => pg_dir[t][DirOf(a)] # None

\* Task 0 runs in the kernel's memory, for good.
Kernel == pc[0] \in {"user", "pause"}

\* The arguments of an execve are nobody else's.
ArgAlone == \A t \in Slot : arg[t] # None => mem_map[arg[t]] = 1

Shapes == Kernel /\ ArgAlone /\ \A t \in Slot : Shaped(t)

Inductive == TypeOK /\ PageCounts /\ WritableAlone /\ VerifiedStays /\ Shapes

LEMMA UsersSum ==
  ASSUME NEW p
  PROVE  /\ Users(p) = InEntries(pte, p) + InTables(pg_dir, p) + InSlots(task, p)
                       + InSlots(arg, p) + In(lost, p)
         /\ Users(p)' = InEntries(pte', p) + InTables(pg_dir', p) + InSlots(task', p)
                        + InSlots(arg', p) + In(lost', p)
BY DEF Users, InEntries, InTables, InSlots, In

LEMMA PartsType ==
  ASSUME TypeOK
  PROVE  /\ pte \in [Slot -> Entries] /\ pg_dir \in [Slot -> Tables]
         /\ mem_map \in [Page -> Nat] /\ 0 \in Slot
BY DEF TypeOK, Entries, Tables, Slot

\* A page in use has a count, and if it is one there is no other use.
LEMMA UseCounts ==
  ASSUME TypeOK, PageCounts, NEW p \in Page
  PROVE  /\ mem_map[p] \in Nat
         /\ mem_map[p] = InEntries(pte, p) + InTables(pg_dir, p) + InSlots(task, p)
                         + InSlots(arg, p) + In(lost, p)
         /\ InEntries(pte, p) \in Nat /\ InTables(pg_dir, p) \in Nat
         /\ InSlots(task, p) \in Nat /\ InSlots(arg, p) \in Nat /\ In(lost, p) \in Nat
<1>1. mem_map[p] = Users(p)
  BY DEF PageCounts
<1>2. In(lost, p) \in Nat
  BY InOne DEF One
<1>3. QED
  BY <1>1, <1>2, UsersSum, Sizes, PartsType

\* The uses of a page, one by one.
LEMMA UseOfPage ==
  ASSUME TypeOK, PageCounts, NEW p \in Page
  PROVE  /\ \A t \in Slot, a \in Addr : pte[t][a].page = p => InEntries(pte, p) >= 1
         /\ \A t \in Slot, d \in Dir : pg_dir[t][d] = p => InTables(pg_dir, p) >= 1
         /\ \A t \in Slot : task[t] = p => InSlots(task, p) >= 1
         /\ \A t \in Slot : arg[t] = p => InSlots(arg, p) >= 1
         /\ p \in lost => In(lost, p) = 1
<1>1. p \in lost => In(lost, p) = 1
  BY InOne DEF One
<1>2. QED
  BY <1>1, Mapped, Tabled, Slotted, PartsType

\* A page that nobody uses.
LEMMA FreeUnused ==
  ASSUME TypeOK, PageCounts, NEW p \in Page, mem_map[p] = 0
  PROVE  /\ \A t \in Slot, a \in Addr : pte[t][a].page # p
         /\ \A t \in Slot, d \in Dir : pg_dir[t][d] # p
         /\ \A t \in Slot : task[t] # p /\ arg[t] # p
         /\ p \notin lost
<1>1. \A i, j, k, l, m \in Nat : i + j + k + l + m = 0 => i = 0 /\ j = 0 /\ k = 0 /\ l = 0 /\ m = 0
  OBVIOUS
<1>2. /\ InEntries(pte, p) = 0 /\ InTables(pg_dir, p) = 0 /\ InSlots(task, p) = 0
      /\ InSlots(arg, p) = 0 /\ In(lost, p) = 0
  BY <1>1, UseCounts
<1>3. QED
  BY <1>2, UseOfPage

\* A page that is mapped, with a count of one.
LEMMA MappedOnce ==
  ASSUME TypeOK, PageCounts, NEW p \in Page, mem_map[p] = 1,
         NEW t \in Slot, NEW a \in Addr, pte[t][a].page = p
  PROVE  /\ \A u \in Slot, b \in Addr : pte[u][b].page = p => u = t /\ b = a
         /\ \A u \in Slot, d \in Dir : pg_dir[u][d] # p
         /\ \A u \in Slot : task[u] # p /\ arg[u] # p
         /\ p \notin lost
<1>1. \A i, j, k, l, m \in Nat : i + j + k + l + m = 1 /\ i >= 1 =>
        i = 1 /\ j = 0 /\ k = 0 /\ l = 0 /\ m = 0
  OBVIOUS
<1>2. InEntries(pte, p) >= 1
  BY UseOfPage
<1>3. /\ InEntries(pte, p) = 1 /\ InTables(pg_dir, p) = 0 /\ InSlots(task, p) = 0
      /\ InSlots(arg, p) = 0 /\ In(lost, p) = 0
  BY <1>1, <1>2, UseCounts
<1>4. \A u \in Slot, b \in Addr : pte[u][b].page = p => u = t /\ b = a
  BY <1>3, Mapped, PartsType
<1>5. QED
  BY <1>3, <1>4, UseOfPage

\* A page that holds the arguments of an execve.
LEMMA ArgOnce ==
  ASSUME TypeOK, PageCounts, NEW p \in Page, mem_map[p] = 1, NEW t \in Slot, arg[t] = p
  PROVE  /\ \A u \in Slot, b \in Addr : pte[u][b].page # p
         /\ \A u \in Slot, d \in Dir : pg_dir[u][d] # p
         /\ \A u \in Slot : task[u] # p /\ (arg[u] = p => u = t)
         /\ p \notin lost
<1>1. \A i, j, k, l, m \in Nat : i + j + k + l + m = 1 /\ l >= 1 =>
        i = 0 /\ j = 0 /\ k = 0 /\ l = 1 /\ m = 0
  OBVIOUS
<1>2. InSlots(arg, p) >= 1
  BY UseOfPage
<1>3. /\ InEntries(pte, p) = 0 /\ InTables(pg_dir, p) = 0 /\ InSlots(task, p) = 0
      /\ InSlots(arg, p) = 1 /\ In(lost, p) = 0
  BY <1>1, <1>2, UseCounts
<1>4. \A u \in Slot : arg[u] = p => u = t
  BY <1>3, Slotted
<1>5. QED
  BY <1>3, <1>4, UseOfPage

\* A step keeps the counts right if it changes mem_map by as much as the uses.
Balanced(p) == mem_map'[p] - mem_map[p] = InEntries(pte', p) - InEntries(pte, p)
                                          + InTables(pg_dir', p) - InTables(pg_dir, p)
                                          + InSlots(task', p) - InSlots(task, p)
                                          + InSlots(arg', p) - InSlots(arg, p)
                                          + In(lost', p) - In(lost, p)

LEMMA Balance ==
  ASSUME TypeOK, PageCounts, mem_map' \in [Page -> Int], \A p \in Page : Balanced(p)
  PROVE  PageCounts' /\ mem_map' \in [Page -> Nat]
<1>1. ASSUME NEW p \in Page
      PROVE  mem_map'[p] = Users(p)' /\ mem_map'[p] \in Nat
  <2>1. /\ mem_map[p] \in Nat /\ mem_map'[p] \in Int
        /\ InEntries(pte, p) \in Nat /\ InTables(pg_dir, p) \in Nat
        /\ InSlots(task, p) \in Nat /\ InSlots(arg, p) \in Nat /\ In(lost, p) \in Nat
    BY UseCounts
  <2>2. /\ InEntries(pte', p) \in Nat /\ InTables(pg_dir', p) \in Nat
        /\ InSlots(task', p) \in Nat /\ InSlots(arg', p) \in Nat /\ In(lost', p) \in Nat
    BY Sizes, InOne DEF One
  <2>3. mem_map[p] = InEntries(pte, p) + InTables(pg_dir, p) + InSlots(task, p)
                     + InSlots(arg, p) + In(lost, p)
    BY UseCounts
  <2>4. mem_map'[p] = InEntries(pte', p) + InTables(pg_dir', p) + InSlots(task', p)
                      + InSlots(arg', p) + In(lost', p)
    BY <2>1, <2>2, <2>3 DEF Balanced
  <2>5. QED
    BY <2>2, <2>4, UsersSum
<1>2. PageCounts'
  BY <1>1 DEF PageCounts
<1>3. QED
  BY <1>1, <1>2

\* What is left to show of a step, task by task and page by page.
Verified(t) == pc[t] = "verified" /\ Present(t, at[t]) => CanWrite(t, at[t])

Untouched(t) == UNCHANGED <<pc[t], at[t], pte[t], pg_dir[t], task[t], arg[t]>>

KeepsAlone(t, a) ==
  \/ t = 0 \/ pte'[t][a].page = None \/ ~ pte'[t][a].rw
  \/ /\ pte'[t][a] = pte[t][a]
     /\ pte[t][a].page \in Page => mem_map'[pte[t][a].page] <= mem_map[pte[t][a].page]
  \/ pte'[t][a].page # LOW /\ mem_map'[pte'[t][a].page] = 1

KeepsArg(t) ==
  \/ arg'[t] = None
  \/ arg'[t] = arg[t] /\ mem_map'[arg[t]] <= mem_map[arg[t]]
  \/ mem_map'[arg'[t]] = 1

LEMMA StillCounted ==
  ASSUME pte' \in [Slot -> Entries], mem_map' \in [Page -> Nat], PageCounts', NEW p \in Page
  PROVE  /\ \A t \in Slot, a \in Addr : pte'[t][a].page = p => mem_map'[p] >= 1
         /\ \A t \in Slot : arg'[t] = p => mem_map'[p] >= 1
<1>1. /\ InEntries(pte', p) \in Nat /\ InTables(pg_dir', p) \in Nat
      /\ InSlots(task', p) \in Nat /\ InSlots(arg', p) \in Nat /\ In(lost', p) \in Nat
  BY Sizes, InOne DEF One
<1>2. mem_map'[p] = InEntries(pte', p) + InTables(pg_dir', p) + InSlots(task', p)
                    + InSlots(arg', p) + In(lost', p)
  BY UsersSum DEF PageCounts
<1>3. \A i, j, k, l, m \in Nat : i >= 1 \/ l >= 1 => i + j + k + l + m >= 1
  OBVIOUS
<1>4. \A t \in Slot, a \in Addr : pte'[t][a].page = p => InEntries(pte', p) >= 1
  BY Mapped
<1>5. \A t \in Slot : arg'[t] = p => InSlots(arg', p) >= 1
  BY Slotted
<1>6. InEntries(pte', p) >= 1 \/ InSlots(arg', p) >= 1 => mem_map'[p] >= 1
  BY <1>1, <1>2, <1>3
<1>7. QED
  BY <1>4, <1>5, <1>6

LEMMA EntryType ==
  ASSUME TypeOK, NEW t \in Slot, NEW a \in Addr
  PROVE  /\ pte[t][a].page \in Page \cup {LOW, None} /\ pte[t][a].rw \in BOOLEAN
         /\ CanWrite(t, a) <=> pte[t][a].page # None /\ pte[t][a].rw
         /\ Present(t, a) <=> pte[t][a].page # None
BY DEF TypeOK, CanWrite, Present

LEMMA WritableKept ==
  ASSUME Inductive, TypeOK', PageCounts', NEW t \in Slot, NEW a \in Addr, KeepsAlone(t, a),
         CanWrite(t, a)', t # 0
  PROVE  Alone(pte[t][a].page)'
<1>1. /\ pte' \in [Slot -> Entries] /\ mem_map' \in [Page -> Nat]
      /\ pte'[t][a].page \in Page \cup {LOW, None} /\ pte'[t][a].page # None /\ pte'[t][a].rw
  BY DEF TypeOK, Entries, CanWrite, Present
<1>2. CASE pte'[t][a].page # LOW /\ mem_map'[pte'[t][a].page] = 1
  BY <1>2 DEF Alone
<1>3. CASE /\ pte'[t][a] = pte[t][a]
           /\ pte[t][a].page \in Page => mem_map'[pte[t][a].page] <= mem_map[pte[t][a].page]
  <2>1. Alone(pte[t][a].page)
    BY <1>1, <1>3 DEF Inductive, WritableAlone, CanWrite, Present
  <2>2. PICK p \in Page : p = pte[t][a].page
    BY <1>1, <1>3, <2>1 DEF Alone
  <2>3. mem_map[p] = 1 /\ mem_map'[p] <= mem_map[p] /\ p # LOW
    BY <1>3, <2>1, <2>2 DEF Alone
  <2>4. mem_map'[p] >= 1 /\ mem_map'[p] \in Nat
    BY <1>1, <1>3, <2>2, StillCounted
  <2>5. mem_map'[p] = 1
    BY <2>3, <2>4
  <2>6. QED
    BY <1>3, <2>2, <2>3, <2>5 DEF Alone
<1>4. QED
  BY <1>1, <1>2, <1>3 DEF KeepsAlone

LEMMA ArgKept ==
  ASSUME Inductive, TypeOK', PageCounts', NEW t \in Slot, KeepsArg(t), arg'[t] # None
  PROVE  mem_map'[arg'[t]] = 1
<1>1. /\ pte' \in [Slot -> Entries] /\ mem_map' \in [Page -> Nat] /\ arg'[t] \in Page
  BY DEF TypeOK, Entries
<1>2. CASE arg'[t] = arg[t] /\ mem_map'[arg[t]] <= mem_map[arg[t]]
  <2>1. PICK p \in Page : p = arg'[t]
    BY <1>1
  <2>2. mem_map[p] = 1 /\ mem_map'[p] <= mem_map[p]
    BY <1>2, <2>1 DEF Inductive, Shapes, ArgAlone
  <2>3. mem_map'[p] >= 1 /\ mem_map'[p] \in Nat
    BY <1>1, <2>1, StillCounted
  <2>4. QED
    BY <2>1, <2>2, <2>3
<1>3. QED
  BY <1>2 DEF KeepsArg

LEMMA UntouchedKept ==
  ASSUME Inductive, NEW t \in Slot, Untouched(t)
  PROVE  Shaped(t)' /\ Verified(t)'
<1>1. Shaped(t) /\ Verified(t)
  BY DEF Inductive, Shapes, VerifiedStays, Verified
<1>2. /\ pc'[t] = pc[t] /\ at'[t] = at[t] /\ pte'[t] = pte[t] /\ pg_dir'[t] = pg_dir[t]
      /\ task'[t] = task[t] /\ arg'[t] = arg[t]
  BY DEF Untouched
<1>3. Shaped(t)'
  BY <1>1, <1>2 DEF Shaped, Present
<1>4. Verified(t)'
  BY <1>1, <1>2 DEF Verified, Present, CanWrite
<1>5. QED
  BY <1>3, <1>4

LEMMA Assemble ==
  ASSUME Inductive, TypeOK', PageCounts',
         \A t \in Slot, a \in Addr : KeepsAlone(t, a),
         \A t \in Slot : KeepsArg(t),
         \A t \in Slot : Untouched(t) \/ (Shaped(t)' /\ Verified(t)'),
         Kernel'
  PROVE  Inductive'
<1>1. WritableAlone'
  BY WritableKept DEF WritableAlone
<1>2. ArgAlone'
  BY ArgKept DEF ArgAlone
<1>3. \A t \in Slot : Shaped(t)' /\ Verified(t)'
  BY UntouchedKept
<1>4. VerifiedStays'
  BY <1>3 DEF VerifiedStays, Verified
<1>5. QED
  BY <1>1, <1>2, <1>3, <1>4 DEF Inductive, Shapes

-------------------------------------------------------------------------------
(* The steps.                                                              *)

Data == [Page \cup {LOW} -> Val]

LEMMA ContentsType ==
  ASSUME NEW d \in Data, Contents(d)
  PROVE  data' \in Data
BY DEF Contents, Data, Val, Garbage

\* Free pages are not LOW; a count is not negative.
LEMMA FreeMap ==
  ASSUME TypeOK, PageCounts, Free(mem_map) # {}, NEW new, new = get_free_page(mem_map)
  PROVE  /\ new \in Page /\ mem_map[new] = 0 /\ new # LOW /\ new # None
         /\ Taken(mem_map) \in [Page -> Nat]
         /\ \A p \in Page : Taken(mem_map)[p] = mem_map[p] + One(p = new)
         /\ \A u \in Slot, a \in Addr : pte[u][a].page # new
         /\ \A u \in Slot, d \in Dir : pg_dir[u][d] # new
         /\ \A u \in Slot : task[u] # new /\ arg[u] # new
         /\ new \notin lost
<1>1. mem_map \in [Page -> Nat]
  BY PartsType
<1>2. /\ new \in Page /\ mem_map[new] = 0 /\ Taken(mem_map) \in [Page -> Nat]
      /\ \A p \in Page : Taken(mem_map)[p] = mem_map[p] + One(p = new)
  BY <1>1, FreePage
<1>3. new # LOW /\ new # None
  BY <1>2, NoneType
<1>4. QED
  BY <1>2, <1>3, FreeUnused

\* A replaced row of entries or of tables.
LEMMA RowChanges ==
  ASSUME TypeOK, NEW t \in Slot, NEW r \in Entries, pte' = [pte EXCEPT ![t] = r]
  PROVE  pte' \in [Slot -> Entries] /\ pte'[t] = r /\ Agree(pte, pte', Slot, t)
BY PartsType DEF Agree

LEMMA TablesChange ==
  ASSUME TypeOK, NEW t \in Slot, NEW r \in Tables, pg_dir' = [pg_dir EXCEPT ![t] = r]
  PROVE  pg_dir' \in [Slot -> Tables] /\ pg_dir'[t] = r /\ Agree(pg_dir, pg_dir', Slot, t)
BY PartsType DEF Agree

\* Only t is touched.
LEMMA OthersUntouched ==
  ASSUME NEW t \in Slot, Agree(pc, pc', Slot, t), Agree(at, at', Slot, t),
         Agree(pte, pte', Slot, t), Agree(pg_dir, pg_dir', Slot, t),
         Agree(task, task', Slot, t), Agree(arg, arg', Slot, t)
  PROVE  \A u \in Slot : u # t => Untouched(u)
BY DEF Agree, Untouched

LEMMA ExitKeeps ==
  ASSUME Inductive, NEW t \in Slot, t # 0, pc[t] \in {"user", "verified"}, NEW map, NEW more,
         \/ map = mem_map /\ more = {}
         \/ /\ Free(mem_map) # {} /\ map = Taken(mem_map)
            /\ more = {get_free_page(mem_map)},
         do_exit(t, map, more)
  PROVE  Inductive'
<1>1. TypeOK /\ PageCounts /\ Shaped(t) /\ Kernel /\ ArgAlone /\ arg[t] = None
  BY DEF Inductive, Shapes, Shaped
<1>2. /\ mem_map \in [Page -> Nat] /\ map \in [Page -> Nat] /\ more \in SUBSET Page
      /\ more \cap lost = {}
      /\ \A p \in Page : map[p] = mem_map[p] + One(p \in more)
      /\ \A p \in more : mem_map[p] = 0
  <2>1. CASE map = mem_map /\ more = {}
    BY <1>1, <2>1, PartsType DEF One
  <2>2. CASE Free(mem_map) # {} /\ map = Taken(mem_map) /\ more = {get_free_page(mem_map)}
    BY <1>1, <2>2, FreeMap, PartsType
  <2>3. QED
    BY <2>1, <2>2
<1>3. /\ pte' = [pte EXCEPT ![t] = NoEntries] /\ pg_dir' = [pg_dir EXCEPT ![t] = NoTables]
      /\ lost' = lost \cup more /\ task' = task
      /\ pc' = [pc EXCEPT ![t] = "exit"] /\ at' = [at EXCEPT ![t] = Top]
      /\ arg' = [arg EXCEPT ![t] = None]
  <2>1. {arg[t]} \cap Page = {}
    BY <1>1, NoneType
  <2>2. QED
    BY <2>1 DEF do_exit
<1>4. \A p \in Page : mem_map'[p] = map[p] - Mappings(pte[t], p) - TablesIn(pg_dir[t], p)
  BY DEF do_exit, free_page_tables, TablesIn
<1>5. mem_map' \in [Page -> Int]
  <2>1. mem_map' = [p \in Page |-> map[p] - Mappings(pte[t], p) - TablesIn(pg_dir[t], p)]
    BY DEF do_exit, free_page_tables, TablesIn
  <2>2. \A p \in Page : map[p] - Mappings(pte[t], p) - TablesIn(pg_dir[t], p) \in Int
    BY <1>2, Sizes
  <2>3. QED
    BY <2>1, <2>2
<1>6. arg' = arg
  BY <1>1, <1>3 DEF TypeOK
<1>7. /\ pte' \in [Slot -> Entries] /\ pte'[t] = NoEntries /\ Agree(pte, pte', Slot, t)
      /\ pg_dir' \in [Slot -> Tables] /\ pg_dir'[t] = NoTables /\ Agree(pg_dir, pg_dir', Slot, t)
  BY <1>1, <1>3, NoneType, RowChanges, TablesChange
<1>8. PageCounts' /\ mem_map' \in [Page -> Nat]
  <2>1. ASSUME NEW p \in Page
        PROVE  Balanced(p)
    <3>1. InEntries(pte', p) = InEntries(pte, p) - Mappings(pte[t], p) + Mappings(NoEntries, p)
      BY <1>1, <1>7, PartsType, EntriesOfRow
    <3>2. InTables(pg_dir', p) = InTables(pg_dir, p) - TablesIn(pg_dir[t], p)
                                 + TablesIn(NoTables, p)
      BY <1>1, <1>7, PartsType, TablesOfRow
    <3>3. In(lost', p) = In(lost, p) + One(p \in more)
      <4>1. In(lost', p) = One(p \in lost') /\ In(lost, p) = One(p \in lost)
        BY InOne
      <4>2. (p \in lost' <=> p \in lost \/ p \in more) /\ ~ (p \in lost /\ p \in more)
        BY <1>2, <1>3
      <4>3. QED
        BY <4>1, <4>2 DEF One
    <3>4. map[p] = mem_map[p] + One(p \in more)
          /\ mem_map'[p] = map[p] - Mappings(pte[t], p) - TablesIn(pg_dir[t], p)
      BY <1>2, <1>4
    <3>5. InSlots(task', p) = InSlots(task, p) /\ InSlots(arg', p) = InSlots(arg, p)
      BY <1>3, <1>6
    <3>6. /\ InEntries(pte, p) \in Nat /\ InTables(pg_dir, p) \in Nat /\ In(lost, p) \in Nat
          /\ One(p \in more) \in Nat /\ Mappings(pte[t], p) \in Nat
          /\ TablesIn(pg_dir[t], p) \in Nat /\ mem_map[p] \in Nat
          /\ InSlots(task, p) \in Nat /\ InSlots(arg, p) \in Nat
      BY <1>1, UseCounts, Sizes DEF One
    <3>7. Mappings(NoEntries, p) = 0 /\ TablesIn(NoTables, p) = 0
      BY Nothing
    <3>8. QED
      BY <3>1, <3>2, <3>3, <3>4, <3>5, <3>6, <3>7 DEF Balanced
  <2>2. \A p \in Page : Balanced(p)
    BY <2>1
  <2>3. TypeOK /\ PageCounts
    BY <1>1
  <2>4. QED
    BY <1>5, <2>2, <2>3, Balance
<1>9. TypeOK'
  <2>1. data' \in Data
    <3>1. data \in Data /\ Contents(data)
      BY <1>1 DEF do_exit, TypeOK, Data
    <3>2. QED
      BY <3>1, ContentsType
  <2>2. father' \in [Slot -> Slot]
    BY <1>1, PartsType DEF do_exit, TypeOK
  <2>3. Top \in Addr
    BY DEF Top, Addr
  <2>4. pc' \in [Slot -> {"none", "user", "pause", "verified", "exec", "exit", "zombie"}]
        /\ at' \in [Slot -> Addr]
    BY <1>1, <1>3, <2>3 DEF TypeOK
  <2>5. QED
    BY <1>1, <1>2, <1>3, <1>6, <1>7, <1>8, <2>1, <2>2, <2>4 DEF TypeOK, Data, Entries, Tables
<1>10. \A u \in Slot : u # t => Untouched(u)
  BY <1>1, <1>3, <1>6, <1>7, OthersUntouched DEF Agree, TypeOK
<1>11. \A p \in Page : mem_map[p] # 0 => mem_map'[p] <= mem_map[p]
  <2> SUFFICES ASSUME NEW p \in Page, mem_map[p] # 0
               PROVE  mem_map'[p] <= mem_map[p]
    OBVIOUS
  <2>1. map[p] = mem_map[p]
    BY <1>2 DEF One
  <2>2. Mappings(pte[t], p) \in Nat /\ TablesIn(pg_dir[t], p) \in Nat /\ mem_map[p] \in Nat
    BY <1>2, Sizes
  <2>3. QED
    BY <1>4, <2>1, <2>2
<1>12. ASSUME NEW u \in Slot, NEW a \in Addr
       PROVE  KeepsAlone(u, a)
  <2>1. CASE u = t
    BY <1>7, <2>1 DEF KeepsAlone, NoEntries, NotPresent
  <2>2. CASE u # t
    <3>1. pte[u][a].page \in Page => mem_map[pte[u][a].page] # 0
      BY <1>1, FreeUnused
    <3>2. pte'[u][a] = pte[u][a]
      BY <1>7, <2>2 DEF Agree
    <3>3. QED
      BY <1>11, <3>1, <3>2 DEF KeepsAlone
  <2>3. QED
    BY <2>1, <2>2
<1>13. ASSUME NEW u \in Slot
       PROVE  KeepsArg(u)
  <2>1. arg[u] # None => arg[u] \in Page /\ mem_map[arg[u]] # 0
    BY <1>1 DEF ArgAlone, TypeOK
  <2>2. QED
    BY <1>6, <1>11, <2>1 DEF KeepsArg
<1>14. Shaped(t)' /\ Verified(t)'
  <2>1. pc'[t] = "exit" /\ task'[t] # None /\ arg'[t] = None
    BY <1>1, <1>3, <1>6 DEF Shaped, TypeOK
  <2>2. \A a \in Addr : ~ Present(t, a)'
    BY <1>7 DEF Present, NoEntries, NotPresent
  <2>3. QED
    BY <1>7, <2>1, <2>2 DEF Shaped, Verified
<1>15. Kernel'
  BY <1>1, <1>3 DEF Kernel, TypeOK
<1>16. QED
  BY <1>8, <1>9, <1>10, <1>12, <1>13, <1>14, <1>15, Assemble

\* One entry of one task.
LEMMA EntryCount ==
  ASSUME NEW f \in [Slot -> Entries], NEW g \in [Slot -> Entries], NEW t \in Slot, NEW a \in Addr,
         Agree(f, g, Slot, t), Agree(f[t], g[t], Addr, a), NEW p
  PROVE  InEntries(g, p) = InEntries(f, p) - One(f[t][a].page = p) + One(g[t][a].page = p)
<1>1. InEntries(g, p) = InEntries(f, p) - Mappings(f[t], p) + Mappings(g[t], p)
  BY EntriesOfRow
<1>2. f[t] \in Entries /\ g[t] \in Entries
  OBVIOUS
<1>3. Mappings(g[t], p) = Mappings(f[t], p) - One(f[t][a].page = p) + One(g[t][a].page = p)
  BY <1>2, MappingsOfOne
<1>4. InEntries(f, p) \in Nat /\ Mappings(f[t], p) \in Nat
  BY Sizes
<1>5. One(f[t][a].page = p) \in Nat /\ One(g[t][a].page = p) \in Nat
  BY DEF One
<1>6. QED
  BY <1>1, <1>3, <1>4, <1>5

LEMMA TableCount ==
  ASSUME NEW f \in [Slot -> Tables], NEW g \in [Slot -> Tables], NEW t \in Slot, NEW d \in Dir,
         Agree(f, g, Slot, t), Agree(f[t], g[t], Dir, d), NEW p
  PROVE  InTables(g, p) = InTables(f, p) - One(f[t][d] = p) + One(g[t][d] = p)
<1>1. InTables(g, p) = InTables(f, p) - TablesIn(f[t], p) + TablesIn(g[t], p)
  BY TablesOfRow
<1>2. f[t] \in Tables /\ g[t] \in Tables
  OBVIOUS
<1>3. TablesIn(g[t], p) = TablesIn(f[t], p) - One(f[t][d] = p) + One(g[t][d] = p)
  BY <1>2, TablesOfOne
<1>4. InTables(f, p) \in Nat /\ TablesIn(f[t], p) \in Nat
  BY Sizes
<1>5. One(f[t][d] = p) \in Nat /\ One(g[t][d] = p) \in Nat
  BY DEF One
<1>6. QED
  BY <1>1, <1>3, <1>4, <1>5

LEMMA EntryChanges ==
  ASSUME TypeOK, NEW t \in Slot, NEW a \in Addr,
         NEW e \in [page : Page \cup {LOW, None}, rw : BOOLEAN], pte' = [pte EXCEPT ![t][a] = e]
  PROVE  /\ pte' \in [Slot -> Entries] /\ pte'[t][a] = e /\ Agree(pte, pte', Slot, t)
         /\ Agree(pte[t], pte'[t], Addr, a)
BY PartsType DEF Entries, Agree

LEMMA TableChanges ==
  ASSUME TypeOK, NEW t \in Slot, NEW d \in Dir, NEW q \in Page \cup {LOW, None},
         pg_dir' = [pg_dir EXCEPT ![t][d] = q]
  PROVE  /\ pg_dir' \in [Slot -> Tables] /\ pg_dir'[t][d] = q /\ Agree(pg_dir, pg_dir', Slot, t)
         /\ Agree(pg_dir[t], pg_dir'[t], Dir, d)
BY PartsType DEF Tables, Agree

Places == {"none", "user", "pause", "verified", "exec", "exit", "zombie"}

\* Steps that change nobody's memory but its contents: t goes on in user mode
\* or in a system call.
LEMMA QuietKeeps ==
  ASSUME Inductive, NEW t \in Slot, t # 0, pc[t] \in {"user", "verified"},
         UNCHANGED <<mem_map, tables, tasks, arg, lost>>, data' \in Data,
         pc' \in [Slot -> Places], at' \in [Slot -> Addr],
         Agree(pc, pc', Slot, t), Agree(at, at', Slot, t),
         pc'[t] \in {"user", "verified"}, Verified(t)'
  PROVE  Inductive'
<1>1. TypeOK /\ PageCounts /\ Shaped(t) /\ Kernel
  BY DEF Inductive, Shapes
<1>2. /\ mem_map' = mem_map /\ pte' = pte /\ pg_dir' = pg_dir /\ task' = task
      /\ father' = father /\ arg' = arg /\ lost' = lost
  BY DEF tables, tasks
<1>3. TypeOK'
  BY <1>1, <1>2 DEF TypeOK, Data, Places
<1>4. PageCounts'
  BY <1>1, <1>2 DEF PageCounts, Users
<1>5. \A u \in Slot : u # t => Untouched(u)
  BY <1>2, OthersUntouched DEF Agree
<1>6. \A u \in Slot, a \in Addr : KeepsAlone(u, a)
  <2> SUFFICES ASSUME NEW u \in Slot, NEW a \in Addr
               PROVE  KeepsAlone(u, a)
    OBVIOUS
  <2>1. pte[u][a].page \in Page => mem_map[pte[u][a].page] \in Nat
    BY <1>1 DEF TypeOK
  <2>2. QED
    BY <1>2, <2>1 DEF KeepsAlone
<1>7. \A u \in Slot : KeepsArg(u)
  <2> SUFFICES ASSUME NEW u \in Slot
               PROVE  KeepsArg(u)
    OBVIOUS
  <2>1. arg[u] # None => mem_map[arg[u]] \in Nat
    BY <1>1 DEF TypeOK
  <2>2. QED
    BY <1>2, <2>1 DEF KeepsArg
<1>8. Shaped(t)'
  BY <1>1, <1>2 DEF Shaped, Present, Gone
<1>9. Kernel'
  BY <1>1, PartsType DEF Kernel, Agree
<1>10. QED
  BY <1>3, <1>4, <1>5, <1>6, <1>7, <1>8, <1>9, Assemble

LEMMA TopAddr == Top \in Addr
BY DEF Top, Addr

\* Entering or leaving a system call.
LEMMA EnterType ==
  ASSUME TypeOK, NEW t \in Slot, NEW place \in Places, NEW a \in Addr, Enter(t, place, a)
  PROVE  /\ pc' \in [Slot -> Places] /\ at' \in [Slot -> Addr]
         /\ Agree(pc, pc', Slot, t) /\ Agree(at, at', Slot, t)
         /\ pc'[t] = place /\ at'[t] = a
BY DEF TypeOK, Enter, Agree, Places

\* Storing v in a page that t has mapped.
LEMMA StoreType ==
  ASSUME TypeOK, NEW t \in Slot, NEW a \in Addr, Present(t, a), NEW v \in Val
  PROVE  [data EXCEPT ![pte[t][a].page] = v] \in Data
BY EntryType DEF TypeOK, Data, Present

LEMMA WriteKeeps ==
  ASSUME Inductive, NEW t \in Slot, NEW a \in Addr, NEW v \in Stored, write(t, a, v)
  PROVE  Inductive'
<1>1. TypeOK /\ Verified(t)
  BY DEF Inductive, VerifiedStays, Verified
<1>2. data' \in Data
  BY <1>1, StoreType DEF write, CanWrite, Stored
<1>3. /\ pc' = pc /\ at' = at /\ pc[t] = "user" /\ t # 0
      /\ UNCHANGED <<mem_map, tables, tasks, arg, lost>>
  BY DEF write, call
<1>4. pc' \in [Slot -> Places] /\ at' \in [Slot -> Addr]
  BY <1>1, <1>3 DEF TypeOK, Places
<1>5. QED
  BY <1>2, <1>3, <1>4, QuietKeeps DEF Agree, Verified

LEMMA SysPipeKeeps ==
  ASSUME Inductive, NEW t \in Slot, NEW a \in Addr, NEW v \in Stored, sys_pipe(t, a, v)
  PROVE  Inductive'
<1>1. TypeOK
  BY DEF Inductive
<1>2. data' \in Data
  BY <1>1, StoreType, ContentsType DEF sys_pipe, PutFs, Stored
<1>3. /\ pc' = pc /\ at' = at /\ pc[t] = "user" /\ t # 0
      /\ UNCHANGED <<mem_map, tables, tasks, arg, lost>>
  BY DEF sys_pipe, call
<1>4. pc' \in [Slot -> Places] /\ at' \in [Slot -> Addr]
  BY <1>1, <1>3 DEF TypeOK, Places
<1>5. QED
  BY <1>2, <1>3, <1>4, QuietKeeps DEF Agree, Verified

LEMMA VerifiedNotKernel ==
  ASSUME Inductive, NEW t \in Slot, pc[t] \notin {"user", "pause"}
  PROVE  t # 0
BY DEF Inductive, Shapes, Kernel

LEMMA PutFsKeeps ==
  ASSUME Inductive, NEW t \in Slot, NEW v \in Stored, put_fs(t, v)
  PROVE  Inductive'
<1>1. TypeOK /\ t # 0 /\ at[t] \in Addr
  BY VerifiedNotKernel DEF Inductive, put_fs, TypeOK
<1>2. data' \in Data
  BY <1>1, StoreType, ContentsType DEF put_fs, PutFs, Stored
<1>3. /\ pc[t] = "verified" /\ Enter(t, "user", Top)
      /\ UNCHANGED <<mem_map, tables, tasks, arg, lost>>
  BY DEF put_fs
<1>4. /\ pc' \in [Slot -> Places] /\ at' \in [Slot -> Addr]
      /\ Agree(pc, pc', Slot, t) /\ Agree(at, at', Slot, t) /\ pc'[t] = "user"
  BY <1>1, <1>3, TopAddr, EnterType DEF Places
<1>5. QED
  BY <1>1, <1>2, <1>3, <1>4, QuietKeeps DEF Verified

LEMMA ReturnKeeps ==
  ASSUME Inductive, NEW t \in Slot, return(t)
  PROVE  Inductive'
<1>1. TypeOK /\ t # 0
  BY VerifiedNotKernel DEF Inductive, return
<1>2. /\ pc[t] = "verified" /\ Enter(t, "user", Top) /\ data' = data
      /\ UNCHANGED <<mem_map, tables, tasks, arg, lost>>
  BY DEF return
<1>3. data' \in Data
  BY <1>1, <1>2 DEF TypeOK, Data
<1>4. /\ pc' \in [Slot -> Places] /\ at' \in [Slot -> Addr]
      /\ Agree(pc, pc', Slot, t) /\ Agree(at, at', Slot, t) /\ pc'[t] = "user"
  BY <1>1, <1>2, TopAddr, EnterType DEF Places
<1>5. QED
  BY <1>1, <1>2, <1>3, <1>4, QuietKeeps DEF Verified

\* t goes on in user mode, or in the system call that is to write to a.
GoesOn(t, a) == UNCHANGED <<pc, at>> \/ Enter(t, "verified", a)

LEMMA GoesOnType ==
  ASSUME TypeOK, NEW t \in Slot, NEW a \in Addr, pc[t] = "user", GoesOn(t, a)
  PROVE  /\ pc' \in [Slot -> Places] /\ at' \in [Slot -> Addr]
         /\ Agree(pc, pc', Slot, t) /\ Agree(at, at', Slot, t)
         /\ pc'[t] = "user" \/ (pc'[t] = "verified" /\ at'[t] = a)
<1>1. CASE UNCHANGED <<pc, at>>
  <2>1. pc' = pc /\ at' = at /\ pc \in [Slot -> Places] /\ at \in [Slot -> Addr]
    BY <1>1 DEF TypeOK, Places
  <2>2. Agree(pc, pc', Slot, t) /\ Agree(at, at', Slot, t) /\ pc'[t] = "user"
    BY <2>1 DEF Agree
  <2>3. pc' \in [Slot -> Places] /\ at' \in [Slot -> Addr]
    BY <2>1
  <2>4. QED
    BY <2>2, <2>3
<1>2. CASE Enter(t, "verified", a)
  BY <1>2, EnterType DEF Places
<1>3. QED
  BY <1>1, <1>2 DEF GoesOn

LEMMA EntryIs ==
  ASSUME NEW p \in Page
  PROVE  /\ Entry(p) \in [page : Page \cup {LOW, None}, rw : BOOLEAN]
         /\ Entry(p).page = p /\ Entry(p).rw
BY DEF Entry

LEMMA FreePageMap ==
  ASSUME NEW map \in [Page -> Nat], NEW p
  PROVE  /\ free_page(map, p) \in [Page -> Int]
         /\ \A q \in Page : free_page(map, p)[q] = map[q] - One(q = p)
BY DEF free_page, One

\* A write fault on a page that has no other user.
LEMMA AloneKeeps ==
  ASSUME Inductive, NEW t \in Slot, t # 0, NEW a \in Addr, pc[t] = "user", Present(t, a),
         Alone(pte[t][a].page), pte' = [pte EXCEPT ![t][a].rw = TRUE], GoesOn(t, a),
         UNCHANGED <<mem_map, data, pg_dir, tasks, arg, lost>>
  PROVE  Inductive'
<1>1. TypeOK /\ PageCounts /\ Shaped(t) /\ Kernel
  BY DEF Inductive, Shapes
<1>2. /\ mem_map' = mem_map /\ data' = data /\ pg_dir' = pg_dir /\ task' = task
      /\ father' = father /\ arg' = arg /\ lost' = lost
  BY DEF tasks
<1>3. PICK e \in [page : Page \cup {LOW, None}, rw : BOOLEAN] :
        e.page = pte[t][a].page /\ e.rw /\ pte' = [pte EXCEPT ![t][a] = e]
  <2> DEFINE e == [pte[t][a] EXCEPT !.rw = TRUE]
  <2>1. pte[t][a] \in [page : Page \cup {LOW, None}, rw : BOOLEAN]
    BY <1>1 DEF TypeOK
  <2>2. e \in [page : Page \cup {LOW, None}, rw : BOOLEAN] /\ e.page = pte[t][a].page /\ e.rw
    BY ONLY <2>1
  <2>3. pte' = [pte EXCEPT ![t][a] = e]
    OBVIOUS
  <2>4. QED
    BY <2>2, <2>3
<1>4. /\ pte' \in [Slot -> Entries] /\ pte'[t][a] = e /\ Agree(pte, pte', Slot, t)
      /\ Agree(pte[t], pte'[t], Addr, a)
  BY <1>1, <1>3, EntryChanges
<1>5. PageCounts' /\ mem_map' \in [Page -> Nat]
  <2>1. ASSUME NEW p \in Page
        PROVE  Balanced(p)
    <3>1. InEntries(pte', p) = InEntries(pte, p) - One(pte[t][a].page = p) + One(e.page = p)
      <4>1. InEntries(pte', p) = InEntries(pte, p) - One(pte[t][a].page = p)
                                 + One(pte'[t][a].page = p)
        <5>1. pte \in [Slot -> Entries]
          BY <1>1, PartsType
        <5>2. QED
          BY ONLY <1>1, <1>4, <5>1, EntryCount
      <4>2. QED
        BY <1>4, <4>1
    <3>2. One(pte[t][a].page = p) = One(e.page = p) /\ One(e.page = p) \in Nat
      BY <1>3 DEF One
    <3>3. /\ InEntries(pte, p) \in Nat /\ InTables(pg_dir, p) \in Nat /\ In(lost, p) \in Nat
          /\ mem_map[p] \in Nat /\ InSlots(task, p) \in Nat /\ InSlots(arg, p) \in Nat
      BY <1>1, UseCounts
    <3>4. InEntries(pte', p) = InEntries(pte, p)
      BY <3>1, <3>2, <3>3
    <3>5. QED
      BY <1>2, <3>3, <3>4 DEF Balanced
  <2>2. \A p \in Page : Balanced(p)
    BY <2>1
  <2>3. mem_map' \in [Page -> Int]
    BY <1>1, <1>2, PartsType
  <2>4. QED
    BY <1>1, <2>2, <2>3, Balance
<1>6. /\ pc' \in [Slot -> Places] /\ at' \in [Slot -> Addr]
      /\ Agree(pc, pc', Slot, t) /\ Agree(at, at', Slot, t)
      /\ pc'[t] = "user" \/ (pc'[t] = "verified" /\ at'[t] = a)
  BY <1>1, GoesOnType
<1>7. TypeOK'
  BY <1>1, <1>2, <1>4, <1>5, <1>6 DEF TypeOK, Entries, Tables, Places
<1>8. \A u \in Slot : u # t => Untouched(u)
  BY <1>2, <1>4, <1>6, OthersUntouched DEF Agree
<1>9. ASSUME NEW u \in Slot, NEW b \in Addr
      PROVE  KeepsAlone(u, b)
  <2>1. CASE u = t /\ b = a
    BY <1>2, <1>3, <1>4, <2>1 DEF KeepsAlone, Alone
  <2>2. CASE ~ (u = t /\ b = a)
    <3>1. pte'[u][b] = pte[u][b]
      BY <1>4, <2>2 DEF Agree
    <3>2. pte[u][b].page \in Page => mem_map[pte[u][b].page] \in Nat
      BY <1>1 DEF TypeOK
    <3>3. QED
      BY <1>2, <3>1, <3>2 DEF KeepsAlone
  <2>3. QED
    BY <2>1, <2>2
<1>10. ASSUME NEW u \in Slot
       PROVE  KeepsArg(u)
  <2>1. arg[u] # None => mem_map[arg[u]] \in Nat
    BY <1>1 DEF TypeOK
  <2>2. QED
    BY <1>2, <2>1 DEF KeepsArg
<1>11. Shaped(t)' /\ Verified(t)'
  <2>1. \A b \in Addr : Present(t, b)' => pg_dir'[t][DirOf(b)] # None
    <3> SUFFICES ASSUME NEW b \in Addr, Present(t, b)'
                 PROVE  pg_dir'[t][DirOf(b)] # None
      OBVIOUS
    <3>1. Present(t, b)
      BY <1>4 DEF Present, Agree
    <3>2. QED
      BY <1>1, <1>2, <3>1 DEF Shaped
  <2>2. Shaped(t)'
    BY <1>1, <1>2, <1>6, <2>1 DEF Shaped, Gone
  <2>3. Verified(t)'
    BY <1>3, <1>4, <1>6 DEF Verified, Present, CanWrite
  <2>4. QED
    BY <2>2, <2>3
<1>12. Kernel'
  BY <1>1, <1>6, PartsType DEF Kernel, Agree
<1>13. QED
  BY <1>5, <1>7, <1>8, <1>9, <1>10, <1>11, <1>12, Assemble

\* A write fault on a page that has other users: t gets a copy of its own.
LEMMA CopyKeeps ==
  ASSUME Inductive, NEW t \in Slot, t # 0, NEW a \in Addr, pc[t] = "user", Present(t, a),
         ~ Alone(pte[t][a].page), Free(mem_map) # {},
         NEW new, new = get_free_page(mem_map),
         mem_map' = free_page(Taken(mem_map), pte[t][a].page),
         pte' = [pte EXCEPT ![t][a] = Entry(new)],
         data' = [data EXCEPT ![new] = data[pte[t][a].page]], GoesOn(t, a),
         UNCHANGED <<pg_dir, tasks, arg, lost>>
  PROVE  Inductive'
<1>1. TypeOK /\ PageCounts /\ Shaped(t) /\ Kernel /\ ArgAlone
  BY DEF Inductive, Shapes
<1>2. pg_dir' = pg_dir /\ task' = task /\ father' = father /\ arg' = arg /\ lost' = lost
  BY DEF tasks
<1>3. /\ new \in Page /\ mem_map[new] = 0 /\ new # LOW /\ new # None
      /\ Taken(mem_map) \in [Page -> Nat]
      /\ \A p \in Page : Taken(mem_map)[p] = mem_map[p] + One(p = new)
      /\ \A u \in Slot, b \in Addr : pte[u][b].page # new
  BY <1>1, FreeMap
<1>4. PICK old \in Page \cup {LOW} : old = pte[t][a].page
  BY <1>1, EntryType DEF Present
<1>5. old # new
  BY <1>3, <1>4
<1>6. PICK e \in [page : Page \cup {LOW, None}, rw : BOOLEAN] : e = Entry(new) /\ e.page = new /\ e.rw
  BY <1>3, EntryIs
<1>7. /\ pte' \in [Slot -> Entries] /\ pte'[t][a] = e /\ Agree(pte, pte', Slot, t)
      /\ Agree(pte[t], pte'[t], Addr, a)
  BY <1>1, <1>6, EntryChanges
<1>8. /\ mem_map' \in [Page -> Int]
      /\ \A p \in Page : mem_map'[p] = mem_map[p] + One(p = new) - One(p = old)
  <2>1. PICK map \in [Page -> Nat] : map = Taken(mem_map)
    BY <1>3
  <2>2. mem_map' = free_page(map, old)
    BY <1>4, <2>1
  <2>3. \A p \in Page : map[p] = mem_map[p] + One(p = new)
    BY <1>3, <2>1
  <2>4. /\ mem_map' \in [Page -> Int]
        /\ \A p \in Page : mem_map'[p] = map[p] - One(p = old)
    BY <2>2, FreePageMap
  <2>5. \A p \in Page : mem_map[p] \in Nat /\ One(p = new) \in Nat /\ One(p = old) \in Nat
    BY <1>1, PartsType DEF One
  <2>6. QED
    BY <2>3, <2>4, <2>5
<1>9. PageCounts' /\ mem_map' \in [Page -> Nat]
  <2>1. ASSUME NEW p \in Page
        PROVE  Balanced(p)
    <3>1. InEntries(pte', p) = InEntries(pte, p) - One(pte[t][a].page = p) + One(e.page = p)
      <4>1. InEntries(pte', p) = InEntries(pte, p) - One(pte[t][a].page = p)
                                 + One(pte'[t][a].page = p)
        <5>1. pte \in [Slot -> Entries]
          BY <1>1, PartsType
        <5>2. QED
          BY ONLY <1>1, <1>7, <5>1, EntryCount
      <4>2. QED
        BY <1>7, <4>1
    <3>2. One(pte[t][a].page = p) = One(p = old) /\ One(e.page = p) = One(p = new)
          /\ One(p = old) \in Nat /\ One(p = new) \in Nat
      BY <1>4, <1>6 DEF One
    <3>3. /\ InEntries(pte, p) \in Nat /\ InTables(pg_dir, p) \in Nat /\ In(lost, p) \in Nat
          /\ mem_map[p] \in Nat /\ InSlots(task, p) \in Nat /\ InSlots(arg, p) \in Nat
      BY <1>1, UseCounts
    <3>4. InEntries(pte', p) = InEntries(pte, p) - One(p = old) + One(p = new)
      BY <3>1, <3>2
    <3>5. QED
      BY <1>2, <1>8, <3>2, <3>3, <3>4 DEF Balanced
  <2>2. \A p \in Page : Balanced(p)
    BY <2>1
  <2>3. QED
    BY <1>1, <1>8, <2>2, Balance
<1>10. /\ pc' \in [Slot -> Places] /\ at' \in [Slot -> Addr]
       /\ Agree(pc, pc', Slot, t) /\ Agree(at, at', Slot, t)
       /\ pc'[t] = "user" \/ (pc'[t] = "verified" /\ at'[t] = a)
  BY <1>1, GoesOnType
<1>11. TypeOK'
  <2>1. data' \in Data
    BY <1>1, <1>3, <1>4 DEF TypeOK, Data
  <2>2. QED
    BY <1>1, <1>2, <1>7, <1>9, <1>10, <2>1 DEF TypeOK, Data, Entries, Tables, Places
<1>12. \A u \in Slot : u # t => Untouched(u)
  BY <1>2, <1>7, <1>10, OthersUntouched DEF Agree
<1>13. \A p \in Page : p # new => mem_map'[p] <= mem_map[p]
  BY <1>1, <1>8, PartsType DEF One
<1>14. ASSUME NEW u \in Slot, NEW b \in Addr
       PROVE  KeepsAlone(u, b)
  <2>1. CASE u = t /\ b = a
    <3>1. mem_map'[new] = 1
      BY <1>3, <1>5, <1>8 DEF One
    <3>2. QED
      BY <1>3, <1>6, <1>7, <2>1, <3>1 DEF KeepsAlone
  <2>2. CASE ~ (u = t /\ b = a)
    <3>1. pte'[u][b] = pte[u][b]
      BY <1>7, <2>2 DEF Agree
    <3>2. pte[u][b].page \in Page => mem_map'[pte[u][b].page] <= mem_map[pte[u][b].page]
      BY <1>3, <1>13
    <3>3. QED
      BY <3>1, <3>2 DEF KeepsAlone
  <2>3. QED
    BY <2>1, <2>2
<1>15. ASSUME NEW u \in Slot
       PROVE  KeepsArg(u)
  <2>1. arg[u] # None => arg[u] \in Page /\ arg[u] # new
    BY <1>1, <1>3 DEF TypeOK, ArgAlone
  <2>2. QED
    BY <1>2, <1>13, <2>1 DEF KeepsArg
<1>16. Shaped(t)' /\ Verified(t)'
  <2>1. \A b \in Addr : Present(t, b)' => pg_dir'[t][DirOf(b)] # None
    <3> SUFFICES ASSUME NEW b \in Addr, Present(t, b)'
                 PROVE  pg_dir'[t][DirOf(b)] # None
      OBVIOUS
    <3>1. Present(t, b)
      BY <1>7 DEF Present, Agree
    <3>2. QED
      BY <1>1, <1>2, <3>1 DEF Shaped
  <2>2. Shaped(t)'
    BY <1>1, <1>2, <1>10, <2>1 DEF Shaped, Gone
  <2>3. Verified(t)'
    BY <1>6, <1>7, <1>10 DEF Verified, Present, CanWrite
  <2>4. QED
    BY <2>2, <2>3
<1>17. Kernel'
  BY <1>1, <1>10, PartsType DEF Kernel, Agree
<1>18. QED
  BY <1>9, <1>11, <1>12, <1>14, <1>15, <1>16, <1>17, Assemble

\* The page new is taken, and a page table (the one in more) if there was none.
TablesGrow(t, a, new, more) ==
  /\ mem_map' \in [Page -> Int]
  /\ \A p \in Page : mem_map'[p] = mem_map[p] + One(p = new) + One(p \in more)
  /\ more \in SUBSET Page /\ new \notin more /\ \A p \in more : mem_map[p] = 0
  /\ pg_dir' \in [Slot -> Tables] /\ Agree(pg_dir, pg_dir', Slot, t)
  /\ \A p \in Page : InTables(pg_dir', p) = InTables(pg_dir, p) + One(p \in more)
  /\ pg_dir'[t][DirOf(a)] # None
  /\ \A d \in Dir : pg_dir[t][d] # None => pg_dir'[t][d] # None

LEMMA PutPageGrows ==
  ASSUME TypeOK, PageCounts, NEW t \in Slot, NEW a \in Addr, Free(mem_map) # {},
         NEW new, new = get_free_page(mem_map), NEW map, map = Taken(mem_map),
         put_page(t, new, a, map)
  PROVE  \E more : TablesGrow(t, a, new, more)
<1>1. /\ new \in Page /\ map \in [Page -> Nat]
      /\ \A p \in Page : map[p] = mem_map[p] + One(p = new)
      /\ mem_map \in [Page -> Nat] /\ pg_dir \in [Slot -> Tables] /\ DirOf(a) \in Dir
  BY FreeMap, PartsType, DirOfAddr
<1>2. \A p \in Page : mem_map[p] \in Nat /\ One(p = new) \in Nat
  BY <1>1 DEF One
<1>3. CASE pg_dir[t][DirOf(a)] # None
  <2>1. mem_map' = map /\ pg_dir' = pg_dir
    BY <1>3 DEF put_page
  <2>2. \A p \in Page : One(p \in {}) = 0 /\ InTables(pg_dir, p) \in Nat
    BY Sizes DEF One
  <2>3. \A p \in Page : mem_map'[p] = mem_map[p] + One(p = new) + One(p \in {})
    BY <1>1, <1>2, <2>1, <2>2
  <2>4. \A p \in Page : InTables(pg_dir', p) = InTables(pg_dir, p) + One(p \in {})
    BY <2>1, <2>2
  <2>5. TablesGrow(t, a, new, {})
    BY <1>1, <1>3, <2>1, <2>3, <2>4 DEF TablesGrow, Agree
  <2>6. QED
    BY <2>5
<1>4. CASE pg_dir[t][DirOf(a)] = None
  <2>1. PICK q : q = get_free_page(map)
    OBVIOUS
  <2>2. /\ Free(map) # {} /\ mem_map' = Taken(map)
        /\ pg_dir' = [pg_dir EXCEPT ![t][DirOf(a)] = q]
    BY <1>4, <2>1 DEF put_page
  <2>3. /\ q \in Page /\ map[q] = 0 /\ Taken(map) \in [Page -> Nat]
        /\ \A p \in Page : Taken(map)[p] = map[p] + One(p = q)
    BY <1>1, <2>1, <2>2, FreePage
  <2>4. /\ pg_dir' \in [Slot -> Tables] /\ pg_dir'[t][DirOf(a)] = q
        /\ Agree(pg_dir, pg_dir', Slot, t) /\ Agree(pg_dir[t], pg_dir'[t], Dir, DirOf(a))
    <3>1. PICK d \in Dir : d = DirOf(a)
      BY <1>1
    <3>2. PICK r \in Page \cup {LOW, None} : r = q
      BY <2>3
    <3>3. TypeOK /\ pg_dir' = [pg_dir EXCEPT ![t][d] = r]
      BY <2>2, <3>1, <3>2
    <3>4. /\ pg_dir' \in [Slot -> Tables] /\ pg_dir'[t][d] = r
          /\ Agree(pg_dir, pg_dir', Slot, t) /\ Agree(pg_dir[t], pg_dir'[t], Dir, d)
      BY ONLY <3>3, TableChanges
    <3>5. QED
      BY <3>1, <3>2, <3>4
  <2>5. \A p \in Page : One(p \in {q}) = One(p = q) /\ One(p = q) \in Nat
    BY DEF One
  <2>6. q # new /\ mem_map[q] = 0
    <3>1. 0 = mem_map[q] + One(q = new)
      BY <1>1, <2>3
    <3>2. QED
      BY <1>2, <2>3, <3>1 DEF One
  <2>7. \A p \in Page : mem_map'[p] = mem_map[p] + One(p = new) + One(p \in {q})
    BY <1>1, <1>2, <2>2, <2>3, <2>5
  <2>8. ASSUME NEW p \in Page
        PROVE  InTables(pg_dir', p) = InTables(pg_dir, p) + One(p \in {q})
    <3>1. InTables(pg_dir', p) = InTables(pg_dir, p) - One(pg_dir[t][DirOf(a)] = p)
                                 + One(pg_dir'[t][DirOf(a)] = p)
      BY ONLY <1>1, <2>4, TableCount
    <3>2. One(pg_dir[t][DirOf(a)] = p) = 0
      BY <1>4, NoneType DEF One
    <3>3. One(pg_dir'[t][DirOf(a)] = p) = One(p \in {q}) /\ One(p \in {q}) \in Nat
      BY <2>4 DEF One
    <3>4. InTables(pg_dir, p) \in Nat
      BY Sizes
    <3>5. QED
      BY <3>1, <3>2, <3>3, <3>4
  <2>9. q # None /\ \A d \in Dir : pg_dir[t][d] # None => pg_dir'[t][d] # None
    BY <2>3, <2>4, NoneType DEF Agree
  <2>10. mem_map' \in [Page -> Int]
    BY <2>2, <2>3
  <2>11. TablesGrow(t, a, new, {q})
    BY <2>3, <2>4, <2>6, <2>7, <2>8, <2>9, <2>10 DEF TablesGrow
  <2>12. QED
    BY <2>11
<1>5. QED
  BY <1>3, <1>4

\* A page that was not there.
LEMMA FaultKeeps ==
  ASSUME Inductive, NEW t \in Slot, t # 0, NEW a \in Addr, pc[t] \in {"user", "verified"},
         ~ Present(t, a), Free(mem_map) # {}, NEW new, new = get_free_page(mem_map),
         NEW more, TablesGrow(t, a, new, more), pte' = [pte EXCEPT ![t][a] = Entry(new)],
         data' = [data EXCEPT ![new] = 0], UNCHANGED <<tasks, call, lost>>
  PROVE  Inductive'
<1>1. TypeOK /\ PageCounts /\ Shaped(t) /\ Kernel /\ ArgAlone /\ Verified(t)
  BY DEF Inductive, Shapes, VerifiedStays, Verified
<1>2. /\ task' = task /\ father' = father /\ arg' = arg /\ lost' = lost
      /\ pc' = pc /\ at' = at
  BY DEF tasks, call
<1>3. /\ new \in Page /\ mem_map[new] = 0 /\ new # LOW /\ new # None
      /\ \A u \in Slot, b \in Addr : pte[u][b].page # new
  BY <1>1, FreeMap
<1>4. PICK e \in [page : Page \cup {LOW, None}, rw : BOOLEAN] : e = Entry(new) /\ e.page = new /\ e.rw
  BY <1>3, EntryIs
<1>5. /\ pte' \in [Slot -> Entries] /\ pte'[t][a] = e /\ Agree(pte, pte', Slot, t)
      /\ Agree(pte[t], pte'[t], Addr, a) /\ pte \in [Slot -> Entries]
  BY <1>1, <1>4, EntryChanges, PartsType
<1>6. /\ pg_dir' \in [Slot -> Tables] /\ Agree(pg_dir, pg_dir', Slot, t)
      /\ pg_dir'[t][DirOf(a)] # None
      /\ \A d \in Dir : pg_dir[t][d] # None => pg_dir'[t][d] # None
      /\ mem_map' \in [Page -> Int] /\ new \notin more /\ \A p \in more : mem_map[p] = 0
      /\ \A p \in Page : mem_map'[p] = mem_map[p] + One(p = new) + One(p \in more)
      /\ \A p \in Page : InTables(pg_dir', p) = InTables(pg_dir, p) + One(p \in more)
  BY ONLY TablesGrow(t, a, new, more) DEF TablesGrow
<1>7. PageCounts' /\ mem_map' \in [Page -> Nat]
  <2>1. ASSUME NEW p \in Page
        PROVE  Balanced(p)
    <3>1. InEntries(pte', p) = InEntries(pte, p) - One(pte[t][a].page = p)
                               + One(pte'[t][a].page = p)
      BY ONLY <1>5, EntryCount
    <3>2. One(pte[t][a].page = p) = 0 /\ One(pte'[t][a].page = p) = One(p = new)
      BY <1>1, <1>4, <1>5, EntryType, NoneType DEF One
    <3>3. /\ InEntries(pte, p) \in Nat /\ InTables(pg_dir, p) \in Nat /\ In(lost, p) \in Nat
          /\ mem_map[p] \in Nat /\ InSlots(task, p) \in Nat /\ InSlots(arg, p) \in Nat
      BY <1>1, UseCounts
    <3>4. One(p = new) \in Nat /\ One(p \in more) \in Nat
      BY DEF One
    <3>5. InEntries(pte', p) = InEntries(pte, p) + One(p = new)
      BY <3>1, <3>2, <3>3, <3>4
    <3>6. /\ mem_map'[p] = mem_map[p] + One(p = new) + One(p \in more)
          /\ InTables(pg_dir', p) = InTables(pg_dir, p) + One(p \in more)
      BY <1>6
    <3>7. QED
      BY <1>2, <3>3, <3>4, <3>5, <3>6 DEF Balanced
  <2>2. \A p \in Page : Balanced(p)
    BY <2>1
  <2>3. QED
    BY <1>1, <1>6, <2>2, Balance
<1>8. TypeOK'
  <2>1. data' \in Data
    BY <1>1, <1>3 DEF TypeOK, Data, Val
  <2>2. QED
    BY <1>1, <1>2, <1>5, <1>6, <1>7, <2>1 DEF TypeOK, Data, Entries, Tables
<1>9. \A u \in Slot : u # t => Untouched(u)
  BY <1>2, <1>5, <1>6, OthersUntouched DEF Agree
<1>10. \A p \in Page : mem_map[p] # 0 => mem_map'[p] <= mem_map[p]
  <2> SUFFICES ASSUME NEW p \in Page, mem_map[p] # 0
               PROVE  mem_map'[p] <= mem_map[p]
    OBVIOUS
  <2>1. p # new /\ p \notin more /\ mem_map[p] \in Nat
    BY <1>1, <1>3, <1>6, PartsType
  <2>2. One(p = new) = 0 /\ One(p \in more) = 0
    BY <2>1 DEF One
  <2>3. mem_map'[p] = mem_map[p] + One(p = new) + One(p \in more)
    BY <1>6
  <2>4. QED
    BY <2>1, <2>2, <2>3
<1>11. ASSUME NEW u \in Slot, NEW b \in Addr
       PROVE  KeepsAlone(u, b)
  <2>1. CASE u = t /\ b = a
    <3>1. mem_map'[new] = mem_map[new] + One(new = new) + One(new \in more)
      BY <1>3, <1>6
    <3>2. mem_map'[new] = 1
      BY <1>3, <1>6, <3>1 DEF One
    <3>3. QED
      BY <1>3, <1>4, <1>5, <2>1, <3>2 DEF KeepsAlone
  <2>2. CASE ~ (u = t /\ b = a)
    <3>1. pte'[u][b] = pte[u][b]
      BY <1>5, <2>2 DEF Agree
    <3>2. pte[u][b].page \in Page => mem_map[pte[u][b].page] # 0
      BY <1>1, FreeUnused
    <3>3. QED
      BY <1>10, <3>1, <3>2 DEF KeepsAlone
  <2>3. QED
    BY <2>1, <2>2
<1>12. ASSUME NEW u \in Slot
       PROVE  KeepsArg(u)
  <2>1. arg[u] # None => arg[u] \in Page /\ mem_map[arg[u]] # 0
    BY <1>1 DEF TypeOK, ArgAlone
  <2>2. QED
    BY <1>2, <1>10, <2>1 DEF KeepsArg
<1>13. Shaped(t)' /\ Verified(t)'
  <2>1. ASSUME NEW b \in Addr, Present(t, b)'
        PROVE  pg_dir'[t][DirOf(b)] # None
    <3>1. CASE b = a
      BY <1>6, <3>1
    <3>2. CASE b # a
      <4>1. Present(t, b) /\ DirOf(b) \in Dir
        BY <1>5, <2>1, <3>2, DirOfAddr DEF Present, Agree
      <4>2. QED
        BY <1>1, <1>6, <4>1 DEF Shaped
    <3>3. QED
      BY <3>1, <3>2
  <2>2. Shaped(t)'
    BY <1>1, <1>2, <2>1 DEF Shaped, Gone
  <2>3. Verified(t)'
    <3> SUFFICES ASSUME pc[t] = "verified", pte'[t][at[t]].page # None
                 PROVE  pte'[t][at[t]].rw
      BY <1>2 DEF Verified, Present, CanWrite
    <3>1. at[t] \in Addr
      BY <1>1 DEF TypeOK
    <3>2. CASE at[t] = a
      BY <1>4, <1>5, <3>2
    <3>3. CASE at[t] # a
      <4>1. pte'[t][at[t]] = pte[t][at[t]]
        BY <1>5, <3>1, <3>3 DEF Agree
      <4>2. QED
        BY <1>1, <4>1 DEF Verified, Present, CanWrite
    <3>4. QED
      BY <3>2, <3>3
  <2>4. QED
    BY <2>2, <2>3
<1>14. Kernel'
  BY <1>1, <1>2 DEF Kernel
<1>15. QED
  BY <1>7, <1>8, <1>9, <1>11, <1>12, <1>13, <1>14, Assemble

\* The two ways of do_exit: with mem_map as it is, or with a page more lost.
LEMMA ExitNowKeeps ==
  ASSUME Inductive, NEW t \in Slot, t # 0, pc[t] \in {"user", "verified"},
         do_exit(t, mem_map, {})
  PROVE  Inductive'
<1>1. PICK map : map = mem_map
  OBVIOUS
<1>2. PICK more : more = {}
  OBVIOUS
<1>3. do_exit(t, map, more)
  BY <1>1, <1>2 DEF do_exit
<1>4. QED
  BY <1>1, <1>2, <1>3, ExitKeeps

LEMMA ExitLosingKeeps ==
  ASSUME Inductive, NEW t \in Slot, t # 0, pc[t] \in {"user", "verified"}, Free(mem_map) # {},
         do_exit(t, Taken(mem_map), {get_free_page(mem_map)})
  PROVE  Inductive'
<1>1. PICK map : map = Taken(mem_map)
  OBVIOUS
<1>2. PICK more : more = {get_free_page(mem_map)}
  OBVIOUS
<1>3. do_exit(t, map, more)
  BY <1>1, <1>2 DEF do_exit
<1>4. QED
  BY <1>1, <1>2, <1>3, ExitKeeps

LEMMA SysExitKeeps ==
  ASSUME Inductive, NEW t \in Slot, exit(t)
  PROVE  Inductive'
BY ExitNowKeeps DEF exit

LEMMA UnWpKeeps ==
  ASSUME Inductive, NEW t \in Slot, t # 0, NEW a \in Addr, pc[t] = "user", Present(t, a),
         un_wp_page(t, a, GoesOn(t, a))
  PROVE  Inductive'
<1>1. CASE /\ Alone(pte[t][a].page) /\ pte' = [pte EXCEPT ![t][a].rw = TRUE] /\ GoesOn(t, a)
           /\ UNCHANGED <<mem_map, data, pg_dir, tasks, arg, lost>>
  BY <1>1, AloneKeeps
<1>2. CASE /\ ~ Alone(pte[t][a].page) /\ Free(mem_map) # {}
           /\ mem_map' = free_page(Taken(mem_map), pte[t][a].page)
           /\ pte' = [pte EXCEPT ![t][a] = Entry(get_free_page(mem_map))]
           /\ data' = [data EXCEPT ![get_free_page(mem_map)] = data[pte[t][a].page]]
           /\ GoesOn(t, a)
           /\ UNCHANGED <<pg_dir, tasks, arg, lost>>
  <2>1. PICK new : new = get_free_page(mem_map)
    OBVIOUS
  <2>2. /\ pte' = [pte EXCEPT ![t][a] = Entry(new)]
        /\ data' = [data EXCEPT ![new] = data[pte[t][a].page]]
    BY <1>2, <2>1
  <2>3. QED
    BY <1>2, <2>1, <2>2, CopyKeeps
<1>3. CASE do_exit(t, mem_map, {})
  BY <1>3, ExitNowKeeps
<1>4. QED
  BY <1>1, <1>2, <1>3 DEF un_wp_page

LEMMA DoWpPageKeeps ==
  ASSUME Inductive, NEW t \in Slot, NEW a \in Addr, do_wp_page(t, a)
  PROVE  Inductive'
<1>1. t # 0 /\ pc[t] = "user" /\ Present(t, a)
  BY DEF do_wp_page
<1>2. un_wp_page(t, a, GoesOn(t, a))
  BY DEF do_wp_page, un_wp_page, GoesOn
<1>3. QED
  BY <1>1, <1>2, UnWpKeeps

LEMMA VerifyAreaKeeps ==
  ASSUME Inductive, NEW t \in Slot, NEW a \in Addr, verify_area(t, a)
  PROVE  Inductive'
<1>1. t # 0 /\ pc[t] = "user" /\ TypeOK
  BY DEF verify_area, Inductive
<1>2. CASE Present(t, a) /\ ~ CanWrite(t, a)
  <2>1. un_wp_page(t, a, GoesOn(t, a))
    BY <1>2 DEF verify_area, un_wp_page, GoesOn
  <2>2. QED
    BY <1>1, <1>2, <2>1, UnWpKeeps
<1>3. CASE ~ (Present(t, a) /\ ~ CanWrite(t, a))
  <2>1. /\ Enter(t, "verified", a) /\ data' = data
        /\ UNCHANGED <<mem_map, tables, tasks, arg, lost>>
    BY <1>3 DEF verify_area
  <2>2. data' \in Data
    BY <1>1, <2>1 DEF TypeOK, Data
  <2>3. /\ pc' \in [Slot -> Places] /\ at' \in [Slot -> Addr]
        /\ Agree(pc, pc', Slot, t) /\ Agree(at, at', Slot, t)
        /\ pc'[t] = "verified" /\ at'[t] = a
    BY <1>1, <2>1, EnterType DEF Places
  <2>4. Verified(t)'
    BY <1>3, <2>1, <2>3 DEF Verified, Present, CanWrite, tables
  <2>5. QED
    BY <1>1, <2>1, <2>2, <2>3, <2>4, QuietKeeps
<1>4. QED
  BY <1>2, <1>3

LEMMA DoNoPageKeeps ==
  ASSUME Inductive, NEW t \in Slot, NEW a \in Addr, do_no_page(t, a)
  PROVE  Inductive'
<1>1. t # 0 /\ pc[t] \in {"user", "verified"} /\ ~ Present(t, a) /\ TypeOK /\ PageCounts
  BY DEF do_no_page, Inductive
<1>2. CASE do_exit(t, mem_map, {})
  BY <1>1, <1>2, ExitNowKeeps
<1>3. CASE Free(mem_map) # {} /\ do_exit(t, Taken(mem_map), {get_free_page(mem_map)})
  BY <1>1, <1>3, ExitLosingKeeps
<1>4. CASE /\ Free(mem_map) # {}
           /\ put_page(t, get_free_page(mem_map), a, Taken(mem_map))
           /\ data' = [data EXCEPT ![get_free_page(mem_map)] = 0]
           /\ UNCHANGED <<tasks, call, lost>>
  <2>1. PICK new : new = get_free_page(mem_map)
    OBVIOUS
  <2>2. PICK map : map = Taken(mem_map)
    OBVIOUS
  <2>3. put_page(t, new, a, map)
    BY <1>4, <2>1, <2>2 DEF put_page
  <2>4. PICK more : TablesGrow(t, a, new, more)
    BY <1>1, <1>4, <2>1, <2>2, <2>3, PutPageGrows
  <2>5. pte' = [pte EXCEPT ![t][a] = Entry(new)]
    BY <2>3 DEF put_page
  <2>6. data' = [data EXCEPT ![new] = 0]
    BY <1>4, <2>1
  <2>7. QED
    BY <1>1, <1>4, <2>1, <2>4, <2>5, <2>6, FaultKeeps
<1>5. QED
  BY <1>2, <1>3, <1>4 DEF do_no_page

\* The task_struct of z goes.
LEMMA ReleaseCounts ==
  ASSUME TypeOK, PageCounts, NEW z \in Slot, task' = [task EXCEPT ![z] = None],
         mem_map' = free_page(mem_map, task[z]), UNCHANGED <<pte, pg_dir, arg, lost>>
  PROVE  /\ PageCounts' /\ mem_map' \in [Page -> Nat]
         /\ \A p \in Page : mem_map'[p] <= mem_map[p]
<1>1. pte' = pte /\ pg_dir' = pg_dir /\ arg' = arg /\ lost' = lost
  OBVIOUS
<1>2. PICK old : old = task[z]
  OBVIOUS
<1>3. /\ mem_map \in [Page -> Nat] /\ mem_map' \in [Page -> Int]
      /\ \A p \in Page : mem_map'[p] = mem_map[p] - One(p = old)
  BY <1>2, PartsType, FreePageMap
<1>4. Agree(task, task', Slot, z) /\ task'[z] = None
  BY DEF TypeOK, Agree
<1>5. ASSUME NEW p \in Page
      PROVE  Balanced(p) /\ mem_map'[p] <= mem_map[p]
  <2>1. InSlots(task', p) = InSlots(task, p) - One(task[z] = p) + One(task'[z] = p)
    BY ONLY <1>4, z \in Slot, SlotsOfOne
  <2>2. One(task'[z] = p) = 0 /\ One(task[z] = p) = One(p = old) /\ One(p = old) \in Nat
    BY <1>2, <1>4, NoneType DEF One
  <2>3. /\ InEntries(pte, p) \in Nat /\ InTables(pg_dir, p) \in Nat /\ In(lost, p) \in Nat
        /\ mem_map[p] \in Nat /\ InSlots(task, p) \in Nat /\ InSlots(arg, p) \in Nat
    BY UseCounts
  <2>4. InSlots(task', p) = InSlots(task, p) - One(p = old)
    BY <2>1, <2>2, <2>3
  <2>5. mem_map'[p] = mem_map[p] - One(p = old)
    BY <1>3
  <2>6. Balanced(p)
    BY <1>1, <2>2, <2>3, <2>4, <2>5 DEF Balanced
  <2>7. mem_map'[p] <= mem_map[p]
    BY <2>2, <2>3, <2>5
  <2>8. QED
    BY <2>6, <2>7
<1>6. \A p \in Page : Balanced(p)
  BY <1>5
<1>7. QED
  BY <1>3, <1>5, <1>6, Balance

\* Nobody's pages get more users.
LEMMA FewerUsers ==
  ASSUME TypeOK, PageCounts, ArgAlone,
         \A p \in Page : mem_map[p] # 0 => mem_map'[p] <= mem_map[p]
  PROVE  /\ \A u \in Slot, b \in Addr : pte'[u][b] = pte[u][b] => KeepsAlone(u, b)
         /\ \A u \in Slot : arg'[u] = arg[u] => KeepsArg(u)
<1>1. ASSUME NEW u \in Slot, NEW b \in Addr, pte'[u][b] = pte[u][b]
      PROVE  KeepsAlone(u, b)
  <2>1. pte[u][b].page \in Page => mem_map[pte[u][b].page] # 0
    BY FreeUnused
  <2>2. QED
    BY <1>1, <2>1 DEF KeepsAlone
<1>2. ASSUME NEW u \in Slot, arg'[u] = arg[u]
      PROVE  KeepsArg(u)
  <2>1. arg[u] # None => arg[u] \in Page /\ mem_map[arg[u]] # 0
    BY DEF ArgAlone, TypeOK
  <2>2. QED
    BY <1>2, <2>1 DEF KeepsArg
<1>3. QED
  BY <1>1, <1>2

LEMMA ReleaseKeeps ==
  ASSUME Inductive, NEW z \in Slot, z # 0, pc[z] \in {"exit", "zombie"},
         task' = [task EXCEPT ![z] = None], mem_map' = free_page(mem_map, task[z]),
         UNCHANGED <<tables, arg, lost>>, data' \in Data, father' \in [Slot -> Slot],
         pc' \in [Slot -> Places], at' \in [Slot -> Addr], pc'[z] = "none", Kernel',
         \A u \in Slot : u # z => Untouched(u) \/ (Shaped(u)' /\ Verified(u)')
  PROVE  Inductive'
<1>1. TypeOK /\ PageCounts /\ Shaped(z) /\ ArgAlone
  BY DEF Inductive, Shapes
<1>2. pte' = pte /\ pg_dir' = pg_dir /\ arg' = arg /\ lost' = lost
  BY DEF tables
<1>3. /\ PageCounts' /\ mem_map' \in [Page -> Nat]
      /\ \A p \in Page : mem_map'[p] <= mem_map[p]
  BY <1>1, <1>2, ReleaseCounts
<1>4. TypeOK'
  <2>1. task' \in [Slot -> Page \cup {LOW, None}] /\ task'[z] = None
    BY <1>1 DEF TypeOK
  <2>2. QED
    BY <1>1, <1>2, <1>3, <2>1 DEF TypeOK, Data, Places
<1>5. /\ \A u \in Slot, b \in Addr : KeepsAlone(u, b)
      /\ \A u \in Slot : KeepsArg(u)
  BY <1>1, <1>2, <1>3, FewerUsers
<1>6. Shaped(z)' /\ Verified(z)'
  <2>1. pg_dir[z] = NoTables /\ pte[z] = NoEntries /\ arg[z] = None
    BY <1>1 DEF Shaped, Gone
  <2>2. task'[z] = None /\ pc'[z] = "none"
    BY <1>1 DEF TypeOK
  <2>3. \A a \in Addr : ~ Present(z, a)'
    BY <1>2, <2>1 DEF Present, NoEntries, NotPresent
  <2>4. QED
    BY <1>2, <2>1, <2>2, <2>3 DEF Shaped, Verified
<1>7. \A u \in Slot : Untouched(u) \/ (Shaped(u)' /\ Verified(u)')
  BY <1>6
<1>8. QED
  BY <1>3, <1>4, <1>5, <1>7, Assemble

LEMMA ExitDoneKeeps ==
  ASSUME Inductive, NEW t \in Slot, exit_done(t)
  PROVE  Inductive'
<1>1. TypeOK /\ PageCounts /\ Shaped(t) /\ Kernel /\ ArgAlone /\ t # 0 /\ pc[t] = "exit"
  BY VerifiedNotKernel DEF Inductive, Shapes, exit_done
<1>2. /\ pte' = pte /\ pg_dir' = pg_dir /\ arg' = arg /\ lost' = lost /\ at' = at
      /\ father' = father
  BY DEF exit_done, tables
<1>3. CASE father[t] # 0
  <2>1. /\ pc' = [pc EXCEPT ![t] = "zombie"] /\ mem_map' = mem_map /\ data' = data
        /\ task' = task
    BY <1>3 DEF exit_done
  <2>2. pc' \in [Slot -> Places] /\ pc'[t] = "zombie" /\ Agree(pc, pc', Slot, t)
    BY <1>1, <2>1 DEF TypeOK, Places, Agree
  <2>3. TypeOK'
    BY <1>1, <1>2, <2>1, <2>2 DEF TypeOK, Places
  <2>4. PageCounts'
    BY <1>1, <1>2, <2>1 DEF PageCounts, Users
  <2>5. \A p \in Page : mem_map'[p] <= mem_map[p]
    BY <1>1, <2>1, PartsType
  <2>6. /\ \A u \in Slot, b \in Addr : KeepsAlone(u, b)
        /\ \A u \in Slot : KeepsArg(u)
    BY <1>1, <1>2, <2>5, FewerUsers
  <2>7. \A u \in Slot : u # t => Untouched(u)
    BY <1>2, <2>1, <2>2 DEF Untouched, Agree
  <2>8. Shaped(t)' /\ Verified(t)'
    BY <1>1, <1>2, <2>1, <2>2 DEF Shaped, Verified, Gone, Present
  <2>9. Kernel'
    BY <1>1, <2>2, PartsType DEF Kernel, Agree
  <2>10. QED
    BY <2>3, <2>4, <2>6, <2>7, <2>8, <2>9, Assemble
<1>4. CASE father[t] = 0
  <2>1. /\ pc' = [pc EXCEPT ![t] = "none"] /\ mem_map' = free_page(mem_map, task[t])
        /\ task' = [task EXCEPT ![t] = None] /\ Contents(data)
    BY <1>4 DEF exit_done
  <2>2. pc' \in [Slot -> Places] /\ pc'[t] = "none" /\ Agree(pc, pc', Slot, t)
    BY <1>1, <2>1 DEF TypeOK, Places, Agree
  <2>3. data' \in Data
    BY <1>1, <2>1, ContentsType DEF TypeOK, Data
  <2>4. father' \in [Slot -> Slot] /\ at' \in [Slot -> Addr]
    BY <1>1, <1>2 DEF TypeOK
  <2>5. \A u \in Slot : u # t => Untouched(u)
    BY <1>1, <1>2, <2>1, <2>2 DEF Untouched, Agree, TypeOK
  <2>6. Kernel'
    BY <1>1, <2>2, PartsType DEF Kernel, Agree
  <2>7. UNCHANGED <<tables, arg, lost>>
    BY <1>2 DEF tables
  <2>8. QED
    BY <1>1, <2>1, <2>2, <2>3, <2>4, <2>5, <2>6, <2>7, ReleaseKeeps
<1>5. QED
  BY <1>3, <1>4

LEMMA SysWaitpidKeeps ==
  ASSUME Inductive, NEW t \in Slot, NEW z \in Slot, NEW v \in Stored, sys_waitpid(t, z, v)
  PROVE  Inductive'
<1>1. /\ pc[t] = "verified" /\ pc[z] = "zombie" /\ Present(t, at[t])
      /\ mem_map' = free_page(mem_map, task[z])
      /\ Contents([data EXCEPT ![pte[t][at[t]].page] = v])
      /\ task' = [task EXCEPT ![z] = None] /\ father' = [father EXCEPT ![z] = 0]
      /\ pc' = [pc EXCEPT ![t] = "user", ![z] = "none"] /\ at' = [at EXCEPT ![t] = Top]
      /\ UNCHANGED <<tables, arg, lost>>
  BY DEF sys_waitpid, PutFs
<1>2. TypeOK /\ PageCounts /\ Shaped(t) /\ Kernel /\ ArgAlone /\ t # 0 /\ z # 0 /\ t # z
  BY <1>1, VerifiedNotKernel DEF Inductive, Shapes
<1>3. pte' = pte /\ pg_dir' = pg_dir /\ arg' = arg /\ lost' = lost
  BY <1>1 DEF tables
<1>4. data' \in Data
  <2>1. at[t] \in Addr
    BY <1>2 DEF TypeOK
  <2>2. [data EXCEPT ![pte[t][at[t]].page] = v] \in Data
    BY <1>1, <1>2, <2>1, StoreType DEF Stored
  <2>3. QED
    BY <1>1, <2>2, ContentsType
<1>5. father' \in [Slot -> Slot]
  BY <1>1, <1>2, PartsType DEF TypeOK
<1>6. /\ pc' \in [Slot -> Places] /\ at' \in [Slot -> Addr]
      /\ pc'[z] = "none" /\ pc'[t] = "user"
      /\ \A u \in Slot : u # t /\ u # z => pc'[u] = pc[u]
      /\ \A u \in Slot : u # t => at'[u] = at[u]
  BY <1>1, <1>2, TopAddr DEF TypeOK, Places
<1>7. \A u \in Slot : u # z => task'[u] = task[u]
  BY <1>1, <1>2 DEF TypeOK
<1>8. ASSUME NEW u \in Slot, u # z
      PROVE  Untouched(u) \/ (Shaped(u)' /\ Verified(u)')
  <2>1. CASE u = t
    BY <1>1, <1>2, <1>3, <1>6, <1>7, <2>1 DEF Shaped, Verified, Gone, Present
  <2>2. CASE u # t
    BY <1>3, <1>6, <1>7, <1>8, <2>2 DEF Untouched
  <2>3. QED
    BY <2>1, <2>2
<1>9. Kernel'
  BY <1>2, <1>6, PartsType DEF Kernel
<1>10. QED
  BY <1>1, <1>2, <1>4, <1>5, <1>6, <1>8, <1>9, ReleaseKeeps

\* execve copies the arguments.
LEMMA CopyStringsKeeps ==
  ASSUME Inductive, NEW t \in Slot, NEW a \in Addr, copy_strings(t, a)
  PROVE  Inductive'
<1>1. TypeOK /\ PageCounts /\ Shaped(t) /\ Kernel /\ ArgAlone /\ t # 0 /\ pc[t] = "user"
  BY DEF Inductive, Shapes, copy_strings
<1>2. /\ pte' = pte /\ pg_dir' = pg_dir /\ at' = at /\ lost' = lost /\ task' = task
      /\ father' = father
  BY DEF copy_strings, tables, tasks
<1>3. PICK new : new = get_free_page(mem_map)
  OBVIOUS
<1>4. /\ Free(mem_map) # {} /\ mem_map' = Taken(mem_map) /\ Present(t, a)
      /\ Contents([data EXCEPT ![new] = data[pte[t][a].page]])
      /\ arg' = [arg EXCEPT ![t] = new] /\ pc' = [pc EXCEPT ![t] = "exec"]
  BY <1>3 DEF copy_strings
<1>5. /\ new \in Page /\ mem_map[new] = 0 /\ new # LOW /\ new # None
      /\ mem_map' \in [Page -> Nat]
      /\ \A p \in Page : mem_map'[p] = mem_map[p] + One(p = new)
  BY <1>1, <1>3, <1>4, FreeMap
<1>6. /\ arg' \in [Slot -> Page \cup {None}] /\ arg'[t] = new /\ Agree(arg, arg', Slot, t)
      /\ arg[t] = None
      /\ pc' \in [Slot -> Places] /\ pc'[t] = "exec" /\ Agree(pc, pc', Slot, t)
  BY <1>1, <1>4, <1>5 DEF TypeOK, Places, Agree, Shaped
<1>7. PageCounts' /\ mem_map' \in [Page -> Nat]
  <2>1. ASSUME NEW p \in Page
        PROVE  Balanced(p)
    <3>1. InSlots(arg', p) = InSlots(arg, p) - One(arg[t] = p) + One(arg'[t] = p)
      BY ONLY <1>6, t \in Slot, SlotsOfOne
    <3>2. One(arg[t] = p) = 0 /\ One(arg'[t] = p) = One(p = new) /\ One(p = new) \in Nat
      BY <1>6, NoneType DEF One
    <3>3. /\ InEntries(pte, p) \in Nat /\ InTables(pg_dir, p) \in Nat /\ In(lost, p) \in Nat
          /\ mem_map[p] \in Nat /\ InSlots(task, p) \in Nat /\ InSlots(arg, p) \in Nat
      BY <1>1, UseCounts
    <3>4. mem_map'[p] = mem_map[p] + One(p = new)
      BY <1>5
    <3>5. InSlots(arg', p) = InSlots(arg, p) + One(p = new)
      BY <3>1, <3>2, <3>3
    <3>6. QED
      BY <1>2, <3>2, <3>3, <3>4, <3>5 DEF Balanced
  <2>2. \A p \in Page : Balanced(p)
    BY <2>1
  <2>3. mem_map' \in [Page -> Int]
    BY <1>5
  <2>4. QED
    BY <1>1, <2>2, <2>3, Balance
<1>8. TypeOK'
  <2>1. data' \in Data
    <3>1. data \in Data /\ pte[t][a].page \in Page \cup {LOW}
      BY <1>1, <1>4, EntryType DEF TypeOK, Data, Present
    <3>2. PICK v \in Val : v = data[pte[t][a].page]
      BY <3>1 DEF Data
    <3>3. [data EXCEPT ![new] = v] \in Data
      BY <1>5, <3>1 DEF Data
    <3>4. QED
      BY <1>4, <3>2, <3>3, ContentsType
  <2>2. QED
    BY <1>1, <1>2, <1>5, <1>6, <2>1 DEF TypeOK, Data, Places
<1>9. \A p \in Page : mem_map[p] # 0 => mem_map'[p] <= mem_map[p]
  <2> SUFFICES ASSUME NEW p \in Page, mem_map[p] # 0
               PROVE  mem_map'[p] <= mem_map[p]
    OBVIOUS
  <2>1. p # new /\ mem_map[p] \in Nat
    BY <1>1, <1>5, PartsType
  <2>2. QED
    BY <1>5, <2>1 DEF One
<1>10. \A u \in Slot, b \in Addr : KeepsAlone(u, b)
  BY <1>1, <1>2, <1>9, FewerUsers
<1>11. ASSUME NEW u \in Slot
       PROVE  KeepsArg(u)
  <2>1. CASE u = t
    BY <1>5, <1>6, <2>1 DEF KeepsArg, One
  <2>2. CASE u # t
    BY <1>1, <1>6, <1>9, <2>2, FewerUsers DEF Agree
  <2>3. QED
    BY <2>1, <2>2
<1>12. \A u \in Slot : u # t => Untouched(u)
  BY <1>2, <1>6, OthersUntouched DEF Agree
<1>13. Shaped(t)' /\ Verified(t)'
  BY <1>1, <1>2, <1>5, <1>6 DEF Shaped, Verified, Gone, Present
<1>14. Kernel'
  BY <1>1, <1>6, PartsType DEF Kernel, Agree
<1>15. QED
  BY <1>7, <1>8, <1>10, <1>11, <1>12, <1>13, <1>14, Assemble

\* mem_map when the tables of t are freed.
LEMMA FreedMap ==
  ASSUME TypeOK, PageCounts, NEW t \in Slot, NEW map,
         map = free_page_tables(mem_map, pg_dir[t], pte[t])
  PROVE  /\ map \in [Page -> Nat]
         /\ \A p \in Page : /\ map[p] = mem_map[p] - Mappings(pte[t], p) - TablesIn(pg_dir[t], p)
                            /\ map[p] <= mem_map[p]
<1>1. map = [p \in Page |-> mem_map[p] - Mappings(pte[t], p) - TablesIn(pg_dir[t], p)]
  BY DEF free_page_tables, TablesIn
<1>2. ASSUME NEW p \in Page
      PROVE  /\ mem_map[p] - Mappings(pte[t], p) - TablesIn(pg_dir[t], p) \in Nat
             /\ mem_map[p] - Mappings(pte[t], p) - TablesIn(pg_dir[t], p) <= mem_map[p]
  <2>1. pte \in [Slot -> Entries] /\ pg_dir \in [Slot -> Tables]
        /\ Agree(pte, pte, Slot, t) /\ Agree(pg_dir, pg_dir, Slot, t)
    BY PartsType DEF Agree
  <2>2. Mappings(pte[t], p) <= InEntries(pte, p) /\ TablesIn(pg_dir[t], p) <= InTables(pg_dir, p)
    BY <2>1, EntriesOfRow, TablesOfRow
  <2>3. Mappings(pte[t], p) \in Nat /\ TablesIn(pg_dir[t], p) \in Nat
    BY Sizes
  <2>4. /\ mem_map[p] \in Nat
        /\ mem_map[p] = InEntries(pte, p) + InTables(pg_dir, p) + InSlots(task, p)
                        + InSlots(arg, p) + In(lost, p)
        /\ InEntries(pte, p) \in Nat /\ InTables(pg_dir, p) \in Nat
        /\ InSlots(task, p) \in Nat /\ InSlots(arg, p) \in Nat /\ In(lost, p) \in Nat
    BY UseCounts
  <2>5. \A m, i, j, k, l, n, x, y \in Nat :
          m = i + j + k + l + n /\ x <= i /\ y <= j => m - x - y \in Nat /\ m - x - y <= m
    OBVIOUS
  <2>6. QED
    BY <2>2, <2>3, <2>4, <2>5
<1>3. QED
  BY <1>1, <1>2

\* The tables of t are freed and replaced: what the new ones need is counted,
\* and the page old that held the arguments is mapped, or lost.
NewImage(t, old, dir, entries, gone) ==
  /\ dir \in Tables /\ entries \in Entries /\ gone \in SUBSET {old}
  /\ pg_dir' = [pg_dir EXCEPT ![t] = dir] /\ pte' = [pte EXCEPT ![t] = entries]
  /\ lost' = lost \cup gone
  /\ mem_map' \in [Page -> Int]
  /\ \A p \in Page : mem_map'[p] = mem_map[p] - Mappings(pte[t], p) - TablesIn(pg_dir[t], p)
                                   + TablesIn(dir, p)
  /\ \A p \in Page : Mappings(entries, p) + One(p \in gone) = One(p = old)
  /\ \A p \in Page : mem_map[p] # 0 => mem_map'[p] <= mem_map[p]
  /\ \A a \in Addr : entries[a].page # None =>
                       entries[a].page = old /\ mem_map'[old] = 1 /\ dir[DirOf(a)] # None

LEMMA NewImageKeeps ==
  ASSUME Inductive, NEW t \in Slot, pc[t] = "exec", NEW old, old = arg[t],
         NEW dir, NEW entries, NEW gone, NewImage(t, old, dir, entries, gone),
         arg' = [arg EXCEPT ![t] = None], pc' = [pc EXCEPT ![t] = "user"], Contents(data),
         UNCHANGED <<tasks, at>>
  PROVE  Inductive'
<1>1. TypeOK /\ PageCounts /\ Shaped(t) /\ Kernel /\ ArgAlone /\ t # 0
  BY VerifiedNotKernel DEF Inductive, Shapes
<1>2. old \in Page /\ mem_map[old] = 1
  BY <1>1 DEF Shaped, TypeOK, ArgAlone
<1>3. at' = at /\ task' = task /\ father' = father
  BY DEF tasks
<1>4. /\ dir \in Tables /\ entries \in Entries /\ gone \in SUBSET {old}
      /\ pg_dir' = [pg_dir EXCEPT ![t] = dir] /\ pte' = [pte EXCEPT ![t] = entries]
      /\ lost' = lost \cup gone
      /\ mem_map' \in [Page -> Int]
      /\ \A p \in Page : mem_map'[p] = mem_map[p] - Mappings(pte[t], p) - TablesIn(pg_dir[t], p)
                                       + TablesIn(dir, p)
      /\ \A p \in Page : Mappings(entries, p) + One(p \in gone) = One(p = old)
      /\ \A p \in Page : mem_map[p] # 0 => mem_map'[p] <= mem_map[p]
      /\ \A a \in Addr : entries[a].page # None =>
                           entries[a].page = old /\ mem_map'[old] = 1 /\ dir[DirOf(a)] # None
  BY ONLY NewImage(t, old, dir, entries, gone) DEF NewImage
<1>5. /\ pte' \in [Slot -> Entries] /\ pte'[t] = entries /\ Agree(pte, pte', Slot, t)
      /\ pg_dir' \in [Slot -> Tables] /\ pg_dir'[t] = dir /\ Agree(pg_dir, pg_dir', Slot, t)
      /\ pte \in [Slot -> Entries] /\ pg_dir \in [Slot -> Tables]
  BY <1>1, <1>4, RowChanges, TablesChange, PartsType
<1>6. /\ arg' \in [Slot -> Page \cup {None}] /\ arg'[t] = None /\ Agree(arg, arg', Slot, t)
      /\ pc' \in [Slot -> Places] /\ pc'[t] = "user" /\ Agree(pc, pc', Slot, t)
  BY <1>1 DEF TypeOK, Places, Agree
<1>7. old \notin lost
  BY <1>1, <1>2, ArgOnce
<1>8. PageCounts' /\ mem_map' \in [Page -> Nat]
  <2>1. ASSUME NEW p \in Page
        PROVE  Balanced(p)
    <3>1. InEntries(pte', p) = InEntries(pte, p) - Mappings(pte[t], p) + Mappings(entries, p)
      <4>1. InEntries(pte', p) = InEntries(pte, p) - Mappings(pte[t], p) + Mappings(pte'[t], p)
        BY ONLY <1>5, t \in Slot, EntriesOfRow
      <4>2. QED
        BY <1>5, <4>1
    <3>2. InTables(pg_dir', p) = InTables(pg_dir, p) - TablesIn(pg_dir[t], p) + TablesIn(dir, p)
      <4>1. InTables(pg_dir', p) = InTables(pg_dir, p) - TablesIn(pg_dir[t], p)
                                   + TablesIn(pg_dir'[t], p)
        BY ONLY <1>5, t \in Slot, TablesOfRow
      <4>2. QED
        BY <1>5, <4>1
    <3>3. InSlots(arg', p) = InSlots(arg, p) - One(p = old)
      <4>1. InSlots(arg', p) = InSlots(arg, p) - One(arg[t] = p) + One(arg'[t] = p)
        BY ONLY <1>6, t \in Slot, SlotsOfOne
      <4>2. One(arg'[t] = p) = 0 /\ One(arg[t] = p) = One(p = old) /\ One(p = old) \in Nat
        BY <1>6, NoneType DEF One
      <4>3. InSlots(arg, p) \in Nat
        BY Sizes
      <4>4. QED
        BY <4>1, <4>2, <4>3
    <3>4. In(lost', p) = In(lost, p) + One(p \in gone)
      <4>1. In(lost', p) = One(p \in lost') /\ In(lost, p) = One(p \in lost)
        BY InOne
      <4>2. (p \in lost' <=> p \in lost \/ p \in gone) /\ ~ (p \in lost /\ p \in gone)
        BY <1>4, <1>7
      <4>3. QED
        BY <4>1, <4>2 DEF One
    <3>5. /\ mem_map'[p] = mem_map[p] - Mappings(pte[t], p) - TablesIn(pg_dir[t], p)
                           + TablesIn(dir, p)
          /\ Mappings(entries, p) + One(p \in gone) = One(p = old)
      BY <1>4
    <3>6. /\ InEntries(pte, p) \in Nat /\ InTables(pg_dir, p) \in Nat /\ In(lost, p) \in Nat
          /\ mem_map[p] \in Nat /\ InSlots(task, p) \in Nat /\ InSlots(arg, p) \in Nat
      BY <1>1, UseCounts
    <3>7. /\ Mappings(pte[t], p) \in Nat /\ TablesIn(pg_dir[t], p) \in Nat
          /\ Mappings(entries, p) \in Nat /\ TablesIn(dir, p) \in Nat
      BY Sizes
    <3>8. One(p \in gone) \in Nat /\ One(p = old) \in Nat
      BY DEF One
    <3>9. task' = task
      BY <1>3
    <3>10. QED
      BY <3>1, <3>2, <3>3, <3>4, <3>5, <3>6, <3>7, <3>8, <3>9 DEF Balanced
  <2>2. \A p \in Page : Balanced(p)
    BY <2>1
  <2>3. QED
    BY <1>1, <1>4, <2>2, Balance
<1>9. TypeOK'
  <2>1. data' \in Data
    BY <1>1, ContentsType DEF TypeOK, Data
  <2>2. lost' \in SUBSET Page
    BY <1>1, <1>2, <1>4 DEF TypeOK
  <2>3. QED
    BY <1>1, <1>3, <1>5, <1>6, <1>8, <2>1, <2>2 DEF TypeOK, Data, Places, Entries, Tables
<1>10. ASSUME NEW u \in Slot, NEW b \in Addr
       PROVE  KeepsAlone(u, b)
  <2>1. CASE u = t
    BY <1>2, <1>4, <1>5, <2>1, NoneType DEF KeepsAlone
  <2>2. CASE u # t
    BY <1>1, <1>4, <1>5, <2>2, FewerUsers DEF Agree
  <2>3. QED
    BY <2>1, <2>2
<1>11. ASSUME NEW u \in Slot
       PROVE  KeepsArg(u)
  <2>1. CASE u = t
    BY <1>6, <2>1 DEF KeepsArg
  <2>2. CASE u # t
    BY <1>1, <1>4, <1>6, <2>2, FewerUsers DEF Agree
  <2>3. QED
    BY <2>1, <2>2
<1>12. \A u \in Slot : u # t => Untouched(u)
  BY <1>3, <1>5, <1>6, OthersUntouched DEF Agree
<1>13. Shaped(t)' /\ Verified(t)'
  BY <1>1, <1>3, <1>4, <1>5, <1>6 DEF Shaped, Verified, Gone, Present
<1>14. Kernel'
  BY <1>1, <1>6, PartsType DEF Kernel, Agree
<1>15. QED
  BY <1>8, <1>9, <1>10, <1>11, <1>12, <1>13, <1>14, Assemble

LEMMA ChangeLdtKeeps ==
  ASSUME Inductive, NEW t \in Slot, change_ldt(t)
  PROVE  Inductive'
<1>1. TypeOK /\ PageCounts /\ Shaped(t) /\ ArgAlone /\ pc[t] = "exec"
  BY DEF Inductive, Shapes, change_ldt
<1>2. PICK old : old = arg[t]
  OBVIOUS
<1>3. old \in Page /\ mem_map[old] = 1
  BY <1>1, <1>2 DEF Shaped, TypeOK, ArgAlone
<1>4. PICK map : map = free_page_tables(mem_map, pg_dir[t], pte[t])
  OBVIOUS
<1>5. /\ map \in [Page -> Nat] /\ mem_map \in [Page -> Nat]
      /\ \A p \in Page : /\ map[p] = mem_map[p] - Mappings(pte[t], p) - TablesIn(pg_dir[t], p)
                         /\ map[p] <= mem_map[p]
  BY <1>1, <1>4, FreedMap, PartsType
<1>6. \A p \in Page : Mappings(NoEntries, p) = 0 /\ TablesIn(NoTables, p) = 0
  BY Nothing
<1>7. /\ NoTables \in Tables /\ NoEntries \in Entries
      /\ (\A a \in Addr : NoEntries[a].page = None) /\ (\A d \in Dir : NoTables[d] = None)
  BY NoneType DEF NoEntries, NotPresent, NoTables
<1>8. CASE Free(map) # {}
  <2>1. PICK q : q = get_free_page(map)
    OBVIOUS
  <2>2. PICK d \in Dir : d = DirOf(Top)
    BY TopAddr, DirOfAddr
  <2>3. PICK e \in [page : Page \cup {LOW, None}, rw : BOOLEAN] : e = Entry(old) /\ e.page = old
    BY <1>3, EntryIs
  <2>4. PICK dir : dir = [NoTables EXCEPT ![d] = q]
    OBVIOUS
  <2>5. PICK entries : entries = [NoEntries EXCEPT ![Top] = e]
    OBVIOUS
  <2>6. /\ mem_map' = Taken(map) /\ pg_dir' = [pg_dir EXCEPT ![t] = dir]
        /\ pte' = [pte EXCEPT ![t] = entries] /\ lost' = lost
    BY <1>2, <1>4, <1>8, <2>1, <2>2, <2>3, <2>4, <2>5 DEF change_ldt
  <2>7. /\ q \in Page /\ map[q] = 0 /\ mem_map' \in [Page -> Nat]
        /\ \A p \in Page : mem_map'[p] = map[p] + One(p = q)
    BY <1>5, <1>8, <2>1, <2>6, FreePage
  <2>8. /\ dir \in Tables /\ dir[d] = q /\ Agree(NoTables, dir, Dir, d)
        /\ entries \in Entries /\ entries[Top] = e /\ Agree(NoEntries, entries, Addr, Top)
    BY <1>7, <2>3, <2>4, <2>5, <2>7, TopAddr DEF Tables, Entries, Agree
  <2>9. \A p \in Page : One(p = q) \in Nat /\ One(p = old) \in Nat /\ One(p \in {}) = 0
    BY DEF One
  <2>10. ASSUME NEW p \in Page
         PROVE  TablesIn(dir, p) = One(p = q)
    <3>1. TablesIn(dir, p) = TablesIn(NoTables, p) - One(NoTables[d] = p) + One(dir[d] = p)
      BY ONLY <1>7, <2>8, TablesOfOne
    <3>2. One(NoTables[d] = p) = 0 /\ One(dir[d] = p) = One(p = q)
      BY <1>7, <2>8, NoneType DEF One
    <3>3. QED
      BY <1>6, <2>9, <3>1, <3>2
  <2>11. ASSUME NEW p \in Page
         PROVE  Mappings(entries, p) + One(p \in {}) = One(p = old)
    <3>1. Mappings(entries, p) = Mappings(NoEntries, p) - One(NoEntries[Top].page = p)
                                 + One(entries[Top].page = p)
      BY ONLY <1>7, <2>8, TopAddr, MappingsOfOne
    <3>2. One(NoEntries[Top].page = p) = 0 /\ One(entries[Top].page = p) = One(p = old)
      BY <1>7, <2>3, <2>8, TopAddr, NoneType DEF One
    <3>3. QED
      BY <1>6, <2>9, <3>1, <3>2
  <2>12. mem_map'[old] = 1
    <3>1. Mappings(pte[t], old) = 0 /\ TablesIn(pg_dir[t], old) = 0
      BY <1>1, <1>2, <1>3, ArgOnce, Unmapped, Untabled
    <3>2. map[old] = 1
      BY <1>3, <1>5, <3>1
    <3>3. QED
      BY <1>3, <2>7, <3>2 DEF One
  <2>13. ASSUME NEW a \in Addr, entries[a].page # None
         PROVE  entries[a].page = old /\ mem_map'[old] = 1 /\ dir[DirOf(a)] # None
    BY <1>7, <2>2, <2>3, <2>7, <2>8, <2>12, <2>13, NoneType DEF Agree
  <2>14. ASSUME NEW p \in Page
         PROVE  /\ mem_map'[p] = mem_map[p] - Mappings(pte[t], p) - TablesIn(pg_dir[t], p)
                                 + TablesIn(dir, p)
                /\ mem_map[p] # 0 => mem_map'[p] <= mem_map[p]
    <3>1. mem_map'[p] = map[p] + One(p = q) /\ TablesIn(dir, p) = One(p = q)
      BY <2>7, <2>10
    <3>2. mem_map[p] \in Nat /\ map[p] \in Nat /\ One(p = q) \in Nat
      BY <1>5, <2>9
    <3>3. mem_map[p] # 0 => map[p] + One(p = q) <= mem_map[p]
      BY <1>5, <2>7, <3>2 DEF One
    <3>4. QED
      BY <1>5, <3>1, <3>3
  <2>15. NewImage(t, old, dir, entries, {})
    <3>1. lost' = lost \cup {} /\ mem_map' \in [Page -> Int]
      BY <2>6, <2>7
    <3>2. QED
      BY <2>6, <2>8, <2>11, <2>13, <2>14, <3>1 DEF NewImage
  <2>16. QED
    BY <1>1, <1>2, <2>15, NewImageKeeps DEF change_ldt
<1>9. CASE Free(map) = {}
  <2>1. /\ mem_map' = map /\ pg_dir' = [pg_dir EXCEPT ![t] = NoTables]
        /\ pte' = [pte EXCEPT ![t] = NoEntries] /\ lost' = lost \cup {old}
    BY <1>2, <1>4, <1>9 DEF change_ldt
  <2>2. ASSUME NEW p \in Page
        PROVE  /\ mem_map'[p] = mem_map[p] - Mappings(pte[t], p) - TablesIn(pg_dir[t], p)
                                + TablesIn(NoTables, p)
               /\ Mappings(NoEntries, p) + One(p \in {old}) = One(p = old)
               /\ mem_map[p] # 0 => mem_map'[p] <= mem_map[p]
    <3>1. /\ Mappings(pte[t], p) \in Nat /\ TablesIn(pg_dir[t], p) \in Nat
          /\ mem_map[p] \in Nat /\ One(p \in {old}) = One(p = old) /\ One(p = old) \in Nat
      BY <1>5, Sizes DEF One
    <3>2. QED
      BY <1>5, <1>6, <2>1, <3>1
  <2>3. NewImage(t, old, NoTables, NoEntries, {old})
    BY <1>5, <1>7, <2>1, <2>2 DEF NewImage
  <2>4. QED
    BY <1>1, <1>2, <2>3, NewImageKeeps DEF change_ldt
<1>10. QED
  BY <1>8, <1>9

\* The slot for a child.
LEMMA EmptySlot ==
  ASSUME \E m \in Slot : task[m] = None
  PROVE  find_empty_process \in Slot /\ task[find_empty_process] = None
<1> DEFINE S == {m \in Slot : task[m] = None}
<1>1. S \in SUBSET Nat /\ S # {}
  BY DEF Slot
<1> HIDE DEF S
<1>2. PICK n \in S : \A m \in S : n <= m
  BY <1>1, LeastNatural
<1> USE DEF S
<1>3. n \in Slot /\ task[n] = None
  BY <1>2
<1>4. \A m \in 0..n - 1 : task[m] # None
  <2> SUFFICES ASSUME NEW m \in 0..n - 1, task[m] = None
               PROVE  FALSE
    OBVIOUS
  <2>1. m \in S /\ ~ (n <= m)
    BY <1>3 DEF Slot
  <2>2. QED
    BY <1>2, <2>1
<1>5. QED
  BY <1>3, <1>4 DEF find_empty_process

LEMMA SamePages ==
  ASSUME NEW r, NEW s, NEW p, \A a \in Addr : r[a].page = s[a].page
  PROVE  Mappings(r, p) = Mappings(s, p)
<1>1. {a \in Addr : r[a].page = p} = {a \in Addr : s[a].page = p}
  OBVIOUS
<1>2. QED
  BY <1>1 DEF Mappings

\* What copy_page_tables leaves in the father's entries (old) and finds for the
\* child (dir, new), counted in map: nothing of either can be written to, what
\* has not been copied is as it was, and the tables were free.
Copied(t, p, ok, map, dir, new, old) ==
  /\ dir \in Tables /\ new \in Entries /\ old \in Entries
  /\ \A q \in Page : map[q] = mem_map[q] + One(q = p) + Mappings(new, q) + TablesIn(dir, q)
  /\ \A q \in Page : mem_map[q] # 0 => TablesIn(dir, q) = 0
  /\ \A a \in Addr : /\ old[a].page = pte[t][a].page
                     /\ ~ old[a].rw \/ old[a] = pte[t][a]
                     /\ ok => ~ old[a].rw \/ old[a].page \in {LOW, None}
                     /\ ~ new[a].rw
                     /\ new[a].page \in {None, pte[t][a].page}
                     /\ ok => new[a].page = pte[t][a].page
                     /\ new[a].page # None => dir[DirOf(a)] # None

LEMMA ForkCopies ==
  ASSUME TypeOK, PageCounts, NEW t \in Slot, Shaped(t), Free(mem_map) # {},
         NEW p, p = get_free_page(mem_map),
         NEW c, c = copy_page_tables(Taken(mem_map), pg_dir[t], pte[t])
  PROVE  Copied(t, p, c.ok, c.map, c.dir, c.new, c.old) /\ c \in Copying
<1>1. PICK map \in [Page -> Nat] : map = Taken(mem_map)
  BY FreeMap
<1>2. \A q \in Page : map[q] = mem_map[q] + One(q = p)
  BY <1>1, FreeMap
<1>3. PICK from \in Tables : from = pg_dir[t]
  BY PartsType
<1>4. PICK old \in Entries : old = pte[t]
  BY PartsType
<1>5. CopyState(c, DIRS, map, from, old)
  <2>1. c = copy_page_tables(map, from, old)
    BY <1>1, <1>3, <1>4
  <2>2. QED
    BY <2>1, CopyPageTables
<1>6. c \in Copying
  BY <1>5 DEF CopyState
<1>7. c.dir \in Tables /\ c.new \in Entries /\ c.old \in Entries /\ c.ok \in BOOLEAN
  BY <1>6 DEF Copying
<1>8. ASSUME NEW q \in Page
      PROVE  c.map[q] = mem_map[q] + One(q = p) + Mappings(c.new, q) + TablesIn(c.dir, q)
  <2>1. c.map[q] = map[q] + Mappings(c.new, q) + TablesIn(c.dir, q)
    BY <1>5 DEF CopyState, CopiesCounted
  <2>2. QED
    BY <1>2, <2>1
<1>9. ASSUME NEW q \in Page, mem_map[q] # 0
      PROVE  TablesIn(c.dir, q) = 0
  <2>1. map[q] # 0
    <3>1. map[q] = mem_map[q] + One(q = p) /\ mem_map[q] \in Nat /\ One(q = p) \in Nat
      BY <1>2, PartsType DEF One
    <3>2. QED
      BY <1>9, <3>1
  <2>2. \A d \in Dir : c.dir[d] # q
    BY <1>5, <2>1, NoneType DEF CopyState, DirsCopied
  <2>3. QED
    BY <2>2, Untabled
<1>10. ASSUME NEW a \in Addr
       PROVE  /\ c.old[a].page = pte[t][a].page
              /\ ~ c.old[a].rw \/ c.old[a] = pte[t][a]
              /\ c.ok => ~ c.old[a].rw \/ c.old[a].page \in {LOW, None}
              /\ ~ c.new[a].rw
              /\ c.new[a].page \in {None, pte[t][a].page}
              /\ c.ok => c.new[a].page = pte[t][a].page
              /\ c.new[a].page # None => c.dir[DirOf(a)] # None
  <2>1. /\ ReadOnly(old[a]).page = old[a].page /\ ReadOnly(old[a]).rw = FALSE
    BY ReadOnlyEntry DEF Entries
  <2>2. IF c.dir[DirOf(a)] = None
          THEN c.new[a] = NotPresent /\ c.old[a] = old[a]
          ELSE /\ c.new[a] = ReadOnly(old[a])
               /\ c.old[a] = IF old[a].page # LOW THEN ReadOnly(old[a]) ELSE old[a]
    BY <1>5 DEF CopyState, PagesCopied
  <2>3. NotPresent.page = None /\ NotPresent.rw = FALSE
    BY DEF NotPresent
  <2>4. c.ok /\ c.dir[DirOf(a)] = None => old[a].page = None
    <3>1. PICK d \in Dir : d = DirOf(a)
      BY DirOfAddr
    <3>2. d < DIRS
      BY DEF Dir
    <3>3. c.ok /\ c.dir[d] = None => from[d] = None
      BY <1>5, <3>2 DEF CopyState, AllCopied
    <3>4. from[d] = None => old[a].page = None
      BY <1>3, <1>4, <3>1 DEF Shaped, Present
    <3>5. QED
      BY <3>1, <3>3, <3>4
  <2>5. QED
    BY <1>4, <2>1, <2>2, <2>3, <2>4
<1>11. QED
  BY <1>6, <1>7, <1>8, <1>9, <1>10 DEF Copied

\* A page that is one task's alone is not in a copy of another's tables.
LEMMA NotCopied ==
  ASSUME TypeOK, PageCounts, NEW t \in Slot, NEW p, NEW ok, NEW map, NEW dir, NEW new, NEW old,
         Copied(t, p, ok, map, dir, new, old), mem_map[p] = 0,
         NEW q \in Page, mem_map[q] = 1, \A a \in Addr : pte[t][a].page # q
  PROVE  map[q] = 1
<1>1. TablesIn(dir, q) = 0 /\ map[q] = mem_map[q] + One(q = p) + Mappings(new, q) + TablesIn(dir, q)
  BY DEF Copied
<1>2. \A a \in Addr : new[a].page # q
  BY NoneType DEF Copied
<1>3. Mappings(new, q) = 0
  BY <1>2, Unmapped
<1>4. One(q = p) = 0
  BY DEF One
<1>5. QED
  BY <1>1, <1>3, <1>4

\* The pages that others have for themselves stay theirs.
LEMMA OthersAlone ==
  ASSUME Inductive, NEW t \in Slot,
         \A q \in Page : /\ mem_map[q] = 1
                         /\ \A a \in Addr : pte[t][a].page # q
                         => mem_map'[q] = 1
  PROVE  /\ \A u \in Slot, b \in Addr : u # t /\ pte'[u] = pte[u] => KeepsAlone(u, b)
         /\ \A u \in Slot : arg'[u] = arg[u] => KeepsArg(u)
<1>1. TypeOK /\ PageCounts /\ ArgAlone /\ WritableAlone
  BY DEF Inductive, Shapes
<1>2. ASSUME NEW u \in Slot, NEW b \in Addr, u # t, pte'[u] = pte[u]
      PROVE  KeepsAlone(u, b)
  <2>1. pte'[u][b] = pte[u][b]
    BY <1>2
  <2>2. pte[u][b].page \in Page \cup {LOW, None}
    BY <1>1, EntryType
  <2>3. CASE u = 0 \/ pte[u][b].page = None \/ ~ pte[u][b].rw
    BY <2>1, <2>3 DEF KeepsAlone
  <2>4. CASE u # 0 /\ pte[u][b].page # None /\ pte[u][b].rw
    <3>1. Alone(pte[u][b].page)
      BY <1>1, <2>4 DEF WritableAlone, CanWrite, Present
    <3>2. PICK q \in Page : q = pte[u][b].page
      BY <2>2, <2>4, <3>1 DEF Alone
    <3>3. mem_map[q] = 1 /\ q # LOW
      BY <3>1, <3>2 DEF Alone
    <3>4. \A a \in Addr : pte[t][a].page # q
      BY <1>1, <1>2, <3>2, <3>3, MappedOnce
    <3>5. mem_map'[q] = 1
      BY <3>3, <3>4
    <3>6. QED
      BY <2>1, <3>2, <3>3, <3>5 DEF KeepsAlone
  <2>5. QED
    BY <2>3, <2>4
<1>3. ASSUME NEW u \in Slot, arg'[u] = arg[u]
      PROVE  KeepsArg(u)
  <2>1. CASE arg[u] = None
    BY <1>3, <2>1 DEF KeepsArg
  <2>2. CASE arg[u] # None
    <3>1. PICK q \in Page : q = arg[u]
      BY <1>1, <2>2 DEF TypeOK
    <3>2. mem_map[q] = 1
      BY <1>1, <2>2, <3>1 DEF ArgAlone
    <3>3. \A a \in Addr : pte[t][a].page # q
      BY <1>1, <3>1, <3>2, ArgOnce
    <3>4. mem_map'[q] = 1
      BY <3>2, <3>3
    <3>5. QED
      BY <1>3, <3>1, <3>4 DEF KeepsArg
  <2>3. QED
    BY <2>1, <2>2
<1>4. QED
  BY <1>2, <1>3

\* fork that succeeds.
LEMMA ForkDoneKeeps ==
  ASSUME Inductive, NEW t \in Slot, pc[t] = "user", Free(mem_map) # {},
         NEW p, p = get_free_page(mem_map), NEW n \in Slot, task[n] = None,
         NEW map \in [Page -> Nat], NEW dir, NEW new, NEW old,
         Copied(t, p, TRUE, map, dir, new, old),
         mem_map' = map, pg_dir' = [pg_dir EXCEPT ![n] = dir],
         pte' = [pte EXCEPT ![n] = new, ![t] = old],
         task' = [task EXCEPT ![n] = p], father' = [father EXCEPT ![n] = t],
         pc' = [pc EXCEPT ![n] = "user", ![t] = IF t = 0 THEN "pause" ELSE "user"],
         UNCHANGED <<data, at, arg, lost>>
  PROVE  Inductive'
<1>1. TypeOK /\ PageCounts /\ Shaped(t) /\ Shaped(n) /\ Kernel /\ ArgAlone
  BY DEF Inductive, Shapes
<1>2. at' = at /\ arg' = arg /\ lost' = lost /\ data' = data
  OBVIOUS
<1>3. /\ pc[n] = "none" /\ n # t /\ n # 0
      /\ pg_dir[n] = NoTables /\ pte[n] = NoEntries /\ arg[n] = None
  BY <1>1 DEF Shaped, Gone, Kernel
<1>4. p \in Page /\ mem_map[p] = 0 /\ p # None /\ p # LOW
  BY <1>1, FreeMap
<1>5. /\ dir \in Tables /\ new \in Entries /\ old \in Entries
      /\ \A q \in Page : map[q] = mem_map[q] + One(q = p) + Mappings(new, q) + TablesIn(dir, q)
      /\ \A a \in Addr : /\ old[a].page = pte[t][a].page
                         /\ ~ old[a].rw \/ old[a] = pte[t][a]
                         /\ ~ old[a].rw \/ old[a].page \in {LOW, None}
                         /\ ~ new[a].rw
                         /\ new[a].page # None => dir[DirOf(a)] # None
  BY DEF Copied
<1>6. PICK f : f = [pte EXCEPT ![n] = new]
  OBVIOUS
<1>7. /\ pte \in [Slot -> Entries] /\ f \in [Slot -> Entries] /\ pte' \in [Slot -> Entries]
      /\ Agree(pte, f, Slot, n) /\ f[n] = new /\ f[t] = pte[t]
      /\ Agree(f, pte', Slot, t) /\ pte'[t] = old /\ pte'[n] = new
      /\ \A u \in Slot : u # t /\ u # n => pte'[u] = pte[u]
  BY <1>1, <1>3, <1>5, <1>6, PartsType DEF Agree
<1>8. /\ pg_dir \in [Slot -> Tables] /\ pg_dir' \in [Slot -> Tables] /\ pg_dir'[n] = dir
      /\ Agree(pg_dir, pg_dir', Slot, n)
  BY <1>1, <1>5, PartsType, TablesChange
<1>9. /\ task' \in [Slot -> Page \cup {LOW, None}] /\ task'[n] = p /\ Agree(task, task', Slot, n)
      /\ father' \in [Slot -> Slot]
      /\ pc' \in [Slot -> Places] /\ pc'[n] = "user" /\ pc'[t] \in {"user", "pause"}
      /\ \A u \in Slot : u # t /\ u # n => pc'[u] = pc[u]
  BY <1>1, <1>3, <1>4 DEF TypeOK, Places, Agree
<1>10. PageCounts' /\ mem_map' \in [Page -> Nat]
  <2>1. ASSUME NEW q \in Page
        PROVE  Balanced(q)
    <3>1. InEntries(f, q) = InEntries(pte, q) - Mappings(pte[n], q) + Mappings(f[n], q)
      BY ONLY <1>7, n \in Slot, EntriesOfRow
    <3>2. InEntries(pte', q) = InEntries(f, q) - Mappings(f[t], q) + Mappings(pte'[t], q)
      BY ONLY <1>7, t \in Slot, EntriesOfRow
    <3>3. InTables(pg_dir', q) = InTables(pg_dir, q) - TablesIn(pg_dir[n], q)
                                 + TablesIn(pg_dir'[n], q)
      BY ONLY <1>8, n \in Slot, TablesOfRow
    <3>4. InSlots(task', q) = InSlots(task, q) - One(task[n] = q) + One(task'[n] = q)
      BY ONLY <1>9, n \in Slot, SlotsOfOne
    <3>5. Mappings(pte[n], q) = 0 /\ TablesIn(pg_dir[n], q) = 0
      BY <1>3, Nothing
    <3>6. One(task[n] = q) = 0 /\ One(task'[n] = q) = One(q = p) /\ One(q = p) \in Nat
      BY <1>9, NoneType DEF One
    <3>7. Mappings(old, q) = Mappings(pte[t], q)
      BY <1>5, SamePages
    <3>8. /\ InEntries(pte, q) \in Nat /\ InTables(pg_dir, q) \in Nat /\ In(lost, q) \in Nat
          /\ mem_map[q] \in Nat /\ InSlots(task, q) \in Nat /\ InSlots(arg, q) \in Nat
      BY <1>1, UseCounts
    <3>9. /\ Mappings(pte[t], q) \in Nat /\ Mappings(new, q) \in Nat /\ TablesIn(dir, q) \in Nat
      BY Sizes
    <3>10. InEntries(pte', q) = InEntries(pte, q) + Mappings(new, q)
      BY <1>7, <3>1, <3>2, <3>5, <3>7, <3>8, <3>9
    <3>11. InTables(pg_dir', q) = InTables(pg_dir, q) + TablesIn(dir, q)
      BY <1>8, <3>3, <3>5, <3>8, <3>9
    <3>12. InSlots(task', q) = InSlots(task, q) + One(q = p)
      BY <3>4, <3>6, <3>8
    <3>13. mem_map'[q] = mem_map[q] + One(q = p) + Mappings(new, q) + TablesIn(dir, q)
      BY <1>5
    <3>14. QED
      BY <1>2, <3>6, <3>8, <3>9, <3>10, <3>11, <3>12, <3>13 DEF Balanced
  <2>2. \A q \in Page : Balanced(q)
    BY <2>1
  <2>3. mem_map' \in [Page -> Int]
    OBVIOUS
  <2>4. QED
    BY <1>1, <2>2, <2>3, Balance
<1>11. TypeOK'
  BY ONLY <1>1, <1>2, <1>7, <1>8, <1>9, <1>10 DEF TypeOK, Places, Entries, Tables
<1>12. /\ \A u \in Slot, b \in Addr : u # t /\ pte'[u] = pte[u] => KeepsAlone(u, b)
       /\ \A u \in Slot : arg'[u] = arg[u] => KeepsArg(u)
  <2>1. ASSUME NEW q \in Page, mem_map[q] = 1, \A a \in Addr : pte[t][a].page # q
        PROVE  mem_map'[q] = 1
    <3>1. TypeOK /\ PageCounts /\ mem_map[p] = 0 /\ Copied(t, p, TRUE, map, dir, new, old)
      BY <1>1, <1>4
    <3>2. map[q] = 1
      BY ONLY <2>1, <3>1, t \in Slot, q \in Page, NotCopied
    <3>3. QED
      BY <3>2
  <2>2. QED
    BY <2>1, OthersAlone
<1>13. ASSUME NEW u \in Slot, NEW b \in Addr
       PROVE  KeepsAlone(u, b)
  <2>1. CASE u = n
    BY <1>5, <1>7, <2>1 DEF KeepsAlone
  <2>2. CASE u = t
    <3>1. pte'[u][b] = old[b]
      BY <1>7, <2>2
    <3>2. ~ old[b].rw \/ (old[b] = pte[t][b] /\ old[b].page \in {LOW, None})
      BY <1>5
    <3>3. \A q \in Page : q \notin {LOW, None}
      BY NoneType
    <3>4. QED
      BY <2>2, <3>1, <3>2, <3>3 DEF KeepsAlone
  <2>3. CASE u # n /\ u # t
    BY <1>7, <1>12, <2>3
  <2>4. QED
    BY <2>1, <2>2, <2>3
<1>14. \A u \in Slot : KeepsArg(u)
  BY <1>2, <1>12
<1>15. ASSUME NEW u \in Slot
       PROVE  Untouched(u) \/ (Shaped(u)' /\ Verified(u)')
  <2>1. CASE u = n
    <3>1. \A a \in Addr : Present(n, a)' => pg_dir'[n][DirOf(a)] # None
      BY <1>5, <1>7, <1>8 DEF Present
    <3>2. task'[n] # None /\ arg'[n] = None /\ pc'[n] = "user"
      BY <1>2, <1>3, <1>4, <1>9
    <3>3. QED
      BY <2>1, <3>1, <3>2 DEF Shaped, Verified, Gone
  <2>2. CASE u = t
    <3>1. pg_dir'[t] = pg_dir[t] /\ task'[t] = task[t]
      BY <1>3, <1>8, <1>9 DEF Agree
    <3>2. \A a \in Addr : Present(t, a)' => pg_dir'[t][DirOf(a)] # None
      BY <1>1, <1>5, <1>7, <3>1 DEF Present, Shaped
    <3>3. task'[t] # None /\ arg'[t] = None
      BY <1>1, <1>2, <3>1 DEF Shaped
    <3>4. QED
      BY <1>9, <2>2, <3>2, <3>3 DEF Shaped, Verified, Gone
  <2>3. CASE u # n /\ u # t
    BY <1>2, <1>7, <1>8, <1>9, <2>3 DEF Untouched, Agree
  <2>4. QED
    BY <2>1, <2>2, <2>3
<1>16. Kernel'
  BY <1>1, <1>3, <1>9, PartsType DEF Kernel
<1>17. QED
  BY <1>10, <1>11, <1>13, <1>14, <1>15, <1>16, Assemble

\* fork that fails when half of the tables are copied: mem_map is as it was.
LEMMA ForkUndone ==
  ASSUME TypeOK, NEW t, NEW p \in Page, NEW ok, NEW map \in [Page -> Nat], NEW dir, NEW new,
         NEW old, Copied(t, p, ok, map, dir, new, old)
  PROVE  free_page(free_page_tables(map, dir, new), p) = mem_map
<1>1. PICK g : g = free_page_tables(map, dir, new)
  OBVIOUS
<1>2. g = [q \in Page |-> map[q] - Mappings(new, q) - TablesIn(dir, q)]
  BY <1>1 DEF free_page_tables, TablesIn
<1>3. ASSUME NEW q \in Page
      PROVE  /\ g[q] = mem_map[q] + One(q = p) /\ g[q] \in Nat
             /\ mem_map[q] \in Nat /\ One(q = p) \in Nat
  <2>1. map[q] = mem_map[q] + One(q = p) + Mappings(new, q) + TablesIn(dir, q)
    BY DEF Copied
  <2>2. /\ mem_map[q] \in Nat /\ One(q = p) \in Nat
        /\ Mappings(new, q) \in Nat /\ TablesIn(dir, q) \in Nat
    BY Sizes, PartsType DEF One
  <2>3. g[q] = map[q] - Mappings(new, q) - TablesIn(dir, q)
    BY <1>2
  <2>4. QED
    BY <2>1, <2>2, <2>3
<1>4. g \in [Page -> Nat]
  BY <1>2, <1>3
<1>5. /\ free_page(g, p) \in [Page -> Int]
      /\ \A q \in Page : free_page(g, p)[q] = g[q] - One(q = p)
  BY <1>4, FreePageMap
<1>6. \A q \in Page : free_page(g, p)[q] = mem_map[q]
  BY <1>3, <1>5
<1>7. mem_map \in [Page -> Nat]
  BY PartsType
<1>8. PICK h : h = free_page(g, p)
  OBVIOUS
<1>9. h \in [Page -> Int] /\ \A q \in Page : h[q] = mem_map[q]
  BY <1>5, <1>6, <1>8
<1>10. h = mem_map
  BY ONLY <1>7, <1>9
<1>11. QED
  BY <1>1, <1>8, <1>10

LEMMA ForkFailedKeeps ==
  ASSUME Inductive, NEW t \in Slot, pc[t] = "user",
         NEW p, NEW ok, NEW map, NEW dir, NEW new, NEW old,
         Copied(t, p, ok, map, dir, new, old),
         mem_map' = mem_map, pte' = [pte EXCEPT ![t] = old],
         pc' = [pc EXCEPT ![t] = IF t = 0 THEN "pause" ELSE "user"],
         UNCHANGED <<pg_dir, tasks, data, at, arg, lost>>
  PROVE  Inductive'
<1>1. TypeOK /\ PageCounts /\ Shaped(t) /\ Kernel /\ ArgAlone
  BY DEF Inductive, Shapes
<1>2. /\ at' = at /\ arg' = arg /\ lost' = lost /\ data' = data /\ pg_dir' = pg_dir
      /\ task' = task /\ father' = father
  BY DEF tasks
<1>3. /\ old \in Entries
      /\ \A a \in Addr : /\ old[a].page = pte[t][a].page
                         /\ ~ old[a].rw \/ old[a] = pte[t][a]
  BY DEF Copied
<1>4. /\ pte \in [Slot -> Entries] /\ pte' \in [Slot -> Entries] /\ pte'[t] = old
      /\ Agree(pte, pte', Slot, t)
  BY <1>1, <1>3, PartsType, RowChanges
<1>5. /\ pc' \in [Slot -> Places] /\ pc'[t] \in {"user", "pause"} /\ Agree(pc, pc', Slot, t)
  BY <1>1 DEF TypeOK, Places, Agree
<1>6. TypeOK'
  BY ONLY <1>1, <1>2, <1>4, <1>5, mem_map' = mem_map DEF TypeOK, Places, Entries
<1>7. PageCounts'
  <2>1. ASSUME NEW q \in Page
        PROVE  Balanced(q)
    <3>1. InEntries(pte', q) = InEntries(pte, q) - Mappings(pte[t], q) + Mappings(pte'[t], q)
      BY ONLY <1>4, t \in Slot, EntriesOfRow
    <3>2. Mappings(old, q) = Mappings(pte[t], q)
      BY <1>3, SamePages
    <3>3. /\ InEntries(pte, q) \in Nat /\ InTables(pg_dir, q) \in Nat /\ In(lost, q) \in Nat
          /\ mem_map[q] \in Nat /\ InSlots(task, q) \in Nat /\ InSlots(arg, q) \in Nat
          /\ Mappings(pte[t], q) \in Nat
      BY <1>1, UseCounts, Sizes
    <3>4. InEntries(pte', q) = InEntries(pte, q)
      BY <1>4, <3>1, <3>2, <3>3
    <3>5. QED
      BY <1>2, <3>3, <3>4 DEF Balanced
  <2>2. \A q \in Page : Balanced(q)
    BY <2>1
  <2>3. mem_map' \in [Page -> Int]
    BY <1>1, PartsType
  <2>4. QED
    BY <1>1, <2>2, <2>3, Balance
<1>8. \A q \in Page : mem_map'[q] <= mem_map[q]
  BY <1>1, PartsType
<1>9. \A u \in Slot : KeepsArg(u)
  BY <1>1, <1>2, <1>8, FewerUsers
<1>10. ASSUME NEW u \in Slot, NEW b \in Addr
       PROVE  KeepsAlone(u, b)
  <2>1. CASE pte'[u][b] = pte[u][b]
    BY <1>1, <1>8, <2>1, FewerUsers
  <2>2. CASE pte'[u][b] # pte[u][b]
    BY <1>3, <1>4, <2>2 DEF KeepsAlone, Agree
  <2>3. QED
    BY <2>1, <2>2
<1>11. \A u \in Slot : u # t => Untouched(u)
  BY <1>2, <1>4, <1>5, OthersUntouched DEF Agree
<1>12. Shaped(t)' /\ Verified(t)'
  <2>1. \A a \in Addr : Present(t, a)' => pg_dir'[t][DirOf(a)] # None
    BY <1>1, <1>2, <1>3, <1>4 DEF Present, Shaped
  <2>2. task'[t] # None /\ arg'[t] = None
    BY <1>1, <1>2 DEF Shaped
  <2>3. QED
    BY <1>5, <2>1, <2>2 DEF Shaped, Verified, Gone
<1>13. Kernel'
  BY <1>1, <1>5, PartsType DEF Kernel, Agree
<1>14. QED
  BY <1>6, <1>7, <1>9, <1>10, <1>11, <1>12, <1>13, Assemble

LEMMA ForkKeeps ==
  ASSUME Inductive, NEW t \in Slot, fork(t)
  PROVE  Inductive'
<1>1. TypeOK /\ PageCounts /\ Shaped(t)
  BY DEF Inductive, Shapes
<1>2. PICK p : p = get_free_page(mem_map)
  OBVIOUS
<1>3. PICK c : c = copy_page_tables(Taken(mem_map), pg_dir[t], pte[t])
  OBVIOUS
<1>4. pc[t] = "user" /\ (\E m \in Slot : task[m] = None) /\ Free(mem_map) # {}
  BY DEF fork
<1>5. PICK n \in Slot : n = find_empty_process /\ task[n] = None
  BY <1>4, EmptySlot
<1>6. p \in Page
  BY <1>1, <1>2, <1>4, FreeMap
<1>7. Copied(t, p, c.ok, c.map, c.dir, c.new, c.old) /\ c \in Copying
  BY <1>1, <1>2, <1>3, <1>4, ForkCopies
<1>8. c.map \in [Page -> Nat] /\ c.ok \in BOOLEAN
  BY <1>7 DEF Copying
<1>9. CASE c.ok
  <2>1. /\ mem_map' = c.map /\ pg_dir' = [pg_dir EXCEPT ![n] = c.dir]
        /\ pte' = [pte EXCEPT ![n] = c.new, ![t] = c.old]
        /\ task' = [task EXCEPT ![n] = p] /\ father' = [father EXCEPT ![n] = t]
        /\ pc' = [pc EXCEPT ![n] = "user", ![t] = IF t = 0 THEN "pause" ELSE "user"]
        /\ UNCHANGED <<data, at, arg, lost>>
    BY <1>2, <1>3, <1>5, <1>9 DEF fork
  <2>2. Copied(t, p, TRUE, c.map, c.dir, c.new, c.old)
    BY <1>7, <1>8, <1>9
  <2>3. QED
    BY <1>2, <1>4, <1>5, <1>8, <2>1, <2>2, ForkDoneKeeps
<1>10. CASE ~ c.ok
  <2>1. /\ mem_map' = free_page(free_page_tables(c.map, c.dir, c.new), p)
        /\ pte' = [pte EXCEPT ![t] = c.old]
        /\ pc' = [pc EXCEPT ![t] = IF t = 0 THEN "pause" ELSE "user"]
        /\ UNCHANGED <<pg_dir, tasks, data, at, arg, lost>>
    BY <1>2, <1>3, <1>10 DEF fork
  <2>2. mem_map' = mem_map
    BY <1>1, <1>6, <1>7, <1>8, <2>1, ForkUndone
  <2>3. QED
    BY <1>4, <1>7, <2>1, <2>2, ForkFailedKeeps
<1>11. QED
  BY <1>9, <1>10

-------------------------------------------------------------------------------
(* The invariant holds. *)

LEMMA InitInductive ==
  ASSUME Init
  PROVE  Inductive
<1>1. /\ \A p \in Page : p # LOW /\ p # None
      /\ 0 \in Slot /\ Top \in Addr /\ LOW # None /\ NotPresent.page = None
      /\ NotPresent \in [page : Page \cup {LOW, None}, rw : BOOLEAN]
      /\ Entry(LOW) \in [page : Page \cup {LOW, None}, rw : BOOLEAN]
      /\ Entry(LOW).page = LOW
  BY NoneType, TopAddr DEF Slot, LOW, None, NotPresent, Entry
<1>2. /\ \A t \in Slot, a \in Addr : pte[t][a] = IF t = 0 /\ DirOf(a) = 0 THEN Entry(LOW) ELSE NotPresent
      /\ \A t \in Slot, d \in Dir : pg_dir[t][d] = IF t = 0 /\ d = 0 THEN LOW ELSE None
      /\ \A t \in Slot : task[t] = IF t = 0 THEN LOW ELSE None
      /\ \A t \in Slot : arg[t] = None /\ pc[t] = IF t = 0 THEN "user" ELSE "none"
      /\ \A p \in Page : mem_map[p] = 0
      /\ lost = {}
  BY DEF Init
<1>3. TypeOK
  <2>1. pg_dir \in [Slot -> [Dir -> Page \cup {LOW, None}]]
    BY DEF Init
  <2>2. pte \in [Slot -> [Addr -> [page : Page \cup {LOW, None}, rw : BOOLEAN]]]
    BY <1>1 DEF Init
  <2>3. data \in [Page \cup {LOW} -> Val]
    BY DEF Init, Val, Garbage
  <2>4. /\ mem_map \in [Page -> Nat] /\ task \in [Slot -> Page \cup {LOW, None}]
        /\ father \in [Slot -> Slot] /\ arg \in [Slot -> Page \cup {None}] /\ lost \subseteq Page
    BY <1>1 DEF Init
  <2>5. /\ pc \in [Slot -> {"none", "user", "pause", "verified", "exec", "exit", "zombie"}]
        /\ at \in [Slot -> Addr]
    BY <1>1 DEF Init
  <2>6. QED
    BY <2>1, <2>2, <2>3, <2>4, <2>5 DEF TypeOK
<1>4. PageCounts
  <2> SUFFICES ASSUME NEW p \in Page
               PROVE  mem_map[p] = Users(p)
    BY DEF PageCounts
  <2>1. /\ \A t \in Slot, a \in Addr : pte[t][a].page # p
        /\ \A t \in Slot, d \in Dir : pg_dir[t][d] # p
        /\ \A t \in Slot : task[t] # p /\ arg[t] # p
    BY <1>1, <1>2
  <2>2. /\ {x \in Slot \X Addr : pte[x[1]][x[2]].page = p} = {}
        /\ {x \in Slot \X Dir : pg_dir[x[1]][x[2]] = p} = {}
        /\ {t \in Slot : task[t] = p} = {} /\ {t \in Slot : arg[t] = p} = {}
        /\ {p} \cap lost = {}
    BY <1>2, <2>1
  <2>3. /\ InEntries(pte, p) = 0 /\ InTables(pg_dir, p) = 0 /\ InSlots(task, p) = 0
        /\ InSlots(arg, p) = 0 /\ In(lost, p) = 0
    BY ONLY <2>2, FS_EmptySet DEF InEntries, InTables, InSlots, In
  <2>4. QED
    BY <1>2, <2>3, UsersSum
<1>5. WritableAlone /\ VerifiedStays
  BY <1>1, <1>2 DEF WritableAlone, VerifiedStays, CanWrite, Present
<1>6. ArgAlone /\ Kernel
  BY <1>1, <1>2 DEF ArgAlone, Kernel
<1>7. ASSUME NEW t \in Slot
      PROVE  Shaped(t)
  <2>1. CASE t = 0
    <3>1. ASSUME NEW a \in Addr, Present(t, a)
          PROVE  pg_dir[t][DirOf(a)] # None
      BY <1>1, <1>2, <2>1, <3>1, DirOfAddr DEF Present
    <3>2. QED
      BY <1>1, <1>2, <2>1, <3>1 DEF Shaped, Gone
  <2>2. CASE t # 0
    <3>1. pg_dir[t] = NoTables /\ pte[t] = NoEntries
      BY <2>2 DEF Init, NoTables, NoEntries
    <3>2. \A a \in Addr : ~ Present(t, a)
      BY <1>1, <1>2, <2>2 DEF Present
    <3>3. QED
      BY <1>2, <2>2, <3>1, <3>2 DEF Shaped
  <2>3. QED
    BY <2>1, <2>2
<1>8. QED
  BY <1>3, <1>4, <1>5, <1>6, <1>7 DEF Inductive, Shapes

LEMMA NextKeeps ==
  ASSUME Inductive, Next
  PROVE  Inductive'
<1>1. PICK t \in Slot :
        \/ fork(t)
        \/ exit(t)
        \/ exit_done(t)
        \/ \E a \in Addr : \/ do_no_page(t, a)
                           \/ do_wp_page(t, a)
                           \/ copy_strings(t, a)
        \/ change_ldt(t)
        \/ \E a \in Written : \/ verify_area(t, a)
                              \/ \E v \in Stored : write(t, a, v) \/ sys_pipe(t, a, v)
        \/ \E v \in Stored : put_fs(t, v) \/ \E z \in Slot : sys_waitpid(t, z, v)
        \/ return(t)
  BY DEF Next
<1>2. \A a \in Written : a \in Addr
  BY DEF Addr
<1>3. CASE fork(t)
  BY <1>3, ForkKeeps
<1>4. CASE exit(t)
  BY <1>4, SysExitKeeps
<1>5. CASE exit_done(t)
  BY <1>5, ExitDoneKeeps
<1>6. ASSUME NEW a \in Addr, do_no_page(t, a) \/ do_wp_page(t, a) \/ copy_strings(t, a)
      PROVE  Inductive'
  BY <1>6, DoNoPageKeeps, DoWpPageKeeps, CopyStringsKeeps
<1>7. CASE change_ldt(t)
  BY <1>7, ChangeLdtKeeps
<1>8. ASSUME NEW a \in Written, verify_area(t, a)
      PROVE  Inductive'
  BY <1>2, <1>8, VerifyAreaKeeps
<1>9. ASSUME NEW a \in Written, NEW v \in Stored, write(t, a, v) \/ sys_pipe(t, a, v)
      PROVE  Inductive'
  BY <1>2, <1>9, WriteKeeps, SysPipeKeeps
<1>10. ASSUME NEW v \in Stored, put_fs(t, v)
       PROVE  Inductive'
  BY <1>10, PutFsKeeps
<1>11. ASSUME NEW v \in Stored, NEW z \in Slot, sys_waitpid(t, z, v)
       PROVE  Inductive'
  BY <1>11, SysWaitpidKeeps
<1>12. CASE return(t)
  BY <1>12, ReturnKeeps
<1>13. QED
  BY <1>1, <1>3, <1>4, <1>5, <1>6, <1>7, <1>8, <1>9, <1>10, <1>11, <1>12

LEMMA StutterKeeps ==
  ASSUME Inductive, UNCHANGED vars
  PROVE  Inductive'
<1>1. /\ mem_map' = mem_map /\ data' = data /\ pg_dir' = pg_dir /\ pte' = pte /\ task' = task
      /\ father' = father /\ pc' = pc /\ at' = at /\ arg' = arg /\ lost' = lost
  BY DEF vars
<1>2. TypeOK' /\ PageCounts' /\ WritableAlone' /\ VerifiedStays'
  BY <1>1 DEF Inductive, TypeOK, PageCounts, Users, WritableAlone, VerifiedStays, CanWrite,
              Present, Alone
<1>3. Shapes'
  BY <1>1 DEF Inductive, Shapes, Shaped, Kernel, ArgAlone, Present
<1>4. QED
  BY <1>2, <1>3 DEF Inductive

\* Nothing is lost to the invariant in any step.
THEOREM MemoryInvariant == Spec => []Inductive
<1>1. Init => Inductive
  BY InitInductive
<1>2. Inductive /\ [Next]_vars => Inductive'
  BY NextKeeps, StutterKeeps
<1>3. QED
  BY <1>1, <1>2, PTL DEF Spec

\* The variables keep their types; mem_map in particular never goes below zero
\* in free_page ("trying to free free page", memory.c:159).
THEOREM MemoryTypes == Spec => []TypeOK
BY MemoryInvariant, PTL DEF Inductive

\* mem_map is the number of users of every page, whatever sequence of forks,
\* faults, programs and exits comes before, with memory running out inside any
\* of them (memory.c:54-275).
THEOREM CountsAreExact == Spec => []PageCounts
BY MemoryInvariant, PTL DEF Inductive

\* A page that a task can write to has no other user (un_wp_page,
\* memory.c:283-300).
THEOREM WritableIsAlone == Spec => []WritableAlone
BY MemoryInvariant, PTL DEF Inductive

\* What verify_area has made writable (fork.c:25-38) is so, or absent, when the
\* system call comes to write to it.
THEOREM VerifiedPagesStay == Spec => []VerifiedStays
BY MemoryInvariant, PTL DEF Inductive

-------------------------------------------------------------------------------
(* What tasks see: every task has a memory of its own. *)

See(t, a) == IF Present(t, a) THEN data[pte[t][a].page] ELSE 0
SeesSame(t) == \A a \in Addr : See(t, a)' = See(t, a)
OthersSeeSame(t) == \A u \in Slot : u # t => SeesSame(u)

\* A step as PrivateMemory has it.
PrivateStep == PM!Next \/ Seen' = Seen

LEMMA SeenIs ==
  /\ Seen = [t \in Slot |-> [a \in Addr |-> See(t, a)]]
  /\ Seen' = [t \in Slot |-> [a \in Addr |-> See(t, a)']]
BY DEF Seen, See

LEMMA Unseen ==
  ASSUME \A u \in Slot : SeesSame(u)
  PROVE  PrivateStep
BY SeenIs DEF SeesSame, PrivateStep

LEMMA OthersSeen ==
  ASSUME NEW t \in Slot, OthersSeeSame(t)
  PROVE  \A u \in Slot \ {t} : Seen'[u] = Seen[u]
BY SeenIs DEF OthersSeeSame, SeesSame

LEMMA Cleared ==
  ASSUME NEW t \in Slot, OthersSeeSame(t), \A a \in Addr : See(t, a)' = 0
  PROVE  PrivateStep
<1>1. Seen'[t] = PM!Blank
  BY SeenIs DEF PM!Blank
<1>2. PM!Clear(t)
  BY <1>1, OthersSeen DEF PM!Clear, PM!Becomes
<1>3. QED
  BY <1>2 DEF PrivateStep, PM!Next

LEMMA WrittenTo ==
  ASSUME NEW t \in Slot, OthersSeeSame(t), NEW a \in Addr, NEW v \in Val, See(t, a)' = v,
         \A b \in Addr : b # a => See(t, b)' = See(t, b)
  PROVE  PrivateStep
<1>1. Seen'[t] = [Seen[t] EXCEPT ![a] = v]
  BY SeenIs
<1>2. PM!Write(t, a, v)
  BY <1>1, OthersSeen DEF PM!Write, PM!Becomes
<1>3. QED
  BY <1>2 DEF PrivateStep, PM!Next

LEMMA Executed ==
  ASSUME NEW t \in Slot, OthersSeeSame(t), NEW a \in Addr, NEW v \in Val, See(t, a)' = v,
         \A b \in Addr : b # a => See(t, b)' = 0
  PROVE  PrivateStep
<1>1. Seen'[t] = [PM!Blank EXCEPT ![a] = v]
  BY SeenIs DEF PM!Blank
<1>2. PM!Exec(t, a, v)
  BY <1>1, OthersSeen DEF PM!Exec, PM!Becomes
<1>3. QED
  BY <1>2 DEF PrivateStep, PM!Next

LEMMA Forked ==
  ASSUME NEW t \in Slot, NEW n \in Slot, OthersSeeSame(n),
         \A a \in Addr : See(n, a) = 0 /\ See(n, a)' = See(t, a)
  PROVE  PrivateStep
<1>1. Seen[n] = PM!Blank /\ Seen'[n] = Seen[t]
  BY SeenIs DEF PM!Blank
<1>2. PM!Fork(t, n)
  BY <1>1, OthersSeen DEF PM!Fork, PM!Becomes
<1>3. QED
  BY <1>2 DEF PrivateStep, PM!Next

\* A page that is mapped is not free, so Contents leaves it what it is to be.
LEMMA MappedContents ==
  ASSUME Inductive', NEW d \in Data, Contents(d), NEW u \in Slot, NEW a \in Addr,
         pte'[u][a].page # None
  PROVE  data'[pte'[u][a].page] = d[pte'[u][a].page]
<1>1. PICK q \in Page \cup {LOW} : q = pte'[u][a].page
  BY DEF Inductive, TypeOK
<1>2. q \notin Free(mem_map')
  <2>1. /\ pte' \in [Slot -> Entries] /\ mem_map' \in [Page -> Nat] /\ PageCounts'
    BY DEF Inductive, TypeOK, Entries
  <2>2. q \in Page => mem_map'[q] >= 1
    BY <1>1, <2>1, StillCounted
  <2>3. QED
    BY <2>1, <2>2 DEF Free
<1>3. data' = [p \in Page \cup {LOW} |-> IF p \in Free(mem_map') THEN Garbage ELSE d[p]]
  BY DEF Contents, Data
<1>4. QED
  BY <1>1, <1>2, <1>3

Holds(d) == data' = d \/ Contents(d)

LEMMA MappedHolds ==
  ASSUME Inductive', NEW d \in Data, Holds(d), NEW u \in Slot, NEW a \in Addr,
         pte'[u][a].page # None
  PROVE  data'[pte'[u][a].page] = d[pte'[u][a].page]
BY MappedContents DEF Holds

LEMMA SameSight ==
  ASSUME NEW u \in Slot,
         \A a \in Addr : /\ pte'[u][a].page = pte[u][a].page
                         /\ pte[u][a].page # None =>
                              data'[pte'[u][a].page] = data[pte[u][a].page]
  PROVE  SeesSame(u)
<1> SUFFICES ASSUME NEW a \in Addr
             PROVE  See(u, a)' = See(u, a)
  BY DEF SeesSame
<1>1. CASE pte[u][a].page = None
  BY <1>1 DEF See, Present
<1>2. CASE pte[u][a].page # None
  <2>1. pte'[u][a].page # None /\ data'[pte'[u][a].page] = data[pte[u][a].page]
    BY <1>2
  <2>2. QED
    BY <1>2, <2>1 DEF See, Present
<1>3. QED
  BY <1>1, <1>2

\* What was mapped keeps its contents.
LEMMA KeptSight ==
  ASSUME TypeOK, Inductive', Holds(data), NEW u \in Slot, pte'[u] = pte[u]
  PROVE  SeesSame(u)
<1>1. data \in Data
  BY DEF TypeOK, Data
<1>2. ASSUME NEW a \in Addr, pte[u][a].page # None
      PROVE  data'[pte'[u][a].page] = data[pte[u][a].page]
  <2>1. pte'[u][a].page = pte[u][a].page
    OBVIOUS
  <2>2. data'[pte'[u][a].page] = data[pte'[u][a].page]
    BY <1>1, <1>2, <2>1, MappedHolds
  <2>3. QED
    BY <2>1, <2>2
<1>3. QED
  BY <1>2, SameSight

\* A page is filled that u has not mapped.
LEMMA FilledUnseen ==
  ASSUME TypeOK, Inductive', NEW new \in Page \cup {LOW}, NEW v \in Val,
         Holds([data EXCEPT ![new] = v]), NEW u \in Slot,
         \A a \in Addr : pte'[u][a].page = pte[u][a].page /\ pte[u][a].page # new
  PROVE  SeesSame(u)
<1>1. PICK d : d = [data EXCEPT ![new] = v]
  OBVIOUS
<1>2. /\ d \in Data /\ \A p \in Page \cup {LOW} : p # new => d[p] = data[p]
  BY <1>1 DEF TypeOK, Data
<1>3. Holds(d)
  BY <1>1
<1>4. ASSUME NEW a \in Addr, pte[u][a].page # None
      PROVE  data'[pte'[u][a].page] = data[pte[u][a].page]
  <2>1. PICK q \in Page \cup {LOW} : q = pte[u][a].page
    BY <1>4, EntryType
  <2>2. pte'[u][a].page = q /\ q # new /\ q # None
    BY <1>4, <2>1
  <2>3. data'[pte'[u][a].page] = d[pte'[u][a].page]
    BY <1>2, <1>3, <2>2, MappedHolds
  <2>4. QED
    BY <1>2, <2>1, <2>2, <2>3
<1>5. QED
  BY <1>4, SameSight

\* What is written to a page that can be written to is seen by one task only.
LEMMA StoreIsPrivate ==
  ASSUME Inductive, Inductive', NEW t \in Slot, t # 0, NEW a \in Addr, CanWrite(t, a),
         NEW v \in Val, pte' = pte, Holds([data EXCEPT ![pte[t][a].page] = v])
  PROVE  PrivateStep
<1>1. TypeOK /\ PageCounts /\ Alone(pte[t][a].page)
  BY DEF Inductive, WritableAlone
<1>2. PICK q \in Page : q = pte[t][a].page /\ mem_map[q] = 1 /\ q # None
  BY <1>1, EntryType, NoneType DEF Alone
<1>3. \A u \in Slot, b \in Addr : pte[u][b].page = q => u = t /\ b = a
  BY <1>1, <1>2, MappedOnce
<1>4. PICK d : d = [data EXCEPT ![q] = v]
  OBVIOUS
<1>5. Holds(d) /\ Holds([data EXCEPT ![q] = v])
  BY <1>2, <1>4
<1>6. d \in Data /\ d[q] = v /\ \A p \in Page \cup {LOW} : p # q => d[p] = data[p]
  BY <1>1, <1>4 DEF TypeOK, Data
<1>7. \A u \in Slot : u # t => SeesSame(u)
  BY <1>1, <1>3, <1>5, FilledUnseen
<1>8. See(t, a)' = v
  <2>1. data'[pte'[t][a].page] = d[pte'[t][a].page]
    BY <1>2, <1>5, <1>6, MappedHolds
  <2>2. QED
    BY <1>2, <1>6, <2>1 DEF See, Present
<1>9. ASSUME NEW b \in Addr, b # a
      PROVE  See(t, b)' = See(t, b)
  <2>1. CASE pte[t][b].page = None
    BY <2>1 DEF See, Present
  <2>2. CASE pte[t][b].page # None
    <3>1. PICK p \in Page \cup {LOW} : p = pte[t][b].page /\ p # q
      BY <1>1, <1>3, <1>9, <2>2, EntryType
    <3>2. data'[pte'[t][b].page] = d[pte'[t][b].page]
      BY <1>5, <1>6, <2>2, MappedHolds
    <3>3. data'[p] = data[p]
      BY <1>6, <3>1, <3>2
    <3>4. QED
      BY <2>2, <3>1, <3>3 DEF See, Present
  <2>3. QED
    BY <2>1, <2>2
<1>10. QED
  BY <1>7, <1>8, <1>9, WrittenTo DEF OthersSeeSame

LEMMA WriteIsPrivate ==
  ASSUME Inductive, Inductive', NEW t \in Slot, NEW a \in Addr, NEW v \in Stored, write(t, a, v)
  PROVE  PrivateStep
<1>1. /\ t # 0 /\ CanWrite(t, a) /\ v \in Val /\ pte' = pte
      /\ Holds([data EXCEPT ![pte[t][a].page] = v])
  BY DEF write, tables, Stored, Holds
<1>2. QED
  BY <1>1, StoreIsPrivate

LEMMA PutFsIsPrivate ==
  ASSUME Inductive, Inductive', NEW t \in Slot, NEW v \in Stored, put_fs(t, v)
  PROVE  PrivateStep
<1>1. /\ pc[t] = "verified" /\ v \in Val /\ pte' = pte /\ Present(t, at[t])
      /\ Holds([data EXCEPT ![pte[t][at[t]].page] = v])
  BY DEF put_fs, PutFs, tables, Stored, Holds
<1>2. t # 0
  BY <1>1, VerifiedNotKernel
<1>3. PICK a \in Addr : a = at[t]
  BY DEF Inductive, TypeOK
<1>4. CanWrite(t, a)
  BY <1>1, <1>3 DEF Inductive, VerifiedStays
<1>5. Holds([data EXCEPT ![pte[t][a].page] = v])
  BY <1>1, <1>3
<1>6. QED
  BY <1>1, <1>2, <1>4, <1>5, StoreIsPrivate

LEMMA WaitpidIsPrivate ==
  ASSUME Inductive, Inductive', NEW t \in Slot, NEW z \in Slot, NEW v \in Stored,
         sys_waitpid(t, z, v)
  PROVE  PrivateStep
<1>1. /\ pc[t] = "verified" /\ v \in Val /\ pte' = pte /\ Present(t, at[t])
      /\ Holds([data EXCEPT ![pte[t][at[t]].page] = v])
  BY DEF sys_waitpid, PutFs, tables, Stored, Holds
<1>2. t # 0
  BY <1>1, VerifiedNotKernel
<1>3. PICK a \in Addr : a = at[t]
  BY DEF Inductive, TypeOK
<1>4. CanWrite(t, a)
  BY <1>1, <1>3 DEF Inductive, VerifiedStays
<1>5. Holds([data EXCEPT ![pte[t][a].page] = v])
  BY <1>1, <1>3
<1>6. QED
  BY <1>1, <1>2, <1>4, <1>5, StoreIsPrivate

\* sys_pipe writes as it likes: to a page of its own, or it intrudes.
LEMMA SysPipeIsPrivate ==
  ASSUME Inductive, Inductive', NEW t \in Slot, NEW a \in Addr, NEW v \in Stored, sys_pipe(t, a, v)
  PROVE  PrivateStep \/ Intrusion
<1>1. /\ t # 0 /\ v \in Val /\ pte' = pte
      /\ Holds([data EXCEPT ![pte[t][a].page] = v])
  BY DEF sys_pipe, PutFs, tables, Stored, Holds
<1>2. CASE CanWrite(t, a)
  BY <1>1, <1>2, StoreIsPrivate
<1>3. CASE ~ CanWrite(t, a)
  BY <1>1, <1>3 DEF Intrusion
<1>4. QED
  BY <1>2, <1>3

\* Nobody's tables change, and no contents that anybody has mapped.
LEMMA QuietIsPrivate ==
  ASSUME Inductive, Inductive', pte' = pte, Holds(data)
  PROVE  PrivateStep
BY KeptSight, Unseen DEF Inductive

LEMMA ExitIsPrivate ==
  ASSUME Inductive, Inductive', NEW t \in Slot, NEW map, NEW more, do_exit(t, map, more)
  PROVE  PrivateStep
<1>1. TypeOK /\ Holds(data) /\ pte' = [pte EXCEPT ![t] = NoEntries]
  BY DEF Inductive, do_exit, Holds
<1>2. /\ pte'[t] = NoEntries /\ Agree(pte, pte', Slot, t)
  BY <1>1, NoneType, RowChanges
<1>3. OthersSeeSame(t)
  BY <1>1, <1>2, KeptSight DEF OthersSeeSame, Agree
<1>4. \A a \in Addr : See(t, a)' = 0
  BY <1>2 DEF See, Present, NoEntries, NotPresent
<1>5. QED
  BY <1>3, <1>4, Cleared

LEMMA ExitNowIsPrivate ==
  ASSUME Inductive, Inductive', NEW t \in Slot, do_exit(t, mem_map, {})
  PROVE  PrivateStep
<1>1. PICK map : map = mem_map
  OBVIOUS
<1>2. PICK more : more = {}
  OBVIOUS
<1>3. do_exit(t, map, more)
  BY <1>1, <1>2 DEF do_exit
<1>4. QED
  BY <1>3, ExitIsPrivate

LEMMA ExitLosingIsPrivate ==
  ASSUME Inductive, Inductive', NEW t \in Slot,
         do_exit(t, Taken(mem_map), {get_free_page(mem_map)})
  PROVE  PrivateStep
<1>1. PICK map : map = Taken(mem_map)
  OBVIOUS
<1>2. PICK more : more = {get_free_page(mem_map)}
  OBVIOUS
<1>3. do_exit(t, map, more)
  BY <1>1, <1>2 DEF do_exit
<1>4. QED
  BY <1>3, ExitIsPrivate

\* An entry that comes to map a page with what was seen at it before.
LEMMA ReplacedIsPrivate ==
  ASSUME Inductive, Inductive', NEW t \in Slot, NEW a \in Addr, Free(mem_map) # {},
         NEW new, new = get_free_page(mem_map), pte' = [pte EXCEPT ![t][a] = Entry(new)],
         data' = [data EXCEPT ![new] = See(t, a)]
  PROVE  PrivateStep
<1>1. TypeOK /\ PageCounts
  BY DEF Inductive
<1>2. /\ new \in Page /\ new # None /\ \A u \in Slot, b \in Addr : pte[u][b].page # new
  BY <1>1, FreeMap
<1>3. PICK e \in [page : Page \cup {LOW, None}, rw : BOOLEAN] : e = Entry(new) /\ e.page = new
  BY <1>2, EntryIs
<1>4. /\ pte'[t][a] = e /\ Agree(pte, pte', Slot, t) /\ Agree(pte[t], pte'[t], Addr, a)
  BY <1>1, <1>3, EntryChanges
<1>5. PICK v : v = See(t, a)
  OBVIOUS
<1>6. data'[new] = v /\ \A p \in Page \cup {LOW} : p # new => data'[p] = data[p]
  BY <1>1, <1>2, <1>5 DEF TypeOK
<1>7. ASSUME NEW u \in Slot, NEW b \in Addr, ~ (u = t /\ b = a)
      PROVE  See(u, b)' = See(u, b)
  <2>1. pte'[u][b] = pte[u][b]
    BY <1>4, <1>7 DEF Agree
  <2>2. pte[u][b].page # None => data'[pte[u][b].page] = data[pte[u][b].page]
    BY <1>1, <1>2, <1>6, EntryType
  <2>3. QED
    BY ONLY <2>1, <2>2 DEF See, Present
<1>8. See(t, a)' = See(t, a)
  <2>1. pte'[t][a].page = new /\ new # None /\ data'[new] = v
    BY <1>2, <1>3, <1>4, <1>6
  <2>2. See(t, a)' = v
    BY ONLY <2>1 DEF See, Present
  <2>3. QED
    BY <1>5, <2>2
<1>9. \A u \in Slot : SeesSame(u)
  BY <1>7, <1>8 DEF SeesSame
<1>10. QED
  BY <1>9, Unseen

LEMMA DoNoPageIsPrivate ==
  ASSUME Inductive, Inductive', NEW t \in Slot, NEW a \in Addr, do_no_page(t, a)
  PROVE  PrivateStep
<1>1. CASE do_exit(t, mem_map, {})
  BY <1>1, ExitNowIsPrivate
<1>2. CASE do_exit(t, Taken(mem_map), {get_free_page(mem_map)})
  BY <1>2, ExitLosingIsPrivate
<1>3. CASE /\ Free(mem_map) # {}
           /\ put_page(t, get_free_page(mem_map), a, Taken(mem_map))
           /\ data' = [data EXCEPT ![get_free_page(mem_map)] = 0]
  <2>1. PICK new : new = get_free_page(mem_map)
    OBVIOUS
  <2>2. pte' = [pte EXCEPT ![t][a] = Entry(new)]
    BY <1>3, <2>1 DEF put_page
  <2>3. See(t, a) = 0
    BY DEF do_no_page, See
  <2>4. data' = [data EXCEPT ![new] = See(t, a)]
    BY <1>3, <2>1, <2>3
  <2>5. QED
    BY <1>3, <2>1, <2>2, <2>4, ReplacedIsPrivate
<1>4. QED
  BY <1>1, <1>2, <1>3 DEF do_no_page

LEMMA UnWpIsPrivate ==
  ASSUME Inductive, Inductive', NEW t \in Slot, NEW a \in Addr, Present(t, a),
         un_wp_page(t, a, GoesOn(t, a))
  PROVE  PrivateStep
<1>1. CASE pte' = [pte EXCEPT ![t][a].rw = TRUE] /\ data' = data
  <2>1. TypeOK
    BY DEF Inductive
  <2>2. \A u \in Slot, b \in Addr : pte'[u][b].page = pte[u][b].page
    BY <1>1, <2>1 DEF TypeOK
  <2>3. \A u \in Slot : SeesSame(u)
    BY <1>1, <2>2, SameSight
  <2>4. QED
    BY <2>3, Unseen
<1>2. CASE /\ Free(mem_map) # {}
           /\ pte' = [pte EXCEPT ![t][a] = Entry(get_free_page(mem_map))]
           /\ data' = [data EXCEPT ![get_free_page(mem_map)] = data[pte[t][a].page]]
  <2>1. PICK new : new = get_free_page(mem_map)
    OBVIOUS
  <2>2. See(t, a) = data[pte[t][a].page]
    BY DEF See
  <2>3. /\ pte' = [pte EXCEPT ![t][a] = Entry(new)] /\ data' = [data EXCEPT ![new] = See(t, a)]
    BY <1>2, <2>1, <2>2
  <2>4. Free(mem_map) # {} /\ new = get_free_page(mem_map)
    BY <1>2, <2>1
  <2>5. QED
    BY <2>3, <2>4, ReplacedIsPrivate
<1>3. CASE do_exit(t, mem_map, {})
  BY <1>3, ExitNowIsPrivate
<1>4. QED
  BY <1>1, <1>2, <1>3 DEF un_wp_page

LEMMA VerifyIsPrivate ==
  ASSUME Inductive, Inductive', NEW t \in Slot, NEW a \in Addr,
         do_wp_page(t, a) \/ verify_area(t, a)
  PROVE  PrivateStep
<1>1. CASE Present(t, a) /\ un_wp_page(t, a, GoesOn(t, a))
  BY <1>1, UnWpIsPrivate
<1>2. CASE pte' = pte /\ data' = data
  BY <1>2, QuietIsPrivate DEF Holds
<1>3. CASE do_wp_page(t, a)
  <2>1. Present(t, a) /\ un_wp_page(t, a, GoesOn(t, a))
    BY <1>3 DEF do_wp_page, un_wp_page, GoesOn
  <2>2. QED
    BY <1>1, <2>1
<1>4. CASE verify_area(t, a)
  <2>1. CASE Present(t, a) /\ ~ CanWrite(t, a)
    <3>1. un_wp_page(t, a, GoesOn(t, a))
      BY <1>4, <2>1 DEF verify_area, un_wp_page, GoesOn
    <3>2. QED
      BY <1>1, <2>1, <3>1
  <2>2. CASE ~ (Present(t, a) /\ ~ CanWrite(t, a))
    BY <1>2, <1>4, <2>2 DEF verify_area, tables
  <2>3. QED
    BY <2>1, <2>2
<1>5. QED
  BY <1>3, <1>4

LEMMA CopyStringsIsPrivate ==
  ASSUME Inductive, Inductive', NEW t \in Slot, NEW a \in Addr, copy_strings(t, a)
  PROVE  PrivateStep
<1>1. TypeOK /\ PageCounts /\ pte' = pte /\ Present(t, a) /\ Free(mem_map) # {}
  BY DEF Inductive, copy_strings, tables
<1>2. PICK new : new = get_free_page(mem_map)
  OBVIOUS
<1>3. new \in Page /\ \A u \in Slot, b \in Addr : pte[u][b].page # new
  BY <1>1, <1>2, FreeMap
<1>4. PICK v \in Val : v = data[pte[t][a].page]
  BY <1>1, EntryType DEF TypeOK
<1>5. Holds([data EXCEPT ![new] = v])
  BY <1>2, <1>4 DEF copy_strings, Holds
<1>6. \A u \in Slot : SeesSame(u)
  BY <1>1, <1>3, <1>5, FilledUnseen
<1>7. QED
  BY <1>6, Unseen

LEMMA ChangeLdtIsPrivate ==
  ASSUME Inductive, Inductive', NEW t \in Slot, change_ldt(t)
  PROVE  PrivateStep
<1>1. TypeOK /\ Shaped(t) /\ pc[t] = "exec" /\ Contents(data)
  BY DEF Inductive, Shapes, change_ldt
<1>2. PICK old \in Page : old = arg[t]
  BY <1>1 DEF Shaped, TypeOK
<1>3. PICK e \in [page : Page \cup {LOW, None}, rw : BOOLEAN] : e = Entry(old) /\ e.page = old
  BY <1>2, EntryIs
<1>4. PICK r : r = [NoEntries EXCEPT ![Top] = e]
  OBVIOUS
<1>5. /\ r \in Entries /\ r[Top].page = old /\ \A b \in Addr : b # Top => r[b].page = None
      /\ NoEntries \in Entries /\ \A b \in Addr : NoEntries[b].page = None
  BY <1>3, <1>4, TopAddr, NoneType DEF Entries, NoEntries, NotPresent
<1>6. pte' = [pte EXCEPT ![t] = r] \/ pte' = [pte EXCEPT ![t] = NoEntries]
  BY <1>2, <1>3, <1>4 DEF change_ldt
<1>7. Agree(pte, pte', Slot, t) /\ (pte'[t] = r \/ pte'[t] = NoEntries)
  BY <1>1, <1>5, <1>6, RowChanges
<1>8. OthersSeeSame(t)
  BY <1>1, <1>7, KeptSight DEF OthersSeeSame, Agree, Holds
<1>9. CASE pte'[t] = NoEntries
  <2>1. \A a \in Addr : See(t, a)' = 0
    BY <1>5, <1>9 DEF See, Present
  <2>2. QED
    BY <1>8, <2>1, Cleared
<1>10. CASE pte'[t] = r
  <2>1. PICK v \in Val : v = data'[old]
    BY DEF Inductive, TypeOK
  <2>2. old # None
    BY NoneType
  <2>3. See(t, Top)' = v
    BY <1>5, <1>10, <2>1, <2>2 DEF See, Present
  <2>4. \A b \in Addr : b # Top => See(t, b)' = 0
    BY <1>5, <1>10 DEF See, Present
  <2>5. QED
    BY <1>8, <2>3, <2>4, TopAddr, Executed
<1>11. QED
  BY <1>7, <1>9, <1>10

LEMMA ForkIsPrivate ==
  ASSUME Inductive, Inductive', NEW t \in Slot, fork(t)
  PROVE  PrivateStep
<1>1. TypeOK /\ PageCounts /\ Shaped(t) /\ data' = data
  BY DEF Inductive, Shapes, fork
<1>2. PICK p : p = get_free_page(mem_map)
  OBVIOUS
<1>3. PICK c : c = copy_page_tables(Taken(mem_map), pg_dir[t], pte[t])
  OBVIOUS
<1>4. pc[t] = "user" /\ (\E m \in Slot : task[m] = None) /\ Free(mem_map) # {}
  BY DEF fork
<1>5. PICK n \in Slot : n = find_empty_process /\ task[n] = None
  BY <1>4, EmptySlot
<1>6. n # t /\ pte[n] = NoEntries
  BY <1>1, <1>4, <1>5 DEF Inductive, Shapes, Shaped, Gone
<1>7. Copied(t, p, c.ok, c.map, c.dir, c.new, c.old)
  BY <1>1, <1>2, <1>3, <1>4, ForkCopies
<1>8. /\ c.new \in Entries /\ c.old \in Entries
      /\ \A a \in Addr : /\ c.old[a].page = pte[t][a].page
                         /\ c.ok => c.new[a].page = pte[t][a].page
  BY <1>7 DEF Copied
<1>9. CASE c.ok
  <2>1. pte' = [pte EXCEPT ![n] = c.new, ![t] = c.old]
    BY <1>3, <1>5, <1>9 DEF fork
  <2>2. /\ pte'[n] = c.new /\ pte'[t] = c.old
        /\ \A u \in Slot : u # t /\ u # n => pte'[u] = pte[u]
    BY <1>1, <1>6, <2>1 DEF TypeOK
  <2>3. \A u \in Slot : u # n => \A a \in Addr : pte'[u][a].page = pte[u][a].page
    BY <1>8, <2>2
  <2>4. OthersSeeSame(n)
    BY <1>1, <2>3, SameSight DEF OthersSeeSame
  <2>5. \A a \in Addr : See(n, a) = 0
    BY <1>6 DEF See, Present, NoEntries, NotPresent
  <2>6. ASSUME NEW a \in Addr
        PROVE  See(n, a)' = See(t, a)
    <3>1. pte'[n][a].page = pte[t][a].page
      BY <1>8, <1>9, <2>2
    <3>2. QED
      BY ONLY <1>1, <3>1 DEF See, Present
  <2>7. QED
    BY <2>4, <2>5, <2>6, Forked
<1>10. CASE ~ c.ok
  <2>1. pte' = [pte EXCEPT ![t] = c.old]
    BY <1>3, <1>10 DEF fork
  <2>2. \A u \in Slot, a \in Addr : pte'[u][a].page = pte[u][a].page
    BY <1>1, <1>8, <2>1 DEF TypeOK
  <2>3. \A u \in Slot : SeesSame(u)
    BY <1>1, <2>2, SameSight
  <2>4. QED
    BY <2>3, Unseen
<1>11. QED
  BY <1>9, <1>10

LEMMA NextIsPrivate ==
  ASSUME Inductive, Inductive', Next
  PROVE  PrivateStep \/ Intrusion
<1>1. PICK t \in Slot :
        \/ fork(t)
        \/ exit(t)
        \/ exit_done(t)
        \/ \E a \in Addr : \/ do_no_page(t, a)
                           \/ do_wp_page(t, a)
                           \/ copy_strings(t, a)
        \/ change_ldt(t)
        \/ \E a \in Written : \/ verify_area(t, a)
                              \/ \E v \in Stored : write(t, a, v) \/ sys_pipe(t, a, v)
        \/ \E v \in Stored : put_fs(t, v) \/ \E z \in Slot : sys_waitpid(t, z, v)
        \/ return(t)
  BY DEF Next
<1>2. \A a \in Written : a \in Addr
  BY DEF Addr
<1>3. CASE fork(t)
  BY <1>3, ForkIsPrivate
<1>4. CASE exit(t)
  BY <1>4, ExitNowIsPrivate DEF exit
<1>5. CASE exit_done(t)
  BY <1>5, QuietIsPrivate DEF exit_done, tables, Holds
<1>6. ASSUME NEW a \in Addr, do_no_page(t, a) \/ do_wp_page(t, a) \/ copy_strings(t, a)
      PROVE  PrivateStep
  BY <1>6, DoNoPageIsPrivate, VerifyIsPrivate, CopyStringsIsPrivate
<1>7. CASE change_ldt(t)
  BY <1>7, ChangeLdtIsPrivate
<1>8. ASSUME NEW a \in Written, verify_area(t, a)
      PROVE  PrivateStep
  BY <1>2, <1>8, VerifyIsPrivate
<1>9. ASSUME NEW a \in Written, NEW v \in Stored, write(t, a, v) \/ sys_pipe(t, a, v)
      PROVE  PrivateStep \/ Intrusion
  BY <1>2, <1>9, WriteIsPrivate, SysPipeIsPrivate
<1>10. ASSUME NEW v \in Stored, put_fs(t, v)
       PROVE  PrivateStep
  BY <1>10, PutFsIsPrivate
<1>11. ASSUME NEW v \in Stored, NEW z \in Slot, sys_waitpid(t, z, v)
       PROVE  PrivateStep
  BY <1>11, WaitpidIsPrivate
<1>12. CASE return(t)
  BY <1>12, QuietIsPrivate DEF return, tables, Holds
<1>13. QED
  BY <1>1, <1>3, <1>4, <1>5, <1>6, <1>7, <1>8, <1>9, <1>10, <1>11, <1>12

LEMMA InitIsPrivate ==
  ASSUME Init
  PROVE  PM!Init
<1>1. Inductive
  BY InitInductive
<1>2. PICK b : b = [a \in Addr |-> See(0, a)]
  OBVIOUS
<1>3. 0 \in Slot /\ TypeOK
  BY <1>1, PartsType DEF Inductive
<1>4. \A a \in Addr : See(0, a) \in Val
  <2> SUFFICES ASSUME NEW a \in Addr
               PROVE  See(0, a) \in Val
    OBVIOUS
  <2>1. pte[0][a].page \in Page \cup {LOW, None}
    BY <1>3, EntryType
  <2>2. \A q \in Page \cup {LOW} : data[q] \in Val
    BY <1>3 DEF TypeOK
  <2>3. 0 \in Val
    BY DEF Val
  <2>4. QED
    BY <2>1, <2>2, <2>3 DEF See, Present
<1>5. b \in [Addr -> Val]
  BY <1>2, <1>4
<1>6. \A t \in Slot, a \in Addr : t # 0 => See(t, a) = 0
  BY DEF Init, See, Present, NotPresent
<1>7. Seen = [t \in Slot |-> IF t = 0 THEN b ELSE PM!Blank]
  BY ONLY <1>2, <1>6, SeenIs DEF PM!Blank
<1>8. QED
  BY <1>5, <1>7 DEF PM!Init

\* Every task has a memory of its own: whatever the tables and mem_map do, what
\* a task sees is changed by its own writes, exec and exit, and by the fork
\* that makes it; nobody else's step shows (but for the two words that sys_pipe
\* stores without verify_area, pipe.c:89-90).
THEOREM MemoryIsPrivate == Spec => IsPrivateMemory
<1>1. Init => PM!Init
  BY InitIsPrivate
<1>2. Inductive /\ Inductive' /\ [Next]_vars => [PM!Next \/ Intrusion]_Seen
  <2> SUFFICES ASSUME Inductive, Inductive', [Next]_vars
               PROVE  [PM!Next \/ Intrusion]_Seen
    OBVIOUS
  <2>1. CASE Next
    BY <2>1, NextIsPrivate DEF PrivateStep
  <2>2. CASE UNCHANGED vars
    <3>1. pte' = pte /\ Holds(data)
      BY <2>2 DEF vars, Holds
    <3>2. QED
      BY <3>1, QuietIsPrivate DEF PrivateStep
  <2>3. QED
    BY <2>1, <2>2
<1>3. Spec => []Inductive
  BY MemoryInvariant
<1>4. QED
  BY <1>1, <1>2, <1>3, PTL DEF Spec, IsPrivateMemory

=============================================================================
