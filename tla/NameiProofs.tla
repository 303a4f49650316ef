----------------------------- MODULE NameiProofs -----------------------------
(***************************************************************************)
(* i_count: whatever iput, iget and get_empty_inode sleep on, the count of *)
(* a slot is the number of references that calls, open files and the mount *)
(* have, for every number of tasks, inodes and slots and every tree.       *)
(* An inode that was not freed under the caller of iget is in one slot.    *)
(***************************************************************************)
EXTENDS Namei, FiniteSetTheorems, SequenceTheorems, NaturalsInduction, WellFoundedInduction, TLAPS

-------------------------------------------------------------------------------
(* Stacks, as sequences of whatever they hold. *)

IsStack(s) == \E S : s \in Seq(S)

IsCons(c, f, s) ==
  /\ IsStack(c) /\ c # <<>> /\ Head(c) = f /\ Tail(c) = s
  /\ Len(c) = Len(s) + 1 /\ Len(s) \in Nat
  /\ DOMAIN c = 1..Len(c) /\ DOMAIN s = 1..Len(s)
  /\ c[1] = f /\ \A k \in 1..Len(s) : c[k + 1] = s[k]

LEMMA ConsIs ==
  ASSUME NEW f, NEW s, IsStack(s)
  PROVE  IsCons(Cons(f, s), f, s)
<1>1. PICK R : s \in Seq(R)
  BY DEF IsStack
<1>2. PICK S : S = R \cup {f}
  OBVIOUS
<1>3. f \in S /\ s \in Seq(S)
  BY <1>1, <1>2, SeqMonotonic
<1>4. PICK one : one = <<f>>
  OBVIOUS
<1>5. one \in Seq(S) /\ Len(one) = 1 /\ one[1] = f
  BY <1>3, <1>4
<1>6. PICK c : c = one \o s
  OBVIOUS
<1>7. /\ c \in Seq(S) /\ Len(c) = 1 + Len(s)
      /\ \A i \in 1..1 + Len(s) : c[i] = IF i <= 1 THEN one[i] ELSE s[i - 1]
  BY <1>3, <1>5, <1>6, ConcatProperties
<1>8. Len(s) \in Nat /\ DOMAIN s = 1..Len(s) /\ DOMAIN c = 1..Len(c)
  BY <1>3, <1>7, LenProperties
<1>9. c[1] = f /\ \A k \in 1..Len(s) : c[k + 1] = s[k]
  BY <1>5, <1>7, <1>8
<1>10. c # <<>>
  BY <1>7, <1>8
<1>11. Head(c) = f
  BY <1>9
<1>12. Tail(c) = s
  <2>1. /\ Tail(c) \in Seq(S) /\ Len(Tail(c)) = Len(c) - 1
        /\ \A i \in 1..Len(Tail(c)) : Tail(c)[i] = c[i + 1]
    BY <1>7, <1>10, HeadTailProperties
  <2>2. Len(Tail(c)) = Len(s) /\ \A i \in 1..Len(Tail(c)) : Tail(c)[i] = s[i]
    BY <1>7, <1>8, <1>9, <2>1
  <2>3. QED
    BY <1>3, <2>1, <2>2, SeqEqual
<1>13. Cons(f, s) = c
  BY <1>4, <1>6 DEF Cons
<1>14. IsStack(c) /\ Len(c) = Len(s) + 1
  BY <1>7, <1>8 DEF IsStack
<1>15. QED
  BY <1>8, <1>9, <1>10, <1>11, <1>12, <1>13, <1>14 DEF IsCons

LEMMA ConsTop ==
  ASSUME NEW f, NEW s, IsStack(s)
  PROVE  /\ IsStack(Cons(f, s)) /\ Cons(f, s) # <<>>
         /\ Head(Cons(f, s)) = f /\ Tail(Cons(f, s)) = s
<1>1. PICK c : c = Cons(f, s)
  OBVIOUS
<1>2. IsCons(c, f, s)
  BY <1>1, ConsIs
<1>3. QED
  BY <1>1, <1>2 DEF IsCons

LEMMA Split ==
  ASSUME NEW c, IsStack(c), c # <<>>
  PROVE  \E f, s : IsStack(s) /\ c = Cons(f, s) /\ f = Head(c) /\ s = Tail(c)
<1>1. PICK S : c \in Seq(S)
  BY DEF IsStack
<1>2. PICK f, s : f = Head(c) /\ s = Tail(c)
  OBVIOUS
<1>3. /\ f \in S /\ s \in Seq(S) /\ Len(s) = Len(c) - 1
      /\ \A i \in 1..Len(s) : s[i] = c[i + 1]
  BY <1>1, <1>2, HeadTailProperties
<1>4. Len(c) \in Nat \ {0} /\ c[1] = f
  BY <1>1, <1>2, EmptySeq
<1>5. PICK d : d = Cons(f, s)
  OBVIOUS
<1>6. IsStack(s)
  BY <1>3 DEF IsStack
<1>7. IsCons(d, f, s)
  BY <1>5, <1>6, ConsIs
<1>8. /\ Len(d) = Len(s) + 1 /\ d[1] = f /\ DOMAIN d = 1..Len(d)
      /\ \A k \in 1..Len(s) : d[k + 1] = s[k]
  BY <1>7 DEF IsCons
<1>9. Len(d) = Len(c)
  BY <1>3, <1>4, <1>8
<1>10. ASSUME NEW i \in 1..Len(c)
       PROVE  c[i] = d[i] /\ d[i] \in S
  <2>1. CASE i = 1
    BY <1>3, <1>4, <1>8, <2>1
  <2>2. CASE i # 1
    <3>1. i - 1 \in 1..Len(s) /\ (i - 1) + 1 = i
      BY <1>3, <1>4, <2>2
    <3>2. c[i] = d[i]
      BY <1>3, <1>8, <3>1
    <3>3. c[i] \in S
      BY <1>1, ElementOfSeq
    <3>4. QED
      BY <3>2, <3>3
  <2>3. QED
    BY <2>1, <2>2
<1>11. d \in Seq(S)
  <2>1. Cons(f, s) = <<f>> \o s
    BY DEF Cons
  <2>2. <<f>> \in Seq(S)
    BY <1>3
  <2>3. QED
    BY <1>3, <1>5, <2>1, <2>2, ConcatProperties
<1>12. c = d
  BY <1>1, <1>9, <1>10, <1>11, SeqEqual
<1>13. QED
  BY <1>2, <1>5, <1>6, <1>12

LEMMA EmptyStack == IsStack(<<>>)
BY EmptySeq DEF IsStack

\* What the frames that an action pushes make of the rest of the stack.
LEMMA Concat ==
  ASSUME NEW a, NEW p, NEW s, IsStack(p), IsStack(s)
  PROVE  IsStack(p \o s) /\ Cons(a, p) \o s = Cons(a, p \o s)
<1>1. PICK P, Q : p \in Seq(P) /\ s \in Seq(Q)
  BY DEF IsStack
<1>2. PICK S : S = P \cup Q \cup {a}
  OBVIOUS
<1>3. a \in S /\ p \in Seq(S) /\ s \in Seq(S)
  BY <1>1, <1>2, SeqMonotonic
<1>4. <<a>> \in Seq(S)
  BY <1>3
<1>5. (<<a>> \o p) \o s = <<a>> \o (p \o s)
  BY <1>3, <1>4, ConcatAssociative
<1>6. p \o s \in Seq(S)
  BY <1>3, ConcatProperties
<1>7. QED
  BY <1>5, <1>6 DEF Cons, IsStack

LEMMA Literal ==
  ASSUME NEW a, NEW b
  PROVE  <<a>> = Cons(a, <<>>) /\ <<a, b>> = Cons(a, <<b>>)
<1>1. PICK S : S = {a, b}
  OBVIOUS
<1>2. PICK p, q, r : p = <<a>> /\ q = <<b>> /\ r = <<a, b>>
  OBVIOUS
<1>3. /\ p \in Seq(S) /\ Len(p) = 1 /\ p[1] = a
      /\ q \in Seq(S) /\ Len(q) = 1 /\ q[1] = b
      /\ r \in Seq(S) /\ Len(r) = 2 /\ r[1] = a /\ r[2] = b
  BY <1>1, <1>2
<1>4. p \o <<>> = p
  BY <1>3, ConcatEmptySeq
<1>5. PICK d : d = p \o q
  OBVIOUS
<1>6. /\ d \in Seq(S) /\ Len(d) = 1 + 1
      /\ \A i \in 1..1 + 1 : d[i] = IF i <= 1 THEN p[i] ELSE q[i - 1]
  BY <1>3, <1>5, ConcatProperties
<1>7. \A i \in 1..2 : d[i] = r[i]
  BY <1>3, <1>6
<1>8. d = r
  BY <1>3, <1>6, <1>7, SeqEqual
<1>9. QED
  BY <1>2, <1>4, <1>5, <1>8 DEF Cons

LEMMA Tuples ==
  ASSUME NEW a, NEW b
  PROVE  IsStack(<<a>>) /\ IsStack(<<a, b>>)
<1>1. PICK p, q : p = <<b>> /\ q = <<a, b>>
  OBVIOUS
<1>2. IsStack(p)
  <2>1. p = Cons(b, <<>>)
    BY <1>1, Literal
  <2>2. QED
    BY <2>1, EmptyStack, ConsTop
<1>3. IsStack(q)
  <2>1. q = Cons(a, p)
    BY <1>1, Literal
  <2>2. QED
    BY <1>2, <2>1, ConsTop
<1>4. IsStack(<<a>>)
  <2>1. <<a>> = Cons(a, <<>>)
    BY Literal
  <2>2. QED
    BY <2>1, EmptyStack, ConsTop
<1>5. QED
  BY <1>1, <1>3, <1>4

LEMMA OneOnTop ==
  ASSUME NEW a, NEW s, IsStack(s)
  PROVE  <<a>> \o s = Cons(a, s)
BY DEF Cons

LEMMA TwoOnTop ==
  ASSUME NEW a, NEW b, NEW s, IsStack(s)
  PROVE  <<a, b>> \o s = Cons(a, Cons(b, s))
<1>1. IsStack(<<b>>)
  BY Tuples
<1>2. Cons(a, <<b>>) \o s = Cons(a, <<b>> \o s)
  BY <1>1, Concat
<1>3. QED
  BY <1>2, OneOnTop, Literal

LEMMA OneOnOne ==
  ASSUME NEW a, NEW b, NEW s, IsStack(s)
  PROVE  (<<a>> \o <<b>>) \o s = Cons(a, Cons(b, s))
<1>1. IsStack(<<b>>)
  BY Tuples
<1>2. <<a>> \o <<b>> = Cons(a, <<b>>)
  BY <1>1, OneOnTop
<1>3. QED
  BY <1>2, Literal, TwoOnTop

LEMMA TwoOnOne ==
  ASSUME NEW a, NEW b, NEW c, NEW s, IsStack(s)
  PROVE  (<<a, b>> \o <<c>>) \o s = Cons(a, Cons(b, Cons(c, s)))
<1>1. PICK p, q, u : p = <<c>> /\ q = <<a, b>> /\ u = <<b, c>>
  OBVIOUS
<1>2. IsStack(p) /\ IsStack(u)
  <2>1. IsStack(<<c>>)
    BY Tuples
  <2>2. IsStack(<<b, c>>)
    BY Tuples
  <2>3. QED
    BY <1>1, <2>1, <2>2
<1>3. q \o p = Cons(a, Cons(b, p))
  <2>1. <<a, b>> \o p = Cons(a, Cons(b, p))
    BY <1>2, TwoOnTop
  <2>2. QED
    BY <1>1, <2>1
<1>4. Cons(b, p) = u
  BY <1>1, Literal
<1>5. Cons(a, u) \o s = Cons(a, u \o s)
  BY <1>2, Concat
<1>6. u \o s = Cons(b, Cons(c, s))
  BY <1>1, TwoOnTop
<1>7. QED
  BY <1>1, <1>3, <1>4, <1>5, <1>6

LEMMA FourOnTop ==
  ASSUME NEW a, NEW b, NEW c, NEW d, NEW s, IsStack(s)
  PROVE  ((<<a>> \o <<b, c>>) \o <<d>>) \o s = Cons(a, Cons(b, Cons(c, Cons(d, s))))
<1>1. PICK o, p, q, u : o = <<a>> /\ p = <<d>> /\ q = <<b, c>> /\ u = q \o p
  OBVIOUS
<1>2. IsStack(p) /\ IsStack(q) /\ IsStack(o)
  BY <1>1, Tuples
<1>3. IsStack(u)
  BY <1>1, <1>2, Concat
<1>4. o \o q = Cons(a, q)
  BY <1>1 DEF Cons
<1>5. Cons(a, q) \o p = Cons(a, u)
  <2>1. Cons(a, q) \o p = Cons(a, q \o p)
    BY ONLY <1>2, Concat
  <2>2. QED
    BY <1>1, <2>1
<1>6. Cons(a, u) \o s = Cons(a, u \o s)
  BY <1>3, Concat
<1>7. u \o s = Cons(b, Cons(c, Cons(d, s)))
  BY <1>1, TwoOnOne
<1>8. QED
  BY <1>1, <1>4, <1>5, <1>6, <1>7

-------------------------------------------------------------------------------
(* References, counted. *)

Num(b) == IF b THEN 1 ELSE 0

\* Of one call, of a stack.
Own(f, i) == Num(f.dir = i) + Num(f.ino = i)
Held(s, i) == Cardinality(Refs(s, i))

LEMMA FiniteTask == IsFiniteSet(Task)
BY InodeAssumption

LEMMA HeldType ==
  ASSUME NEW s, NEW i, IsStack(s)
  PROVE  IsFiniteSet(Refs(s, i)) /\ Held(s, i) \in Nat
<1>1. PICK S : s \in Seq(S)
  BY DEF IsStack
<1>2. DOMAIN s = 1..Len(s) /\ Len(s) \in Nat
  BY <1>1, LenProperties
<1>3. PICK D, N : D = DOMAIN s /\ N = {"dir", "ino"}
  OBVIOUS
<1>4. IsFiniteSet(D)
  BY <1>2, <1>3, FS_Interval
<1>5. IsFiniteSet(N)
  <2>1. IsFiniteSet({"dir"})
    BY FS_Singleton
  <2>2. IsFiniteSet({"dir"} \cup {"ino"})
    BY <2>1, FS_AddElement
  <2>3. N = {"dir"} \cup {"ino"}
    BY <1>3
  <2>4. QED
    BY <2>2, <2>3
<1>6. IsFiniteSet(D \X N)
  BY <1>4, <1>5, FS_Product
<1>7. Refs(s, i) \in SUBSET (D \X N)
  BY <1>3 DEF Refs
<1>8. IsFiniteSet(Refs(s, i))
  BY <1>6, <1>7, FS_Subset
<1>9. QED
  BY <1>8, FS_CardinalityType DEF Held

LEMMA HeldNone == ASSUME NEW i PROVE Held(<<>>, i) = 0
<1>1. Refs(<<>>, i) = {}
  BY DEF Refs
<1>2. QED
  BY <1>1, FS_EmptySet DEF Held

LEMMA OwnType ==
  ASSUME NEW f, NEW i
  PROVE  Own(f, i) \in Nat /\ Cardinality({x \in {"dir", "ino"} : f[x] = i}) = Own(f, i)
<1>1. PICK A : A = {x \in {"dir", "ino"} : f[x] = i}
  OBVIOUS
<1>2. CASE f.dir = i /\ f.ino = i
  <2>1. A = {"dir"} \cup {"ino"}
    BY <1>1, <1>2
  <2>2. IsFiniteSet({"dir"}) /\ Cardinality({"dir"}) = 1
    BY FS_Singleton
  <2>3. Cardinality({"dir"} \cup {"ino"}) = 2
    BY <2>2, FS_AddElement
  <2>4. QED
    BY <1>1, <1>2, <2>1, <2>3 DEF Own, Num
<1>3. CASE f.dir = i /\ f.ino # i
  <2>1. A = {"dir"}
    BY <1>1, <1>3
  <2>2. Cardinality({"dir"}) = 1
    BY FS_Singleton
  <2>3. Own(f, i) = 1
    BY <1>3 DEF Own, Num
  <2>4. QED
    BY <1>1, <2>1, <2>2, <2>3
<1>4. CASE f.dir # i /\ f.ino = i
  <2>1. A = {"ino"}
    BY <1>1, <1>4
  <2>2. Cardinality({"ino"}) = 1
    BY FS_Singleton
  <2>3. Own(f, i) = 1
    BY <1>4 DEF Own, Num
  <2>4. QED
    BY <1>1, <2>1, <2>2, <2>3
<1>5. CASE f.dir # i /\ f.ino # i
  <2>1. A = {}
    BY <1>1, <1>5
  <2>2. QED
    BY <1>1, <1>5, <2>1, FS_EmptySet DEF Own, Num
<1>6. QED
  BY <1>2, <1>3, <1>4, <1>5

LEMMA HeldCons ==
  ASSUME NEW f, NEW s, NEW i, IsStack(s)
  PROVE  /\ Held(Cons(f, s), i) = Held(s, i) + Own(f, i)
         /\ Held(s, i) \in Nat /\ Own(f, i) \in Nat
<1>1. PICK c : c = Cons(f, s)
  OBVIOUS
<1>2. IsCons(c, f, s)
  BY <1>1, ConsIs
<1>3. /\ Len(c) = Len(s) + 1 /\ Len(s) \in Nat /\ c[1] = f
      /\ DOMAIN c = 1..Len(c) /\ DOMAIN s = 1..Len(s)
      /\ \A k \in 1..Len(s) : c[k + 1] = s[k]
  BY <1>2 DEF IsCons
<1>4. PICK N, A, B, X, Y :
        /\ N = {"dir", "ino"}
        /\ A = Refs(s, i)
        /\ B = {r \in (2..Len(s) + 1) \X N : c[r[1]][r[2]] = i}
        /\ X = {x \in N : f[x] = i}
        /\ Y = {1} \X X
  OBVIOUS
<1>5. PICK g : g = [r \in A |-> <<r[1] + 1, r[2]>>]
  OBVIOUS
<1>6. g \in Bijection(A, B)
  <2>1. \A r \in A : /\ r = <<r[1], r[2]>> /\ r[1] \in 1..Len(s) /\ r[2] \in N
                     /\ s[r[1]][r[2]] = i
    BY <1>3, <1>4 DEF Refs
  <2>2. \A r \in A : g[r] = <<r[1] + 1, r[2]>> /\ g[r] \in B
    <3> SUFFICES ASSUME NEW r \in A PROVE g[r] = <<r[1] + 1, r[2]>> /\ g[r] \in B
      OBVIOUS
    <3>1. g[r] = <<r[1] + 1, r[2]>>
      BY <1>5
    <3>2. r[1] + 1 \in 2..Len(s) + 1 /\ r[2] \in N
      BY <1>3, <2>1
    <3>3. c[r[1] + 1] = s[r[1]]
      BY <1>3, <2>1
    <3>4. c[r[1] + 1][r[2]] = i
      BY <2>1, <3>3
    <3>5. <<r[1] + 1, r[2]>> \in B
      BY <1>4, <3>2, <3>4
    <3>6. QED
      BY <3>1, <3>5
  <2>3. \A m \in B : \E r \in A : g[r] = m
    <3> SUFFICES ASSUME NEW m \in B PROVE \E r \in A : g[r] = m
      OBVIOUS
    <3>1. PICK k \in 2..Len(s) + 1, x \in N : m = <<k, x>> /\ c[k][x] = i
      BY <1>4
    <3>2. k - 1 \in 1..Len(s) /\ (k - 1) + 1 = k
      BY <1>3, <3>1
    <3>3. s[k - 1] = c[k]
      BY <1>3, <3>2
    <3>4. s[k - 1][x] = i
      BY <3>1, <3>3
    <3>5. <<k - 1, x>> \in A
      BY <1>3, <1>4, <3>2, <3>4 DEF Refs
    <3>6. g[<<k - 1, x>>] = <<k, x>>
      BY <2>2, <3>2, <3>5
    <3>7. QED
      BY <3>1, <3>5, <3>6
  <2>4. g \in [A -> B]
    BY <1>5, <2>2
  <2>5. ASSUME NEW q \in A, NEW r \in A, g[q] = g[r]
        PROVE  q = r
    <3>1. q[1] + 1 = r[1] + 1 /\ q[2] = r[2]
      BY <2>2, <2>5
    <3>2. q[1] = r[1]
      BY <1>3, <2>1, <3>1
    <3>3. QED
      BY <2>1, <3>1, <3>2
  <2>6. QED
    BY <2>3, <2>4, <2>5 DEF Bijection, Injection, Surjection, IsInjective
<1>7. IsFiniteSet(A) /\ Cardinality(A) \in Nat
  BY <1>4, HeldType DEF Held
<1>8. IsFiniteSet(B) /\ Cardinality(B) = Cardinality(A)
  BY <1>6, <1>7, FS_Bijection DEF ExistsBijection
<1>9. Cardinality(X) = Own(f, i) /\ Own(f, i) \in Nat
  BY <1>4, OwnType
<1>10. IsFiniteSet(X)
  <2>1. IsFiniteSet({"dir"})
    BY FS_Singleton
  <2>2. IsFiniteSet({"dir"} \cup {"ino"})
    BY <2>1, FS_AddElement
  <2>3. X \in SUBSET ({"dir"} \cup {"ino"})
    BY <1>4
  <2>4. QED
    BY <2>2, <2>3, FS_Subset
<1>11. IsFiniteSet(Y) /\ Cardinality(Y) = 1 * Cardinality(X)
  <2>1. IsFiniteSet({1}) /\ Cardinality({1}) = 1
    BY FS_Singleton
  <2>2. QED
    BY <1>4, <1>10, <2>1, FS_Product
<1>12. Refs(c, i) = B \cup Y
  <2>1. PICK D : D = 1..Len(s) + 1
    OBVIOUS
  <2>2. D = {1} \cup 2..Len(s) + 1
    BY <1>3, <2>1
  <2>3. Refs(c, i) = {r \in D \X N : c[r[1]][r[2]] = i}
    BY <1>3, <1>4, <2>1 DEF Refs
  <2>4. Y = {r \in {1} \X N : c[r[1]][r[2]] = i}
    BY <1>3, <1>4
  <2>5. QED
    BY <1>4, <2>2, <2>3, <2>4
<1>13. B \cap Y = {}
  BY <1>3, <1>4
<1>14. Cardinality(B \cup Y) = Cardinality(B) + Cardinality(Y) - Cardinality(B \cap Y)
  BY <1>8, <1>11, FS_Union
<1>15. Cardinality(B \cap Y) = 0
  BY <1>13, FS_EmptySet
<1>16. Held(c, i) = Cardinality(B) + Cardinality(Y)
  BY <1>7, <1>8, <1>9, <1>11, <1>12, <1>14, <1>15 DEF Held
<1>17. Held(s, i) = Cardinality(A)
  BY <1>4 DEF Held
<1>18. QED
  BY <1>1, <1>7, <1>8, <1>9, <1>11, <1>16, <1>17

-------------------------------------------------------------------------------
(* Of all tasks, when one of them changes. *)

Rows(R, T) == UNION {{u} \X R[u] : u \in T}

LEMMA RowsFinite ==
  ASSUME NEW T, IsFiniteSet(T), NEW R, \A u \in T : IsFiniteSet(R[u])
  PROVE  IsFiniteSet(Rows(R, T))
<1>1. PICK F : F = {{u} \X R[u] : u \in T}
  OBVIOUS
<1>2. PICK g : g = [u \in T |-> {u} \X R[u]]
  OBVIOUS
<1>3. g \in Surjection(T, F)
  BY <1>1, <1>2 DEF Surjection
<1>4. IsFiniteSet(F)
  BY <1>3, FS_Surjection DEF ExistsSurjection
<1>5. ASSUME NEW X \in F PROVE IsFiniteSet(X)
  <2>1. PICK u \in T : X = {u} \X R[u]
    BY <1>1
  <2>2. IsFiniteSet({u}) /\ IsFiniteSet(R[u])
    BY FS_Singleton
  <2>3. QED
    BY <2>1, <2>2, FS_Product
<1>6. IsFiniteSet(UNION F)
  BY <1>4, <1>5, FS_UNION
<1>7. QED
  BY <1>1, <1>6 DEF Rows

LEMMA RowsSplit ==
  ASSUME NEW R, NEW t \in Task, \A u \in Task : IsFiniteSet(R[u])
  PROVE  /\ Cardinality(Rows(R, Task \ {t})) \in Nat /\ Cardinality(R[t]) \in Nat
         /\ Cardinality(Rows(R, Task)) = Cardinality(Rows(R, Task \ {t})) + Cardinality(R[t])
<1>1. PICK T, A, B : T = Task \ {t} /\ A = Rows(R, T) /\ B = {t} \X R[t]
  OBVIOUS
<1>2. IsFiniteSet(T)
  BY <1>1, FiniteTask, FS_RemoveElement
<1>3. IsFiniteSet(A)
  BY <1>1, <1>2, RowsFinite
<1>4. IsFiniteSet(R[t]) /\ Cardinality(R[t]) \in Nat
  BY FS_CardinalityType
<1>5. IsFiniteSet(B) /\ Cardinality(B) = 1 * Cardinality(R[t])
  <2>1. IsFiniteSet({t}) /\ Cardinality({t}) = 1
    BY FS_Singleton
  <2>2. QED
    BY <1>1, <1>4, <2>1, FS_Product
<1>6. Rows(R, Task) = A \cup B
  BY <1>1 DEF Rows
<1>7. A \cap B = {}
  BY <1>1 DEF Rows
<1>8. Cardinality(A \cup B) = Cardinality(A) + Cardinality(B) - Cardinality(A \cap B)
  BY <1>3, <1>5, FS_Union
<1>9. Cardinality(A \cap B) = 0
  BY <1>7, FS_EmptySet
<1>10. Cardinality(A) \in Nat
  BY <1>3, FS_CardinalityType
<1>11. Cardinality(A \cup B) = Cardinality(A) + Cardinality(R[t])
  BY <1>4, <1>5, <1>8, <1>9, <1>10
<1>12. QED
  BY <1>1, <1>4, <1>6, <1>10, <1>11

LEMMA RowsChange ==
  ASSUME NEW R, NEW Q, NEW t \in Task, \A u \in Task : IsFiniteSet(R[u]) /\ IsFiniteSet(Q[u]),
         \A u \in Task \ {t} : Q[u] = R[u]
  PROVE  /\ Cardinality(Rows(R, Task)) \in Nat /\ Cardinality(Rows(Q, Task)) \in Nat
         /\ Cardinality(R[t]) \in Nat /\ Cardinality(Q[t]) \in Nat
         /\ Cardinality(R[t]) <= Cardinality(Rows(R, Task))
         /\ Cardinality(Rows(Q, Task)) = Cardinality(Rows(R, Task)) - Cardinality(R[t])
                                         + Cardinality(Q[t])
<1>1. /\ Cardinality(Rows(R, Task \ {t})) \in Nat /\ Cardinality(R[t]) \in Nat
      /\ Cardinality(Rows(R, Task)) = Cardinality(Rows(R, Task \ {t})) + Cardinality(R[t])
  BY RowsSplit
<1>2. /\ Cardinality(Q[t]) \in Nat
      /\ Cardinality(Rows(Q, Task)) = Cardinality(Rows(Q, Task \ {t})) + Cardinality(Q[t])
  BY RowsSplit
<1>3. Rows(Q, Task \ {t}) = Rows(R, Task \ {t})
  BY DEF Rows
<1>4. QED
  BY <1>1, <1>2, <1>3

LEMMA SetChange ==
  ASSUME NEW X \in SUBSET Task, NEW Y \in SUBSET Task, NEW t \in Task,
         \A u \in Task \ {t} : u \in X <=> u \in Y
  PROVE  /\ Cardinality(X) \in Nat /\ Cardinality(Y) \in Nat
         /\ Num(t \in X) <= Cardinality(X)
         /\ Cardinality(Y) = Cardinality(X) - Num(t \in X) + Num(t \in Y)
<1>1. /\ IsFiniteSet(X) /\ Cardinality(X) \in Nat
      /\ IsFiniteSet(Y) /\ Cardinality(Y) \in Nat
  BY FiniteTask, FS_Subset, FS_CardinalityType
<1>2. PICK Z : Z = X \ {t}
  OBVIOUS
<1>3. IsFiniteSet(Z) /\ Cardinality(Z) = IF t \in X THEN Cardinality(X) - 1 ELSE Cardinality(X)
  BY <1>1, <1>2, FS_RemoveElement
<1>4. Cardinality(Z) \in Nat
  BY <1>3, FS_CardinalityType
<1>5. Z = Y \ {t}
  BY <1>2
<1>6. Cardinality(Z) = IF t \in Y THEN Cardinality(Y) - 1 ELSE Cardinality(Y)
  BY <1>1, <1>5, FS_RemoveElement
<1>7. QED
  BY <1>1, <1>3, <1>4, <1>6 DEF Num

-------------------------------------------------------------------------------
(* What a call is at a label: which references it has, what it gives to its *)
(* caller and what it waits for from the one it has called. *)

OpenCall == {"open", "open_found", "open_new", "open_added", "open_got", "opened"}
Whole == OpenCall \cup
  {"mkdir", "mkdir_found", "mkdir_new", "mkdir_block", "mkdir_fill", "mkdir_added",
   "mkdir_free", "mkdir_undo", "rmdir", "rmdir_found", "rmdir_got", "rmdir_empty",
   "unlink", "unlink_found", "unlink_got",
   "link", "link_dir", "link_found", "link_added", "link_count", "sync_wait"}

Claimer == {"iget", "new_inode"}
Got == {"get_dir_got", "namei_got", "open_got", "rmdir_got", "unlink_got"}
Maybe == {"open_new", "mkdir_new", "namei", "open", "mkdir", "rmdir", "unlink", "link",
          "link_dir"}
Found == {"get_dir_found", "namei_found", "open_found", "mkdir_found", "rmdir_found",
          "unlink_found", "link_found"}
Zoned == {"created", "mkdir_block", "add_block"}
Gives == Claimer \cup Got \cup Maybe
Claiming == {"iget_scan", "iget_wait"}
Reading == {"read_inode", "read_copy"}

Awaits(l) == IF l \in Claimer THEN "slot"
             ELSE IF l \in Got THEN "inode"
             ELSE IF l \in Maybe THEN "inode or none"
             ELSE IF l \in Found THEN "entry"
             ELSE IF l \in Zoned THEN "zone"
             ELSE IF l \in Claiming \cup Reading THEN "never"
             ELSE "nothing"

Kind(l) == IF l \in Whole THEN "call"
           ELSE IF l \in {"get_empty_inode", "empty_wait"} THEN "slot"
           ELSE IF l \in {"iget"} \cup Claiming \cup Reading THEN "inode"
           ELSE IF l \in {"new_inode", "get_dir", "get_dir_next", "get_dir_found", "get_dir_got",
                          "namei", "namei_found", "namei_got", "end"} THEN "inode or none"
           ELSE IF l \in {"find_entry", "find_scan"} THEN "entry"
           ELSE IF l \in {"new_block", "clear_block", "create_block", "created"} THEN "zone"
           ELSE "nothing"

HasDir == {"get_dir_next", "get_dir_found", "namei_found", "open_found", "open_new",
           "open_added", "mkdir_found", "mkdir_new", "mkdir_block", "mkdir_fill",
           "mkdir_added", "rmdir_found", "rmdir_got", "rmdir_empty", "unlink_found",
           "unlink_got", "link_found", "link_added"}
Putting == {"iput", "iput_repeat", "free_inode"}
HasIno == {"iget_scan", "iget_wait", "open_added", "opened", "mkdir_block", "mkdir_fill",
           "mkdir_added", "mkdir_free", "mkdir_undo", "rmdir_empty", "link_dir", "link_found",
           "link_added", "link_count"} \cup Reading \cup Putting
HasI == {"write_inode", "write_copy", "empty_wait", "iget_wait", "truncate", "truncated",
         "create_block", "created", "find_entry", "find_scan", "add_entry", "add_scan",
         "add_block", "empty_dir", "sync_wait"} \cup Reading \cup Putting

IsFrame(f) == f \in [at : {f.at}, i : {f.i}, dir : {f.dir}, ino : {f.ino}, bh : {f.bh},
                     de : {f.de}, n : {f.n}, path : {f.path}, v : {f.v}]
GoodFrame(f) ==
  /\ IsFrame(f)
  /\ f.dir \in IF f.at \in HasDir THEN Slot ELSE {Null}
  /\ f.ino \in IF f.at \in HasIno THEN Slot ELSE {Null}
  /\ f.at \in HasI => f.i \in Slot
  /\ f.at \in Reading \cup Putting => f.i = f.ino
  /\ f.at \in {"iget"} \cup Claiming => f.n \in 1..NInodes
  /\ f.at = "create_block" => f.n \in Zone
  /\ f.at = "clear_block" => f.n \in 1..NBlocks
  /\ f.at = "find_scan" => f.bh \in 1..NBlocks

\* A call is at the bottom of its stack, or what its caller waits for.
Fits(f, s, open) ==
  /\ GoodFrame(f)
  /\ IF s = <<>> THEN f.at \in Whole \cup {"end"} ELSE Kind(f.at) = Awaits(Head(s).at)
  /\ f.at \in OpenCall => open = <<>>

GoodStack(s, open) ==
  /\ IsStack(s)
  /\ \A k \in DOMAIN s :
       /\ GoodFrame(s[k])
       /\ IF k = Len(s) THEN s[k].at \in Whole \cup {"end"}
                        ELSE Kind(s[k].at) = Awaits(s[k + 1].at)
       /\ s[k].at \in OpenCall => open = <<>>

LEMMA GoodEmpty == ASSUME NEW open PROVE GoodStack(<<>>, open)
BY EmptyStack DEF GoodStack

LEMMA GoodCons ==
  ASSUME NEW f, NEW s, NEW open, IsStack(s)
  PROVE  GoodStack(Cons(f, s), open) <=> Fits(f, s, open) /\ GoodStack(s, open)
<1>1. PICK c : c = Cons(f, s)
  OBVIOUS
<1>2. IsCons(c, f, s)
  BY <1>1, ConsIs
<1>3. /\ Len(c) = Len(s) + 1 /\ Len(s) \in Nat /\ c[1] = f /\ IsStack(c)
      /\ DOMAIN c = 1..Len(c) /\ DOMAIN s = 1..Len(s)
      /\ \A k \in 1..Len(s) : c[k + 1] = s[k]
  BY <1>2 DEF IsCons
<1> DEFINE P(d, k) == /\ GoodFrame(d[k])
                      /\ IF k = Len(d) THEN d[k].at \in Whole \cup {"end"}
                                       ELSE Kind(d[k].at) = Awaits(d[k + 1].at)
                      /\ d[k].at \in OpenCall => open = <<>>
<1>4. GoodStack(c, open) <=> \A k \in 1..Len(s) + 1 : P(c, k)
  BY <1>3 DEF GoodStack
<1>5. GoodStack(s, open) <=> \A k \in 1..Len(s) : P(s, k)
  BY <1>3 DEF GoodStack
<1>6. ASSUME NEW k \in 1..Len(s) PROVE P(c, k + 1) <=> P(s, k)
  <2>a. k \in 1..Len(s)
    OBVIOUS
  <2>b. k \in Int /\ Len(s) \in Int
    BY <1>3, <2>a
  <2>c. Len(c) = Len(s) + 1
    BY <1>3
  <2>1. c[k + 1] = s[k] /\ (k + 1 = Len(c) <=> k = Len(s))
    <3>1. c[k + 1] = s[k]
      BY ONLY <1>3, <2>a
    <3>2. k + 1 = Len(c) <=> k = Len(s)
      BY ONLY <2>b, <2>c
    <3>3. QED
      BY <3>1, <3>2
  <2>2. CASE k = Len(s)
    BY <2>1, <2>2
  <2>3. CASE k # Len(s)
    <3>1. k + 1 \in 1..Len(s)
      BY ONLY <2>a, <2>b, <2>3
    <3>2. c[(k + 1) + 1] = s[k + 1]
      BY <1>3, <3>1
    <3>3. QED
      BY <2>1, <2>3, <3>2
  <2>4. QED
    BY <2>2, <2>3
<1>7. P(c, 1) <=> Fits(f, s, open)
  <2>1. CASE s = <<>>
    <3>1. Len(s) = 0
      BY <2>1
    <3>2. 1 = Len(c)
      BY <1>3, <3>1
    <3>3. QED
      BY <1>3, <2>1, <3>2 DEF Fits
  <2>2. CASE s # <<>>
    <3>1. PICK S : s \in Seq(S)
      BY DEF IsStack
    <3>2. Len(s) \in Nat \ {0}
      BY <2>2, <3>1, EmptySeq
    <3>3. Head(s) = s[1] /\ c[1 + 1] = s[1] /\ 1 # Len(c)
      BY <1>3, <3>2
    <3>4. QED
      BY <1>3, <2>2, <3>3 DEF Fits
  <2>3. QED
    BY <2>1, <2>2
<1> HIDE DEF P
<1>8. (\A k \in 1..Len(s) + 1 : P(c, k)) <=> P(c, 1) /\ \A k \in 1..Len(s) : P(c, k + 1)
  <2>1. ASSUME NEW k \in 1..Len(s) + 1, k # 1, \A l \in 1..Len(s) : P(c, l + 1)
        PROVE  P(c, k)
    <3>1. k - 1 \in 1..Len(s) /\ (k - 1) + 1 = k
      BY <1>3, <2>1
    <3>2. P(c, (k - 1) + 1)
      BY <2>1, <3>1
    <3>3. QED
      BY <3>1, <3>2
  <2>2. ASSUME \A k \in 1..Len(s) + 1 : P(c, k)
        PROVE  P(c, 1) /\ \A k \in 1..Len(s) : P(c, k + 1)
    <3>1. 1 \in 1..Len(s) + 1 /\ \A k \in 1..Len(s) : k + 1 \in 1..Len(s) + 1
      BY <1>3
    <3>2. QED
      BY <2>2, <3>1
  <2>3. QED
    BY <2>1, <2>2
<1>9. QED
  BY <1>1, <1>4, <1>5, <1>6, <1>7, <1>8

-------------------------------------------------------------------------------
(* The users of a slot.  A call that has just returned holds the inode it    *)
(* gave, though no reference has been written down yet. *)

Given(s, i) == s # <<>> /\ Head(s).at \in Gives /\ Head(s).v = i

Users(st, fl, i) ==
  Cardinality(UNION {{t} \X Refs(st[t], i) : t \in Task})
  + Cardinality({t \in Task : fl[t] = <<i>>})
  + Cardinality({t \in Task : Given(st[t], i)})
Opens(open, i) == Num(open = <<i>>)
Share(s, open, i) == Held(s, i) + Opens(open, i) + Num(Given(s, i))

\* The same stacks and files but for those of t.
Differ(st, fl, st2, fl2, t) ==
  /\ \A u \in Task : IsStack(st[u]) /\ IsStack(st2[u])
  /\ \A u \in Task \ {t} : st2[u] = st[u] /\ fl2[u] = fl[u]

LEMMA UsersChange ==
  ASSUME NEW st, NEW fl, NEW st2, NEW fl2, NEW t \in Task, NEW i,
         Differ(st, fl, st2, fl2, t)
  PROVE  /\ Users(st, fl, i) \in Nat /\ Users(st2, fl2, i) \in Nat
         /\ Share(st[t], fl[t], i) \in Nat /\ Share(st2[t], fl2[t], i) \in Nat
         /\ Share(st[t], fl[t], i) <= Users(st, fl, i)
         /\ Users(st2, fl2, i) = Users(st, fl, i) - Share(st[t], fl[t], i)
                                 + Share(st2[t], fl2[t], i)
<1>1. PICK R, Q : R = [u \in Task |-> Refs(st[u], i)] /\ Q = [u \in Task |-> Refs(st2[u], i)]
  OBVIOUS
<1>2. PICK F, G, V, W : /\ F = {u \in Task : fl[u] = <<i>>}
                        /\ G = {u \in Task : fl2[u] = <<i>>}
                        /\ V = {u \in Task : Given(st[u], i)}
                        /\ W = {u \in Task : Given(st2[u], i)}
  OBVIOUS
<1>3. \A u \in Task : IsStack(st[u]) /\ IsStack(st2[u])
  BY DEF Differ
<1>4. \A u \in Task : IsFiniteSet(R[u]) /\ IsFiniteSet(Q[u])
  BY <1>1, <1>3, HeldType
<1>5. \A u \in Task \ {t} : Q[u] = R[u]
  BY <1>1 DEF Differ
<1>6. /\ Cardinality(Rows(R, Task)) \in Nat /\ Cardinality(Rows(Q, Task)) \in Nat
      /\ Cardinality(R[t]) \in Nat /\ Cardinality(Q[t]) \in Nat
      /\ Cardinality(R[t]) <= Cardinality(Rows(R, Task))
      /\ Cardinality(Rows(Q, Task)) = Cardinality(Rows(R, Task)) - Cardinality(R[t])
                                      + Cardinality(Q[t])
  BY <1>4, <1>5, RowsChange
<1>7. /\ F \in SUBSET Task /\ G \in SUBSET Task
      /\ \A u \in Task \ {t} : u \in F <=> u \in G
  BY <1>2 DEF Differ
<1>8. /\ V \in SUBSET Task /\ W \in SUBSET Task
      /\ \A u \in Task \ {t} : u \in V <=> u \in W
  BY <1>2 DEF Differ
<1>9. /\ Cardinality(F) \in Nat /\ Cardinality(G) \in Nat
      /\ Num(t \in F) <= Cardinality(F)
      /\ Cardinality(G) = Cardinality(F) - Num(t \in F) + Num(t \in G)
  BY <1>7, SetChange
<1>10. /\ Cardinality(V) \in Nat /\ Cardinality(W) \in Nat
       /\ Num(t \in V) <= Cardinality(V)
       /\ Cardinality(W) = Cardinality(V) - Num(t \in V) + Num(t \in W)
  BY <1>8, SetChange
<1>11. /\ Users(st, fl, i) = Cardinality(Rows(R, Task)) + Cardinality(F) + Cardinality(V)
       /\ Users(st2, fl2, i) = Cardinality(Rows(Q, Task)) + Cardinality(G) + Cardinality(W)
  <2>1. UNION {{u} \X Refs(st[u], i) : u \in Task} = Rows(R, Task)
    BY <1>1 DEF Rows
  <2>2. UNION {{u} \X Refs(st2[u], i) : u \in Task} = Rows(Q, Task)
    BY <1>1 DEF Rows
  <2>3. QED
    BY <1>2, <2>1, <2>2 DEF Users
<1>12. /\ (t \in F <=> fl[t] = <<i>>) /\ (t \in G <=> fl2[t] = <<i>>)
       /\ (t \in V <=> Given(st[t], i)) /\ (t \in W <=> Given(st2[t], i))
       /\ R[t] = Refs(st[t], i) /\ Q[t] = Refs(st2[t], i)
  BY <1>1, <1>2
<1>13. /\ Share(st[t], fl[t], i) = Cardinality(R[t]) + Num(t \in F) + Num(t \in V)
       /\ Share(st2[t], fl2[t], i) = Cardinality(Q[t]) + Num(t \in G) + Num(t \in W)
  BY <1>12 DEF Share, Opens, Held, Num
<1>14. /\ Num(t \in F) \in Nat /\ Num(t \in G) \in Nat
       /\ Num(t \in V) \in Nat /\ Num(t \in W) \in Nat
  BY DEF Num
<1>15. QED
  BY <1>6, <1>9, <1>10, <1>11, <1>13, <1>14

\* Nobody else has what the shares of two tasks make up.
LEMMA UsersOfTwo ==
  ASSUME NEW st, NEW fl, NEW t \in Task, NEW u \in Task \ {t}, NEW i,
         DOMAIN st = Task, DOMAIN fl = Task, \A w \in Task : IsStack(st[w])
  PROVE  /\ Share(st[t], fl[t], i) \in Nat /\ Share(st[u], fl[u], i) \in Nat
         /\ Users(st, fl, i) \in Nat
         /\ Share(st[t], fl[t], i) + Share(st[u], fl[u], i) <= Users(st, fl, i)
<1>1. PICK st2, fl2 : st2 = [st EXCEPT ![t] = <<>>] /\ fl2 = [fl EXCEPT ![t] = <<>>]
  OBVIOUS
<1>2. Differ(st, fl, st2, fl2, t)
  BY <1>1, EmptyStack DEF Differ
<1>3. Differ(st2, fl2, st2, fl2, u)
  BY <1>2, EmptyStack DEF Differ
<1>4. st2[t] = <<>> /\ fl2[t] = <<>> /\ st2[u] = st[u] /\ fl2[u] = fl[u]
  BY <1>1
<1>5. Share(<<>>, <<>>, i) = 0
  BY HeldNone DEF Share, Opens, Given, Num
<1>6. /\ Users(st, fl, i) \in Nat /\ Share(st[t], fl[t], i) \in Nat
      /\ Users(st2, fl2, i) = Users(st, fl, i) - Share(st[t], fl[t], i)
                              + Share(st2[t], fl2[t], i)
  BY <1>2, UsersChange
<1>7. /\ Users(st2, fl2, i) \in Nat /\ Share(st2[u], fl2[u], i) \in Nat
      /\ Share(st2[u], fl2[u], i) <= Users(st2, fl2, i)
  BY <1>3, UsersChange
<1>8. QED
  BY <1>4, <1>5, <1>6, <1>7

-------------------------------------------------------------------------------
(* The invariant.  Of an inode, a stored inode and an entry only what slots, *)
(* zones and numbers are is needed. *)

IsInode(m) == m \in [num : 0..NInodes, count : Int, lock : {m.lock}, dirt : {m.dirt},
                     nlinks : {m.nlinks}, mode : {m.mode}, size : {m.size},
                     zone : [Zone -> 0..NBlocks]]
IsStored(m) == m \in [nlinks : {m.nlinks}, mode : {m.mode}, size : {m.size},
                      zone : [Zone -> 0..NBlocks]]
IsEntry(e) == e \in [inode : 0..NInodes, name : {e.name}]

GoodTable(T) == DOMAIN T = Slot /\ \A i \in Slot : IsInode(T[i])
GoodDisk(D) == DOMAIN D = 1..NInodes /\ \A n \in 1..NInodes : IsStored(D[n])
GoodBlock(b) == DOMAIN b = 0..E - 1 /\ \A k \in 0..E - 1 : IsEntry(b[k])
GoodData(B) == DOMAIN B = 1..NBlocks /\ \A b \in 1..NBlocks : GoodBlock(B[b])

Tables ==
  /\ last_allocated_inode \in Slot
  /\ GoodTable(inode_table)
  /\ GoodDisk(d_inode)
  /\ GoodData(data)

\* Taken by get_empty_inode for a call that has not put a number there yet.
Claimed(i) == inode_table[i].num = 0 /\ inode_table[i].count = 1

GoodTop(t, f) ==
  /\ f.at \in Gives \cup Found => running = t
  /\ f.at \in Claimer => f.v \in Slot /\ Claimed(f.v)
  /\ f.at \in Got => f.v \in Slot
  /\ f.at \in Maybe => f.v \in Slot \cup {Null}
  /\ f.at \in Found /\ f.v # 0 => Entry(f.v).inode \in 1..NInodes
  /\ f.at \in Zoned => f.v \in 0..NBlocks
  /\ f.at \in Claiming => Claimed(f.ino)
  /\ f.at \in Reading => inode_table[f.i].num # 0

TopOk(t) == \A f : stack[t] # <<>> /\ f = Head(stack[t]) => GoodTop(t, f)

GoodFile(o) == o \in {<<>>} \cup {<<i>> : i \in Slot}

Working ==
  /\ running \in Task \cup {Nobody}
  /\ DOMAIN stack = Task /\ DOMAIN file = Task
  /\ \A t \in Task : /\ GoodStack(stack[t], file[t]) /\ GoodFile(file[t]) /\ TopOk(t)
  /\ \A i \in Slot : inode_table[i].count = Users(stack, file, i) + Num(i = Root)

Inductive == Tables /\ (halted = "no" => Working)

-------------------------------------------------------------------------------
(* A step of one task, and what it must leave alone. *)

Changes(g, h, t, x) ==
  DOMAIN h = Task /\ h[t] = x /\ \A u \in Task \ {t} : h[u] = g[u]

Moves(t, s, o) ==
  /\ halted = "no" /\ running \in {t, Nobody}
  /\ halted' = "no" /\ running' \in {t, Nobody}
  /\ Changes(stack, stack', t, s) /\ Changes(file, file', t, o)

Keeps(j) == inode_table'[j].num = inode_table[j].num /\ (Claimed(j) => Claimed(j)')

\* The slots that calls of other tasks refer to keep what those calls know.
OthersKeep(t) ==
  \A u \in Task \ {t} : \A j \in Slot :
    stack[u] # <<>> /\ Head(stack[u]).ino = j => Keeps(j)

Balanced(t, s, o) ==
  \A i \in Slot : inode_table'[i].count = inode_table[i].count - Share(stack[t], file[t], i)
                                          + Share(s, o, i)

LEMMA Step ==
  ASSUME Inductive, NEW t \in Task, NEW s, NEW o, Moves(t, s, o), GoodFile(o),
         GoodStack(s, o), \A f : s # <<>> /\ f = Head(s) => GoodTop(t, f)', Tables', OthersKeep(t),
         Balanced(t, s, o)
  PROVE  Inductive'
<1>1. Working /\ running \in {t, Nobody} /\ running' \in {t, Nobody}
  BY DEF Inductive, Moves
<1>2. /\ DOMAIN stack = Task /\ DOMAIN file = Task
      /\ \A u \in Task : /\ GoodStack(stack[u], file[u]) /\ GoodFile(file[u]) /\ TopOk(u)
  BY <1>1 DEF Working
<1>3. /\ DOMAIN stack' = Task /\ DOMAIN file' = Task
      /\ stack'[t] = s /\ file'[t] = o
      /\ \A u \in Task \ {t} : stack'[u] = stack[u] /\ file'[u] = file[u]
  BY <1>2 DEF Moves, Changes
<1>4. running' \in Task \cup {Nobody}
  BY <1>1
<1>5. ASSUME NEW u \in Task
      PROVE  /\ GoodStack(stack'[u], file'[u]) /\ GoodFile(file'[u]) /\ TopOk(u)'
  <2>1. CASE u = t
    <3>1. TopOk(t)'
      BY <1>3 DEF TopOk
    <3>2. QED
      BY <1>3, <2>1, <3>1
  <2>2. CASE u # t
    <3>1. /\ stack'[u] = stack[u] /\ file'[u] = file[u]
          /\ GoodStack(stack[u], file[u]) /\ GoodFile(file[u])
      BY <1>2, <1>3, <2>2
    <3>2. ASSUME NEW h, stack[u] # <<>>, h = Head(stack[u]) PROVE GoodTop(u, h)'
      <4>2. PICK r : IsStack(r) /\ stack[u] = Cons(h, r)
        <5>1. IsStack(stack[u])
          BY <3>1 DEF GoodStack
        <5>2. QED
          BY <3>2, <5>1, Split
      <4>3. GoodTop(u, h)
        BY <1>2, <3>2 DEF TopOk
      <4>4. GoodFrame(h)
        BY <3>1, <4>2, GoodCons DEF Fits
      <4>5. running # u
        BY <1>1, <2>2, InodeAssumption
      <4>6. h.at \notin Gives \cup Found
        BY <4>3, <4>5 DEF GoodTop
      <4>7. h.ino \in Slot => Keeps(h.ino)
        BY <2>2, <3>2 DEF OthersKeep
      <4>8. h.at \in Claiming \cup Reading => h.ino \in Slot
        BY <4>4 DEF GoodFrame, HasIno, Claiming
      <4>9. h.at \in Reading => h.i = h.ino
        BY <4>4 DEF GoodFrame
      <4>10. h.at \notin Claimer /\ h.at \notin Got /\ h.at \notin Maybe
        BY <4>6 DEF Gives
      <4>11. /\ h.at \in Zoned => h.v \in 0..NBlocks
             /\ h.at \in Claiming => Claimed(h.ino)
             /\ h.at \in Reading => inode_table[h.i].num # 0
        BY <4>3 DEF GoodTop
      <4>12. h.at \in Claiming => Claimed(h.ino)'
        BY <4>7, <4>8, <4>11 DEF Keeps
      <4>13. h.at \in Reading => inode_table'[h.i].num # 0
        BY <4>7, <4>8, <4>9, <4>11 DEF Keeps
      <4>14. QED
        BY <4>6, <4>10, <4>11, <4>12, <4>13 DEF GoodTop
    <3>3. TopOk(u)'
      BY <3>1, <3>2 DEF TopOk
    <3>4. QED
      BY <3>1, <3>3
  <2>3. QED
    BY <2>1, <2>2
<1>6. ASSUME NEW i \in Slot
      PROVE  inode_table'[i].count = Users(stack', file', i) + Num(i = Root)
  <2>1. Differ(stack, file, stack', file', t)
    <3>1. \A u \in Task : IsStack(stack[u]) /\ IsStack(stack'[u])
      BY <1>2, <1>5 DEF GoodStack
    <3>2. QED
      BY <1>3, <3>1 DEF Differ
  <2>2. PICK st, fl, st2, fl2 : st = stack /\ fl = file /\ st2 = stack' /\ fl2 = file'
    OBVIOUS
  <2>3. /\ Users(st, fl, i) \in Nat /\ Users(st2, fl2, i) \in Nat
        /\ Share(st[t], fl[t], i) \in Nat /\ Share(st2[t], fl2[t], i) \in Nat
        /\ Users(st2, fl2, i) = Users(st, fl, i) - Share(st[t], fl[t], i)
                                + Share(st2[t], fl2[t], i)
    BY <2>1, <2>2, UsersChange
  <2>4. /\ Users(stack, file, i) \in Nat /\ Users(stack', file', i) \in Nat
        /\ Share(stack[t], file[t], i) \in Nat /\ Share(s, o, i) \in Nat
        /\ Users(stack', file', i) = Users(stack, file, i) - Share(stack[t], file[t], i)
                                     + Share(s, o, i)
    BY <1>3, <2>2, <2>3
  <2>5. inode_table[i].count = Users(stack, file, i) + Num(i = Root)
    BY <1>1 DEF Working
  <2>6. inode_table'[i].count = inode_table[i].count - Share(stack[t], file[t], i)
                                + Share(s, o, i)
    BY DEF Balanced
  <2>7. Num(i = Root) \in Nat
    BY DEF Num
  <2>8. QED
    BY <2>4, <2>5, <2>6, <2>7
<1>7. Working'
  BY <1>3, <1>4, <1>5, <1>6 DEF Working
<1>8. QED
  BY <1>7 DEF Inductive

-------------------------------------------------------------------------------
(* The task that takes the step is in a call f, called by the calls r. *)

Here(t, f, r) ==
  /\ f = Top(t) /\ r = Tail(stack[t])
  /\ stack[t] = Cons(f, r) /\ IsStack(r)
  /\ Fits(f, r, file[t]) /\ GoodStack(r, file[t]) /\ GoodFile(file[t])
  /\ GoodTop(t, f) /\ Tables
  /\ halted = "no" /\ running \in {t, Nobody} /\ stack[t] # <<>>

LEMMA Acts ==
  ASSUME Inductive, NEW t \in Task, NEW l, At(t, l)
  PROVE  \E f, r : Here(t, f, r) /\ f.at = l
<1>1. halted = "no" /\ running \in {t, Nobody} /\ stack[t] # <<>> /\ Top(t).at = l
  BY DEF At
<1>2. Working /\ Tables
  BY <1>1 DEF Inductive
<1>3. GoodStack(stack[t], file[t]) /\ GoodFile(file[t]) /\ TopOk(t)
  BY <1>2 DEF Working
<1>4. IsStack(stack[t])
  BY <1>3 DEF GoodStack
<1>5. PICK f, r : IsStack(r) /\ stack[t] = Cons(f, r) /\ f = Head(stack[t]) /\ r = Tail(stack[t])
  BY <1>1, <1>4, Split
<1>6. GoodStack(Cons(f, r), file[t])
  BY <1>3, <1>5
<1>7. Fits(f, r, file[t]) /\ GoodStack(r, file[t])
  BY <1>5, <1>6, GoodCons
<1>8. GoodTop(t, f)
  BY <1>1, <1>3, <1>5 DEF TopOk
<1>9. f = Top(t)
  BY <1>5 DEF Top
<1>10. QED
  BY <1>1, <1>2, <1>3, <1>5, <1>7, <1>8, <1>9 DEF Here

\* What a stack makes the count of a slot: the references and the inode given.
Gift(f, i) == Num(f.at \in Gives /\ f.v = i)
Worth(f, i) == Own(f, i) + Gift(f, i)
Weight(s, i) == Held(s, i) + Num(Given(s, i))

LEMMA NumType == ASSUME NEW b PROVE Num(b) \in Nat
BY DEF Num

LEMMA WeightCons ==
  ASSUME NEW f, NEW s, NEW i, IsStack(s)
  PROVE  /\ Weight(Cons(f, s), i) = Held(s, i) + Worth(f, i)
         /\ Held(s, i) \in Nat /\ Own(f, i) \in Nat /\ Gift(f, i) \in Nat
         /\ Worth(f, i) \in Nat
<1>1. PICK c : c = Cons(f, s)
  OBVIOUS
<1>2. c # <<>> /\ Head(c) = f
  BY <1>1, ConsTop
<1>3. Held(c, i) = Held(s, i) + Own(f, i) /\ Held(s, i) \in Nat /\ Own(f, i) \in Nat
  BY <1>1, HeldCons
<1>4. Num(Given(c, i)) = Gift(f, i)
  BY <1>2 DEF Given, Gift
<1>5. Gift(f, i) \in Nat
  BY NumType DEF Gift
<1>6. QED
  BY <1>1, <1>3, <1>4, <1>5 DEF Weight, Worth

LEMMA ShareIs ==
  ASSUME NEW s, NEW o, NEW i, IsStack(s)
  PROVE  /\ Share(s, o, i) = Weight(s, i) + Opens(o, i)
         /\ Weight(s, i) \in Nat /\ Opens(o, i) \in Nat
<1>1. Held(s, i) \in Nat
  BY HeldType
<1>2. Opens(o, i) \in Nat /\ Num(Given(s, i)) \in Nat
  BY NumType DEF Opens
<1>3. QED
  BY <1>1, <1>2 DEF Share, Weight

MovesTo(t, s) ==
  /\ halted' = "no" /\ running' \in {t, Nobody}
  /\ stack' = [stack EXCEPT ![t] = s] /\ file' = file

\* The new stack is one, and what its top says of the tables holds.
Arrives(t, s) ==
  GoodStack(s, file[t]) /\ \A h : s # <<>> /\ h = Head(s) => GoodTop(t, h)'

\* No number and no count changes.
Plain ==
  \A i \in Slot : /\ inode_table'[i].num = inode_table[i].num
                  /\ inode_table'[i].count = inode_table[i].count

Same(s, c) == \A i \in Slot : Weight(s, i) = Weight(c, i)
Trades(s, c) ==
  \A i \in Slot : inode_table'[i].count = inode_table[i].count - Weight(c, i) + Weight(s, i)

\* Slots that others refer to as well are kept: those have a count to show for it.
Spares(f) ==
  \A j \in Slot : inode_table[j].count > Worth(f, j) + Num(j = Root) => Keeps(j)

LEMMA CountType ==
  ASSUME Tables, NEW i \in Slot
  PROVE  inode_table[i].count \in Int /\ inode_table[i].num \in 0..NInodes
<1>1. PICK m : m = inode_table[i]
  OBVIOUS
<1>2. IsInode(m)
  BY <1>1 DEF Tables, GoodTable
<1>3. m.count \in Int /\ m.num \in 0..NInodes
  BY <1>2 DEF IsInode
<1>4. QED
  BY <1>1, <1>3

LEMMA OthersCount ==
  ASSUME Inductive, NEW t \in Task, NEW f, NEW r, Here(t, f, r),
         NEW u \in Task \ {t}, stack[u] # <<>>, NEW j \in Slot, Head(stack[u]).ino = j
  PROVE  inode_table[j].count > Worth(f, j) + Num(j = Root)
<1>1. Working
  BY DEF Inductive, Here
<1>2. /\ DOMAIN stack = Task /\ DOMAIN file = Task
      /\ \A w \in Task : GoodStack(stack[w], file[w])
      /\ inode_table[j].count = Users(stack, file, j) + Num(j = Root)
  BY <1>1 DEF Working
<1>3. \A w \in Task : IsStack(stack[w])
  BY <1>2 DEF GoodStack
<1>4. PICK st, fl : st = stack /\ fl = file
  OBVIOUS
<1>5. /\ Share(st[t], fl[t], j) \in Nat /\ Share(st[u], fl[u], j) \in Nat
      /\ Users(st, fl, j) \in Nat
      /\ Share(st[t], fl[t], j) + Share(st[u], fl[u], j) <= Users(st, fl, j)
  BY <1>2, <1>3, <1>4, UsersOfTwo
<1>6. PICK h, s : IsStack(s) /\ stack[u] = Cons(h, s) /\ h = Head(stack[u])
  BY <1>3, Split
<1>7. Own(h, j) >= 1
  BY <1>6 DEF Own, Num
<1>8. Share(st[u], fl[u], j) >= 1
  <2>1. /\ Weight(Cons(h, s), j) = Held(s, j) + Worth(h, j)
        /\ Held(s, j) \in Nat /\ Own(h, j) \in Nat /\ Gift(h, j) \in Nat
    BY <1>6, WeightCons
  <2>2. /\ Share(stack[u], file[u], j) = Weight(stack[u], j) + Opens(file[u], j)
        /\ Opens(file[u], j) \in Nat
    BY <1>3, ShareIs
  <2>3. QED
    BY <1>4, <1>6, <1>7, <2>1, <2>2 DEF Worth
<1>9. Share(st[t], fl[t], j) >= Worth(f, j) /\ Worth(f, j) \in Nat
  <2>1. stack[t] = Cons(f, r) /\ IsStack(r)
    BY DEF Here
  <2>2. /\ Weight(Cons(f, r), j) = Held(r, j) + Worth(f, j)
        /\ Held(r, j) \in Nat /\ Worth(f, j) \in Nat
    BY <2>1, WeightCons
  <2>3. /\ Share(stack[t], file[t], j) = Weight(stack[t], j) + Opens(file[t], j)
        /\ Opens(file[t], j) \in Nat
    BY <1>3, ShareIs
  <2>4. QED
    BY <1>4, <2>1, <2>2, <2>3
<1>10. Num(j = Root) \in Nat
  BY NumType
<1>11. QED
  BY <1>2, <1>4, <1>5, <1>8, <1>9, <1>10

LEMMA BusyStep ==
  ASSUME Inductive, NEW t \in Task, NEW f, NEW r, Here(t, f, r), NEW s, MovesTo(t, s),
         Arrives(t, s), Tables', Spares(f), Trades(s, Cons(f, r))
  PROVE  Inductive'
<1>1. PICK o : o = file[t]
  OBVIOUS
<1>2. Working
  BY DEF Inductive, Here
<1>3. DOMAIN stack = Task /\ DOMAIN file = Task
  BY <1>2 DEF Working
<1>4. GoodFile(o)
  BY <1>1 DEF Here
<1>5. Moves(t, s, o)
  <2>1. Changes(stack, stack', t, s) /\ Changes(file, file', t, o)
    BY <1>1, <1>3 DEF MovesTo, Changes
  <2>2. QED
    BY <2>1 DEF MovesTo, Moves, Here
<1>6. GoodStack(s, o) /\ \A h : s # <<>> /\ h = Head(s) => GoodTop(t, h)'
  BY <1>1 DEF Arrives
<1>7. OthersKeep(t)
  <2> SUFFICES ASSUME NEW u \in Task \ {t}, stack[u] # <<>>, NEW j \in Slot,
                      Head(stack[u]).ino = j
               PROVE  Keeps(j)
    BY DEF OthersKeep
  <2>1. inode_table[j].count > Worth(f, j) + Num(j = Root)
    BY OthersCount
  <2>2. QED
    BY <2>1 DEF Spares
<1>8. Balanced(t, s, o)
  <2> SUFFICES ASSUME NEW i \in Slot
               PROVE  inode_table'[i].count = inode_table[i].count - Share(stack[t], file[t], i)
                                              + Share(s, o, i)
    BY DEF Balanced
  <2>a. stack[t] = Cons(f, r) /\ IsStack(r)
    BY DEF Here
  <2>b. IsStack(Cons(f, r))
    BY <2>a, ConsTop
  <2>c. IsStack(s)
    BY <1>6 DEF GoodStack
  <2>1. stack[t] = Cons(f, r) /\ IsStack(stack[t]) /\ IsStack(s)
    BY <2>a, <2>b, <2>c
  <2>2. /\ Share(stack[t], file[t], i) = Weight(stack[t], i) + Opens(file[t], i)
        /\ Weight(stack[t], i) \in Nat
    BY <2>1, ShareIs
  <2>3. /\ Share(s, o, i) = Weight(s, i) + Opens(o, i)
        /\ Weight(s, i) \in Nat /\ Opens(o, i) \in Nat
    BY <2>1, ShareIs
  <2>4. inode_table'[i].count = inode_table[i].count - Weight(Cons(f, r), i) + Weight(s, i)
    BY DEF Trades
  <2>5. inode_table[i].count \in Int
    BY CountType DEF Here
  <2>6. QED
    BY <1>1, <2>1, <2>2, <2>3, <2>4, <2>5
<1>9. QED
  BY <1>4, <1>5, <1>6, <1>7, <1>8, Step

LEMMA CalmStep ==
  ASSUME Inductive, NEW t \in Task, NEW f, NEW r, Here(t, f, r), NEW s, MovesTo(t, s),
         Arrives(t, s), Tables', Plain, Same(s, Cons(f, r))
  PROVE  Inductive'
<1>1. Spares(f)
  BY DEF Spares, Keeps, Plain, Claimed
<1>2. Trades(s, Cons(f, r))
  <2> SUFFICES ASSUME NEW i \in Slot
               PROVE  inode_table'[i].count = inode_table[i].count - Weight(Cons(f, r), i)
                                              + Weight(s, i)
    BY DEF Trades
  <2>1. inode_table[i].count \in Int
    BY CountType DEF Here
  <2>2. Weight(Cons(f, r), i) \in Nat
    BY WeightCons DEF Here
  <2>3. QED
    BY <2>1, <2>2 DEF Plain, Same
<1>3. QED
  BY <1>1, <1>2, BusyStep

-------------------------------------------------------------------------------
(* How a stack changes: the call goes on at another label, calls, is at its  *)
(* end, or returns. *)

LEMMA SlotIs ==
  /\ Root \in Slot /\ Null \notin Slot
  /\ \A i \in Slot : i \in Int /\ i # Null
  /\ \A i \in Int : i >= 0 /\ i < NR_INODE => i \in Slot
BY InodeAssumption DEF Slot, Null, Root

LEMMA Kinds ==
  \A l : /\ Kind(l) = "call" <=> l \in Whole
         /\ Awaits(l) # "call"
         /\ l \in Gives <=> Awaits(l) \in {"slot", "inode", "inode or none"}
BY DEF Kind, Awaits, Gives, Claimer, Got, Maybe

LEMMA Ends == Kind("end") = "inode or none" /\ Awaits("end") = "nothing" /\ "end" \notin Whole
BY DEF Kind, Awaits, Claimer, Got, Maybe, Found, Zoned, Claiming, Reading, Whole, OpenCall

Replaces(f, g) ==
  /\ GoodFrame(g)
  /\ g.at \in OpenCall => f.at \in OpenCall
  /\ \/ f.at # "end" /\ Kind(g.at) = Kind(f.at)
     \/ g.at = "end" /\ Kind(f.at) \in {"call", "inode or none"}

Serves(c, g) == GoodFrame(c) /\ Kind(c.at) = Awaits(g.at) /\ c.at \notin OpenCall

LEMMA Lay ==
  ASSUME NEW t \in Task, NEW f, NEW r, Here(t, f, r), NEW g, Replaces(f, g)
  PROVE  /\ GoodStack(Cons(g, r), file[t])
         /\ Cons(g, r) # <<>> /\ Head(Cons(g, r)) = g /\ IsStack(Cons(g, r))
<1>1. IsStack(r) /\ GoodStack(r, file[t]) /\ Fits(f, r, file[t])
  BY DEF Here
<1>2. GoodFrame(g) /\ (g.at \in OpenCall => file[t] = <<>>)
  BY <1>1 DEF Fits, Replaces
<1>3. CASE r = <<>>
  <2>1. f.at \in Whole \cup {"end"}
    BY <1>1, <1>3 DEF Fits
  <2>2. g.at \in Whole \cup {"end"}
    BY <2>1, Kinds DEF Replaces
  <2>3. QED
    BY <1>1, <1>2, <1>3, <2>2, GoodCons, ConsTop DEF Fits
<1>4. CASE r # <<>>
  <2>1. Kind(f.at) = Awaits(Head(r).at)
    BY <1>1, <1>4 DEF Fits
  <2>2. Kind(g.at) = Awaits(Head(r).at)
    BY <2>1, Kinds, Ends DEF Replaces
  <2>3. QED
    BY <1>1, <1>2, <1>4, <2>2, GoodCons, ConsTop DEF Fits
<1>5. QED
  BY <1>3, <1>4

LEMMA Lean ==
  ASSUME NEW s, NEW open, NEW g, GoodStack(s, open), s # <<>>, Head(s) = g,
         NEW c, Serves(c, g)
  PROVE  /\ GoodStack(Cons(c, s), open)
         /\ Cons(c, s) # <<>> /\ Head(Cons(c, s)) = c /\ IsStack(Cons(c, s))
<1>1. IsStack(s)
  BY DEF GoodStack
<1>2. Fits(c, s, open)
  BY DEF Fits, Serves
<1>3. QED
  BY <1>1, <1>2, GoodCons, ConsTop

Needy == Gives \cup Found \cup Zoned \cup Claiming \cup Reading

LEMMA EasyTop == ASSUME NEW t, NEW c, c.at \notin Needy PROVE GoodTop(t, c)'
BY DEF GoodTop, Needy, Gives

LEMMA EasyWorth ==
  ASSUME NEW c, NEW i, c.at \notin Needy
  PROVE  Worth(c, i) = Own(c, i) /\ Own(c, i) \in Nat
<1>1. Gift(c, i) = 0
  BY DEF Gift, Num, Needy
<1>2. Own(c, i) \in Nat
  BY OwnType
<1>3. QED
  BY <1>1, <1>2 DEF Worth

\* What a step does to everything but the stacks.
Calmly(t) ==
  /\ Tables' /\ Plain /\ file' = file /\ halted' = "no" /\ running' \in {t, Nobody}

\* What the frames that take the place of f are worth.
Even(f, g) == \A i \in Slot : Worth(g, i) = Worth(f, i)
Covers(f, g, c) == \A i \in Slot : Own(c, i) + Own(g, i) = Worth(f, i)
CoversTwo(f, g, b, c) == \A i \in Slot : Own(c, i) + Own(b, i) + Own(g, i) = Worth(f, i)
CoversThree(f, g, a, b, c) ==
  \A i \in Slot : Own(c, i) + Own(b, i) + Own(a, i) + Own(g, i) = Worth(f, i)

LEMMA Goes ==
  ASSUME Inductive, NEW t \in Task, NEW f, NEW r, Here(t, f, r), NEW g, Calmly(t),
         Replaces(f, g), GoodTop(t, g)', stack' = [stack EXCEPT ![t] = Cons(g, r)],
         Even(f, g)
  PROVE  Inductive'
<1>1. PICK s : s = Cons(g, r)
  OBVIOUS
<1>2. GoodStack(s, file[t]) /\ Head(s) = g
  BY <1>1, Lay
<1>3. Arrives(t, s)
  BY <1>2 DEF Arrives
<1>4. Same(s, Cons(f, r))
  <2> SUFFICES ASSUME NEW i \in Slot PROVE Weight(s, i) = Weight(Cons(f, r), i)
    BY DEF Same
  <2>1. IsStack(r)
    BY DEF Here
  <2>2. Weight(s, i) = Held(r, i) + Worth(g, i)
    BY <1>1, <2>1, WeightCons
  <2>3. Weight(Cons(f, r), i) = Held(r, i) + Worth(f, i)
    BY <2>1, WeightCons
  <2>4. QED
    BY <2>2, <2>3 DEF Even
<1>5. MovesTo(t, s)
  BY <1>1 DEF MovesTo, Calmly
<1>6. QED
  BY <1>3, <1>4, <1>5, CalmStep DEF Calmly

LEMMA Calls ==
  ASSUME Inductive, NEW t \in Task, NEW f, NEW r, Here(t, f, r), NEW c, NEW g, Calmly(t),
         Replaces(f, g), Serves(c, g), c.at \notin Needy,
         stack' = [stack EXCEPT ![t] = Cons(c, Cons(g, r))],
         Covers(f, g, c)
  PROVE  Inductive'
<1>1. PICK p, s : p = Cons(g, r) /\ s = Cons(c, p)
  OBVIOUS
<1>2. GoodStack(p, file[t]) /\ Head(p) = g /\ p # <<>> /\ IsStack(p) /\ IsStack(r)
  <2>1. GoodStack(p, file[t]) /\ Head(p) = g /\ p # <<>> /\ IsStack(p)
    BY <1>1, Lay
  <2>2. IsStack(r)
    BY DEF Here
  <2>3. QED
    BY <2>1, <2>2
<1>3. GoodStack(s, file[t]) /\ Head(s) = c
  BY <1>1, <1>2, Lean
<1>4. GoodTop(t, c)'
  BY EasyTop
<1>5. Arrives(t, s)
  BY <1>3, <1>4 DEF Arrives
<1>6. Same(s, Cons(f, r))
  <2> SUFFICES ASSUME NEW i \in Slot PROVE Weight(s, i) = Weight(Cons(f, r), i)
    BY DEF Same
  <2>1. Weight(s, i) = Held(p, i) + Worth(c, i)
    BY <1>1, <1>2, WeightCons
  <2>2. Held(p, i) = Held(r, i) + Own(g, i) /\ Held(r, i) \in Nat /\ Own(g, i) \in Nat
    BY <1>1, <1>2, HeldCons
  <2>3. Weight(Cons(f, r), i) = Held(r, i) + Worth(f, i)
    BY <1>2, WeightCons
  <2>4. Worth(c, i) = Own(c, i) /\ Own(c, i) \in Nat
    BY EasyWorth
  <2>5. QED
    BY <2>1, <2>2, <2>3, <2>4 DEF Covers
<1>7. MovesTo(t, s)
  BY <1>1 DEF MovesTo, Calmly
<1>8. QED
  BY <1>5, <1>6, <1>7, CalmStep DEF Calmly

LEMMA CallsTwo ==
  ASSUME Inductive, NEW t \in Task, NEW f, NEW r, Here(t, f, r), NEW c, NEW b, NEW g,
         Calmly(t), Replaces(f, g), Serves(b, g), Serves(c, b), c.at \notin Needy,
         stack' = [stack EXCEPT ![t] = Cons(c, Cons(b, Cons(g, r)))],
         CoversTwo(f, g, b, c)
  PROVE  Inductive'
<1>1. PICK p, q, s : p = Cons(g, r) /\ q = Cons(b, p) /\ s = Cons(c, q)
  OBVIOUS
<1>2. GoodStack(p, file[t]) /\ Head(p) = g /\ p # <<>> /\ IsStack(p) /\ IsStack(r)
  <2>1. GoodStack(p, file[t]) /\ Head(p) = g /\ p # <<>> /\ IsStack(p)
    BY <1>1, Lay
  <2>2. IsStack(r)
    BY DEF Here
  <2>3. QED
    BY <2>1, <2>2
<1>3. GoodStack(q, file[t]) /\ Head(q) = b /\ q # <<>> /\ IsStack(q)
  BY <1>1, <1>2, Lean
<1>4. GoodStack(s, file[t]) /\ Head(s) = c
  BY <1>1, <1>3, Lean
<1>5. GoodTop(t, c)'
  BY EasyTop
<1>6. Arrives(t, s)
  BY <1>4, <1>5 DEF Arrives
<1>7. Same(s, Cons(f, r))
  <2> SUFFICES ASSUME NEW i \in Slot PROVE Weight(s, i) = Weight(Cons(f, r), i)
    BY DEF Same
  <2>1. Weight(s, i) = Held(q, i) + Worth(c, i)
    BY <1>1, <1>3, WeightCons
  <2>2. Held(q, i) = Held(p, i) + Own(b, i) /\ Own(b, i) \in Nat
    BY <1>1, <1>2, HeldCons
  <2>3. Held(p, i) = Held(r, i) + Own(g, i) /\ Held(r, i) \in Nat /\ Own(g, i) \in Nat
    BY <1>1, <1>2, HeldCons
  <2>4. Weight(Cons(f, r), i) = Held(r, i) + Worth(f, i)
    BY <1>2, WeightCons
  <2>5. Worth(c, i) = Own(c, i) /\ Own(c, i) \in Nat
    BY EasyWorth
  <2>6. QED
    BY <2>1, <2>2, <2>3, <2>4, <2>5 DEF CoversTwo
<1>8. MovesTo(t, s)
  BY <1>1 DEF MovesTo, Calmly
<1>9. QED
  BY <1>6, <1>7, <1>8, CalmStep DEF Calmly

LEMMA CallsThree ==
  ASSUME Inductive, NEW t \in Task, NEW f, NEW r, Here(t, f, r),
         NEW c, NEW b, NEW a, NEW g, Calmly(t),
         Replaces(f, g), Serves(a, g), Serves(b, a), Serves(c, b), c.at \notin Needy,
         stack' = [stack EXCEPT ![t] = Cons(c, Cons(b, Cons(a, Cons(g, r))))],
         CoversThree(f, g, a, b, c)
  PROVE  Inductive'
<1>1. PICK p, q, u, s : p = Cons(g, r) /\ q = Cons(a, p) /\ u = Cons(b, q) /\ s = Cons(c, u)
  OBVIOUS
<1>2. GoodStack(p, file[t]) /\ Head(p) = g /\ p # <<>> /\ IsStack(p) /\ IsStack(r)
  <2>1. GoodStack(p, file[t]) /\ Head(p) = g /\ p # <<>> /\ IsStack(p)
    BY <1>1, Lay
  <2>2. IsStack(r)
    BY DEF Here
  <2>3. QED
    BY <2>1, <2>2
<1>3. GoodStack(q, file[t]) /\ Head(q) = a /\ q # <<>> /\ IsStack(q)
  BY <1>1, <1>2, Lean
<1>4. GoodStack(u, file[t]) /\ Head(u) = b /\ u # <<>> /\ IsStack(u)
  BY <1>1, <1>3, Lean
<1>5. GoodStack(s, file[t]) /\ Head(s) = c
  BY <1>1, <1>4, Lean
<1>6. GoodTop(t, c)'
  BY EasyTop
<1>7. Arrives(t, s)
  BY <1>5, <1>6 DEF Arrives
<1>8. Same(s, Cons(f, r))
  <2> SUFFICES ASSUME NEW i \in Slot PROVE Weight(s, i) = Weight(Cons(f, r), i)
    BY DEF Same
  <2>1. Weight(s, i) = Held(u, i) + Worth(c, i)
    BY <1>1, <1>4, WeightCons
  <2>2. Held(u, i) = Held(q, i) + Own(b, i) /\ Own(b, i) \in Nat
    BY <1>1, <1>3, HeldCons
  <2>3. Held(q, i) = Held(p, i) + Own(a, i) /\ Own(a, i) \in Nat
    BY <1>1, <1>2, HeldCons
  <2>4. Held(p, i) = Held(r, i) + Own(g, i) /\ Held(r, i) \in Nat /\ Own(g, i) \in Nat
    BY <1>1, <1>2, HeldCons
  <2>5. Weight(Cons(f, r), i) = Held(r, i) + Worth(f, i)
    BY <1>2, WeightCons
  <2>6. Worth(c, i) = Own(c, i) /\ Own(c, i) \in Nat
    BY EasyWorth
  <2>7. QED
    BY <2>1, <2>2, <2>3, <2>4, <2>5, <2>6 DEF CoversThree
<1>9. MovesTo(t, s)
  BY <1>1 DEF MovesTo, Calmly
<1>10. QED
  BY <1>7, <1>8, <1>9, CalmStep DEF Calmly

-------------------------------------------------------------------------------
(* The same in the words of the model. *)

LEMMA GotoShape ==
  ASSUME NEW t \in Task, NEW f, NEW r, Here(t, f, r), NEW g, Goto(t, g)
  PROVE  stack' = [stack EXCEPT ![t] = Cons(g, r)]
<1>0. IsStack(r)
  BY DEF Here
<1>1. r = Tail(stack[t])
  BY DEF Here
<1>2. <<g>> \o r = Cons(g, r)
  BY <1>0, OneOnTop
<1>3. QED
  BY <1>1, <1>2 DEF Goto, Becomes

LEMMA CallShape ==
  ASSUME NEW t \in Task, NEW f, NEW r, Here(t, f, r), NEW c, NEW g, Call(t, c, g)
  PROVE  stack' = [stack EXCEPT ![t] = Cons(c, Cons(g, r))]
<1>0. IsStack(r)
  BY DEF Here
<1>1. r = Tail(stack[t])
  BY DEF Here
<1>2. <<c, g>> \o r = Cons(c, Cons(g, r))
  BY <1>0, TwoOnTop
<1>3. QED
  BY <1>1, <1>2 DEF Call, Becomes

EndAt(bh) == [Frame("end") EXCEPT !.bh = bh]

LEMMA PutFrames ==
  ASSUME NEW a \in Slot, NEW bh
  PROVE  /\ Serves(Iput(a), EndAt(bh)) /\ \A b : Serves(Iput(a), Iput(b))
         /\ GoodFrame(EndAt(bh)) /\ EndAt(bh).at = "end"
         /\ Iput(a).at \notin Needy /\ EndAt(bh).at \notin Needy
         /\ \A i \in Slot : Own(Iput(a), i) = Num(a = i) /\ Own(EndAt(bh), i) = 0
<1>1. PICK e : e = EndAt(bh)
  OBVIOUS
<1>2. /\ IsFrame(e) /\ e.at = "end" /\ e.dir = Null /\ e.ino = Null
  BY <1>1 DEF EndAt, Frame, IsFrame
<1>3. PICK p : p = Iput(a)
  OBVIOUS
<1>4. /\ IsFrame(p) /\ p.at = "iput" /\ p.dir = Null /\ p.ino = a /\ p.i = a
  BY <1>3 DEF Iput, Frame, IsFrame
<1>5. GoodFrame(e)
  BY <1>2 DEF GoodFrame, HasDir, HasIno, HasI, Putting, Reading, Claiming
<1>6. GoodFrame(p)
  BY <1>4 DEF GoodFrame, HasDir, HasIno, HasI, Putting, Reading, Claiming
<1>7. "iput" \notin Needy /\ "end" \notin Needy /\ "iput" \notin OpenCall
  BY DEF Needy, Gives, Claimer, Got, Maybe, Found, Zoned, Claiming, Reading, OpenCall
<1>8. Kind("iput") = "nothing" /\ Awaits("iput") = "nothing"
  BY DEF Kind, Awaits, Claimer, Got, Maybe, Found, Zoned, Claiming, Reading, Whole, OpenCall
<1>9. \A b : Iput(b).at = "iput"
  BY DEF Iput, Frame
<1>10. ASSUME NEW i \in Slot PROVE Own(p, i) = Num(a = i) /\ Own(e, i) = 0
  BY <1>2, <1>4, SlotIs DEF Own, Num
<1>11. Serves(p, e) /\ \A b : Serves(p, Iput(b))
  BY <1>2, <1>4, <1>6, <1>7, <1>8, <1>9, Ends DEF Serves
<1>12. QED
  BY <1>1, <1>2, <1>3, <1>4, <1>5, <1>7, <1>10, <1>11

LeavesNone(f) == \A i \in Slot : Worth(f, i) = 0
Droppable(f) == Kind(f.at) \in {"call", "inode or none"}

LEMMA EndReplaces == ASSUME NEW f, Droppable(f), NEW bh PROVE Replaces(f, EndAt(bh))
<1>1. Root \in Slot
  BY SlotIs
<1>2. GoodFrame(EndAt(bh)) /\ EndAt(bh).at = "end"
  BY <1>1, PutFrames
<1>3. "end" \notin OpenCall
  BY DEF OpenCall
<1>4. QED
  BY <1>2, <1>3 DEF Replaces, Droppable

LEMMA DropsNone ==
  ASSUME Inductive, NEW t \in Task, NEW f, NEW r, Here(t, f, r), NEW bh, Calmly(t),
         Drop(t, <<>>, bh), Droppable(f), LeavesNone(f)
  PROVE  Inductive'
<1>1. PICK e : e = EndAt(bh)
  OBVIOUS
<1>2. Root \in Slot
  BY SlotIs
<1>3. /\ e.at \notin Needy /\ \A i \in Slot : Own(e, i) = 0
  BY <1>1, <1>2, PutFrames
<1>4. Replaces(f, e)
  BY <1>1, EndReplaces
<1>5. GoodTop(t, e)'
  BY <1>3, EasyTop
<1>6. Even(f, e)
  BY <1>3, EasyWorth DEF Even, LeavesNone
<1>7. stack' = [stack EXCEPT ![t] = Cons(e, r)]
  <2>0. IsStack(r)
    BY DEF Here
  <2>1. r = Tail(stack[t])
    BY DEF Here
  <2>2. [k \in DOMAIN <<>> |-> Iput(<<>>[k])] = <<>>
    OBVIOUS
  <2>3. <<>> \o <<e>> = <<e>>
    OBVIOUS
  <2>4. stack' = [stack EXCEPT ![t] = <<e>> \o r]
    BY <1>1, <2>1, <2>2, <2>3 DEF Drop, Becomes, EndAt
  <2>5. <<e>> \o r = Cons(e, r)
    BY <2>0, OneOnTop
  <2>6. QED
    BY <2>4, <2>5
<1>8. QED
  BY <1>4, <1>5, <1>6, <1>7, Goes

LeavesOne(f, a) == \A i \in Slot : Num(a = i) = Worth(f, i)
LeavesTwo(f, a, b) == \A i \in Slot : Num(a = i) + Num(b = i) = Worth(f, i)

LEMMA DropsOne ==
  ASSUME Inductive, NEW t \in Task, NEW f, NEW r, Here(t, f, r), NEW a \in Slot, NEW bh,
         Calmly(t), Drop(t, <<a>>, bh), Droppable(f), LeavesOne(f, a)
  PROVE  Inductive'
<1>1. PICK e, p : e = EndAt(bh) /\ p = Iput(a)
  OBVIOUS
<1>2. /\ Serves(p, e) /\ p.at \notin Needy
      /\ \A i \in Slot : Own(p, i) = Num(a = i) /\ Own(e, i) = 0
  BY <1>1, PutFrames
<1>3. Replaces(f, e)
  BY <1>1, EndReplaces
<1>4. Covers(f, e, p)
  BY <1>2 DEF Num, Covers, LeavesOne
<1>5. stack' = [stack EXCEPT ![t] = Cons(p, Cons(e, r))]
  <2>0. IsStack(r)
    BY DEF Here
  <2>1. r = Tail(stack[t])
    BY DEF Here
  <2>2. [k \in DOMAIN <<a>> |-> Iput(<<a>>[k])] = <<p>>
    <3>1. PICK q : q = <<a>>
      OBVIOUS
    <3>2. DOMAIN q = {1} /\ q[1] = a
      BY <3>1
    <3>3. [k \in DOMAIN q |-> Iput(q[k])] = [k \in {1} |-> p]
      BY <1>1, <3>2
    <3>4. [k \in {1} |-> p] = <<p>>
      OBVIOUS
    <3>5. QED
      BY <3>1, <3>3, <3>4
  <2>3. (<<p>> \o <<e>>) \o r = Cons(p, Cons(e, r))
    BY ONLY <2>0, OneOnOne
  <2>4. stack' = [stack EXCEPT ![t] = (<<p>> \o <<e>>) \o r]
    BY <1>1, <2>1, <2>2 DEF Drop, Becomes, EndAt
  <2>5. QED
    BY <2>3, <2>4
<1>6. QED
  BY ONLY Inductive, t \in Task, Here(t, f, r), Calmly(t), <1>2, <1>3, <1>4, <1>5, Calls

LEMMA DropsTwo ==
  ASSUME Inductive, NEW t \in Task, NEW f, NEW r, Here(t, f, r), NEW a \in Slot, NEW b \in Slot,
         NEW bh, Calmly(t), Drop(t, <<a, b>>, bh), Droppable(f), LeavesTwo(f, a, b)
  PROVE  Inductive'
<1>1. PICK e, p, q : e = EndAt(bh) /\ p = Iput(a) /\ q = Iput(b)
  OBVIOUS
<1>2. /\ Serves(p, q) /\ p.at \notin Needy /\ Serves(q, e)
      /\ \A i \in Slot : Own(p, i) = Num(a = i) /\ Own(q, i) = Num(b = i) /\ Own(e, i) = 0
  BY <1>1, PutFrames
<1>3. Replaces(f, e)
  BY <1>1, EndReplaces
<1>4. CoversTwo(f, e, q, p)
  BY <1>2 DEF Num, CoversTwo, LeavesTwo
<1>5. stack' = [stack EXCEPT ![t] = Cons(p, Cons(q, Cons(e, r)))]
  <2>0. IsStack(r)
    BY DEF Here
  <2>1. r = Tail(stack[t])
    BY DEF Here
  <2>2. [k \in DOMAIN <<a, b>> |-> Iput(<<a, b>>[k])] = <<p, q>>
    <3>1. PICK u : u = <<a, b>>
      OBVIOUS
    <3>2. DOMAIN u = {1, 2} /\ u[1] = a /\ u[2] = b
      BY <3>1
    <3>3. PICK w : w = [k \in {1, 2} |-> IF k = 1 THEN p ELSE q]
      OBVIOUS
    <3>4. [k \in DOMAIN u |-> Iput(u[k])] = w
      BY <1>1, <3>2, <3>3
    <3>5. w = <<p, q>>
      BY <3>3
    <3>6. QED
      BY <3>1, <3>4, <3>5
  <2>3. (<<p, q>> \o <<e>>) \o r = Cons(p, Cons(q, Cons(e, r)))
    BY ONLY <2>0, TwoOnOne
  <2>4. stack' = [stack EXCEPT ![t] = (<<p, q>> \o <<e>>) \o r]
    BY <1>1, <2>1, <2>2 DEF Drop, Becomes, EndAt
  <2>5. QED
    BY <2>3, <2>4
<1>6. QED
  BY ONLY Inductive, t \in Task, Here(t, f, r), Calmly(t), <1>2, <1>3, <1>4, <1>5, CallsTwo

\* What a call may give to its caller, and how much the caller holds by that.
Result(k, v) ==
  /\ k = "slot" => v \in Slot /\ Claimed(v)
  /\ k = "inode" => v \in Slot
  /\ k = "inode or none" => v \in Slot \cup {Null}
  /\ k = "entry" /\ v # 0 => Entry(v).inode \in 1..NInodes
  /\ k = "zone" => v \in 0..NBlocks
Hands(k, v, i) == Num(k \in {"slot", "inode", "inode or none"} /\ v = i)

LEMMA ReturnIs ==
  ASSUME NEW t \in Task, NEW f, NEW r, Here(t, f, r), r # <<>>, NEW v, Return(t, v),
         running' = t, Result(Kind(f.at), v)'
  PROVE  \E s : /\ stack' = [stack EXCEPT ![t] = s] /\ Arrives(t, s)
                /\ \A i \in Slot : Weight(s, i) = Held(r, i) + Hands(Kind(f.at), v, i)
<1>1. /\ r = Tail(stack[t]) /\ IsStack(r) /\ GoodStack(r, file[t]) /\ Fits(f, r, file[t])
  BY DEF Here
<1>2. PICK g, q : IsStack(q) /\ r = Cons(g, q) /\ g = Head(r) /\ q = Tail(r)
  BY <1>1, Split
<1>3. PICK h : h = [g EXCEPT !.v = v]
  OBVIOUS
<1>4. PICK s : s = Cons(h, q)
  OBVIOUS
<1>5. stack' = [stack EXCEPT ![t] = s]
  <2>1. <<h>> \o q = s
    BY <1>2, <1>4, OneOnTop
  <2>2. stack' = [stack EXCEPT ![t] = <<h>> \o q]
    BY <1>1, <1>2, <1>3 DEF Return
  <2>3. QED
    BY <2>1, <2>2
<1>6. Fits(g, q, file[t]) /\ GoodStack(q, file[t])
  BY <1>1, <1>2, GoodCons
<1>7. IsFrame(g)
  BY <1>6 DEF Fits, GoodFrame
<1>8. /\ h.at = g.at /\ h.i = g.i /\ h.dir = g.dir /\ h.ino = g.ino /\ h.bh = g.bh
      /\ h.n = g.n /\ h.v = v /\ IsFrame(h)
  BY <1>3, <1>7 DEF IsFrame
<1>9. Fits(h, q, file[t])
  BY <1>6, <1>8 DEF Fits, GoodFrame
<1>10. GoodStack(s, file[t]) /\ s # <<>> /\ Head(s) = h
  BY <1>2, <1>4, <1>6, <1>9, GoodCons, ConsTop
<1>11. PICK k : k = Kind(f.at)
  OBVIOUS
<1>12. k = Awaits(g.at)
  BY <1>1, <1>2, <1>11 DEF Fits
<1>13. k # "never"
  BY <1>11 DEF Kind
<1>14. GoodTop(t, h)'
  <2>1. Result(k, v)'
    BY <1>11
  <2>2. /\ h.at \in Claimer => k = "slot"
        /\ h.at \in Got => k = "inode"
        /\ h.at \in Maybe => k = "inode or none"
        /\ h.at \in Found => k = "entry"
        /\ h.at \in Zoned => k = "zone"
        /\ h.at \notin Claiming /\ h.at \notin Reading
    BY <1>8, <1>12, <1>13
       DEF Awaits, Claimer, Got, Maybe, Found, Zoned, Claiming, Reading
  <2>3. QED
    BY <1>8, <2>1, <2>2 DEF GoodTop, Result
<1>15. Arrives(t, s)
  BY <1>10, <1>14 DEF Arrives
<1>16. ASSUME NEW i \in Slot
       PROVE  Weight(s, i) = Held(r, i) + Hands(Kind(f.at), v, i)
  <2>1. Weight(s, i) = Held(q, i) + Worth(h, i) /\ Held(q, i) \in Nat /\ Own(h, i) \in Nat
    BY <1>2, <1>4, WeightCons
  <2>2. Held(r, i) = Held(q, i) + Own(g, i)
    BY <1>2, HeldCons
  <2>3. Own(h, i) = Own(g, i)
    BY <1>8 DEF Own
  <2>4. Gift(h, i) = Hands(k, v, i) /\ Gift(h, i) \in Nat
    BY <1>8, <1>12, Kinds DEF Gift, Hands, Num
  <2>5. QED
    BY <1>11, <2>1, <2>2, <2>3, <2>4 DEF Worth
<1>17. QED
  BY <1>5, <1>15, <1>16

Repays(f, v) == \A i \in Slot : Hands(Kind(f.at), v, i) = Worth(f, i)
CountsFor(f, v) ==
  \A i \in Slot : inode_table'[i].count = inode_table[i].count - Worth(f, i)
                                          + Hands(Kind(f.at), v, i)
CountsTo(f, g) ==
  \A i \in Slot : inode_table'[i].count = inode_table[i].count - Worth(f, i) + Worth(g, i)

LEMMA HasCaller ==
  ASSUME NEW t \in Task, NEW f, NEW r, Here(t, f, r), f.at \notin Whole \cup {"end"}
  PROVE  r # <<>>
BY DEF Here, Fits

LEMMA Returns ==
  ASSUME Inductive, NEW t \in Task, NEW f, NEW r, Here(t, f, r), r # <<>>, NEW v, Return(t, v),
         Calmly(t), running' = t, Result(Kind(f.at), v)',
         Repays(f, v)
  PROVE  Inductive'
<1>1. PICK s : /\ stack' = [stack EXCEPT ![t] = s] /\ Arrives(t, s)
               /\ \A i \in Slot : Weight(s, i) = Held(r, i) + Hands(Kind(f.at), v, i)
  BY ReturnIs
<1>2. Same(s, Cons(f, r))
  <2> SUFFICES ASSUME NEW i \in Slot PROVE Weight(s, i) = Weight(Cons(f, r), i)
    BY DEF Same
  <2>1. IsStack(r)
    BY DEF Here
  <2>2. Weight(Cons(f, r), i) = Held(r, i) + Worth(f, i)
    BY <2>1, WeightCons
  <2>3. QED
    BY <1>1, <2>2 DEF Repays
<1>3. MovesTo(t, s)
  BY <1>1 DEF MovesTo, Calmly
<1>4. QED
  BY <1>1, <1>2, <1>3, CalmStep DEF Calmly

\* The count of a slot changes as well.
Busily(t, f) ==
  /\ Tables' /\ Spares(f) /\ file' = file /\ halted' = "no" /\ running' = t

LEMMA ReturnsBusy ==
  ASSUME Inductive, NEW t \in Task, NEW f, NEW r, Here(t, f, r), r # <<>>, NEW v, Return(t, v),
         Busily(t, f), Result(Kind(f.at), v)',
         CountsFor(f, v)
  PROVE  Inductive'
<1>0. running' = t
  BY DEF Busily
<1>1. PICK s : /\ stack' = [stack EXCEPT ![t] = s] /\ Arrives(t, s)
               /\ \A i \in Slot : Weight(s, i) = Held(r, i) + Hands(Kind(f.at), v, i)
  BY <1>0, ReturnIs
<1>2. Trades(s, Cons(f, r))
  <2> SUFFICES ASSUME NEW i \in Slot
               PROVE  inode_table'[i].count = inode_table[i].count - Weight(Cons(f, r), i)
                                              + Weight(s, i)
    BY DEF Trades
  <2>1. IsStack(r) /\ Tables
    BY DEF Here
  <2>2. /\ Weight(Cons(f, r), i) = Held(r, i) + Worth(f, i)
        /\ Held(r, i) \in Nat /\ Worth(f, i) \in Nat
    BY <2>1, WeightCons
  <2>3. inode_table[i].count \in Int
    BY <2>1, CountType
  <2>4. Hands(Kind(f.at), v, i) \in Nat
    BY DEF Hands, Num
  <2>5. QED
    BY <1>1, <2>2, <2>3, <2>4 DEF CountsFor
<1>3. MovesTo(t, s)
  BY <1>1 DEF MovesTo, Busily
<1>4. QED
  BY <1>1, <1>2, <1>3, BusyStep DEF Busily

LEMMA GoesBusy ==
  ASSUME Inductive, NEW t \in Task, NEW f, NEW r, Here(t, f, r), NEW g, Busily(t, f),
         Replaces(f, g), GoodTop(t, g)', stack' = [stack EXCEPT ![t] = Cons(g, r)],
         CountsTo(f, g)
  PROVE  Inductive'
<1>1. PICK s : s = Cons(g, r)
  OBVIOUS
<1>2. GoodStack(s, file[t]) /\ Head(s) = g
  BY <1>1, Lay
<1>3. Arrives(t, s)
  BY <1>2 DEF Arrives
<1>4. Trades(s, Cons(f, r))
  <2> SUFFICES ASSUME NEW i \in Slot
               PROVE  inode_table'[i].count = inode_table[i].count - Weight(Cons(f, r), i)
                                              + Weight(s, i)
    BY DEF Trades
  <2>1. IsStack(r) /\ Tables
    BY DEF Here
  <2>2. /\ Weight(s, i) = Held(r, i) + Worth(g, i) /\ Worth(g, i) \in Nat
    BY <1>1, <2>1, WeightCons
  <2>3. /\ Weight(Cons(f, r), i) = Held(r, i) + Worth(f, i)
        /\ Held(r, i) \in Nat /\ Worth(f, i) \in Nat
    BY <2>1, WeightCons
  <2>4. inode_table[i].count \in Int
    BY <2>1, CountType
  <2>5. QED
    BY <2>2, <2>3, <2>4 DEF CountsTo
<1>5. MovesTo(t, s)
  BY <1>1 DEF MovesTo, Busily
<1>6. QED
  BY <1>3, <1>4, <1>5, BusyStep DEF Busily

-------------------------------------------------------------------------------
(* Labels by what a call at them holds, and the calls that are made. *)

BareAt == {"write_inode", "write_copy", "get_empty_inode", "empty_wait", "truncate", "truncated",
           "free_block", "new_block", "clear_block", "create_block", "created", "find_entry",
           "find_scan", "add_entry", "add_scan", "add_block", "empty_dir", "get_dir", "end",
           "sync_wait"}
DirAt == {"get_dir_next", "get_dir_found", "namei_found", "open_found", "mkdir_found",
          "rmdir_found", "unlink_found"}
InoAt == {"opened", "mkdir_free", "mkdir_undo", "link_count"} \cup Claiming \cup Reading
         \cup Putting
GivenAt == {"iget", "new_inode", "get_dir_got", "namei", "namei_got", "open", "open_got",
            "mkdir", "rmdir", "unlink", "link"}
BothAt == {"open_added", "mkdir_block", "mkdir_fill", "mkdir_added", "rmdir_empty",
           "link_found", "link_added"}
DirGivenAt == {"open_new", "mkdir_new", "rmdir_got", "unlink_got"}
InoGivenAt == {"link_dir"}

LEMMA Classes ==
  ASSUME NEW f, GoodFrame(f)
  PROVE  /\ f.at \in BareAt => LeavesNone(f)
         /\ f.at \in DirAt => f.dir \in Slot /\ LeavesOne(f, f.dir)
         /\ f.at \in InoAt => f.ino \in Slot /\ LeavesOne(f, f.ino)
         /\ f.at \in GivenAt => LeavesOne(f, f.v)
         /\ f.at \in BothAt => /\ f.dir \in Slot /\ f.ino \in Slot
                               /\ LeavesTwo(f, f.dir, f.ino) /\ LeavesTwo(f, f.ino, f.dir)
         /\ f.at \in DirGivenAt => /\ f.dir \in Slot
                                   /\ LeavesTwo(f, f.v, f.dir) /\ LeavesTwo(f, f.dir, f.v)
         /\ f.at \in InoGivenAt => f.ino \in Slot /\ LeavesTwo(f, f.v, f.ino)
<1>1. f.dir \in IF f.at \in HasDir THEN Slot ELSE {Null}
  BY DEF GoodFrame
<1>2. f.ino \in IF f.at \in HasIno THEN Slot ELSE {Null}
  BY DEF GoodFrame
<1>3. ASSUME NEW i \in Slot
      PROVE  Worth(f, i) = Num(f.at \in HasDir /\ f.dir = i) + Num(f.at \in HasIno /\ f.ino = i)
                           + Num(f.at \in Gives /\ f.v = i)
  BY <1>1, <1>2, SlotIs DEF Worth, Own, Gift, Num
<1>4. CASE f.at \in BareAt
  <2>1. /\ f.at \notin HasDir /\ f.at \notin HasIno /\ f.at \notin Gives
    BY <1>4 DEF BareAt, HasDir, HasIno, Gives, Claimer, Got, Maybe, Claiming, Reading, Putting
  <2>2. f.at \notin DirAt \cup InoAt \cup GivenAt \cup BothAt \cup DirGivenAt \cup InoGivenAt
    BY <1>4 DEF BareAt, DirAt, InoAt, GivenAt, BothAt, DirGivenAt, InoGivenAt, Claiming, Reading,
                Putting
  <2>3. QED
    BY <1>3, <2>1, <2>2 DEF LeavesNone, Num
<1>5. CASE f.at \in DirAt
  <2>1. /\ f.at \in HasDir /\ f.at \notin HasIno /\ f.at \notin Gives
    BY <1>5 DEF DirAt, HasDir, HasIno, Gives, Claimer, Got, Maybe, Claiming, Reading, Putting
  <2>2. f.at \notin BareAt \cup InoAt \cup GivenAt \cup BothAt \cup DirGivenAt \cup InoGivenAt
    BY <1>5 DEF BareAt, DirAt, InoAt, GivenAt, BothAt, DirGivenAt, InoGivenAt, Claiming, Reading,
                Putting
  <2>3. QED
    BY <1>1, <1>3, <2>1, <2>2 DEF LeavesOne, Num
<1>6. CASE f.at \in InoAt
  <2>1. /\ f.at \notin HasDir /\ f.at \in HasIno /\ f.at \notin Gives
    BY <1>6 DEF InoAt, HasDir, HasIno, Gives, Claimer, Got, Maybe, Claiming, Reading, Putting
  <2>2. f.at \notin BareAt \cup DirAt \cup GivenAt \cup BothAt \cup DirGivenAt \cup InoGivenAt
    BY <1>6 DEF BareAt, DirAt, InoAt, GivenAt, BothAt, DirGivenAt, InoGivenAt, Claiming, Reading,
                Putting
  <2>3. QED
    BY <1>2, <1>3, <2>1, <2>2 DEF LeavesOne, Num
<1>7. CASE f.at \in GivenAt
  <2>1. /\ f.at \notin HasDir /\ f.at \notin HasIno /\ f.at \in Gives
    BY <1>7 DEF GivenAt, HasDir, HasIno, Gives, Claimer, Got, Maybe, Claiming, Reading, Putting
  <2>2. f.at \notin BareAt \cup DirAt \cup InoAt \cup BothAt \cup DirGivenAt \cup InoGivenAt
    BY <1>7 DEF BareAt, DirAt, InoAt, GivenAt, BothAt, DirGivenAt, InoGivenAt, Claiming, Reading,
                Putting
  <2>3. QED
    BY <1>3, <2>1, <2>2 DEF LeavesOne, Num
<1>8. CASE f.at \in BothAt
  <2>1. /\ f.at \in HasDir /\ f.at \in HasIno /\ f.at \notin Gives
    BY <1>8 DEF BothAt, HasDir, HasIno, Gives, Claimer, Got, Maybe, Claiming, Reading, Putting
  <2>2. f.at \notin BareAt \cup DirAt \cup InoAt \cup GivenAt \cup DirGivenAt \cup InoGivenAt
    BY <1>8 DEF BareAt, DirAt, InoAt, GivenAt, BothAt, DirGivenAt, InoGivenAt, Claiming, Reading,
                Putting
  <2>3. QED
    BY <1>1, <1>2, <1>3, <2>1, <2>2 DEF LeavesTwo, Num
<1>9. CASE f.at \in DirGivenAt
  <2>1. /\ f.at \in HasDir /\ f.at \notin HasIno /\ f.at \in Gives
    BY <1>9 DEF DirGivenAt, HasDir, HasIno, Gives, Claimer, Got, Maybe, Claiming, Reading,
                Putting
  <2>2. f.at \notin BareAt \cup DirAt \cup InoAt \cup GivenAt \cup BothAt \cup InoGivenAt
    BY <1>9 DEF BareAt, DirAt, InoAt, GivenAt, BothAt, DirGivenAt, InoGivenAt, Claiming, Reading,
                Putting
  <2>3. QED
    BY <1>1, <1>3, <2>1, <2>2 DEF LeavesTwo, Num
<1>10. CASE f.at \in InoGivenAt
  <2>1. /\ f.at \notin HasDir /\ f.at \in HasIno /\ f.at \in Gives
    BY <1>10 DEF InoGivenAt, HasDir, HasIno, Gives, Claimer, Got, Maybe, Claiming, Reading,
                 Putting
  <2>2. f.at \notin BareAt \cup DirAt \cup InoAt \cup GivenAt \cup BothAt \cup DirGivenAt
    BY <1>10 DEF BareAt, DirAt, InoAt, GivenAt, BothAt, DirGivenAt, InoGivenAt, Claiming, Reading,
                 Putting
  <2>3. QED
    BY <1>2, <1>3, <2>1, <2>2 DEF LeavesTwo, Num
<1>11. QED
  BY <1>4, <1>5, <1>6, <1>7, <1>8, <1>9, <1>10

\* A call that is made: it holds nothing of its own yet.
Callee(c, k) ==
  /\ GoodFrame(c) /\ Kind(c.at) = k /\ c.at \notin OpenCall /\ c.at \notin Needy
  /\ \A i \in Slot : Own(c, i) = 0

LEMMA Unheld ==
  ASSUME NEW c, c.dir = Null, c.ino = Null
  PROVE  \A i \in Slot : Own(c, i) = 0
BY SlotIs DEF Own, Num

Calling == {"get_empty_inode", "new_block", "write_inode", "truncate", "create_block",
            "find_entry", "add_entry", "empty_dir", "free_block", "get_dir"}
Fresh(c, l, k) ==
  /\ c.at = l /\ l \in Calling /\ k = Kind(l) /\ IsFrame(c) /\ c.dir = Null /\ c.ino = Null
  /\ l \in HasI => c.i \in Slot
  /\ l = "create_block" => c.n \in Zone

LEMMA FreshCallee == ASSUME NEW c, NEW l, NEW k, Fresh(c, l, k) PROVE Callee(c, k)
<1>1. GoodFrame(c)
  BY DEF Fresh, Calling, GoodFrame, HasDir, HasIno, Putting, Reading, Claiming
<1>2. c.at \notin OpenCall /\ c.at \notin Needy
  BY DEF Fresh, Calling, OpenCall, Needy, Gives, Claimer, Got, Maybe, Found, Zoned, Claiming,
         Reading
<1>3. c.dir = Null /\ c.ino = Null /\ Kind(c.at) = k
  BY DEF Fresh
<1>4. QED
  BY <1>1, <1>2, <1>3, Unheld DEF Callee

LEMMA Callees ==
  /\ Callee(Frame("get_empty_inode"), "slot") /\ Callee(Frame("new_block"), "zone")
  /\ \A i \in Slot :
       /\ Callee([Frame("write_inode") EXCEPT !.i = i], "nothing")
       /\ Callee([Frame("truncate") EXCEPT !.i = i], "nothing")
       /\ \A n \in Zone : Callee([Frame("create_block") EXCEPT !.i = i, !.n = n], "zone")
       /\ \A name : Callee(Find(i, name), "entry") /\ Callee(Add(i, name), "nothing")
  /\ \A n : Callee([Frame("free_block") EXCEPT !.n = n], "nothing")
  /\ \A p : Callee(GetDir(p), "inode or none")
<1>1. \A l : l \in {"get_empty_inode", "new_block", "free_block", "get_dir"} => l \notin HasI
  BY DEF HasI, Reading, Putting
<1>2. /\ Kind("get_empty_inode") = "slot" /\ Kind("new_block") = "zone"
      /\ Kind("write_inode") = "nothing" /\ Kind("truncate") = "nothing"
      /\ Kind("create_block") = "zone" /\ Kind("find_entry") = "entry"
      /\ Kind("add_entry") = "nothing" /\ Kind("empty_dir") = "nothing"
      /\ Kind("free_block") = "nothing" /\ Kind("get_dir") = "inode or none"
  BY DEF Kind, Whole, OpenCall, Claiming, Reading
<1>3. Callee(Frame("get_empty_inode"), "slot")
  <2>1. PICK c : c = Frame("get_empty_inode")
    OBVIOUS
  <2>2. c.at = "get_empty_inode" /\ IsFrame(c) /\ c.dir = Null /\ c.ino = Null
    BY <2>1 DEF Frame, IsFrame
  <2>3. Fresh(c, "get_empty_inode", "slot")
    BY <1>1, <1>2, <2>2 DEF Fresh, Calling
  <2>4. QED
    BY <2>1, <2>3, FreshCallee
<1>4. Callee(Frame("new_block"), "zone")
  <2>1. PICK c : c = Frame("new_block")
    OBVIOUS
  <2>2. c.at = "new_block" /\ IsFrame(c) /\ c.dir = Null /\ c.ino = Null
    BY <2>1 DEF Frame, IsFrame
  <2>3. Fresh(c, "new_block", "zone")
    BY <1>1, <1>2, <2>2 DEF Fresh, Calling
  <2>4. QED
    BY <2>1, <2>3, FreshCallee
<1>5. ASSUME NEW n
      PROVE  Callee([Frame("free_block") EXCEPT !.n = n], "nothing")
  <2>1. PICK c : c = [Frame("free_block") EXCEPT !.n = n]
    OBVIOUS
  <2>2. c.at = "free_block" /\ IsFrame(c) /\ c.dir = Null /\ c.ino = Null
    BY <2>1 DEF Frame, IsFrame
  <2>3. Fresh(c, "free_block", "nothing")
    BY <1>1, <1>2, <2>2 DEF Fresh, Calling
  <2>4. QED
    BY <2>1, <2>3, FreshCallee
<1>6. ASSUME NEW p
      PROVE  Callee(GetDir(p), "inode or none")
  <2>1. PICK c : c = GetDir(p)
    OBVIOUS
  <2>2. c.at = "get_dir" /\ IsFrame(c) /\ c.dir = Null /\ c.ino = Null
    BY <2>1 DEF GetDir, Frame, IsFrame
  <2>3. Fresh(c, "get_dir", "inode or none")
    BY <1>1, <1>2, <2>2 DEF Fresh, Calling
  <2>4. QED
    BY <2>1, <2>3, FreshCallee
<1>7. ASSUME NEW i \in Slot
      PROVE  Callee([Frame("write_inode") EXCEPT !.i = i], "nothing")
  <2>1. PICK c : c = [Frame("write_inode") EXCEPT !.i = i]
    OBVIOUS
  <2>2. c.at = "write_inode" /\ IsFrame(c) /\ c.dir = Null /\ c.ino = Null /\ c.i = i
    BY <2>1 DEF Frame, IsFrame
  <2>3. Fresh(c, "write_inode", "nothing")
    BY <1>1, <1>2, <2>2 DEF Fresh, Calling
  <2>4. QED
    BY <2>1, <2>3, FreshCallee
<1>8. ASSUME NEW i \in Slot
      PROVE  Callee([Frame("truncate") EXCEPT !.i = i], "nothing")
  <2>1. PICK c : c = [Frame("truncate") EXCEPT !.i = i]
    OBVIOUS
  <2>2. c.at = "truncate" /\ IsFrame(c) /\ c.dir = Null /\ c.ino = Null /\ c.i = i
    BY <2>1 DEF Frame, IsFrame
  <2>3. Fresh(c, "truncate", "nothing")
    BY <1>1, <1>2, <2>2 DEF Fresh, Calling
  <2>4. QED
    BY <2>1, <2>3, FreshCallee
<1>9. ASSUME NEW i \in Slot, NEW n \in Zone
      PROVE  Callee([Frame("create_block") EXCEPT !.i = i, !.n = n], "zone")
  <2>1. PICK c : c = [Frame("create_block") EXCEPT !.i = i, !.n = n]
    OBVIOUS
  <2>2. c.at = "create_block" /\ IsFrame(c) /\ c.dir = Null /\ c.ino = Null /\ c.i = i /\ c.n = n
    BY <2>1 DEF Frame, IsFrame
  <2>3. Fresh(c, "create_block", "zone")
    BY <1>1, <1>2, <2>2 DEF Fresh, Calling
  <2>4. QED
    BY <2>1, <2>3, FreshCallee
<1>10. ASSUME NEW i \in Slot, NEW name
      PROVE  Callee(Find(i, name), "entry")
  <2>1. PICK c : c = Find(i, name)
    OBVIOUS
  <2>2. c.at = "find_entry" /\ IsFrame(c) /\ c.dir = Null /\ c.ino = Null /\ c.i = i
    BY <2>1 DEF Find, Frame, IsFrame
  <2>3. Fresh(c, "find_entry", "entry")
    BY <1>1, <1>2, <2>2 DEF Fresh, Calling
  <2>4. QED
    BY <2>1, <2>3, FreshCallee
<1>11. ASSUME NEW i \in Slot, NEW name
      PROVE  Callee(Add(i, name), "nothing")
  <2>1. PICK c : c = Add(i, name)
    OBVIOUS
  <2>2. c.at = "add_entry" /\ IsFrame(c) /\ c.dir = Null /\ c.ino = Null /\ c.i = i
    BY <2>1 DEF Add, Frame, IsFrame
  <2>3. Fresh(c, "add_entry", "nothing")
    BY <1>1, <1>2, <2>2 DEF Fresh, Calling
  <2>4. QED
    BY <2>1, <2>3, FreshCallee
<1>12. QED
  BY <1>3, <1>4, <1>5, <1>6, <1>7, <1>8, <1>9, <1>10, <1>11

LEMMA EmptyDirCallee ==
  ASSUME NEW i \in Slot, NEW de, NEW bh, NEW c,
         c = [Frame("empty_dir") EXCEPT !.i = i, !.de = de, !.bh = bh]
  PROVE  Callee(c, "nothing")
<1>1. Kind("empty_dir") = "nothing"
  BY DEF Kind, Whole, OpenCall, Claiming, Reading
<1>2. c.at = "empty_dir" /\ IsFrame(c) /\ c.dir = Null /\ c.ino = Null /\ c.i = i
  BY DEF Frame, IsFrame
<1>3. Fresh(c, "empty_dir", "nothing")
  BY <1>1, <1>2 DEF Fresh, Calling
<1>4. QED
  BY <1>3, FreshCallee

-------------------------------------------------------------------------------
(* Calls that hold nothing yet, and the ones that name() and the like make. *)

Owning(f, g) == \A i \in Slot : Own(g, i) = Worth(f, i)
Owned(f, g, a) == \A i \in Slot : Num(a = i) + Own(g, i) = Worth(f, i)

LEMMA OwnNat == ASSUME NEW f, NEW i PROVE Own(f, i) \in Nat
BY DEF Own, Num

LEMMA CalleeServes ==
  ASSUME NEW c, NEW g, Callee(c, Awaits(g.at))
  PROVE  Serves(c, g) /\ c.at \notin Needy /\ \A i \in Slot : Own(c, i) = 0
BY DEF Callee, Serves

LEMMA CallsFree ==
  ASSUME Inductive, NEW t \in Task, NEW f, NEW r, Here(t, f, r), NEW c, NEW g, Call(t, c, g),
         Calmly(t), Replaces(f, g), Callee(c, Awaits(g.at)), Owning(f, g)
  PROVE  Inductive'
<1>1. stack' = [stack EXCEPT ![t] = Cons(c, Cons(g, r))]
  BY CallShape
<1>2. Serves(c, g) /\ c.at \notin Needy /\ \A i \in Slot : Own(c, i) = 0
  BY CalleeServes
<1>3. Covers(f, g, c)
  <2> SUFFICES ASSUME NEW i \in Slot PROVE Own(c, i) + Own(g, i) = Worth(f, i)
    BY DEF Covers
  <2>1. Own(g, i) = Worth(f, i) /\ Own(g, i) \in Nat /\ Own(c, i) = 0
    BY <1>2, OwnNat DEF Owning
  <2>2. QED
    BY ONLY <2>1
<1>4. QED
  BY ONLY Inductive, t \in Task, Here(t, f, r), Calmly(t), Replaces(f, g), <1>1, <1>2, <1>3,
          Calls

LEMMA IputServes ==
  ASSUME NEW a \in Slot, NEW g, Awaits(g.at) = "nothing"
  PROVE  /\ Serves(Iput(a), g) /\ Iput(a).at \notin Needy
         /\ \A i \in Slot : Own(Iput(a), i) = Num(a = i)
<1>1. Serves(Iput(a), EndAt(0)) /\ Iput(a).at \notin Needy
  BY PutFrames
<1>2. \A i \in Slot : Own(Iput(a), i) = Num(a = i)
  BY PutFrames
<1>3. Iput(a).at = "iput"
  BY DEF Iput, Frame
<1>4. Kind("iput") = "nothing"
  BY DEF Kind, Whole, OpenCall, Claiming, Reading
<1>5. Serves(Iput(a), g)
  BY <1>1, <1>3, <1>4 DEF Serves
<1>6. QED
  BY <1>1, <1>2, <1>5

LEMMA CallsIput ==
  ASSUME Inductive, NEW t \in Task, NEW f, NEW r, Here(t, f, r), NEW a \in Slot, NEW g,
         Call(t, Iput(a), g), Calmly(t), Replaces(f, g), Awaits(g.at) = "nothing",
         Owned(f, g, a)
  PROVE  Inductive'
<1>1. PICK c : c = Iput(a)
  OBVIOUS
<1>2. stack' = [stack EXCEPT ![t] = Cons(c, Cons(g, r))]
  BY <1>1, CallShape
<1>3. Serves(c, g) /\ c.at \notin Needy /\ \A i \in Slot : Own(c, i) = Num(a = i)
  BY <1>1, IputServes
<1>4. Covers(f, g, c)
  BY <1>3 DEF Covers, Owned
<1>5. QED
  BY ONLY Inductive, t \in Task, Here(t, f, r), Calmly(t), Replaces(f, g), <1>2, <1>3, <1>4,
          Calls

\* iget and new_inode call get_empty_inode first.
IgetFrame(nr) == [Frame("iget") EXCEPT !.n = nr]

LEMMA ClaimFrames ==
  /\ \A g : Awaits(g.at) = "inode" => \A nr \in 1..NInodes : Serves(IgetFrame(nr), g)
  /\ \A g : Awaits(g.at) = "inode or none" => Serves(Frame("new_inode"), g)
  /\ \A nr : Serves(Frame("get_empty_inode"), IgetFrame(nr))
  /\ Serves(Frame("get_empty_inode"), Frame("new_inode"))
  /\ \A a \in Slot : Serves(Iput(a), Frame("get_empty_inode"))
  /\ Frame("get_empty_inode").at \notin Needy
  /\ \A i \in Slot : /\ \A nr : Own(IgetFrame(nr), i) = 0
                     /\ Own(Frame("new_inode"), i) = 0
                     /\ Own(Frame("get_empty_inode"), i) = 0
<1>1. PICK e, w : e = Frame("get_empty_inode") /\ w = Frame("new_inode")
  OBVIOUS
<1>2. /\ e.at = "get_empty_inode" /\ w.at = "new_inode" /\ IsFrame(w)
      /\ w.dir = Null /\ w.ino = Null
  BY <1>1 DEF Frame, IsFrame
<1>3. Callee(e, "slot")
  BY <1>1, Callees
<1>4. /\ Kind("iget") = "inode" /\ Kind("new_inode") = "inode or none"
      /\ Awaits("iget") = "slot" /\ Awaits("new_inode") = "slot"
      /\ Awaits("get_empty_inode") = "nothing"
  BY DEF Kind, Awaits, Whole, OpenCall, Claimer, Got, Maybe, Found, Zoned, Claiming, Reading
<1>5. "iget" \notin OpenCall /\ "new_inode" \notin OpenCall
  BY DEF OpenCall
<1>6. GoodFrame(w) /\ \A i \in Slot : Own(w, i) = 0
  <2>1. GoodFrame(w)
    BY <1>2 DEF GoodFrame, HasDir, HasIno, HasI, Putting, Reading, Claiming
  <2>2. QED
    BY <1>2, <2>1, Unheld
<1>7. ASSUME NEW nr
      PROVE  /\ IgetFrame(nr).at = "iget" /\ \A i \in Slot : Own(IgetFrame(nr), i) = 0
             /\ nr \in 1..NInodes => GoodFrame(IgetFrame(nr))
  <2>1. PICK c : c = IgetFrame(nr)
    OBVIOUS
  <2>2. c.at = "iget" /\ IsFrame(c) /\ c.dir = Null /\ c.ino = Null /\ c.n = nr
    BY <2>1 DEF IgetFrame, Frame, IsFrame
  <2>3. nr \in 1..NInodes => GoodFrame(c)
    BY <2>2 DEF GoodFrame, HasDir, HasIno, HasI, Putting, Reading, Claiming
  <2>4. QED
    BY <2>1, <2>2, <2>3, Unheld
<1>8. ASSUME NEW g, Awaits(g.at) = "slot" PROVE Serves(e, g)
  BY <1>3, <1>8, CalleeServes
<1>9. ASSUME NEW a \in Slot PROVE Serves(Iput(a), e)
  BY <1>2, <1>4, IputServes
<1>10. ASSUME NEW g, Awaits(g.at) = "inode", NEW nr \in 1..NInodes
       PROVE  Serves(IgetFrame(nr), g)
  BY <1>4, <1>5, <1>7, <1>10 DEF Serves
<1>11. ASSUME NEW g, Awaits(g.at) = "inode or none" PROVE Serves(w, g)
  BY <1>2, <1>4, <1>5, <1>6, <1>11 DEF Serves
<1>12. (\A nr : Serves(e, IgetFrame(nr))) /\ Serves(e, w)
  BY <1>2, <1>4, <1>7, <1>8
<1>13. e.at \notin Needy /\ \A i \in Slot : Own(e, i) = 0
  BY <1>3 DEF Callee
<1>14. QED
  BY <1>1, <1>6, <1>7, <1>9, <1>10, <1>11, <1>12, <1>13

\* The caller of these has slept or will: what it holds it has in dir and ino.
LEMMA CallsIget ==
  ASSUME Inductive, NEW t \in Task, NEW f, NEW r, Here(t, f, r), NEW nr \in 1..NInodes, NEW g,
         Becomes(t, Iget(nr) \o <<g>>), Calmly(t), Replaces(f, g), Awaits(g.at) = "inode",
         Owning(f, g)
  PROVE  Inductive'
<1>1. PICK c, b : c = Frame("get_empty_inode") /\ b = IgetFrame(nr)
  OBVIOUS
<1>2. stack' = [stack EXCEPT ![t] = Cons(c, Cons(b, Cons(g, r)))]
  <2>0. IsStack(r)
    BY DEF Here
  <2>1. r = Tail(stack[t])
    BY DEF Here
  <2>2. (<<c, b>> \o <<g>>) \o r = Cons(c, Cons(b, Cons(g, r)))
    BY ONLY <2>0, TwoOnOne
  <2>3. stack' = [stack EXCEPT ![t] = (<<c, b>> \o <<g>>) \o r]
    BY <1>1, <2>1 DEF Becomes, Iget, IgetFrame
  <2>4. QED
    BY <2>2, <2>3
<1>3. Serves(b, g) /\ Serves(c, b) /\ c.at \notin Needy
  BY <1>1, ClaimFrames
<1>4. \A i \in Slot : Own(b, i) = 0 /\ Own(c, i) = 0
  BY <1>1, ClaimFrames
<1>5. CoversTwo(f, g, b, c)
  <2> SUFFICES ASSUME NEW i \in Slot PROVE Own(c, i) + Own(b, i) + Own(g, i) = Worth(f, i)
    BY DEF CoversTwo
  <2>1. Own(g, i) = Worth(f, i) /\ Own(g, i) \in Nat /\ Own(b, i) = 0 /\ Own(c, i) = 0
    BY <1>4, OwnNat DEF Owning
  <2>2. QED
    BY ONLY <2>1
<1>6. QED
  BY ONLY Inductive, t \in Task, Here(t, f, r), Calmly(t), Replaces(f, g), <1>2, <1>3, <1>5,
          CallsTwo

LEMMA CallsNew ==
  ASSUME Inductive, NEW t \in Task, NEW f, NEW r, Here(t, f, r), NEW g,
         Becomes(t, NewInode \o <<g>>), Calmly(t), Replaces(f, g),
         Awaits(g.at) = "inode or none", Owning(f, g)
  PROVE  Inductive'
<1>1. PICK c, b : c = Frame("get_empty_inode") /\ b = Frame("new_inode")
  OBVIOUS
<1>2. stack' = [stack EXCEPT ![t] = Cons(c, Cons(b, Cons(g, r)))]
  <2>0. IsStack(r)
    BY DEF Here
  <2>1. r = Tail(stack[t])
    BY DEF Here
  <2>2. (<<c, b>> \o <<g>>) \o r = Cons(c, Cons(b, Cons(g, r)))
    BY ONLY <2>0, TwoOnOne
  <2>3. stack' = [stack EXCEPT ![t] = (<<c, b>> \o <<g>>) \o r]
    BY <1>1, <2>1 DEF Becomes, NewInode
  <2>4. QED
    BY <2>2, <2>3
<1>3. Serves(b, g) /\ Serves(c, b) /\ c.at \notin Needy
  BY <1>1, ClaimFrames
<1>4. \A i \in Slot : Own(b, i) = 0 /\ Own(c, i) = 0
  BY <1>1, ClaimFrames
<1>5. CoversTwo(f, g, b, c)
  <2> SUFFICES ASSUME NEW i \in Slot PROVE Own(c, i) + Own(b, i) + Own(g, i) = Worth(f, i)
    BY DEF CoversTwo
  <2>1. Own(g, i) = Worth(f, i) /\ Own(g, i) \in Nat /\ Own(b, i) = 0 /\ Own(c, i) = 0
    BY <1>4, OwnNat DEF Owning
  <2>2. QED
    BY ONLY <2>1
<1>6. QED
  BY ONLY Inductive, t \in Task, Here(t, f, r), Calmly(t), Replaces(f, g), <1>2, <1>3, <1>5,
          CallsTwo

LEMMA CallsEnter ==
  ASSUME Inductive, NEW t \in Task, NEW f, NEW r, Here(t, f, r), NEW a \in Slot,
         NEW nr \in 1..NInodes, NEW g,
         Becomes(t, <<Iput(a)>> \o Iget(nr) \o <<g>>), Calmly(t), Replaces(f, g),
         Awaits(g.at) = "inode", Owned(f, g, a)
  PROVE  Inductive'
<1>1. PICK d, c, b : d = Iput(a) /\ c = Frame("get_empty_inode") /\ b = IgetFrame(nr)
  OBVIOUS
<1>2. stack' = [stack EXCEPT ![t] = Cons(d, Cons(c, Cons(b, Cons(g, r))))]
  <2>0. IsStack(r)
    BY DEF Here
  <2>1. r = Tail(stack[t])
    BY DEF Here
  <2>2. ((<<d>> \o <<c, b>>) \o <<g>>) \o r = Cons(d, Cons(c, Cons(b, Cons(g, r))))
    BY ONLY <2>0, FourOnTop
  <2>3. stack' = [stack EXCEPT ![t] = ((<<d>> \o <<c, b>>) \o <<g>>) \o r]
    BY <1>1, <2>1 DEF Becomes, Iget, IgetFrame
  <2>4. QED
    BY <2>2, <2>3
<1>3. Serves(b, g) /\ Serves(c, b) /\ Serves(d, c)
  BY <1>1, ClaimFrames
<1>4. \A i \in Slot : Own(b, i) = 0 /\ Own(c, i) = 0
  BY <1>1, ClaimFrames
<1>5. d.at \notin Needy /\ \A i \in Slot : Own(d, i) = Num(a = i)
  BY <1>1, PutFrames
<1>6. CoversThree(f, g, b, c, d)
  BY <1>4, <1>5, OwnNat, NumType DEF CoversThree, Owned
<1>7. QED
  BY ONLY Inductive, t \in Task, Here(t, f, r), Calmly(t), Replaces(f, g), <1>2, <1>3, <1>5, <1>6,
          CallsThree

-------------------------------------------------------------------------------
(* The tables after a step. *)

LEMMA HereIs ==
  ASSUME NEW t \in Task, NEW f, NEW r, Here(t, f, r)
  PROVE  GoodFrame(f) /\ IsFrame(f) /\ GoodTop(t, f) /\ Top(t) = f /\ Tables /\ halted = "no"
BY DEF Here, Fits, GoodFrame

LEMMA InodeAt == ASSUME Tables, NEW i \in Slot PROVE IsInode(inode_table[i])
BY DEF Tables, GoodTable

LEMMA CalmCalls ==
  ASSUME NEW t \in Task, NEW f, NEW r, Here(t, f, r), OnlyCalls, RunsOn(t) \/ MaySleep
  PROVE  Calmly(t)
<1>1. Tables /\ halted = "no"
  BY HereIs
<1>2. /\ inode_table' = inode_table /\ last_allocated_inode' = last_allocated_inode
      /\ d_inode' = d_inode /\ data' = data /\ file' = file
  BY DEF OnlyCalls, table, disk, namei_vars
<1>3. Tables'
  BY <1>1, <1>2 DEF Tables
<1>4. Plain
  BY <1>2 DEF Plain
<1>5. halted' = "no" /\ running' \in {t, Nobody}
  BY <1>1 DEF RunsOn, MaySleep
<1>6. QED
  BY <1>2, <1>3, <1>4, <1>5 DEF Calmly

LEMMA PutTables ==
  ASSUME Tables, NEW i \in Slot, NEW m, IsInode(m), Put(i, m),
         UNCHANGED last_allocated_inode, GoodDisk(d_inode)', GoodData(data)'
  PROVE  /\ Tables' /\ inode_table'[i] = m
         /\ \A j \in Slot \ {i} : inode_table'[j] = inode_table[j]
<1>1. DOMAIN inode_table = Slot /\ \A j \in Slot : IsInode(inode_table[j])
  BY DEF Tables, GoodTable
<1>2. PICK T : T = inode_table'
  OBVIOUS
<1>3. /\ DOMAIN T = Slot /\ T[i] = m /\ \A j \in Slot \ {i} : T[j] = inode_table[j]
  BY <1>1, <1>2 DEF Put
<1>4. GoodTable(T)
  BY <1>1, <1>3 DEF GoodTable
<1>5. Tables'
  BY <1>2, <1>4 DEF Tables
<1>6. QED
  BY <1>2, <1>3, <1>5

LEMMA DiskKept ==
  ASSUME Tables, UNCHANGED d_inode, UNCHANGED data
  PROVE  GoodDisk(d_inode)' /\ GoodData(data)'
BY DEF Tables

SameUse(i, m) == m.num = inode_table[i].num /\ m.count = inode_table[i].count

LEMMA CalmPut ==
  ASSUME NEW t \in Task, NEW f, NEW r, Here(t, f, r), NEW i \in Slot, NEW m, IsInode(m),
         SameUse(i, m), Put(i, m), UNCHANGED last_allocated_inode, GoodDisk(d_inode)',
         GoodData(data)', UNCHANGED namei_vars, RunsOn(t) \/ MaySleep
  PROVE  Calmly(t)
<1>1. Tables /\ halted = "no"
  BY HereIs
<1>2. /\ Tables' /\ inode_table'[i] = m
      /\ \A j \in Slot \ {i} : inode_table'[j] = inode_table[j]
  BY <1>1, PutTables
<1>3. Plain
  BY <1>2 DEF Plain, SameUse
<1>4. halted' = "no" /\ running' \in {t, Nobody} /\ file' = file
  BY <1>1 DEF RunsOn, MaySleep, namei_vars
<1>5. QED
  BY <1>2, <1>3, <1>4 DEF Calmly

LEMMA CalmTable ==
  ASSUME NEW t \in Task, NEW f, NEW r, Here(t, f, r), NEW i \in Slot, NEW m, IsInode(m),
         SameUse(i, m), Put(i, m), OnlyTable, RunsOn(t) \/ MaySleep
  PROVE  Calmly(t)
<1>1. Tables
  BY HereIs
<1>2. UNCHANGED last_allocated_inode /\ UNCHANGED namei_vars /\ d_inode' = d_inode /\ data' = data
  BY DEF OnlyTable, disk
<1>3. GoodDisk(d_inode)' /\ GoodData(data)'
  BY <1>1, <1>2, DiskKept
<1>4. QED
  BY <1>2, <1>3, CalmPut

\* An entry with another number in it.  SetEntry of an address that is none changes nothing.
LEMMA BlockSet ==
  ASSUME NEW c, GoodBlock(c), NEW k, NEW e, k \in 0..E - 1 => IsEntry(e)
  PROVE  GoodBlock([c EXCEPT ![k] = e])
<1>1. PICK d : d = [c EXCEPT ![k] = e]
  OBVIOUS
<1>2. /\ DOMAIN c = 0..E - 1 /\ \A j \in 0..E - 1 : IsEntry(c[j])
  BY DEF GoodBlock
<1>3. DOMAIN d = 0..E - 1
  BY <1>1, <1>2
<1>4. ASSUME NEW j \in 0..E - 1 PROVE d[j] = IF j = k THEN e ELSE c[j]
  BY <1>1, <1>2
<1>5. GoodBlock(d)
  BY <1>2, <1>3, <1>4 DEF GoodBlock
<1>6. QED
  BY <1>1, <1>5

LEMMA DataSet ==
  ASSUME NEW B, GoodData(B), NEW b, NEW c, b \in 1..NBlocks => GoodBlock(c)
  PROVE  GoodData([B EXCEPT ![b] = c])
<1>1. PICK D : D = [B EXCEPT ![b] = c]
  OBVIOUS
<1>2. /\ DOMAIN B = 1..NBlocks /\ \A j \in 1..NBlocks : GoodBlock(B[j])
  BY DEF GoodData
<1>3. DOMAIN D = 1..NBlocks
  BY <1>1, <1>2
<1>4. ASSUME NEW j \in 1..NBlocks PROVE D[j] = IF j = b THEN c ELSE B[j]
  BY <1>1, <1>2
<1>5. GoodData(D)
  BY <1>2, <1>3, <1>4 DEF GoodData
<1>6. QED
  BY <1>1, <1>5

LEMMA EntrySet ==
  ASSUME GoodData(data), NEW de, NEW nr \in 0..NInodes, SetEntry(de, nr)
  PROVE  GoodData(data)'
<1>1. PICK b, k, c : b = de \div E /\ k = de % E /\ c = [data[b] EXCEPT ![k].inode = nr]
  OBVIOUS
<1>2. ASSUME b \in 1..NBlocks PROVE GoodBlock(c)
  <2>1. GoodBlock(data[b])
    BY <1>2 DEF GoodData
  <2>2. PICK e : e = [data[b][k] EXCEPT !.inode = nr]
    OBVIOUS
  <2>3. k \in 0..E - 1 => IsEntry(e)
    <3>1. k \in 0..E - 1 => IsEntry(data[b][k])
      BY <2>1 DEF GoodBlock
    <3>2. QED
      BY <2>2, <3>1 DEF IsEntry
  <2>4. c = [data[b] EXCEPT ![k] = e]
    BY <1>1, <2>2
  <2>5. QED
    BY <2>1, <2>3, <2>4, BlockSet
<1>3. data' = [data EXCEPT ![b] = c]
  BY <1>1 DEF SetEntry
<1>4. QED
  BY <1>2, <1>3, DataSet

\* The stacks of two sets of frames that hold the same.
LEMMA EvenIs ==
  ASSUME NEW f, NEW g
  PROVE  /\ LeavesNone(f) /\ LeavesNone(g) => Even(f, g)
         /\ \A a : LeavesOne(f, a) /\ LeavesOne(g, a) => Even(f, g)
         /\ \A a, b : LeavesTwo(f, a, b) /\ LeavesTwo(g, a, b) => Even(f, g)
BY DEF Even, LeavesNone, LeavesOne, LeavesTwo

\* What a call that has been left for another holds.
LEMMA OwningIs ==
  ASSUME NEW f, NEW g
  PROVE  /\ g.dir = Null /\ g.ino = Null /\ LeavesNone(f) => Owning(f, g)
         /\ \A a : LeavesOne(f, a) /\ g.dir = a /\ g.ino = Null => Owning(f, g)
         /\ \A a : LeavesOne(f, a) /\ g.dir = Null /\ g.ino = a => Owning(f, g)
         /\ \A a, b : LeavesTwo(f, a, b) /\ g.dir = a /\ g.ino = b => Owning(f, g)
         /\ \A a : LeavesOne(f, a) /\ g.dir = Null /\ g.ino = Null => Owned(f, g, a)
         /\ \A a, b : LeavesTwo(f, a, b) /\ g.dir = Null /\ g.ino = b => Owned(f, g, a)
BY SlotIs DEF Owning, Owned, LeavesNone, LeavesOne, LeavesTwo, Own, Num

\* A call that returns and whose caller gets nothing that counts, none, or an inode.
LEMMA ReturnsBare ==
  ASSUME Inductive, NEW t \in Task, NEW f, NEW r, Here(t, f, r), NEW v, Return(t, v), Calmly(t),
         running' = t, LeavesNone(f), Result(Kind(f.at), v)',
         Kind(f.at) \in {"nothing", "entry", "zone"}
  PROVE  Inductive'
<1>1. r # <<>>
  BY HasCaller, Kinds, Ends
<1>2. Repays(f, v)
  BY DEF Repays, Hands, Num, LeavesNone
<1>3. QED
  BY <1>1, <1>2, Returns

LEMMA ReturnsNull ==
  ASSUME Inductive, NEW t \in Task, NEW f, NEW r, Here(t, f, r), Return(t, Null), Calmly(t),
         running' = t, LeavesNone(f), Kind(f.at) = "inode or none", r # <<>>
  PROVE  Inductive'
<1>1. Result(Kind(f.at), Null)'
  BY DEF Result
<1>2. Repays(f, Null)
  BY SlotIs DEF Repays, Hands, Num, LeavesNone
<1>3. QED
  BY <1>1, <1>2, Returns

LEMMA ReturnsInode ==
  ASSUME Inductive, NEW t \in Task, NEW f, NEW r, Here(t, f, r), NEW a \in Slot, Return(t, a),
         Calmly(t), running' = t, LeavesOne(f, a), Kind(f.at) \in {"inode", "inode or none"},
         f.at # "end"
  PROVE  Inductive'
<1>1. r # <<>>
  BY HasCaller, Kinds
<1>2. Result(Kind(f.at), a)'
  BY DEF Result
<1>3. Repays(f, a)
  BY DEF Repays, Hands, Num, LeavesOne
<1>4. QED
  BY <1>1, <1>2, <1>3, Returns

LEMMA Blank ==
  ASSUME NEW f, GoodFrame(f)
  PROVE  /\ f.at \in BareAt \cup GivenAt => f.dir = Null /\ f.ino = Null
         /\ f.at \in DirAt \cup DirGivenAt => f.ino = Null
         /\ f.at \in InoAt \cup InoGivenAt => f.dir = Null
<1>1. f.at \in BareAt \cup GivenAt \cup InoAt \cup InoGivenAt => f.at \notin HasDir
  BY DEF BareAt, GivenAt, InoAt, InoGivenAt, HasDir, Claiming, Reading, Putting
<1>2. f.at \in BareAt \cup GivenAt \cup DirAt \cup DirGivenAt => f.at \notin HasIno
  BY DEF BareAt, GivenAt, DirAt, DirGivenAt, HasIno, Claiming, Reading, Putting
<1>3. QED
  BY <1>1, <1>2 DEF GoodFrame

LEMMA NullIs ==
  ASSUME NEW f
  PROVE  /\ LeavesOne(f, Null) => LeavesNone(f)
         /\ \A a : LeavesTwo(f, Null, a) => LeavesOne(f, a)
BY SlotIs DEF LeavesNone, LeavesOne, LeavesTwo, Num

LEMMA GoesEasy ==
  ASSUME Inductive, NEW t \in Task, NEW f, NEW r, Here(t, f, r), NEW g, Goto(t, g), Calmly(t),
         Replaces(f, g), g.at \notin Needy, Even(f, g)
  PROVE  Inductive'
<1>1. stack' = [stack EXCEPT ![t] = Cons(g, r)]
  BY GotoShape
<1>2. GoodTop(t, g)'
  BY EasyTop
<1>3. QED
  BY <1>1, <1>2, Goes

\* As CalmCalls, for a step that marks bits in a bitmap or adds to slips.
LEMMA CalmBits ==
  ASSUME NEW t \in Task, NEW f, NEW r, Here(t, f, r), UNCHANGED <<table, d_inode, data, file>>,
         RunsOn(t) \/ MaySleep
  PROVE  Calmly(t)
<1>1. Tables /\ halted = "no"
  BY HereIs
<1>2. /\ inode_table' = inode_table /\ last_allocated_inode' = last_allocated_inode
      /\ d_inode' = d_inode /\ data' = data /\ file' = file
  BY DEF table
<1>3. Tables'
  BY <1>1, <1>2 DEF Tables
<1>4. Plain
  BY <1>2 DEF Plain
<1>5. halted' = "no" /\ running' \in {t, Nobody}
  BY <1>1 DEF RunsOn, MaySleep
<1>6. QED
  BY <1>2, <1>3, <1>4, <1>5 DEF Calmly

\* As CalmCalls, for a step that writes an entry.
LEMMA CalmEntry ==
  ASSUME NEW t \in Task, NEW f, NEW r, Here(t, f, r), NEW de, NEW nr \in 0..NInodes,
         SetEntry(de, nr), UNCHANGED inode_table, DataAndTable, RunsOn(t) \/ MaySleep
  PROVE  Calmly(t)
<1>1. Tables /\ halted = "no"
  BY HereIs
<1>2. GoodData(data)
  BY <1>1 DEF Tables
<1>3. GoodData(data)'
  BY <1>2, EntrySet
<1>4. /\ inode_table' = inode_table /\ last_allocated_inode' = last_allocated_inode
      /\ d_inode' = d_inode /\ file' = file
  BY DEF DataAndTable, namei_vars
<1>5. Tables'
  BY <1>1, <1>3, <1>4 DEF Tables
<1>6. Plain
  BY <1>4 DEF Plain
<1>7. halted' = "no" /\ running' \in {t, Nobody}
  BY <1>1 DEF RunsOn, MaySleep
<1>8. QED
  BY <1>4, <1>5, <1>6, <1>7 DEF Calmly

LEMMA Nested ==
  ASSUME NEW B, NEW b, NEW k, NEW e, NEW c, c = [B[b] EXCEPT ![k] = e]
  PROVE  [B EXCEPT ![b][k] = e] = [B EXCEPT ![b] = c]
OBVIOUS

LEMMA EntryPut ==
  ASSUME NEW B, GoodData(B), NEW b, NEW k, NEW e, IsEntry(e)
  PROVE  GoodData([B EXCEPT ![b][k] = e])
<1>1. PICK c : c = [B[b] EXCEPT ![k] = e]
  OBVIOUS
<1>2. b \in 1..NBlocks => GoodBlock(c)
  <2>1. b \in 1..NBlocks => GoodBlock(B[b])
    BY DEF GoodData
  <2>2. QED
    BY <1>1, <2>1, BlockSet
<1>3. GoodData([B EXCEPT ![b] = c])
  BY <1>2, DataSet
<1>4. [B EXCEPT ![b][k] = e] = [B EXCEPT ![b] = c]
  BY ONLY <1>1, Nested
<1>5. QED
  BY <1>3, <1>4

-------------------------------------------------------------------------------
(* find_entry, add_entry and the end of a call. *)

LEMMA FindEntry == ASSUME Inductive, NEW t \in Task, find_entry(t) PROVE Inductive'
<1>1. PICK f, r : Here(t, f, r) /\ f.at = "find_entry"
  BY Acts DEF find_entry
<1>2. GoodFrame(f) /\ IsFrame(f) /\ GoodTop(t, f) /\ Top(t) = f /\ Tables
  BY <1>1, HereIs
<1>3. LeavesNone(f)
  BY <1>1, <1>2, Classes DEF BareAt
<1>4. f.i \in Slot
  BY <1>1, <1>2 DEF GoodFrame, HasI
<1>5. PICK m : m = inode_table[f.i] /\ IsInode(m)
  BY <1>2, <1>4, InodeAt
<1>6. m.zone[0] \in 0..NBlocks
  BY <1>5 DEF IsInode, Zone
<1>7. CASE m.zone[0] = 0
  <2>1. Return(t, 0) /\ RunsOn(t) /\ OnlyCalls
    BY <1>2, <1>5, <1>7 DEF find_entry
  <2>2. Calmly(t) /\ running' = t
    BY <1>1, <2>1, CalmCalls DEF RunsOn
  <2>3. Kind(f.at) = "entry"
    BY <1>1 DEF Kind, Whole, OpenCall, Claiming, Reading
  <2>4. Result("entry", 0)'
    BY DEF Result
  <2>5. QED
    BY <1>1, <1>3, <2>1, <2>2, <2>3, <2>4, ReturnsBare
<1>8. CASE m.zone[0] # 0
  <2>1. PICK g : g = [f EXCEPT !.at = "find_scan", !.bh = m.zone[0], !.de = m.size]
    OBVIOUS
  <2>2. /\ IsFrame(g) /\ g.at = "find_scan"
        /\ g.i = f.i /\ g.dir = f.dir /\ g.ino = f.ino /\ g.bh = m.zone[0]
    BY <1>2, <2>1 DEF IsFrame
  <2>3. GoodFrame(g)
    BY <1>1, <1>2, <1>6, <1>8, <2>2
       DEF GoodFrame, HasDir, HasIno, HasI, Putting, Reading, Claiming
  <2>4. Replaces(f, g)
    BY <1>1, <2>2, <2>3 DEF Replaces, Kind, Whole, OpenCall, Claiming, Reading
  <2>5. Goto(t, g) /\ MaySleep /\ OnlyCalls
    BY <1>2, <1>5, <1>8, <2>1 DEF find_entry
  <2>6. Calmly(t)
    BY <1>1, <2>5, CalmCalls
  <2>7. LeavesNone(g)
    BY <2>2, <2>3, Classes DEF BareAt
  <2>8. g.at \notin Needy
    BY <2>2 DEF Needy, Gives, Claimer, Got, Maybe, Found, Zoned, Claiming, Reading
  <2>9. QED
    BY <1>1, <1>3, <2>4, <2>5, <2>6, <2>7, <2>8, EvenIs, GoesEasy
<1>9. QED
  BY <1>7, <1>8

-------------------------------------------------------------------------------
(* add_entry and the end of a call. *)

LEMMA AddEntry == ASSUME Inductive, NEW t \in Task, add_entry(t) PROVE Inductive'
<1>1. PICK f, r : Here(t, f, r) /\ f.at = "add_entry"
  BY Acts DEF add_entry
<1>2. GoodFrame(f) /\ IsFrame(f) /\ GoodTop(t, f) /\ Top(t) = f /\ Tables
  BY <1>1, HereIs
<1>3. LeavesNone(f) /\ f.dir = Null /\ f.ino = Null
  BY <1>1, <1>2, Classes, Blank DEF BareAt
<1>4. f.i \in Slot
  BY <1>1, <1>2 DEF GoodFrame, HasI
<1>5. CASE inode_table[f.i].zone[0] = 0
  <2>1. Return(t, 0) /\ RunsOn(t) /\ OnlyCalls
    BY <1>2, <1>5 DEF add_entry
  <2>2. Calmly(t)
    BY <1>1, <2>1, CalmCalls
  <2>3. running' = t
    BY <2>1 DEF RunsOn
  <2>4. Kind(f.at) = "nothing"
    BY <1>1 DEF Kind, Whole, OpenCall, Claiming, Reading
  <2>5. Result("nothing", 0)'
    BY DEF Result
  <2>6. QED
    BY <1>1, <1>3, <2>1, <2>2, <2>3, <2>4, <2>5, ReturnsBare
<1>6. CASE inode_table[f.i].zone[0] # 0
  <2>1. PICK g : g = [f EXCEPT !.at = "add_scan", !.bh = inode_table[f.i].zone[0]]
    OBVIOUS
  <2>2. /\ IsFrame(g) /\ g.at = "add_scan"
        /\ g.i = f.i /\ g.dir = f.dir /\ g.ino = f.ino
    BY <1>1, <1>2, <1>3, <2>1 DEF IsFrame
  <2>3. GoodFrame(g)
    BY <1>1, <1>2, <1>3, <2>2 DEF GoodFrame, HasDir, HasIno, HasI, Putting, Reading, Claiming
  <2>4. Replaces(f, g)
    BY <1>1, <1>2, <2>2, <2>3 DEF Replaces, Kind, Whole, OpenCall, Claiming, Reading
  <2>5. Goto(t, g) /\ MaySleep /\ OnlyCalls
    BY <1>2, <1>6, <2>1 DEF add_entry
  <2>6. Calmly(t)
    BY <1>1, <2>5, CalmCalls
  <2>7. LeavesNone(g)
    BY <2>2, <2>3, Classes DEF BareAt
  <2>8. g.at \notin Needy
    BY <2>2 DEF Needy, Gives, Claimer, Got, Maybe, Found, Zoned, Claiming, Reading
  <2>9. Even(f, g)
    BY <1>1, <1>3, <2>2, <2>7, EvenIs
  <2>10. QED
    BY <1>1, <2>4, <2>5, <2>6, <2>8, <2>9, GoesEasy
<1>7. QED
  BY <1>5, <1>6

LEMMA AddBlock == ASSUME Inductive, NEW t \in Task, add_block(t) PROVE Inductive'
<1>1. PICK f, r : Here(t, f, r) /\ f.at = "add_block"
  BY Acts DEF add_block
<1>2. GoodFrame(f) /\ IsFrame(f) /\ GoodTop(t, f) /\ Top(t) = f /\ Tables
  BY <1>1, HereIs
<1>3. LeavesNone(f) /\ f.dir = Null /\ f.ino = Null
  BY <1>1, <1>2, Classes, Blank DEF BareAt
<1>4. CASE f.v = 0
  <2>1. Return(t, 0) /\ RunsOn(t) /\ OnlyCalls
    BY <1>2, <1>4 DEF add_block
  <2>2. Calmly(t)
    BY <1>1, <2>1, CalmCalls
  <2>3. running' = t
    BY <2>1 DEF RunsOn
  <2>4. Kind(f.at) = "nothing"
    BY <1>1 DEF Kind, Whole, OpenCall, Claiming, Reading
  <2>5. Result("nothing", 0)'
    BY DEF Result
  <2>6. QED
    BY <1>1, <1>3, <2>1, <2>2, <2>3, <2>4, <2>5, ReturnsBare
<1>5. CASE f.v # 0
  <2>1. PICK g : g = [f EXCEPT !.at = "add_scan", !.n = 1, !.bh = f.v]
    OBVIOUS
  <2>2. /\ IsFrame(g) /\ g.at = "add_scan"
        /\ g.i = f.i /\ g.dir = f.dir /\ g.ino = f.ino
    BY <1>1, <1>2, <1>3, <2>1 DEF IsFrame
  <2>3. GoodFrame(g)
    BY <1>1, <1>2, <1>3, <2>2 DEF GoodFrame, HasDir, HasIno, HasI, Putting, Reading, Claiming
  <2>4. Replaces(f, g)
    BY <1>1, <1>2, <2>2, <2>3 DEF Replaces, Kind, Whole, OpenCall, Claiming, Reading
  <2>5. Goto(t, g) /\ MaySleep /\ OnlyCalls
    BY <1>2, <1>5, <2>1 DEF add_block
  <2>6. Calmly(t)
    BY <1>1, <2>5, CalmCalls
  <2>7. LeavesNone(g)
    BY <2>2, <2>3, Classes DEF BareAt
  <2>8. g.at \notin Needy
    BY <2>2 DEF Needy, Gives, Claimer, Got, Maybe, Found, Zoned, Claiming, Reading
  <2>9. Even(f, g)
    BY <1>1, <1>3, <2>2, <2>7, EvenIs
  <2>10. QED
    BY <1>1, <2>4, <2>5, <2>6, <2>8, <2>9, GoesEasy
<1>6. QED
  BY <1>4, <1>5

-------------------------------------------------------------------------------
(* get_dir and namei. *)

LEMMA GetDirNext == ASSUME Inductive, NEW t \in Task, get_dir_next(t) PROVE Inductive'
<1>1. PICK f, r : Here(t, f, r) /\ f.at = "get_dir_next"
  BY Acts DEF get_dir_next
<1>2. GoodFrame(f) /\ IsFrame(f) /\ GoodTop(t, f) /\ Top(t) = f /\ Tables
  BY <1>1, HereIs
<1>3. f.dir \in Slot /\ LeavesOne(f, f.dir) /\ f.ino = Null
  BY <1>1, <1>2, Classes, Blank DEF DirAt
<1>4. CASE ~ IsDir(f.dir) \/ Deleted(f.dir)
  <2>1. Drop(t, <<f.dir>>, 0) /\ RunsOn(t) /\ OnlyCalls
    BY <1>2, <1>4 DEF get_dir_next
  <2>2. Calmly(t)
    BY <1>1, <2>1, CalmCalls
  <2>3. Droppable(f)
    BY <1>1 DEF Droppable, Kind, Whole, OpenCall, Claiming, Reading
  <2>4. QED
    BY <1>1, <1>3, <2>1, <2>2, <2>3, DropsOne
<1>5. CASE ~ (~ IsDir(f.dir) \/ Deleted(f.dir)) /\ f.path = <<>>
  <2>1. Return(t, f.dir) /\ RunsOn(t) /\ OnlyCalls
    BY <1>2, <1>5 DEF get_dir_next
  <2>2. Calmly(t)
    BY <1>1, <2>1, CalmCalls
  <2>3. running' = t
    BY <2>1 DEF RunsOn
  <2>4. Kind(f.at) = "inode or none"
    BY <1>1 DEF Kind, Whole, OpenCall, Claiming, Reading
  <2>5. QED
    BY <1>1, <1>3, <2>1, <2>2, <2>3, <2>4, ReturnsInode
<1>6. CASE ~ (~ IsDir(f.dir) \/ Deleted(f.dir)) /\ f.path # <<>>
  <2>1. PICK g : g = [f EXCEPT !.at = "get_dir_found"]
    OBVIOUS
  <2>2. /\ IsFrame(g) /\ g.at = "get_dir_found"
        /\ g.dir = f.dir /\ g.ino = f.ino
    BY <1>1, <1>2, <1>3, <2>1 DEF IsFrame
  <2>3. GoodFrame(g)
    BY <1>1, <1>2, <1>3, <2>2 DEF GoodFrame, HasDir, HasIno, HasI, Putting, Reading, Claiming
  <2>4. Replaces(f, g)
    BY <1>1, <1>2, <2>2, <2>3 DEF Replaces, Kind, Whole, OpenCall, Claiming, Reading
  <2>5. PICK c : c = Find(f.dir, f.path[1])
    OBVIOUS
  <2>6. Call(t, c, g) /\ RunsOn(t) /\ OnlyCalls
    BY <1>2, <1>6, <2>1, <2>5 DEF get_dir_next
  <2>7. Calmly(t)
    BY <1>1, <2>6, CalmCalls
  <2>8. Awaits(g.at) = "entry"
    BY <2>2 DEF Awaits, Claimer, Got, Maybe, Found, Zoned, Claiming, Reading
  <2>9. Callee(c, Awaits(g.at))
    BY <1>3, <2>5, <2>8, Callees
  <2>10. Owning(f, g)
    BY <1>3, <2>2, OwningIs
  <2>11. QED
    BY <1>1, <2>4, <2>6, <2>7, <2>9, <2>10, CallsFree
<1>7. QED
  BY <1>4, <1>5, <1>6

LEMMA GetDirGot == ASSUME Inductive, NEW t \in Task, get_dir_got(t) PROVE Inductive'
<1>1. PICK f, r : Here(t, f, r) /\ f.at = "get_dir_got"
  BY Acts DEF get_dir_got
<1>2. GoodFrame(f) /\ IsFrame(f) /\ GoodTop(t, f) /\ Top(t) = f /\ Tables
  BY <1>1, HereIs
<1>3. LeavesOne(f, f.v) /\ f.dir = Null /\ f.ino = Null
  BY <1>1, <1>2, Classes, Blank DEF GivenAt
<1>4. f.v \in Slot
  BY <1>1, <1>2 DEF GoodTop, Got
<1>5. CASE TRUE
  <2>1. PICK g : g = [f EXCEPT !.at = "get_dir_next", !.dir = f.v, !.path = Tail(@)]
    OBVIOUS
  <2>2. /\ IsFrame(g) /\ g.at = "get_dir_next"
        /\ g.dir = f.v /\ g.ino = Null
    BY <1>1, <1>2, <1>3, <2>1 DEF IsFrame
  <2>3. GoodFrame(g)
    BY <1>1, <1>2, <1>3, <1>4, <2>2 DEF GoodFrame, HasDir, HasIno, HasI, Putting, Reading,
       Claiming
  <2>4. Replaces(f, g)
    BY <1>1, <1>2, <2>2, <2>3 DEF Replaces, Kind, Whole, OpenCall, Claiming, Reading
  <2>5. Goto(t, g) /\ RunsOn(t) /\ OnlyCalls
    BY <1>2, <1>5, <2>1 DEF get_dir_got
  <2>6. Calmly(t)
    BY <1>1, <2>5, CalmCalls
  <2>7. LeavesOne(g, g.dir)
    BY <2>2, <2>3, Classes DEF DirAt
  <2>8. g.at \notin Needy
    BY <2>2 DEF Needy, Gives, Claimer, Got, Maybe, Found, Zoned, Claiming, Reading
  <2>9. Even(f, g)
    BY <1>1, <1>3, <2>2, <2>7, EvenIs
  <2>10. QED
    BY <1>1, <2>4, <2>5, <2>6, <2>8, <2>9, GoesEasy
<1>6. QED
  BY <1>5

LEMMA GetDirFound == ASSUME Inductive, NEW t \in Task, get_dir_found(t) PROVE Inductive'
<1>1. PICK f, r : Here(t, f, r) /\ f.at = "get_dir_found"
  BY Acts DEF get_dir_found
<1>2. GoodFrame(f) /\ IsFrame(f) /\ GoodTop(t, f) /\ Top(t) = f /\ Tables
  BY <1>1, HereIs
<1>3. f.dir \in Slot /\ LeavesOne(f, f.dir) /\ f.ino = Null
  BY <1>1, <1>2, Classes, Blank DEF DirAt
<1>4. f.v # 0 => Entry(f.v).inode \in 1..NInodes
  BY <1>1, <1>2 DEF GoodTop, Found
<1>5. CASE f.v = 0
  <2>1. Drop(t, <<f.dir>>, 0) /\ RunsOn(t) /\ OnlyCalls
    BY <1>2, <1>5 DEF get_dir_found
  <2>2. Calmly(t)
    BY <1>1, <2>1, CalmCalls
  <2>3. Droppable(f)
    BY <1>1 DEF Droppable, Kind, Whole, OpenCall, Claiming, Reading
  <2>4. QED
    BY <1>1, <1>3, <2>1, <2>2, <2>3, DropsOne
<1>6. CASE f.v # 0
  <2>1. PICK g : g = [f EXCEPT !.at = "get_dir_got", !.dir = Null]
    OBVIOUS
  <2>2. /\ IsFrame(g) /\ g.at = "get_dir_got"
        /\ g.dir = Null /\ g.ino = Null
    BY <1>1, <1>2, <1>3, <2>1 DEF IsFrame
  <2>3. GoodFrame(g)
    BY <1>1, <1>2, <1>3, <2>2 DEF GoodFrame, HasDir, HasIno, HasI, Putting, Reading, Claiming
  <2>4. Replaces(f, g)
    BY <1>1, <1>2, <2>2, <2>3 DEF Replaces, Kind, Whole, OpenCall, Claiming, Reading
  <2>5. PICK nr : nr = Entry(f.v).inode
    OBVIOUS
  <2>6. nr \in 1..NInodes
    BY <1>4, <1>6, <2>5
  <2>7. Becomes(t, <<Iput(f.dir)>> \o Iget(nr) \o <<g>>) /\ RunsOn(t) /\ OnlyCalls
    BY <1>2, <1>6, <2>1, <2>5 DEF get_dir_found, Enter
  <2>8. Calmly(t)
    BY <1>1, <2>7, CalmCalls
  <2>9. Awaits(g.at) = "inode"
    BY <2>2 DEF Awaits, Claimer, Got, Maybe, Found, Zoned, Claiming, Reading
  <2>10. Owned(f, g, f.dir)
    BY <1>3, <2>2, OwningIs
  <2>11. QED
    BY <1>1, <1>3, <2>4, <2>6, <2>7, <2>8, <2>9, <2>10, CallsEnter
<1>7. QED
  BY <1>5, <1>6

LEMMA NameiFound == ASSUME Inductive, NEW t \in Task, namei_found(t) PROVE Inductive'
<1>1. PICK f, r : Here(t, f, r) /\ f.at = "namei_found"
  BY Acts DEF namei_found
<1>2. GoodFrame(f) /\ IsFrame(f) /\ GoodTop(t, f) /\ Top(t) = f /\ Tables
  BY <1>1, HereIs
<1>3. f.dir \in Slot /\ LeavesOne(f, f.dir) /\ f.ino = Null
  BY <1>1, <1>2, Classes, Blank DEF DirAt
<1>4. f.v # 0 => Entry(f.v).inode \in 1..NInodes
  BY <1>1, <1>2 DEF GoodTop, Found
<1>5. CASE f.v = 0
  <2>1. Drop(t, <<f.dir>>, 0) /\ RunsOn(t) /\ OnlyCalls
    BY <1>2, <1>5 DEF namei_found
  <2>2. Calmly(t)
    BY <1>1, <2>1, CalmCalls
  <2>3. Droppable(f)
    BY <1>1 DEF Droppable, Kind, Whole, OpenCall, Claiming, Reading
  <2>4. QED
    BY <1>1, <1>3, <2>1, <2>2, <2>3, DropsOne
<1>6. CASE f.v # 0
  <2>1. PICK g : g = [f EXCEPT !.at = "namei_got", !.dir = Null]
    OBVIOUS
  <2>2. /\ IsFrame(g) /\ g.at = "namei_got"
        /\ g.dir = Null /\ g.ino = Null
    BY <1>1, <1>2, <1>3, <2>1 DEF IsFrame
  <2>3. GoodFrame(g)
    BY <1>1, <1>2, <1>3, <2>2 DEF GoodFrame, HasDir, HasIno, HasI, Putting, Reading, Claiming
  <2>4. Replaces(f, g)
    BY <1>1, <1>2, <2>2, <2>3 DEF Replaces, Kind, Whole, OpenCall, Claiming, Reading
  <2>5. PICK nr : nr = Entry(f.v).inode
    OBVIOUS
  <2>6. nr \in 1..NInodes
    BY <1>4, <1>6, <2>5
  <2>7. Becomes(t, <<Iput(f.dir)>> \o Iget(nr) \o <<g>>) /\ RunsOn(t) /\ OnlyCalls
    BY <1>2, <1>6, <2>1, <2>5 DEF namei_found, Enter
  <2>8. Calmly(t)
    BY <1>1, <2>7, CalmCalls
  <2>9. Awaits(g.at) = "inode"
    BY <2>2 DEF Awaits, Claimer, Got, Maybe, Found, Zoned, Claiming, Reading
  <2>10. Owned(f, g, f.dir)
    BY <1>3, <2>2, OwningIs
  <2>11. QED
    BY <1>1, <1>3, <2>4, <2>6, <2>7, <2>8, <2>9, <2>10, CallsEnter
<1>7. QED
  BY <1>5, <1>6

LEMMA NameiCall == ASSUME Inductive, NEW t \in Task, namei(t) PROVE Inductive'
<1>1. PICK f, r : Here(t, f, r) /\ f.at = "namei"
  BY Acts DEF namei
<1>2. GoodFrame(f) /\ IsFrame(f) /\ GoodTop(t, f) /\ Top(t) = f /\ Tables
  BY <1>1, HereIs
<1>3. LeavesOne(f, f.v) /\ f.dir = Null /\ f.ino = Null
  BY <1>1, <1>2, Classes, Blank DEF GivenAt
<1>4. f.v \in Slot \cup {Null}
  BY <1>1, <1>2 DEF GoodTop, Maybe
<1>5. CASE f.v = Null
  <2>1. Return(t, Null) /\ RunsOn(t) /\ OnlyCalls
    BY <1>2, <1>5 DEF namei
  <2>2. Calmly(t)
    BY <1>1, <2>1, CalmCalls
  <2>3. LeavesNone(f)
    BY <1>3, <1>5, NullIs
  <2>4. running' = t
    BY <2>1 DEF RunsOn
  <2>5. Kind(f.at) = "inode or none"
    BY <1>1 DEF Kind, Whole, OpenCall, Claiming, Reading
  <2>6. r # <<>>
    BY <1>1, <2>5, HasCaller, Kinds
  <2>7. QED
    BY <1>1, <2>1, <2>2, <2>3, <2>4, <2>5, <2>6, ReturnsNull
<1>6. CASE f.v # Null
  <2>1. PICK g : g = [f EXCEPT !.at = "namei_found", !.dir = f.v]
    OBVIOUS
  <2>2. /\ IsFrame(g) /\ g.at = "namei_found"
        /\ g.dir = f.v /\ g.ino = Null
    BY <1>1, <1>2, <1>3, <2>1 DEF IsFrame
  <2>3. GoodFrame(g)
    BY <1>1, <1>2, <1>3, <1>4, <1>6, <2>2 DEF GoodFrame, HasDir, HasIno, HasI, Putting,
       Reading, Claiming
  <2>4. Replaces(f, g)
    BY <1>1, <1>2, <2>2, <2>3 DEF Replaces, Kind, Whole, OpenCall, Claiming, Reading
  <2>5. PICK c : c = Find(f.v, Last(f.path))
    OBVIOUS
  <2>6. Call(t, c, g) /\ RunsOn(t) /\ OnlyCalls
    BY <1>2, <1>6, <2>1, <2>5 DEF namei
  <2>7. Calmly(t)
    BY <1>1, <2>6, CalmCalls
  <2>8. Awaits(g.at) = "entry"
    BY <2>2 DEF Awaits, Claimer, Got, Maybe, Found, Zoned, Claiming, Reading
  <2>9. Callee(c, Awaits(g.at))
    BY <1>4, <1>6, <2>5, <2>8, Callees
  <2>10. Owning(f, g)
    BY <1>3, <2>2, OwningIs
  <2>11. QED
    BY <1>1, <2>4, <2>6, <2>7, <2>9, <2>10, CallsFree
<1>7. QED
  BY <1>5, <1>6

-------------------------------------------------------------------------------
(* open_namei. *)

LEMMA OpenDir == ASSUME Inductive, NEW t \in Task, open_dir(t) PROVE Inductive'
<1>1. PICK f, r : Here(t, f, r) /\ f.at = "open"
  BY Acts DEF open_dir
<1>2. GoodFrame(f) /\ IsFrame(f) /\ GoodTop(t, f) /\ Top(t) = f /\ Tables
  BY <1>1, HereIs
<1>3. LeavesOne(f, f.v) /\ f.dir = Null /\ f.ino = Null
  BY <1>1, <1>2, Classes, Blank DEF GivenAt
<1>4. f.v \in Slot \cup {Null}
  BY <1>1, <1>2 DEF GoodTop, Maybe
<1>5. CASE f.v = Null
  <2>1. Drop(t, <<>>, 0) /\ RunsOn(t) /\ OnlyCalls
    BY <1>2, <1>5 DEF open_dir
  <2>2. Calmly(t)
    BY <1>1, <2>1, CalmCalls
  <2>3. Droppable(f)
    BY <1>1 DEF Droppable, Kind, Whole, OpenCall, Claiming, Reading
  <2>4. LeavesNone(f)
    BY <1>3, <1>5, NullIs
  <2>5. QED
    BY <1>1, <1>3, <2>4, <2>1, <2>2, <2>3, DropsNone
<1>6. CASE f.v # Null
  <2>1. PICK g : g = [f EXCEPT !.at = "open_found", !.dir = f.v]
    OBVIOUS
  <2>2. /\ IsFrame(g) /\ g.at = "open_found"
        /\ g.dir = f.v /\ g.ino = Null
    BY <1>1, <1>2, <1>3, <2>1 DEF IsFrame
  <2>3. GoodFrame(g)
    BY <1>1, <1>2, <1>3, <1>4, <1>6, <2>2 DEF GoodFrame, HasDir, HasIno, HasI, Putting,
       Reading, Claiming
  <2>4. Replaces(f, g)
    BY <1>1, <1>2, <2>2, <2>3 DEF Replaces, Kind, Whole, OpenCall, Claiming, Reading
  <2>5. PICK c : c = Find(f.v, Last(f.path))
    OBVIOUS
  <2>6. Call(t, c, g) /\ RunsOn(t) /\ OnlyCalls
    BY <1>2, <1>6, <2>1, <2>5 DEF open_dir
  <2>7. Calmly(t)
    BY <1>1, <2>6, CalmCalls
  <2>8. Awaits(g.at) = "entry"
    BY <2>2 DEF Awaits, Claimer, Got, Maybe, Found, Zoned, Claiming, Reading
  <2>9. Callee(c, Awaits(g.at))
    BY <1>4, <1>6, <2>5, <2>8, Callees
  <2>10. Owning(f, g)
    BY <1>3, <2>2, OwningIs
  <2>11. QED
    BY <1>1, <2>4, <2>6, <2>7, <2>9, <2>10, CallsFree
<1>7. QED
  BY <1>5, <1>6

LEMMA OpenFound == ASSUME Inductive, NEW t \in Task, open_found(t) PROVE Inductive'
<1>1. PICK f, r : Here(t, f, r) /\ f.at = "open_found"
  BY Acts DEF open_found
<1>2. GoodFrame(f) /\ IsFrame(f) /\ GoodTop(t, f) /\ Top(t) = f /\ Tables
  BY <1>1, HereIs
<1>3. f.dir \in Slot /\ LeavesOne(f, f.dir) /\ f.ino = Null
  BY <1>1, <1>2, Classes, Blank DEF DirAt
<1>4. f.v # 0 => Entry(f.v).inode \in 1..NInodes
  BY <1>1, <1>2 DEF GoodTop, Found
<1>5. CASE f.v # 0
  <2>1. PICK g : g = [f EXCEPT !.at = "open_got", !.dir = Null]
    OBVIOUS
  <2>2. /\ IsFrame(g) /\ g.at = "open_got"
        /\ g.dir = Null /\ g.ino = Null
    BY <1>1, <1>2, <1>3, <2>1 DEF IsFrame
  <2>3. GoodFrame(g)
    BY <1>1, <1>2, <1>3, <2>2 DEF GoodFrame, HasDir, HasIno, HasI, Putting, Reading, Claiming
  <2>4. Replaces(f, g)
    BY <1>1, <1>2, <2>2, <2>3 DEF Replaces, Kind, Whole, OpenCall, Claiming, Reading
  <2>5. PICK nr : nr = Entry(f.v).inode
    OBVIOUS
  <2>6. nr \in 1..NInodes
    BY <1>4, <1>5, <2>5
  <2>7. Becomes(t, <<Iput(f.dir)>> \o Iget(nr) \o <<g>>) /\ RunsOn(t) /\ OnlyCalls
    BY <1>2, <1>5, <2>1, <2>5 DEF open_found, Enter
  <2>8. Calmly(t)
    BY <1>1, <2>7, CalmCalls
  <2>9. Awaits(g.at) = "inode"
    BY <2>2 DEF Awaits, Claimer, Got, Maybe, Found, Zoned, Claiming, Reading
  <2>10. Owned(f, g, f.dir)
    BY <1>3, <2>2, OwningIs
  <2>11. QED
    BY <1>1, <1>3, <2>4, <2>6, <2>7, <2>8, <2>9, <2>10, CallsEnter
<1>6. CASE f.v = 0 /\ (f.n = 0 \/ Deleted(f.dir))
  <2>1. Drop(t, <<f.dir>>, 0) /\ RunsOn(t) /\ OnlyCalls
    BY <1>2, <1>6 DEF open_found
  <2>2. Calmly(t)
    BY <1>1, <2>1, CalmCalls
  <2>3. Droppable(f)
    BY <1>1 DEF Droppable, Kind, Whole, OpenCall, Claiming, Reading
  <2>4. QED
    BY <1>1, <1>3, <2>1, <2>2, <2>3, DropsOne
<1>7. CASE f.v = 0 /\ ~ (f.n = 0 \/ Deleted(f.dir))
  <2>1. PICK g : g = [f EXCEPT !.at = "open_new"]
    OBVIOUS
  <2>2. /\ IsFrame(g) /\ g.at = "open_new"
        /\ g.dir = f.dir /\ g.ino = Null
    BY <1>1, <1>2, <1>3, <2>1 DEF IsFrame
  <2>3. GoodFrame(g)
    BY <1>1, <1>2, <1>3, <2>2 DEF GoodFrame, HasDir, HasIno, HasI, Putting, Reading, Claiming
  <2>4. Replaces(f, g)
    BY <1>1, <1>2, <2>2, <2>3 DEF Replaces, Kind, Whole, OpenCall, Claiming, Reading
  <2>5. Becomes(t, NewInode \o <<g>>) /\ RunsOn(t) /\ OnlyCalls
    BY <1>2, <1>7, <2>1 DEF open_found
  <2>6. Calmly(t)
    BY <1>1, <2>5, CalmCalls
  <2>7. Awaits(g.at) = "inode or none"
    BY <2>2 DEF Awaits, Claimer, Got, Maybe, Found, Zoned, Claiming, Reading
  <2>8. Owning(f, g)
    BY <1>3, <2>2, OwningIs
  <2>9. QED
    BY <1>1, <1>3, <2>4, <2>5, <2>6, <2>7, <2>8, CallsNew
<1>8. QED
  BY <1>5, <1>6, <1>7

LEMMA OpenNew == ASSUME Inductive, NEW t \in Task, open_new(t) PROVE Inductive'
<1>1. PICK f, r : Here(t, f, r) /\ f.at = "open_new"
  BY Acts DEF open_new
<1>2. GoodFrame(f) /\ IsFrame(f) /\ GoodTop(t, f) /\ Top(t) = f /\ Tables
  BY <1>1, HereIs
<1>3. /\ f.dir \in Slot /\ LeavesTwo(f, f.v, f.dir) /\ LeavesTwo(f, f.dir, f.v)
      /\ f.ino = Null
  BY <1>1, <1>2, Classes, Blank DEF DirGivenAt
<1>4. f.v \in Slot \cup {Null}
  BY <1>1, <1>2 DEF GoodTop, Maybe
<1>5. CASE f.v = Null
  <2>1. Drop(t, <<f.dir>>, 0) /\ RunsOn(t) /\ inode_table' = inode_table /\ OnlyTable
    BY <1>2, <1>5 DEF open_new
  <2>2. Calmly(t)
    BY <1>1, <2>1, CalmCalls DEF OnlyCalls, OnlyTable, table
  <2>3. Droppable(f)
    BY <1>1 DEF Droppable, Kind, Whole, OpenCall, Claiming, Reading
  <2>4. LeavesOne(f, f.dir)
    BY <1>3, <1>5, NullIs
  <2>5. QED
    BY <1>1, <1>3, <2>4, <2>1, <2>2, <2>3, DropsOne
<1>6. CASE f.v # Null
  <2>1. f.v \in Slot
    BY <1>4, <1>6
  <2>2. PICK m : m = [inode_table[f.v] EXCEPT !.mode = "reg", !.dirt = TRUE]
    OBVIOUS
  <2>3. IsInode(inode_table[f.v])
    BY <1>2, <2>1, InodeAt
  <2>4. IsInode(m) /\ SameUse(f.v, m)
    BY <2>2, <2>3 DEF IsInode, SameUse
  <2>5. PICK g : g = [f EXCEPT !.at = "open_added", !.ino = f.v]
    OBVIOUS
  <2>6. /\ IsFrame(g) /\ g.at = "open_added"
        /\ g.dir = f.dir /\ g.ino = f.v
    BY <1>1, <1>2, <1>3, <2>5 DEF IsFrame
  <2>7. GoodFrame(g)
    BY <1>1, <1>2, <1>3, <2>1, <2>6 DEF GoodFrame, HasDir, HasIno, HasI, Putting, Reading,
       Claiming
  <2>8. Replaces(f, g)
    BY <1>1, <1>2, <2>6, <2>7 DEF Replaces, Kind, Whole, OpenCall, Claiming, Reading
  <2>9. PICK c : c = Add(f.dir, Last(f.path))
    OBVIOUS
  <2>10. Call(t, c, g) /\ RunsOn(t) /\ Put(f.v, m) /\ OnlyTable
    BY <1>2, <2>2, <1>6, <2>5, <2>9 DEF open_new
  <2>11. Calmly(t)
    BY <1>1, <2>1, <2>4, <2>10, CalmTable
  <2>12. Awaits(g.at) = "nothing"
    BY <2>6 DEF Awaits, Claimer, Got, Maybe, Found, Zoned, Claiming, Reading
  <2>13. Callee(c, Awaits(g.at))
    BY <1>3, <2>9, <2>12, Callees
  <2>14. Owning(f, g)
    BY <1>3, <2>6, OwningIs
  <2>15. QED
    BY <1>1, <2>8, <2>10, <2>11, <2>13, <2>14, CallsFree
<1>7. QED
  BY <1>5, <1>6

LEMMA OpenAdded == ASSUME Inductive, NEW t \in Task, open_added(t) PROVE Inductive'
<1>1. PICK f, r : Here(t, f, r) /\ f.at = "open_added"
  BY Acts, Zenon DEF open_added
<1>2. GoodFrame(f) /\ IsFrame(f) /\ GoodTop(t, f) /\ Top(t) = f /\ Tables
  BY <1>1, HereIs
<1>3. /\ f.dir \in Slot /\ f.ino \in Slot
      /\ LeavesTwo(f, f.dir, f.ino) /\ LeavesTwo(f, f.ino, f.dir)
  BY <1>1, <1>2, Classes DEF BothAt
<1>4. IsInode(inode_table[f.ino])
  BY <1>2, <1>3, InodeAt
<1>5. CASE f.v = 0
  <2>1. PICK m : m = [inode_table[f.ino] EXCEPT !.nlinks = @ - 1]
    OBVIOUS
  <2>2. IsInode(m) /\ SameUse(f.ino, m)
    BY <1>4, <2>1 DEF IsInode, SameUse
  <2>3. /\ Drop(t, <<f.ino, f.dir>>, 0) /\ RunsOn(t) /\ Put(f.ino, m)
        /\ UNCHANGED <<last_allocated_inode, d_inode, data, namei_vars>>
    BY <1>2, <2>1, <1>5, Zenon DEF open_added
  <2>4. GoodDisk(d_inode)' /\ GoodData(data)'
    BY <1>2, <2>3, DiskKept
  <2>5. Calmly(t)
    BY <1>1, <1>3, <2>2, <2>3, <2>4, CalmPut
  <2>6. Droppable(f)
    BY <1>1 DEF Droppable, Kind, Whole, OpenCall, Claiming, Reading
  <2>7. QED
    BY <1>1, <1>3, <2>3, <2>5, <2>6, DropsTwo
<1>6. CASE f.v # 0
  <2>1. inode_table[f.ino].num \in 0..NInodes
    BY <1>4 DEF IsInode
  <2>2. PICK g : g = [f EXCEPT !.at = "opened", !.dir = Null]
    OBVIOUS
  <2>3. /\ IsFrame(g) /\ g.at = "opened"
        /\ g.dir = Null /\ g.ino = f.ino
    BY <1>1, <1>2, <1>3, <2>2 DEF IsFrame
  <2>4. GoodFrame(g)
    BY <1>1, <1>2, <1>3, <2>3 DEF GoodFrame, HasDir, HasIno, HasI, Putting, Reading, Claiming
  <2>5. Replaces(f, g)
    BY <1>1, <1>2, <2>3, <2>4 DEF Replaces, Kind, Whole, OpenCall, Claiming, Reading
  <2>6. Call(t, Iput(f.dir), g) /\ RunsOn(t) /\ SetEntry(f.v, inode_table[f.ino].num)
        /\ inode_table' = inode_table /\ DataAndTable
    BY <1>2, <1>6, <2>2 DEF open_added, DataAndTable
  <2>7. Calmly(t)
    BY <1>1, <1>2, <2>1, <2>6, CalmEntry
  <2>8. Awaits(g.at) = "nothing"
    BY <2>3 DEF Awaits, Claimer, Got, Maybe, Found, Zoned, Claiming, Reading
  <2>9. Owned(f, g, f.dir)
    BY <1>3, <2>3, OwningIs
  <2>10. QED
    BY <1>1, <1>3, <2>5, <2>6, <2>7, <2>8, <2>9, CallsIput
<1>7. QED
  BY <1>5, <1>6

LEMMA OpenGot == ASSUME Inductive, NEW t \in Task, open_got(t) PROVE Inductive'
<1>1. PICK f, r : Here(t, f, r) /\ f.at = "open_got"
  BY Acts DEF open_got
<1>2. GoodFrame(f) /\ IsFrame(f) /\ GoodTop(t, f) /\ Top(t) = f /\ Tables
  BY <1>1, HereIs
<1>3. LeavesOne(f, f.v) /\ f.dir = Null /\ f.ino = Null
  BY <1>1, <1>2, Classes, Blank DEF GivenAt
<1>4. f.v \in Slot
  BY <1>1, <1>2 DEF GoodTop, Got
<1>5. CASE (IsDir(f.v) /\ f.n = 1) \/ Deleted(f.v)
  <2>1. Drop(t, <<f.v>>, 0) /\ RunsOn(t) /\ OnlyCalls
    BY <1>2, <1>5 DEF open_got
  <2>2. Calmly(t)
    BY <1>1, <2>1, CalmCalls
  <2>3. Droppable(f)
    BY <1>1 DEF Droppable, Kind, Whole, OpenCall, Claiming, Reading
  <2>4. QED
    BY <1>1, <1>3, <1>4, <2>1, <2>2, <2>3, DropsOne
<1>6. CASE ~ Deleted(f.v) /\ ~ IsDir(f.v) /\ f.n = 1
  <2>1. PICK g : g = [f EXCEPT !.at = "opened", !.ino = f.v]
    OBVIOUS
  <2>2. /\ IsFrame(g) /\ g.at = "opened"
        /\ g.dir = Null /\ g.ino = f.v
    BY <1>1, <1>2, <1>3, <2>1 DEF IsFrame
  <2>3. GoodFrame(g)
    BY <1>1, <1>2, <1>3, <1>4, <2>2 DEF GoodFrame, HasDir, HasIno, HasI, Putting, Reading,
       Claiming
  <2>4. Replaces(f, g)
    BY <1>1, <1>2, <2>2, <2>3 DEF Replaces, Kind, Whole, OpenCall, Claiming, Reading
  <2>5. PICK c : c = [Frame("truncate") EXCEPT !.i = f.v]
    OBVIOUS
  <2>6. Call(t, c, g) /\ RunsOn(t) /\ OnlyCalls
    BY <1>2, <1>6, <2>1, <2>5 DEF open_got
  <2>7. Calmly(t)
    BY <1>1, <2>6, CalmCalls
  <2>8. Awaits(g.at) = "nothing"
    BY <2>2 DEF Awaits, Claimer, Got, Maybe, Found, Zoned, Claiming, Reading
  <2>9. Callee(c, Awaits(g.at))
    BY <1>4, <2>5, <2>8, Callees
  <2>10. Owning(f, g)
    BY <1>3, <2>2, OwningIs
  <2>11. QED
    BY <1>1, <2>4, <2>6, <2>7, <2>9, <2>10, CallsFree
<1>7. CASE ~ Deleted(f.v) /\ f.n # 1
  <2>1. PICK g : g = [f EXCEPT !.at = "opened", !.ino = f.v]
    OBVIOUS
  <2>2. /\ IsFrame(g) /\ g.at = "opened"
        /\ g.dir = Null /\ g.ino = f.v
    BY <1>1, <1>2, <1>3, <2>1 DEF IsFrame
  <2>3. GoodFrame(g)
    BY <1>1, <1>2, <1>3, <1>4, <2>2 DEF GoodFrame, HasDir, HasIno, HasI, Putting, Reading,
       Claiming
  <2>4. Replaces(f, g)
    BY <1>1, <1>2, <2>2, <2>3 DEF Replaces, Kind, Whole, OpenCall, Claiming, Reading
  <2>5. Goto(t, g) /\ RunsOn(t) /\ OnlyCalls
    BY <1>2, <1>7, <2>1 DEF open_got
  <2>6. Calmly(t)
    BY <1>1, <2>5, CalmCalls
  <2>7. LeavesOne(g, g.ino)
    BY <2>2, <2>3, Classes DEF InoAt, Claiming, Reading, Putting
  <2>8. g.at \notin Needy
    BY <2>2 DEF Needy, Gives, Claimer, Got, Maybe, Found, Zoned, Claiming, Reading
  <2>9. Even(f, g)
    BY <1>1, <1>3, <2>2, <2>7, EvenIs
  <2>10. QED
    BY <1>1, <2>4, <2>5, <2>6, <2>8, <2>9, GoesEasy
<1>8. QED
  BY <1>5, <1>6, <1>7

-------------------------------------------------------------------------------
(* sys_mkdir. *)

LEMMA MkdirDir == ASSUME Inductive, NEW t \in Task, mkdir_dir(t) PROVE Inductive'
<1>1. PICK f, r : Here(t, f, r) /\ f.at = "mkdir"
  BY Acts DEF mkdir_dir
<1>2. GoodFrame(f) /\ IsFrame(f) /\ GoodTop(t, f) /\ Top(t) = f /\ Tables
  BY <1>1, HereIs
<1>3. LeavesOne(f, f.v) /\ f.dir = Null /\ f.ino = Null
  BY <1>1, <1>2, Classes, Blank DEF GivenAt
<1>4. f.v \in Slot \cup {Null}
  BY <1>1, <1>2 DEF GoodTop, Maybe
<1>5. CASE f.v = Null
  <2>1. Drop(t, <<>>, 0) /\ RunsOn(t) /\ OnlyCalls
    BY <1>2, <1>5 DEF mkdir_dir
  <2>2. Calmly(t)
    BY <1>1, <2>1, CalmCalls
  <2>3. Droppable(f)
    BY <1>1 DEF Droppable, Kind, Whole, OpenCall, Claiming, Reading
  <2>4. LeavesNone(f)
    BY <1>3, <1>5, NullIs
  <2>5. QED
    BY <1>1, <1>3, <2>4, <2>1, <2>2, <2>3, DropsNone
<1>6. CASE f.v # Null /\ Deleted(f.v)
  <2>1. f.v \in Slot
    BY <1>4, <1>6
  <2>2. Drop(t, <<f.v>>, 0) /\ RunsOn(t) /\ OnlyCalls
    BY <1>2, <1>6 DEF mkdir_dir
  <2>3. Calmly(t)
    BY <1>1, <2>2, CalmCalls
  <2>4. Droppable(f)
    BY <1>1 DEF Droppable, Kind, Whole, OpenCall, Claiming, Reading
  <2>5. QED
    BY <1>1, <1>3, <2>1, <2>2, <2>3, <2>4, DropsOne
<1>7. CASE f.v # Null /\ ~ Deleted(f.v)
  <2>1. PICK g : g = [f EXCEPT !.at = "mkdir_found", !.dir = f.v]
    OBVIOUS
  <2>2. /\ IsFrame(g) /\ g.at = "mkdir_found"
        /\ g.dir = f.v /\ g.ino = Null
    BY <1>1, <1>2, <1>3, <2>1 DEF IsFrame
  <2>3. GoodFrame(g)
    BY <1>1, <1>2, <1>3, <1>4, <1>7, <2>2 DEF GoodFrame, HasDir, HasIno, HasI, Putting,
       Reading, Claiming
  <2>4. Replaces(f, g)
    BY <1>1, <1>2, <2>2, <2>3 DEF Replaces, Kind, Whole, OpenCall, Claiming, Reading
  <2>5. PICK c : c = Find(f.v, Last(f.path))
    OBVIOUS
  <2>6. Call(t, c, g) /\ RunsOn(t) /\ OnlyCalls
    BY <1>2, <1>7, <2>1, <2>5 DEF mkdir_dir
  <2>7. Calmly(t)
    BY <1>1, <2>6, CalmCalls
  <2>8. Awaits(g.at) = "entry"
    BY <2>2 DEF Awaits, Claimer, Got, Maybe, Found, Zoned, Claiming, Reading
  <2>9. Callee(c, Awaits(g.at))
    BY <1>4, <1>7, <2>5, <2>8, Callees
  <2>10. Owning(f, g)
    BY <1>3, <2>2, OwningIs
  <2>11. QED
    BY <1>1, <2>4, <2>6, <2>7, <2>9, <2>10, CallsFree
<1>8. QED
  BY <1>5, <1>6, <1>7

LEMMA MkdirFound == ASSUME Inductive, NEW t \in Task, mkdir_found(t) PROVE Inductive'
<1>1. PICK f, r : Here(t, f, r) /\ f.at = "mkdir_found"
  BY Acts DEF mkdir_found
<1>2. GoodFrame(f) /\ IsFrame(f) /\ GoodTop(t, f) /\ Top(t) = f /\ Tables
  BY <1>1, HereIs
<1>3. f.dir \in Slot /\ LeavesOne(f, f.dir) /\ f.ino = Null
  BY <1>1, <1>2, Classes, Blank DEF DirAt
<1>4. CASE f.v # 0
  <2>1. Drop(t, <<f.dir>>, 0) /\ RunsOn(t) /\ OnlyCalls
    BY <1>2, <1>4 DEF mkdir_found
  <2>2. Calmly(t)
    BY <1>1, <2>1, CalmCalls
  <2>3. Droppable(f)
    BY <1>1 DEF Droppable, Kind, Whole, OpenCall, Claiming, Reading
  <2>4. QED
    BY <1>1, <1>3, <2>1, <2>2, <2>3, DropsOne
<1>5. CASE f.v = 0
  <2>1. PICK g : g = [f EXCEPT !.at = "mkdir_new"]
    OBVIOUS
  <2>2. /\ IsFrame(g) /\ g.at = "mkdir_new"
        /\ g.dir = f.dir /\ g.ino = Null
    BY <1>1, <1>2, <1>3, <2>1 DEF IsFrame
  <2>3. GoodFrame(g)
    BY <1>1, <1>2, <1>3, <2>2 DEF GoodFrame, HasDir, HasIno, HasI, Putting, Reading, Claiming
  <2>4. Replaces(f, g)
    BY <1>1, <1>2, <2>2, <2>3 DEF Replaces, Kind, Whole, OpenCall, Claiming, Reading
  <2>5. Becomes(t, NewInode \o <<g>>) /\ RunsOn(t) /\ OnlyCalls
    BY <1>2, <1>5, <2>1 DEF mkdir_found
  <2>6. Calmly(t)
    BY <1>1, <2>5, CalmCalls
  <2>7. Awaits(g.at) = "inode or none"
    BY <2>2 DEF Awaits, Claimer, Got, Maybe, Found, Zoned, Claiming, Reading
  <2>8. Owning(f, g)
    BY <1>3, <2>2, OwningIs
  <2>9. QED
    BY <1>1, <1>3, <2>4, <2>5, <2>6, <2>7, <2>8, CallsNew
<1>6. QED
  BY <1>4, <1>5

LEMMA MkdirNew == ASSUME Inductive, NEW t \in Task, mkdir_new(t) PROVE Inductive'
<1>1. PICK f, r : Here(t, f, r) /\ f.at = "mkdir_new"
  BY Acts DEF mkdir_new
<1>2. GoodFrame(f) /\ IsFrame(f) /\ GoodTop(t, f) /\ Top(t) = f /\ Tables
  BY <1>1, HereIs
<1>3. /\ f.dir \in Slot /\ LeavesTwo(f, f.v, f.dir) /\ LeavesTwo(f, f.dir, f.v)
      /\ f.ino = Null
  BY <1>1, <1>2, Classes, Blank DEF DirGivenAt
<1>4. f.v \in Slot \cup {Null}
  BY <1>1, <1>2 DEF GoodTop, Maybe
<1>5. CASE f.v = Null
  <2>1. Drop(t, <<f.dir>>, 0) /\ RunsOn(t) /\ inode_table' = inode_table /\ OnlyTable
    BY <1>2, <1>5 DEF mkdir_new
  <2>2. Calmly(t)
    BY <1>1, <2>1, CalmCalls DEF OnlyCalls, OnlyTable, table
  <2>3. Droppable(f)
    BY <1>1 DEF Droppable, Kind, Whole, OpenCall, Claiming, Reading
  <2>4. LeavesOne(f, f.dir)
    BY <1>3, <1>5, NullIs
  <2>5. QED
    BY <1>1, <1>3, <2>4, <2>1, <2>2, <2>3, DropsOne
<1>6. CASE f.v # Null
  <2>1. f.v \in Slot
    BY <1>4, <1>6
  <2>2. PICK m : m = [inode_table[f.v] EXCEPT !.size = 2, !.dirt = TRUE]
    OBVIOUS
  <2>3. IsInode(inode_table[f.v])
    BY <1>2, <2>1, InodeAt
  <2>4. IsInode(m) /\ SameUse(f.v, m)
    BY <2>2, <2>3 DEF IsInode, SameUse
  <2>5. PICK g : g = [f EXCEPT !.at = "mkdir_block", !.ino = f.v]
    OBVIOUS
  <2>6. /\ IsFrame(g) /\ g.at = "mkdir_block"
        /\ g.dir = f.dir /\ g.ino = f.v
    BY <1>1, <1>2, <1>3, <2>5 DEF IsFrame
  <2>7. GoodFrame(g)
    BY <1>1, <1>2, <1>3, <2>1, <2>6 DEF GoodFrame, HasDir, HasIno, HasI, Putting, Reading,
       Claiming
  <2>8. Replaces(f, g)
    BY <1>1, <1>2, <2>6, <2>7 DEF Replaces, Kind, Whole, OpenCall, Claiming, Reading
  <2>9. PICK c : c = Frame("new_block")
    OBVIOUS
  <2>10. Call(t, c, g) /\ RunsOn(t) /\ Put(f.v, m) /\ OnlyTable
    BY <1>2, <2>2, <1>6, <2>5, <2>9 DEF mkdir_new
  <2>11. Calmly(t)
    BY <1>1, <2>1, <2>4, <2>10, CalmTable
  <2>12. Awaits(g.at) = "zone"
    BY <2>6 DEF Awaits, Claimer, Got, Maybe, Found, Zoned, Claiming, Reading
  <2>13. Callee(c, Awaits(g.at))
    BY <1>3, <2>9, <2>12, Callees
  <2>14. Owning(f, g)
    BY <1>3, <2>6, OwningIs
  <2>15. QED
    BY <1>1, <2>8, <2>10, <2>11, <2>13, <2>14, CallsFree
<1>7. QED
  BY <1>5, <1>6

LEMMA MkdirBlock == ASSUME Inductive, NEW t \in Task, mkdir_block(t) PROVE Inductive'
<1>1. PICK f, r : Here(t, f, r) /\ f.at = "mkdir_block"
  BY Acts DEF mkdir_block
<1>2. GoodFrame(f) /\ IsFrame(f) /\ GoodTop(t, f) /\ Top(t) = f /\ Tables
  BY <1>1, HereIs
<1>3. /\ f.dir \in Slot /\ f.ino \in Slot
      /\ LeavesTwo(f, f.dir, f.ino) /\ LeavesTwo(f, f.ino, f.dir)
  BY <1>1, <1>2, Classes DEF BothAt
<1>4. IsInode(inode_table[f.ino])
  BY <1>2, <1>3, InodeAt
<1>5. f.v \in 0..NBlocks
  BY <1>1, <1>2 DEF GoodTop, Zoned
<1>6. PICK m : m = [inode_table[f.ino] EXCEPT !.zone[0] = f.v, !.dirt = @ \/ f.v # 0]
  OBVIOUS
<1>7. IsInode(m) /\ SameUse(f.ino, m)
  BY <1>4, <1>5, <1>6 DEF IsInode, SameUse
<1>8. Put(f.ino, m) /\ OnlyTable
  BY <1>2, <1>6 DEF mkdir_block
<1>9. CASE f.v = 0
  <2>1. PICK g : g = [f EXCEPT !.at = "mkdir_undo", !.dir = Null]
    OBVIOUS
  <2>2. /\ IsFrame(g) /\ g.at = "mkdir_undo"
        /\ g.dir = Null /\ g.ino = f.ino
    BY <1>1, <1>2, <1>3, <2>1 DEF IsFrame
  <2>3. GoodFrame(g)
    BY <1>1, <1>2, <1>3, <2>2 DEF GoodFrame, HasDir, HasIno, HasI, Putting, Reading, Claiming
  <2>4. Replaces(f, g)
    BY <1>1, <1>2, <2>2, <2>3 DEF Replaces, Kind, Whole, OpenCall, Claiming, Reading
  <2>5. Call(t, Iput(f.dir), g) /\ RunsOn(t)
    BY <1>2, <1>9, <2>1 DEF mkdir_block
  <2>6. Calmly(t)
    BY <1>1, <1>3, <1>7, <1>8, <2>5, CalmTable
  <2>7. Awaits(g.at) = "nothing"
    BY <2>2 DEF Awaits, Claimer, Got, Maybe, Found, Zoned, Claiming, Reading
  <2>8. Owned(f, g, f.dir)
    BY <1>3, <2>2, OwningIs
  <2>9. QED
    BY <1>1, <1>3, <2>4, <2>5, <2>6, <2>7, <2>8, CallsIput
<1>10. CASE f.v # 0
  <2>1. PICK g : g = [f EXCEPT !.at = "mkdir_fill"]
    OBVIOUS
  <2>2. /\ IsFrame(g) /\ g.at = "mkdir_fill"
        /\ g.dir = f.dir /\ g.ino = f.ino
    BY <1>1, <1>2, <1>3, <2>1 DEF IsFrame
  <2>3. GoodFrame(g)
    BY <1>1, <1>2, <1>3, <2>2 DEF GoodFrame, HasDir, HasIno, HasI, Putting, Reading, Claiming
  <2>4. Replaces(f, g)
    BY <1>1, <1>2, <2>2, <2>3 DEF Replaces, Kind, Whole, OpenCall, Claiming, Reading
  <2>5. Goto(t, g) /\ MaySleep
    BY <1>2, <1>10, <2>1 DEF mkdir_block
  <2>6. Calmly(t)
    BY <1>1, <1>3, <1>7, <1>8, <2>5, CalmTable
  <2>7. LeavesTwo(g, g.dir, g.ino)
    BY <2>2, <2>3, Classes DEF BothAt
  <2>8. g.at \notin Needy
    BY <2>2 DEF Needy, Gives, Claimer, Got, Maybe, Found, Zoned, Claiming, Reading
  <2>9. Even(f, g)
    BY <1>1, <1>3, <2>2, <2>7, EvenIs
  <2>10. QED
    BY <1>1, <2>4, <2>5, <2>6, <2>8, <2>9, GoesEasy
<1>11. QED
  BY <1>9, <1>10

LEMMA MkdirFill == ASSUME Inductive, NEW t \in Task, mkdir_fill(t) PROVE Inductive'
<1>1. PICK f, r : Here(t, f, r) /\ f.at = "mkdir_fill"
  BY Acts DEF mkdir_fill
<1>2. GoodFrame(f) /\ IsFrame(f) /\ GoodTop(t, f) /\ Top(t) = f /\ Tables
  BY <1>1, HereIs
<1>3. /\ f.dir \in Slot /\ f.ino \in Slot
      /\ LeavesTwo(f, f.dir, f.ino) /\ LeavesTwo(f, f.ino, f.dir)
  BY <1>1, <1>2, Classes DEF BothAt
<1>4. IsInode(inode_table[f.ino]) /\ IsInode(inode_table[f.dir])
  BY <1>2, <1>3, InodeAt
<1>5. PICK m : m = [inode_table[f.ino] EXCEPT !.nlinks = 2, !.mode = "dir", !.dirt = TRUE]
  OBVIOUS
<1>6. IsInode(m) /\ SameUse(f.ino, m)
  BY <1>4, <1>5 DEF IsInode, SameUse
<1>7. PICK b, e, h : /\ b = inode_table[f.ino].zone[0]
                      /\ e = [inode |-> inode_table[f.ino].num, name |-> "."]
                      /\ h = [inode |-> inode_table[f.dir].num, name |-> ".."]
  OBVIOUS
<1>8. IsEntry(e) /\ IsEntry(h)
  BY <1>4, <1>7 DEF IsInode, IsEntry
<1>9. PICK A : /\ A = [data EXCEPT ![b][0] = e]
               /\ data' = [A EXCEPT ![b][1] = h]
  BY <1>2, <1>7 DEF mkdir_fill
<1>10. GoodData(A)
  BY <1>2, <1>8, <1>9, EntryPut DEF Tables
<1>11. GoodData(data')
  BY <1>8, <1>9, <1>10, EntryPut
<1>12. Put(f.ino, m) /\ DataAndTable
  BY <1>2, <1>5 DEF mkdir_fill
<1>13. GoodDisk(d_inode)'
  BY <1>2, <1>12 DEF Tables, DataAndTable
<1>14. CASE TRUE
  <2>1. PICK g : g = [f EXCEPT !.at = "mkdir_added"]
    OBVIOUS
  <2>2. /\ IsFrame(g) /\ g.at = "mkdir_added"
        /\ g.dir = f.dir /\ g.ino = f.ino
    BY <1>1, <1>2, <1>3, <2>1 DEF IsFrame
  <2>3. GoodFrame(g)
    BY <1>1, <1>2, <1>3, <2>2 DEF GoodFrame, HasDir, HasIno, HasI, Putting, Reading, Claiming
  <2>4. Replaces(f, g)
    BY <1>1, <1>2, <2>2, <2>3 DEF Replaces, Kind, Whole, OpenCall, Claiming, Reading
  <2>5. PICK c : c = Add(f.dir, Last(f.path))
    OBVIOUS
  <2>6. Call(t, c, g) /\ RunsOn(t)
    BY <1>2, <1>14, <2>1, <2>5 DEF mkdir_fill
  <2>7. Calmly(t)
    BY <1>1, <1>3, <1>6, <1>11, <1>12, <1>13, <2>6, CalmPut DEF DataAndTable
  <2>8. Awaits(g.at) = "nothing"
    BY <2>2 DEF Awaits, Claimer, Got, Maybe, Found, Zoned, Claiming, Reading
  <2>9. Callee(c, Awaits(g.at))
    BY <1>3, <2>5, <2>8, Callees
  <2>10. Owning(f, g)
    BY <1>3, <2>2, OwningIs
  <2>11. QED
    BY <1>1, <2>4, <2>6, <2>7, <2>9, <2>10, CallsFree
<1>15. QED
  BY <1>14

LEMMA MkdirAdded == ASSUME Inductive, NEW t \in Task, mkdir_added(t) PROVE Inductive'
<1>1. PICK f, r : Here(t, f, r) /\ f.at = "mkdir_added"
  BY Acts DEF mkdir_added
<1>2. GoodFrame(f) /\ IsFrame(f) /\ GoodTop(t, f) /\ Top(t) = f /\ Tables
  BY <1>1, HereIs
<1>3. /\ f.dir \in Slot /\ f.ino \in Slot
      /\ LeavesTwo(f, f.dir, f.ino) /\ LeavesTwo(f, f.ino, f.dir)
  BY <1>1, <1>2, Classes DEF BothAt
<1>4. IsInode(inode_table[f.ino]) /\ IsInode(inode_table[f.dir])
  BY <1>2, <1>3, InodeAt
<1>5. CASE f.v = 0
  <2>1. PICK g : g = [f EXCEPT !.at = "mkdir_free", !.dir = Null]
    OBVIOUS
  <2>2. /\ IsFrame(g) /\ g.at = "mkdir_free"
        /\ g.dir = Null /\ g.ino = f.ino
    BY <1>1, <1>2, <1>3, <2>1 DEF IsFrame
  <2>3. GoodFrame(g)
    BY <1>1, <1>2, <1>3, <2>2 DEF GoodFrame, HasDir, HasIno, HasI, Putting, Reading, Claiming
  <2>4. Replaces(f, g)
    BY <1>1, <1>2, <2>2, <2>3 DEF Replaces, Kind, Whole, OpenCall, Claiming, Reading
  <2>5. Call(t, Iput(f.dir), g) /\ RunsOn(t) /\ data' = data /\ inode_table' = inode_table
        /\ DataAndTable
    BY <1>2, <1>5, <2>1 DEF mkdir_added
  <2>6. Calmly(t)
    BY <1>1, <2>5, CalmBits DEF DataAndTable, namei_vars, table
  <2>7. Awaits(g.at) = "nothing"
    BY <2>2 DEF Awaits, Claimer, Got, Maybe, Found, Zoned, Claiming, Reading
  <2>8. Owned(f, g, f.dir)
    BY <1>3, <2>2, OwningIs
  <2>9. QED
    BY <1>1, <1>3, <2>4, <2>5, <2>6, <2>7, <2>8, CallsIput
<1>6. CASE f.v # 0
  <2>1. PICK m : m = [inode_table[f.dir] EXCEPT !.nlinks = @ + 1, !.dirt = TRUE]
    OBVIOUS
  <2>2. IsInode(m) /\ SameUse(f.dir, m)
    BY <1>4, <2>1 DEF IsInode, SameUse
  <2>3. PICK nr : nr = inode_table[f.ino].num /\ nr \in 0..NInodes
    BY <1>4 DEF IsInode
  <2>4. SetEntry(f.v, nr) /\ Put(f.dir, m) /\ DataAndTable
    BY <1>2, <1>6, <2>1, <2>3 DEF mkdir_added
  <2>5. GoodData(data)' /\ GoodDisk(d_inode)'
    BY <1>2, <2>3, <2>4, EntrySet DEF Tables, DataAndTable
  <2>6. Drop(t, <<f.dir, f.ino>>, BlockOf(f.v)) /\ RunsOn(t)
    BY <1>2, <1>6 DEF mkdir_added
  <2>7. Calmly(t)
    BY <1>1, <1>3, <2>2, <2>5, <2>4, <2>6, CalmPut DEF DataAndTable
  <2>8. Droppable(f)
    BY <1>1 DEF Droppable, Kind, Whole, OpenCall, Claiming, Reading
  <2>9. QED
    BY <1>1, <1>3, <2>6, <2>7, <2>8, DropsTwo
<1>7. QED
  BY <1>5, <1>6

LEMMA MkdirFree == ASSUME Inductive, NEW t \in Task, mkdir_free(t) PROVE Inductive'
<1>1. PICK f, r : Here(t, f, r) /\ f.at = "mkdir_free"
  BY Acts DEF mkdir_free
<1>2. GoodFrame(f) /\ IsFrame(f) /\ GoodTop(t, f) /\ Top(t) = f /\ Tables
  BY <1>1, HereIs
<1>3. f.ino \in Slot /\ LeavesOne(f, f.ino) /\ f.dir = Null
  BY <1>1, <1>2, Classes, Blank DEF InoAt, Claiming, Reading, Putting
<1>4. CASE TRUE
  <2>1. PICK g : g = [f EXCEPT !.at = "mkdir_undo"]
    OBVIOUS
  <2>2. /\ IsFrame(g) /\ g.at = "mkdir_undo"
        /\ g.dir = Null /\ g.ino = f.ino
    BY <1>1, <1>2, <1>3, <2>1 DEF IsFrame
  <2>3. GoodFrame(g)
    BY <1>1, <1>2, <1>3, <2>2 DEF GoodFrame, HasDir, HasIno, HasI, Putting, Reading, Claiming
  <2>4. Replaces(f, g)
    BY <1>1, <1>2, <2>2, <2>3 DEF Replaces, Kind, Whole, OpenCall, Claiming, Reading
  <2>5. PICK c : c = [Frame("free_block") EXCEPT !.n = inode_table[f.ino].zone[0]]
    OBVIOUS
  <2>6. Call(t, c, g) /\ MaySleep /\ UNCHANGED <<table, d_inode, data, namei_vars>>
    BY <1>2, <1>4, <2>1, <2>5 DEF mkdir_free
  <2>7. Calmly(t)
    BY <1>1, <2>6, CalmBits DEF namei_vars
  <2>8. Awaits(g.at) = "nothing"
    BY <2>2 DEF Awaits, Claimer, Got, Maybe, Found, Zoned, Claiming, Reading
  <2>9. Callee(c, Awaits(g.at))
    BY <2>5, <2>8, Callees
  <2>10. Owning(f, g)
    BY <1>3, <2>2, OwningIs
  <2>11. QED
    BY <1>1, <2>4, <2>6, <2>7, <2>9, <2>10, CallsFree
<1>5. QED
  BY <1>4

LEMMA MkdirUndo == ASSUME Inductive, NEW t \in Task, mkdir_undo(t) PROVE Inductive'
<1>1. PICK f, r : Here(t, f, r) /\ f.at = "mkdir_undo"
  BY Acts DEF mkdir_undo
<1>2. GoodFrame(f) /\ IsFrame(f) /\ GoodTop(t, f) /\ Top(t) = f /\ Tables
  BY <1>1, HereIs
<1>3. f.ino \in Slot /\ LeavesOne(f, f.ino) /\ f.dir = Null
  BY <1>1, <1>2, Classes, Blank DEF InoAt, Claiming, Reading, Putting
<1>4. IsInode(inode_table[f.ino])
  BY <1>2, <1>3, InodeAt
<1>5. PICK m : m = [inode_table[f.ino] EXCEPT !.nlinks = 0]
  OBVIOUS
<1>6. IsInode(m) /\ SameUse(f.ino, m)
  BY <1>4, <1>5 DEF IsInode, SameUse
<1>7. CASE TRUE
  <2>1. Drop(t, <<f.ino>>, 0) /\ RunsOn(t) /\ Put(f.ino, m) /\ OnlyTable
    BY <1>2, <1>5, <1>7 DEF mkdir_undo
  <2>2. Calmly(t)
    BY <1>1, <1>3, <1>6, <2>1, CalmTable
  <2>3. Droppable(f)
    BY <1>1 DEF Droppable, Kind, Whole, OpenCall, Claiming, Reading
  <2>4. QED
    BY <1>1, <1>3, <2>1, <2>2, <2>3, DropsOne
<1>8. QED
  BY <1>7

-------------------------------------------------------------------------------
(* sys_rmdir and sys_unlink. *)

LEMMA RemoveDir == ASSUME Inductive, NEW t \in Task, remove_dir(t) PROVE Inductive'
<1>0. PICK op \in Removes :
        /\ At(t, op)
        /\ CASE Top(t).v = Null -> Drop(t, <<>>, 0)
             [] Top(t).v # Null /\ op = "unlink" /\ Deleted(Top(t).v) -> Drop(t, <<Top(t).v>>, 0)
             [] OTHER -> Call(t, Find(Top(t).v, Last(Top(t).path)),
                              [Top(t) EXCEPT !.at = FoundAt[op], !.dir = Top(t).v])
  BY DEF remove_dir
<1>1. PICK f, r : Here(t, f, r) /\ f.at = op /\ f.at \in {"rmdir", "unlink"}
  BY <1>0, Acts DEF Removes, FoundAt
<1>2. GoodFrame(f) /\ IsFrame(f) /\ GoodTop(t, f) /\ Top(t) = f /\ Tables
  BY <1>1, HereIs
<1>3. LeavesOne(f, f.v) /\ f.dir = Null /\ f.ino = Null
  BY <1>1, <1>2, Classes, Blank DEF GivenAt
<1>4. f.v \in Slot \cup {Null}
  BY <1>1, <1>2 DEF GoodTop, Maybe
<1>5. FoundAt[op] \in {"rmdir_found", "unlink_found"}
  BY <1>0 DEF Removes, FoundAt
<1>6. CASE f.v = Null
  <2>1. Drop(t, <<>>, 0) /\ RunsOn(t) /\ OnlyCalls
    BY <1>2, <1>0, <1>6 DEF remove_dir
  <2>2. Calmly(t)
    BY <1>1, <2>1, CalmCalls
  <2>3. Droppable(f)
    BY <1>1 DEF Droppable, Kind, Whole, OpenCall, Claiming, Reading
  <2>4. LeavesNone(f)
    BY <1>3, <1>6, NullIs
  <2>5. QED
    BY <1>1, <1>3, <2>4, <2>1, <2>2, <2>3, DropsNone
<1>7. CASE f.v # Null /\ op = "unlink" /\ Deleted(f.v)
  <2>1. f.v \in Slot
    BY <1>4, <1>7
  <2>2. Drop(t, <<f.v>>, 0) /\ RunsOn(t) /\ OnlyCalls
    BY <1>2, <1>0, <1>7 DEF remove_dir
  <2>3. Calmly(t)
    BY <1>1, <2>2, CalmCalls
  <2>4. Droppable(f)
    BY <1>1 DEF Droppable, Kind, Whole, OpenCall, Claiming, Reading
  <2>5. QED
    BY <1>1, <1>3, <2>1, <2>2, <2>3, <2>4, DropsOne
<1>8. CASE f.v # Null /\ ~ (op = "unlink" /\ Deleted(f.v))
  <2>1. PICK g : g = [f EXCEPT !.at = FoundAt[op], !.dir = f.v]
    OBVIOUS
  <2>2. /\ IsFrame(g) /\ g.at \in {"rmdir_found", "unlink_found"}
        /\ g.dir = f.v /\ g.ino = Null
    BY <1>1, <1>2, <1>3, <1>5, <2>1 DEF IsFrame
  <2>3. GoodFrame(g)
    BY <1>1, <1>2, <1>3, <1>4, <1>8, <2>2 DEF GoodFrame, HasDir, HasIno, HasI, Putting,
       Reading, Claiming
  <2>4. Replaces(f, g)
    BY <1>1, <1>2, <2>2, <2>3 DEF Replaces, Kind, Whole, OpenCall, Claiming, Reading
  <2>5. PICK c : c = Find(f.v, Last(f.path))
    OBVIOUS
  <2>6. Call(t, c, g) /\ RunsOn(t) /\ OnlyCalls
    BY <1>2, <1>0, <1>5, <1>8, <2>1, <2>5 DEF remove_dir
  <2>7. Calmly(t)
    BY <1>1, <2>6, CalmCalls
  <2>8. Awaits(g.at) = "entry"
    BY <2>2 DEF Awaits, Claimer, Got, Maybe, Found, Zoned, Claiming, Reading
  <2>9. Callee(c, Awaits(g.at))
    BY <1>4, <1>8, <2>5, <2>8, Callees
  <2>10. Owning(f, g)
    BY <1>3, <2>2, OwningIs
  <2>11. QED
    BY <1>1, <2>4, <2>6, <2>7, <2>9, <2>10, CallsFree
<1>9. QED
  BY <1>6, <1>7, <1>8

LEMMA RemoveFound == ASSUME Inductive, NEW t \in Task, remove_found(t) PROVE Inductive'
<1>0. PICK op \in Removes :
        /\ At(t, FoundAt[op])
        /\ IF Top(t).v = 0 \/ (op = "rmdir" /\ Deleted(Top(t).dir))
           THEN Drop(t, <<Top(t).dir>>, BlockOf(Top(t).v))
           ELSE Becomes(t, Iget(Entry(Top(t).v).inode)
                           \o <<[Top(t) EXCEPT !.at = GotAt[op], !.de = Top(t).v,
                                               !.bh = BlockOf(Top(t).v)]>>)
  BY DEF remove_found
<1>1. PICK f, r : Here(t, f, r) /\ f.at = FoundAt[op] /\ f.at \in {"rmdir_found", "unlink_found"}
  BY <1>0, Acts DEF Removes, FoundAt
<1>2. GoodFrame(f) /\ IsFrame(f) /\ GoodTop(t, f) /\ Top(t) = f /\ Tables
  BY <1>1, HereIs
<1>3. f.dir \in Slot /\ LeavesOne(f, f.dir) /\ f.ino = Null
  BY <1>1, <1>2, Classes, Blank DEF DirAt
<1>4. f.v # 0 => Entry(f.v).inode \in 1..NInodes
  BY <1>1, <1>2 DEF GoodTop, Found
<1>5. GotAt[op] \in {"rmdir_got", "unlink_got"}
  BY <1>0 DEF Removes, GotAt
<1>6. CASE f.v = 0 \/ (op = "rmdir" /\ Deleted(f.dir))
  <2>1. Drop(t, <<f.dir>>, BlockOf(f.v)) /\ RunsOn(t) /\ OnlyCalls
    BY <1>2, <1>0, <1>6 DEF remove_found
  <2>2. Calmly(t)
    BY <1>1, <2>1, CalmCalls
  <2>3. Droppable(f)
    BY <1>1 DEF Droppable, Kind, Whole, OpenCall, Claiming, Reading
  <2>4. QED
    BY <1>1, <1>3, <2>1, <2>2, <2>3, DropsOne
<1>7. CASE ~ (f.v = 0 \/ (op = "rmdir" /\ Deleted(f.dir)))
  <2>1. PICK g : g = [f EXCEPT !.at = GotAt[op], !.de = f.v, !.bh = BlockOf(f.v)]
    OBVIOUS
  <2>2. /\ IsFrame(g) /\ g.at \in {"rmdir_got", "unlink_got"}
        /\ g.dir = f.dir /\ g.ino = Null
    BY <1>1, <1>2, <1>3, <1>5, <2>1 DEF IsFrame
  <2>3. GoodFrame(g)
    BY <1>1, <1>2, <1>3, <2>2 DEF GoodFrame, HasDir, HasIno, HasI, Putting, Reading, Claiming
  <2>4. Replaces(f, g)
    BY <1>1, <1>2, <2>2, <2>3 DEF Replaces, Kind, Whole, OpenCall, Claiming, Reading
  <2>5. PICK nr : nr = Entry(f.v).inode
    OBVIOUS
  <2>6. nr \in 1..NInodes
    BY <1>4, <1>7, <2>5
  <2>7. Becomes(t, Iget(nr) \o <<g>>) /\ RunsOn(t) /\ OnlyCalls
    BY <1>0, <1>2, <1>7, <2>1, <2>5 DEF remove_found
  <2>8. Calmly(t)
    BY <1>1, <2>7, CalmCalls
  <2>9. Awaits(g.at) = "inode"
    BY <2>2 DEF Awaits, Claimer, Got, Maybe, Found, Zoned, Claiming, Reading
  <2>10. Owning(f, g)
    BY <1>3, <2>2, OwningIs
  <2>11. QED
    BY <1>1, <2>4, <2>6, <2>7, <2>8, <2>9, <2>10, CallsIget
<1>8. QED
  BY <1>6, <1>7

LEMMA RmdirGot == ASSUME Inductive, NEW t \in Task, rmdir_got(t) PROVE Inductive'
<1>1. PICK f, r : Here(t, f, r) /\ f.at = "rmdir_got"
  BY Acts DEF rmdir_got
<1>2. GoodFrame(f) /\ IsFrame(f) /\ GoodTop(t, f) /\ Top(t) = f /\ Tables
  BY <1>1, HereIs
<1>3. /\ f.dir \in Slot /\ LeavesTwo(f, f.v, f.dir) /\ LeavesTwo(f, f.dir, f.v)
      /\ f.ino = Null
  BY <1>1, <1>2, Classes, Blank DEF DirGivenAt
<1>4. f.v \in Slot
  BY <1>1, <1>2 DEF GoodTop, Got
<1>5. PICK de, bh : de = inode_table[f.v].size /\ bh = inode_table[f.v].zone[0]
  OBVIOUS
<1>6. CASE f.v = f.dir \/ ~ IsDir(f.v)
  <2>1. Drop(t, <<f.v, f.dir>>, f.bh) /\ RunsOn(t) /\ OnlyCalls
    BY <1>2, <1>6 DEF rmdir_got
  <2>2. Calmly(t)
    BY <1>1, <2>1, CalmCalls
  <2>3. Droppable(f)
    BY <1>1 DEF Droppable, Kind, Whole, OpenCall, Claiming, Reading
  <2>4. QED
    BY <1>1, <1>3, <1>4, <2>1, <2>2, <2>3, DropsTwo
<1>7. CASE ~ (f.v = f.dir \/ ~ IsDir(f.v))
  <2>1. PICK g : g = [f EXCEPT !.at = "rmdir_empty", !.ino = f.v]
    OBVIOUS
  <2>2. /\ IsFrame(g) /\ g.at = "rmdir_empty"
        /\ g.dir = f.dir /\ g.ino = f.v
    BY <1>1, <1>2, <1>3, <2>1 DEF IsFrame
  <2>3. GoodFrame(g)
    BY <1>1, <1>2, <1>3, <1>4, <2>2 DEF GoodFrame, HasDir, HasIno, HasI, Putting, Reading,
       Claiming
  <2>4. Replaces(f, g)
    BY <1>1, <1>2, <2>2, <2>3 DEF Replaces, Kind, Whole, OpenCall, Claiming, Reading
  <2>5. PICK c : c = [Frame("empty_dir") EXCEPT !.i = f.v, !.de = de, !.bh = bh]
    OBVIOUS
  <2>6. Call(t, c, g) /\ MaySleep /\ OnlyCalls
    BY <1>2, <1>5, <1>7, <2>1, <2>5 DEF rmdir_got
  <2>7. Calmly(t)
    BY <1>1, <2>6, CalmCalls
  <2>8. Awaits(g.at) = "nothing"
    BY <2>2 DEF Awaits, Claimer, Got, Maybe, Found, Zoned, Claiming, Reading
  <2>9. Callee(c, Awaits(g.at))
    BY <1>4, <2>5, <2>8, EmptyDirCallee
  <2>10. Owning(f, g)
    BY <1>3, <2>2, OwningIs
  <2>11. QED
    BY <1>1, <2>4, <2>6, <2>7, <2>9, <2>10, CallsFree
<1>8. QED
  BY <1>6, <1>7

LEMMA TwoInodes ==
  ASSUME GoodTable(inode_table), NEW i \in Slot, NEW j \in Slot,
         inode_table' = [inode_table EXCEPT ![i].nlinks = 0, ![i].dirt = TRUE,
                                            ![j].nlinks = @ - 1, ![j].dirt = TRUE]
  PROVE  GoodTable(inode_table)' /\ Plain
<1>1. PICK T, U : T = inode_table /\ U = inode_table'
  OBVIOUS
<1>2. DOMAIN T = Slot /\ \A k \in Slot : IsInode(T[k])
  BY <1>1 DEF GoodTable
<1>3. U = [T EXCEPT ![i].nlinks = 0, ![i].dirt = TRUE, ![j].nlinks = @ - 1, ![j].dirt = TRUE]
  BY <1>1
<1>4. DOMAIN U = Slot
  BY <1>2, <1>3
<1>5. ASSUME NEW k \in Slot
      PROVE  IsInode(U[k]) /\ U[k].num = T[k].num /\ U[k].count = T[k].count
  <2>1. IsInode(T[k])
    BY <1>2
  <2>2. CASE k = i /\ k = j
    BY <1>2, <1>3, <2>1, <2>2 DEF IsInode
  <2>3. CASE k = i /\ k # j
    BY <1>2, <1>3, <2>1, <2>3 DEF IsInode
  <2>4. CASE k # i /\ k = j
    BY <1>2, <1>3, <2>1, <2>4 DEF IsInode
  <2>5. CASE k # i /\ k # j
    BY <1>2, <1>3, <2>1, <2>5
  <2>6. QED
    BY <2>2, <2>3, <2>4, <2>5
<1>6. GoodTable(U)
  BY <1>4, <1>5 DEF GoodTable
<1>7. Plain
  BY <1>1, <1>5 DEF Plain
<1>8. QED
  BY <1>1, <1>6, <1>7

LEMMA CalmTables ==
  ASSUME NEW t \in Task, NEW f, NEW r, Here(t, f, r), GoodTable(inode_table)', Plain,
         UNCHANGED last_allocated_inode, GoodDisk(d_inode)', GoodData(data)',
         UNCHANGED namei_vars, RunsOn(t) \/ MaySleep
  PROVE  Calmly(t)
<1>1. Tables /\ halted = "no"
  BY HereIs
<1>2. Tables'
  BY <1>1 DEF Tables
<1>3. halted' = "no" /\ running' \in {t, Nobody} /\ file' = file
  BY <1>1 DEF RunsOn, MaySleep, namei_vars
<1>4. QED
  BY <1>2, <1>3 DEF Calmly

LEMMA RmdirEmpty == ASSUME Inductive, NEW t \in Task, rmdir_empty(t) PROVE Inductive'
<1>1. PICK f, r : Here(t, f, r) /\ f.at = "rmdir_empty"
  BY Acts DEF rmdir_empty
<1>2. GoodFrame(f) /\ IsFrame(f) /\ GoodTop(t, f) /\ Top(t) = f /\ Tables
  BY <1>1, HereIs
<1>3. /\ f.dir \in Slot /\ f.ino \in Slot
      /\ LeavesTwo(f, f.dir, f.ino) /\ LeavesTwo(f, f.ino, f.dir)
  BY <1>1, <1>2, Classes DEF BothAt
<1>4. CASE f.v = 0
  <2>1. Drop(t, <<f.ino, f.dir>>, f.bh) /\ RunsOn(t) /\ data' = data /\ inode_table' = inode_table
        /\ DataAndTable
    BY <1>2, <1>4 DEF rmdir_empty
  <2>2. Calmly(t)
    BY <1>1, <2>1, CalmBits DEF DataAndTable, namei_vars, table
  <2>3. Droppable(f)
    BY <1>1 DEF Droppable, Kind, Whole, OpenCall, Claiming, Reading
  <2>4. QED
    BY <1>1, <1>3, <2>1, <2>2, <2>3, DropsTwo
<1>5. CASE f.v # 0
  <2>1. /\ SetEntry(f.de, 0) /\ DataAndTable
        /\ inode_table' = [inode_table EXCEPT ![f.ino].nlinks = 0, ![f.ino].dirt = TRUE,
                                              ![f.dir].nlinks = @ - 1, ![f.dir].dirt = TRUE]
    BY <1>2, <1>5 DEF rmdir_empty
  <2>2. GoodData(data)' /\ GoodDisk(d_inode)'
    BY <1>2, <2>1, EntrySet, InodeAssumption DEF Tables, DataAndTable
  <2>3. GoodTable(inode_table)' /\ Plain
    BY <1>2, <1>3, <2>1, TwoInodes DEF Tables
  <2>4. Drop(t, <<f.dir, f.ino>>, 0) /\ RunsOn(t)
    BY <1>2, <1>5 DEF rmdir_empty
  <2>5. Calmly(t)
    BY <1>1, <1>2, <2>1, <2>2, <2>3, <2>4, CalmTables DEF DataAndTable
  <2>6. Droppable(f)
    BY <1>1 DEF Droppable, Kind, Whole, OpenCall, Claiming, Reading
  <2>7. QED
    BY <1>1, <1>3, <2>4, <2>5, <2>6, DropsTwo
<1>6. QED
  BY <1>4, <1>5

LEMMA UnlinkGot == ASSUME Inductive, NEW t \in Task, unlink_got(t) PROVE Inductive'
<1>1. PICK f, r : Here(t, f, r) /\ f.at = "unlink_got"
  BY Acts DEF unlink_got
<1>2. GoodFrame(f) /\ IsFrame(f) /\ GoodTop(t, f) /\ Top(t) = f /\ Tables
  BY <1>1, HereIs
<1>3. /\ f.dir \in Slot /\ LeavesTwo(f, f.v, f.dir) /\ LeavesTwo(f, f.dir, f.v)
      /\ f.ino = Null
  BY <1>1, <1>2, Classes, Blank DEF DirGivenAt
<1>4. f.v \in Slot
  BY <1>1, <1>2 DEF GoodTop, Got
<1>5. IsInode(inode_table[f.v])
  BY <1>2, <1>4, InodeAt
<1>6. CASE inode_table[f.v].mode # "reg"
  <2>1. Drop(t, <<f.v, f.dir>>, f.bh) /\ RunsOn(t) /\ data' = data /\ inode_table' = inode_table
        /\ DataAndTable
    BY <1>2, <1>6 DEF unlink_got
  <2>2. Calmly(t)
    BY <1>1, <2>1, CalmBits DEF DataAndTable, namei_vars, table
  <2>3. Droppable(f)
    BY <1>1 DEF Droppable, Kind, Whole, OpenCall, Claiming, Reading
  <2>4. QED
    BY <1>1, <1>3, <1>4, <2>1, <2>2, <2>3, DropsTwo
<1>7. CASE inode_table[f.v].mode = "reg"
  <2>1. PICK m : m = [inode_table[f.v] EXCEPT !.nlinks = IF @ = 0 THEN 0 ELSE @ - 1, !.dirt = TRUE]
    OBVIOUS
  <2>2. IsInode(m) /\ SameUse(f.v, m)
    BY <1>5, <2>1 DEF IsInode, SameUse
  <2>3. SetEntry(f.de, 0) /\ Put(f.v, m) /\ DataAndTable
    BY <1>2, <1>7, <2>1 DEF unlink_got
  <2>4. GoodData(data)' /\ GoodDisk(d_inode)'
    BY <1>2, <2>3, EntrySet, InodeAssumption DEF Tables, DataAndTable
  <2>5. Drop(t, <<f.v, f.dir>>, 0) /\ RunsOn(t)
    BY <1>2, <1>7 DEF unlink_got
  <2>6. Calmly(t)
    BY <1>1, <1>4, <2>2, <2>4, <2>3, <2>5, CalmPut DEF DataAndTable
  <2>7. Droppable(f)
    BY <1>1 DEF Droppable, Kind, Whole, OpenCall, Claiming, Reading
  <2>8. QED
    BY <1>1, <1>3, <1>4, <2>5, <2>6, <2>7, DropsTwo
<1>8. QED
  BY <1>6, <1>7

-------------------------------------------------------------------------------
(* sys_link. *)

LEMMA LinkOld == ASSUME Inductive, NEW t \in Task, link_old(t) PROVE Inductive'
<1>1. PICK f, r : Here(t, f, r) /\ f.at = "link"
  BY Acts DEF link_old
<1>2. GoodFrame(f) /\ IsFrame(f) /\ GoodTop(t, f) /\ Top(t) = f /\ Tables
  BY <1>1, HereIs
<1>3. LeavesOne(f, f.v) /\ f.dir = Null /\ f.ino = Null
  BY <1>1, <1>2, Classes, Blank DEF GivenAt
<1>4. f.v \in Slot \cup {Null}
  BY <1>1, <1>2 DEF GoodTop, Maybe
<1>5. CASE f.v = Null
  <2>1. Drop(t, <<>>, 0) /\ RunsOn(t) /\ OnlyCalls
    BY <1>2, <1>5 DEF link_old
  <2>2. Calmly(t)
    BY <1>1, <2>1, CalmCalls
  <2>3. Droppable(f)
    BY <1>1 DEF Droppable, Kind, Whole, OpenCall, Claiming, Reading
  <2>4. LeavesNone(f)
    BY <1>3, <1>5, NullIs
  <2>5. QED
    BY <1>1, <1>3, <2>4, <2>1, <2>2, <2>3, DropsNone
<1>6. CASE f.v # Null /\ inode_table[f.v].mode # "reg"
  <2>1. f.v \in Slot
    BY <1>4, <1>6
  <2>2. Drop(t, <<f.v>>, 0) /\ RunsOn(t) /\ OnlyCalls
    BY <1>2, <1>6 DEF link_old
  <2>3. Calmly(t)
    BY <1>1, <2>2, CalmCalls
  <2>4. Droppable(f)
    BY <1>1 DEF Droppable, Kind, Whole, OpenCall, Claiming, Reading
  <2>5. QED
    BY <1>1, <1>3, <2>1, <2>2, <2>3, <2>4, DropsOne
<1>7. CASE f.v # Null /\ inode_table[f.v].mode = "reg"
  <2>1. PICK g : g = [f EXCEPT !.at = "link_dir", !.ino = f.v]
    OBVIOUS
  <2>2. /\ IsFrame(g) /\ g.at = "link_dir"
        /\ g.dir = Null /\ g.ino = f.v
    BY <1>1, <1>2, <1>3, <2>1 DEF IsFrame
  <2>3. GoodFrame(g)
    BY <1>1, <1>2, <1>3, <1>4, <1>7, <2>2 DEF GoodFrame, HasDir, HasIno, HasI, Putting,
       Reading, Claiming
  <2>4. Replaces(f, g)
    BY <1>1, <1>2, <2>2, <2>3 DEF Replaces, Kind, Whole, OpenCall, Claiming, Reading
  <2>5. PICK c : c = GetDir(f.path)
    OBVIOUS
  <2>6. Call(t, c, g) /\ RunsOn(t) /\ OnlyCalls
    BY <1>2, <1>7, <2>1, <2>5 DEF link_old
  <2>7. Calmly(t)
    BY <1>1, <2>6, CalmCalls
  <2>8. Awaits(g.at) = "inode or none"
    BY <2>2 DEF Awaits, Claimer, Got, Maybe, Found, Zoned, Claiming, Reading
  <2>9. Callee(c, Awaits(g.at))
    BY <2>5, <2>8, Callees
  <2>10. Owning(f, g)
    BY <1>3, <2>2, OwningIs
  <2>11. QED
    BY <1>1, <2>4, <2>6, <2>7, <2>9, <2>10, CallsFree
<1>8. QED
  BY <1>5, <1>6, <1>7

LEMMA LinkDir == ASSUME Inductive, NEW t \in Task, link_dir(t) PROVE Inductive'
<1>1. PICK f, r : Here(t, f, r) /\ f.at = "link_dir"
  BY Acts DEF link_dir
<1>2. GoodFrame(f) /\ IsFrame(f) /\ GoodTop(t, f) /\ Top(t) = f /\ Tables
  BY <1>1, HereIs
<1>3. f.ino \in Slot /\ LeavesTwo(f, f.v, f.ino) /\ f.dir = Null
  BY <1>1, <1>2, Classes, Blank DEF InoGivenAt
<1>4. f.v \in Slot \cup {Null}
  BY <1>1, <1>2 DEF GoodTop, Maybe
<1>5. CASE f.v = Null
  <2>1. Drop(t, <<f.ino>>, 0) /\ RunsOn(t) /\ OnlyCalls
    BY <1>2, <1>5 DEF link_dir
  <2>2. Calmly(t)
    BY <1>1, <2>1, CalmCalls
  <2>3. Droppable(f)
    BY <1>1 DEF Droppable, Kind, Whole, OpenCall, Claiming, Reading
  <2>4. LeavesOne(f, f.ino)
    BY <1>3, <1>5, NullIs
  <2>5. QED
    BY <1>1, <1>3, <2>4, <2>1, <2>2, <2>3, DropsOne
<1>6. CASE f.v # Null /\ Deleted(f.v)
  <2>1. f.v \in Slot
    BY <1>4, <1>6
  <2>2. Drop(t, <<f.v, f.ino>>, 0) /\ RunsOn(t) /\ OnlyCalls
    BY <1>2, <1>6 DEF link_dir
  <2>3. Calmly(t)
    BY <1>1, <2>2, CalmCalls
  <2>4. Droppable(f)
    BY <1>1 DEF Droppable, Kind, Whole, OpenCall, Claiming, Reading
  <2>5. QED
    BY <1>1, <1>3, <2>1, <2>2, <2>3, <2>4, DropsTwo
<1>7. CASE f.v # Null /\ ~ Deleted(f.v)
  <2>1. PICK g : g = [f EXCEPT !.at = "link_found", !.dir = f.v]
    OBVIOUS
  <2>2. /\ IsFrame(g) /\ g.at = "link_found"
        /\ g.dir = f.v /\ g.ino = f.ino
    BY <1>1, <1>2, <1>3, <2>1 DEF IsFrame
  <2>3. GoodFrame(g)
    BY <1>1, <1>2, <1>3, <1>4, <1>7, <2>2 DEF GoodFrame, HasDir, HasIno, HasI, Putting,
       Reading, Claiming
  <2>4. Replaces(f, g)
    BY <1>1, <1>2, <2>2, <2>3 DEF Replaces, Kind, Whole, OpenCall, Claiming, Reading
  <2>5. PICK c : c = Find(f.v, Last(f.path))
    OBVIOUS
  <2>6. Call(t, c, g) /\ RunsOn(t) /\ OnlyCalls
    BY <1>2, <1>7, <2>1, <2>5 DEF link_dir
  <2>7. Calmly(t)
    BY <1>1, <2>6, CalmCalls
  <2>8. Awaits(g.at) = "entry"
    BY <2>2 DEF Awaits, Claimer, Got, Maybe, Found, Zoned, Claiming, Reading
  <2>9. Callee(c, Awaits(g.at))
    BY <1>4, <1>7, <2>5, <2>8, Callees
  <2>10. Owning(f, g)
    BY <1>3, <2>2, OwningIs
  <2>11. QED
    BY <1>1, <2>4, <2>6, <2>7, <2>9, <2>10, CallsFree
<1>8. QED
  BY <1>5, <1>6, <1>7

LEMMA LinkFound == ASSUME Inductive, NEW t \in Task, link_found(t) PROVE Inductive'
<1>1. PICK f, r : Here(t, f, r) /\ f.at = "link_found"
  BY Acts DEF link_found
<1>2. GoodFrame(f) /\ IsFrame(f) /\ GoodTop(t, f) /\ Top(t) = f /\ Tables
  BY <1>1, HereIs
<1>3. /\ f.dir \in Slot /\ f.ino \in Slot
      /\ LeavesTwo(f, f.dir, f.ino) /\ LeavesTwo(f, f.ino, f.dir)
  BY <1>1, <1>2, Classes DEF BothAt
<1>4. CASE f.v # 0
  <2>1. Drop(t, <<f.dir, f.ino>>, 0) /\ RunsOn(t) /\ OnlyCalls
    BY <1>2, <1>4 DEF link_found
  <2>2. Calmly(t)
    BY <1>1, <2>1, CalmCalls
  <2>3. Droppable(f)
    BY <1>1 DEF Droppable, Kind, Whole, OpenCall, Claiming, Reading
  <2>4. QED
    BY <1>1, <1>3, <2>1, <2>2, <2>3, DropsTwo
<1>5. CASE f.v = 0
  <2>1. PICK g : g = [f EXCEPT !.at = "link_added"]
    OBVIOUS
  <2>2. /\ IsFrame(g) /\ g.at = "link_added"
        /\ g.dir = f.dir /\ g.ino = f.ino
    BY <1>1, <1>2, <1>3, <2>1 DEF IsFrame
  <2>3. GoodFrame(g)
    BY <1>1, <1>2, <1>3, <2>2 DEF GoodFrame, HasDir, HasIno, HasI, Putting, Reading, Claiming
  <2>4. Replaces(f, g)
    BY <1>1, <1>2, <2>2, <2>3 DEF Replaces, Kind, Whole, OpenCall, Claiming, Reading
  <2>5. PICK c : c = Add(f.dir, Last(f.path))
    OBVIOUS
  <2>6. Call(t, c, g) /\ RunsOn(t) /\ OnlyCalls
    BY <1>2, <1>5, <2>1, <2>5 DEF link_found
  <2>7. Calmly(t)
    BY <1>1, <2>6, CalmCalls
  <2>8. Awaits(g.at) = "nothing"
    BY <2>2 DEF Awaits, Claimer, Got, Maybe, Found, Zoned, Claiming, Reading
  <2>9. Callee(c, Awaits(g.at))
    BY <1>3, <2>5, <2>8, Callees
  <2>10. Owning(f, g)
    BY <1>3, <2>2, OwningIs
  <2>11. QED
    BY <1>1, <2>4, <2>6, <2>7, <2>9, <2>10, CallsFree
<1>6. QED
  BY <1>4, <1>5

LEMMA LinkAdded == ASSUME Inductive, NEW t \in Task, link_added(t) PROVE Inductive'
<1>1. PICK f, r : Here(t, f, r) /\ f.at = "link_added"
  BY Acts DEF link_added
<1>2. GoodFrame(f) /\ IsFrame(f) /\ GoodTop(t, f) /\ Top(t) = f /\ Tables
  BY <1>1, HereIs
<1>3. /\ f.dir \in Slot /\ f.ino \in Slot
      /\ LeavesTwo(f, f.dir, f.ino) /\ LeavesTwo(f, f.ino, f.dir)
  BY <1>1, <1>2, Classes DEF BothAt
<1>4. CASE f.v = 0
  <2>1. Drop(t, <<f.dir, f.ino>>, 0) /\ RunsOn(t) /\ data' = data /\ inode_table' = inode_table
        /\ DataAndTable
    BY <1>2, <1>4 DEF link_added
  <2>2. Calmly(t)
    BY <1>1, <2>1, CalmBits DEF DataAndTable, namei_vars, table
  <2>3. Droppable(f)
    BY <1>1 DEF Droppable, Kind, Whole, OpenCall, Claiming, Reading
  <2>4. QED
    BY <1>1, <1>3, <2>1, <2>2, <2>3, DropsTwo
<1>5. CASE f.v # 0
  <2>1. IsInode(inode_table[f.ino])
    BY <1>2, <1>3, InodeAt
  <2>2. inode_table[f.ino].num \in 0..NInodes
    BY <2>1 DEF IsInode
  <2>3. PICK g : g = [f EXCEPT !.at = "link_count", !.dir = Null]
    OBVIOUS
  <2>4. /\ IsFrame(g) /\ g.at = "link_count"
        /\ g.dir = Null /\ g.ino = f.ino
    BY <1>1, <1>2, <1>3, <2>3 DEF IsFrame
  <2>5. GoodFrame(g)
    BY <1>1, <1>2, <1>3, <2>4 DEF GoodFrame, HasDir, HasIno, HasI, Putting, Reading, Claiming
  <2>6. Replaces(f, g)
    BY <1>1, <1>2, <2>4, <2>5 DEF Replaces, Kind, Whole, OpenCall, Claiming, Reading
  <2>7. Call(t, Iput(f.dir), g) /\ RunsOn(t) /\ SetEntry(f.v, inode_table[f.ino].num)
        /\ inode_table' = inode_table /\ DataAndTable
    BY <1>2, <1>5, <2>3 DEF link_added
  <2>8. Calmly(t)
    BY <1>1, <1>2, <2>2, <2>7, CalmEntry
  <2>9. Awaits(g.at) = "nothing"
    BY <2>4 DEF Awaits, Claimer, Got, Maybe, Found, Zoned, Claiming, Reading
  <2>10. Owned(f, g, f.dir)
    BY <1>3, <2>4, OwningIs
  <2>11. QED
    BY <1>1, <1>3, <2>6, <2>7, <2>8, <2>9, <2>10, CallsIput
<1>6. QED
  BY <1>4, <1>5

LEMMA LinkCount == ASSUME Inductive, NEW t \in Task, link_count(t) PROVE Inductive'
<1>1. PICK f, r : Here(t, f, r) /\ f.at = "link_count"
  BY Acts DEF link_count
<1>2. GoodFrame(f) /\ IsFrame(f) /\ GoodTop(t, f) /\ Top(t) = f /\ Tables
  BY <1>1, HereIs
<1>3. f.ino \in Slot /\ LeavesOne(f, f.ino) /\ f.dir = Null
  BY <1>1, <1>2, Classes, Blank DEF InoAt, Claiming, Reading, Putting
<1>4. IsInode(inode_table[f.ino])
  BY <1>2, <1>3, InodeAt
<1>5. PICK m : m = [inode_table[f.ino] EXCEPT !.nlinks = @ + 1, !.dirt = TRUE]
  OBVIOUS
<1>6. IsInode(m) /\ SameUse(f.ino, m)
  BY <1>4, <1>5 DEF IsInode, SameUse
<1>7. CASE TRUE
  <2>1. Drop(t, <<f.ino>>, 0) /\ RunsOn(t) /\ Put(f.ino, m) /\ OnlyTable
    BY <1>2, <1>5, <1>7 DEF link_count
  <2>2. Calmly(t)
    BY <1>1, <1>3, <1>6, <2>1, CalmTable
  <2>3. Droppable(f)
    BY <1>1 DEF Droppable, Kind, Whole, OpenCall, Claiming, Reading
  <2>4. QED
    BY <1>1, <1>3, <2>1, <2>2, <2>3, DropsOne
<1>8. QED
  BY <1>7

-------------------------------------------------------------------------------
(* Searching and extending a directory; the end of a call. *)

LEMMA LeastNatural ==
  ASSUME NEW S \in SUBSET Nat, S # {}
  PROVE  \E m \in S : \A j \in S : m <= j
<1>1. PICK m \in S : \A j \in S : ~ (<<j, m>> \in OpToRel(<, Nat))
  BY NatLessThanWellFounded, WFMin
<1>2. \A j \in S : ~ (j < m)
  BY <1>1 DEF OpToRel
<1>3. QED
  BY <1>2

\* The smallest of some numbers is one of them.
LEMMA MinIs ==
  ASSUME NEW S \in SUBSET Nat, S # {}
  PROVE  Min(S) \in S
<1>1. PICK n : n \in S
  OBVIOUS
<1>2. \E m \in S : \A y \in S : m <= y
  BY <1>1, LeastNatural
<1>3. QED
  BY <1>2 DEF Min

\* The address of an entry says which block it is in and where.
LEMMA Address ==
  ASSUME NEW b \in Nat, NEW k \in 0..E - 1
  PROVE  (b * E + k) \div E = b /\ (b * E + k) % E = k
<1>1. E \in Nat \ {0}
  BY InodeAssumption DEF E
<1>2. QED
  BY <1>1

LEMMA FindScan == ASSUME Inductive, NEW t \in Task, find_scan(t) PROVE Inductive'
<1>1. PICK f, r : Here(t, f, r) /\ f.at = "find_scan"
  BY Acts DEF find_scan
<1>2. GoodFrame(f) /\ IsFrame(f) /\ GoodTop(t, f) /\ Top(t) = f /\ Tables
  BY <1>1, HereIs
<1>3. LeavesNone(f) /\ f.dir = Null /\ f.ino = Null
  BY <1>1, <1>2, Classes, Blank DEF BareAt
<1>4. f.i \in Slot /\ f.bh \in 1..NBlocks
  BY <1>1, <1>2 DEF GoodFrame, HasI
<1>5. IsInode(inode_table[f.i])
  BY <1>2, <1>4, InodeAt
<1>6. inode_table[f.i].zone[1] \in 0..NBlocks
  BY <1>5 DEF IsInode, Zone
<1>7. PICK match, next :
        /\ match = {k \in 0..E - 1 : /\ f.n * E + k < f.de
                                     /\ data[f.bh][k].inode # 0
                                     /\ data[f.bh][k].name = f.path[1]}
        /\ next = IF f.n = 0 THEN inode_table[f.i].zone[1] ELSE 0
  OBVIOUS
<1>8. /\ CASE match # {} -> Return(t, f.bh * E + Min(match)) /\ RunsOn(t)
           [] match = {} /\ f.de > E /\ next # 0 ->
                Goto(t, [f EXCEPT !.n = 1, !.bh = next]) /\ MaySleep
           [] OTHER -> Return(t, 0) /\ RunsOn(t)
      /\ OnlyCalls
  BY <1>2, <1>7 DEF find_scan
<1>9. CASE match # {}
  <2>1. match \in SUBSET (0..E - 1)
    BY <1>7
  <2>2. match \in SUBSET Nat
    BY <2>1
  <2>3. PICK k : k = Min(match) /\ k \in match
    BY <1>9, <2>2, MinIs
  <2>4. k \in 0..E - 1 /\ data[f.bh][k].inode # 0
    BY <1>7, <2>3
  <2>5. IsEntry(data[f.bh][k])
    BY <1>2, <1>4, <2>4 DEF Tables, GoodData, GoodBlock
  <2>6. PICK v : v = f.bh * E + k
    OBVIOUS
  <2>7. v \div E = f.bh /\ v % E = k
    BY <1>4, <2>4, <2>6, Address
  <2>8. Entry(v).inode \in 1..NInodes
    BY <2>4, <2>5, <2>7, InodeAssumption DEF Entry, IsEntry
  <2>9. data' = data
    BY <1>8 DEF OnlyCalls, disk
  <2>10. Entry(v)' = Entry(v)
    BY <2>9 DEF Entry
  <2>11. Return(t, v) /\ RunsOn(t) /\ OnlyCalls
    BY <1>2, <1>8, <2>3, <2>6, <1>9 DEF find_scan
  <2>12. Calmly(t)
    BY <1>1, <2>11, CalmCalls
  <2>13. running' = t
    BY <2>11 DEF RunsOn
  <2>14. Kind(f.at) = "entry"
    BY <1>1 DEF Kind, Whole, OpenCall, Claiming, Reading
  <2>15. Result("entry", v)'
    BY <2>8, <2>10 DEF Result
  <2>16. QED
    BY <1>1, <1>3, <2>11, <2>12, <2>13, <2>14, <2>15, ReturnsBare
<1>10. CASE match = {} /\ f.de > E /\ next # 0
  <2>1. next \in 1..NBlocks
    BY <1>6, <1>7, <1>10, InodeAssumption
  <2>2. PICK g : g = [f EXCEPT !.n = 1, !.bh = next]
    OBVIOUS
  <2>3. /\ IsFrame(g) /\ g.at = "find_scan"
        /\ g.i = f.i /\ g.dir = f.dir /\ g.ino = f.ino /\ g.bh = next
    BY <1>1, <1>2, <1>3, <2>2 DEF IsFrame
  <2>4. GoodFrame(g)
    BY <1>1, <1>2, <1>3, <1>4, <2>1, <2>3 DEF GoodFrame, HasDir, HasIno, HasI, Putting,
       Reading, Claiming
  <2>5. Replaces(f, g)
    BY <1>1, <1>2, <2>3, <2>4 DEF Replaces, Kind, Whole, OpenCall, Claiming, Reading
  <2>6. Goto(t, g) /\ MaySleep /\ OnlyCalls
    BY <1>2, <1>8, <1>10, <2>2 DEF find_scan
  <2>7. Calmly(t)
    BY <1>1, <2>6, CalmCalls
  <2>8. LeavesNone(g)
    BY <2>3, <2>4, Classes DEF BareAt
  <2>9. g.at \notin Needy
    BY <2>3 DEF Needy, Gives, Claimer, Got, Maybe, Found, Zoned, Claiming, Reading
  <2>10. Even(f, g)
    BY <1>1, <1>3, <2>3, <2>8, EvenIs
  <2>11. QED
    BY <1>1, <2>5, <2>6, <2>7, <2>9, <2>10, GoesEasy
<1>11. CASE match = {} /\ ~ (f.de > E /\ next # 0)
  <2>1. Return(t, 0) /\ RunsOn(t) /\ OnlyCalls
    BY <1>2, <1>8, <1>11 DEF find_scan
  <2>2. Calmly(t)
    BY <1>1, <2>1, CalmCalls
  <2>3. running' = t
    BY <2>1 DEF RunsOn
  <2>4. Kind(f.at) = "entry"
    BY <1>1 DEF Kind, Whole, OpenCall, Claiming, Reading
  <2>5. Result("entry", 0)'
    BY DEF Result
  <2>6. QED
    BY <1>1, <1>3, <2>1, <2>2, <2>3, <2>4, <2>5, ReturnsBare
<1>12. QED
  BY <1>9, <1>10, <1>11

LEMMA AddScan == ASSUME Inductive, NEW t \in Task, add_scan(t) PROVE Inductive'
<1>1. PICK f, r : Here(t, f, r) /\ f.at = "add_scan"
  BY Acts DEF add_scan
<1>2. GoodFrame(f) /\ IsFrame(f) /\ GoodTop(t, f) /\ Top(t) = f /\ Tables
  BY <1>1, HereIs
<1>3. LeavesNone(f) /\ f.dir = Null /\ f.ino = Null
  BY <1>1, <1>2, Classes, Blank DEF BareAt
<1>4. f.i \in Slot
  BY <1>1, <1>2 DEF GoodFrame, HasI
<1>5. PICK m : m = inode_table[f.i] /\ IsInode(m)
  BY <1>2, <1>4, InodeAt
<1>6. PICK free : free = {k \in 0..E - 1 : f.n * E + k >= m.size \/ data[f.bh][k].inode = 0}
  OBVIOUS
<1>7. CASE free # {}
  <2>1. PICK k : k = Min(free)
    OBVIOUS
  <2>2. PICK e : e = [inode |-> 0, name |-> f.path[1]]
    OBVIOUS
  <2>3. PICK w : w = IF f.n * E + k < m.size THEN m
                      ELSE [m EXCEPT !.size = f.n * E + k + 1, !.dirt = TRUE]
    OBVIOUS
  <2>4. data' = [data EXCEPT ![f.bh][k] = e] /\ Put(f.i, w) /\ DataAndTable
    BY <1>2, <1>5, <1>6, <1>7, <2>1, <2>2, <2>3 DEF add_scan
  <2>5. IsEntry(e)
    BY <2>2, InodeAssumption DEF IsEntry
  <2>6. GoodData(data')
    BY <1>2, <2>4, <2>5, EntryPut DEF Tables
  <2>7. GoodDisk(d_inode)'
    BY <1>2, <2>4 DEF Tables, DataAndTable
  <2>8. IsInode(w) /\ SameUse(f.i, w)
    BY <1>5, <2>3 DEF IsInode, SameUse
  <2>9. PICK v : v = f.bh * E + k
    OBVIOUS
  <2>10. Return(t, v) /\ RunsOn(t)
    BY <1>2, <1>5, <1>6, <2>1, <2>9, <1>7 DEF add_scan
  <2>11. Calmly(t)
    BY <1>1, <1>4, <2>8, <2>4, <2>6, <2>7, <2>10, CalmPut DEF DataAndTable
  <2>12. running' = t
    BY <2>10 DEF RunsOn
  <2>13. Kind(f.at) = "nothing"
    BY <1>1 DEF Kind, Whole, OpenCall, Claiming, Reading
  <2>14. Result("nothing", v)'
    BY DEF Result
  <2>15. QED
    BY <1>1, <1>3, <2>10, <2>11, <2>12, <2>13, <2>14, ReturnsBare
<1>8. CASE free = {} /\ f.n = 1
  <2>1. Return(t, 0) /\ RunsOn(t) /\ data' = data /\ inode_table' = inode_table
        /\ DataAndTable
    BY <1>2, <1>5, <1>6, <1>8 DEF add_scan
  <2>2. Calmly(t)
    BY <1>1, <2>1, CalmBits DEF DataAndTable, namei_vars, table
  <2>3. running' = t
    BY <2>1 DEF RunsOn
  <2>4. Kind(f.at) = "nothing"
    BY <1>1 DEF Kind, Whole, OpenCall, Claiming, Reading
  <2>5. Result("nothing", 0)'
    BY DEF Result
  <2>6. QED
    BY <1>1, <1>3, <2>1, <2>2, <2>3, <2>4, <2>5, ReturnsBare
<1>9. CASE free = {} /\ f.n # 1
  <2>1. 1 \in Zone
    BY DEF Zone
  <2>2. PICK g : g = [f EXCEPT !.at = "add_block", !.bh = 0]
    OBVIOUS
  <2>3. /\ IsFrame(g) /\ g.at = "add_block"
        /\ g.i = f.i /\ g.dir = Null /\ g.ino = Null
    BY <1>1, <1>2, <1>3, <2>2 DEF IsFrame
  <2>4. GoodFrame(g)
    BY <1>1, <1>2, <1>3, <2>3 DEF GoodFrame, HasDir, HasIno, HasI, Putting, Reading, Claiming
  <2>5. Replaces(f, g)
    BY <1>1, <1>2, <2>3, <2>4 DEF Replaces, Kind, Whole, OpenCall, Claiming, Reading
  <2>6. PICK c : c = [Frame("create_block") EXCEPT !.i = f.i, !.n = 1]
    OBVIOUS
  <2>7. Call(t, c, g) /\ RunsOn(t) /\ data' = data /\ inode_table' = inode_table
        /\ DataAndTable
    BY <1>2, <1>5, <1>6, <1>9, <2>2, <2>6 DEF add_scan
  <2>8. Calmly(t)
    BY <1>1, <2>7, CalmBits DEF DataAndTable, namei_vars, table
  <2>9. Awaits(g.at) = "zone"
    BY <2>3 DEF Awaits, Claimer, Got, Maybe, Found, Zoned, Claiming, Reading
  <2>10. Callee(c, Awaits(g.at))
    BY <1>4, <2>1, <2>6, <2>9, Callees
  <2>11. Owning(f, g)
    BY <1>3, <2>3, OwningIs
  <2>12. QED
    BY <1>1, <2>5, <2>7, <2>8, <2>10, <2>11, CallsFree
<1>10. QED
  BY <1>7, <1>8, <1>9

LEMMA EmptyDir == ASSUME Inductive, NEW t \in Task, empty_dir(t) PROVE Inductive'
<1>1. PICK f, r : Here(t, f, r) /\ f.at = "empty_dir"
  BY Acts DEF empty_dir
<1>2. GoodFrame(f) /\ IsFrame(f) /\ GoodTop(t, f) /\ Top(t) = f /\ Tables
  BY <1>1, HereIs
<1>3. LeavesNone(f) /\ f.dir = Null /\ f.ino = Null
  BY <1>1, <1>2, Classes, Blank DEF BareAt
<1>4. f.i \in Slot
  BY <1>1, <1>2 DEF GoodFrame, HasI
<1>5. PICK again, v :
        /\ v \in {0, 1}
        /\ \/ again = FALSE /\ Return(t, v) /\ RunsOn(t)
           \/ /\ again = TRUE /\ MaySleep
              /\ Goto(t, [f EXCEPT !.n = 1, !.bh = inode_table[f.i].zone[1]])
        /\ OnlyCalls
  BY <1>2 DEF empty_dir
<1>6. CASE again = FALSE
  <2>1. Return(t, v) /\ RunsOn(t) /\ OnlyCalls
    BY <1>2, <1>5, <1>6 DEF empty_dir
  <2>2. Calmly(t)
    BY <1>1, <2>1, CalmCalls
  <2>3. running' = t
    BY <2>1 DEF RunsOn
  <2>4. Kind(f.at) = "nothing"
    BY <1>1 DEF Kind, Whole, OpenCall, Claiming, Reading
  <2>5. Result("nothing", v)'
    BY DEF Result
  <2>6. QED
    BY <1>1, <1>3, <2>1, <2>2, <2>3, <2>4, <2>5, ReturnsBare
<1>7. CASE again # FALSE
  <2>1. PICK g : g = [f EXCEPT !.n = 1, !.bh = inode_table[f.i].zone[1]]
    OBVIOUS
  <2>2. /\ IsFrame(g) /\ g.at = "empty_dir"
        /\ g.i = f.i /\ g.dir = f.dir /\ g.ino = f.ino
    BY <1>1, <1>2, <1>3, <2>1 DEF IsFrame
  <2>3. GoodFrame(g)
    BY <1>1, <1>2, <1>3, <2>2 DEF GoodFrame, HasDir, HasIno, HasI, Putting, Reading, Claiming
  <2>4. Replaces(f, g)
    BY <1>1, <1>2, <2>2, <2>3 DEF Replaces, Kind, Whole, OpenCall, Claiming, Reading
  <2>5. Goto(t, g) /\ MaySleep /\ OnlyCalls
    BY <1>2, <1>5, <1>7, <2>1 DEF empty_dir
  <2>6. Calmly(t)
    BY <1>1, <2>5, CalmCalls
  <2>7. LeavesNone(g)
    BY <2>2, <2>3, Classes DEF BareAt
  <2>8. g.at \notin Needy
    BY <2>2 DEF Needy, Gives, Claimer, Got, Maybe, Found, Zoned, Claiming, Reading
  <2>9. Even(f, g)
    BY <1>1, <1>3, <2>2, <2>7, EvenIs
  <2>10. QED
    BY <1>1, <2>4, <2>5, <2>6, <2>8, <2>9, GoesEasy
<1>8. QED
  BY <1>6, <1>7

LEMMA NameiGot == ASSUME Inductive, NEW t \in Task, namei_got(t) PROVE Inductive'
<1>1. PICK f, r : Here(t, f, r) /\ f.at = "namei_got"
  BY Acts DEF namei_got
<1>2. GoodFrame(f) /\ IsFrame(f) /\ GoodTop(t, f) /\ Top(t) = f /\ Tables
  BY <1>1, HereIs
<1>3. LeavesOne(f, f.v) /\ f.dir = Null /\ f.ino = Null
  BY <1>1, <1>2, Classes, Blank DEF GivenAt
<1>4. f.v \in Slot
  BY <1>1, <1>2 DEF GoodTop, Got
<1>5. IsInode(inode_table[f.v])
  BY <1>2, <1>4, InodeAt
<1>6. PICK m : m = [inode_table[f.v] EXCEPT !.dirt = TRUE]
  OBVIOUS
<1>7. IsInode(m) /\ SameUse(f.v, m)
  BY <1>5, <1>6 DEF IsInode, SameUse
<1>8. Put(f.v, m) /\ Return(t, f.v) /\ RunsOn(t) /\ OnlyTable
  BY <1>2, <1>6 DEF namei_got
<1>9. Calmly(t) /\ running' = t
  BY <1>1, <1>4, <1>7, <1>8, CalmTable DEF RunsOn
<1>10. Kind(f.at) = "inode or none"
  BY <1>1 DEF Kind, Whole, OpenCall, Claiming, Reading
<1>11. QED
  BY <1>1, <1>3, <1>4, <1>8, <1>9, <1>10, ReturnsInode

LEMMA LenCons ==
  ASSUME NEW f, NEW s, IsStack(s)
  PROVE  Len(Cons(f, s)) = Len(s) + 1 /\ Len(s) \in Nat /\ (Len(s) = 0 => s = <<>>)
<1>1. PICK c : c = Cons(f, s)
  OBVIOUS
<1>2. IsCons(c, f, s)
  BY <1>1, ConsIs
<1>3. Len(c) = Len(s) + 1 /\ Len(s) \in Nat
  BY <1>2 DEF IsCons
<1>4. Len(s) = 0 => s = <<>>
  <2>1. PICK S : s \in Seq(S)
    BY DEF IsStack
  <2>2. QED
    BY <2>1, EmptySeq
<1>5. QED
  BY <1>1, <1>3, <1>4

LEMMA NothingLeft ==
  ASSUME NEW f, NEW s, IsStack(s), s = <<>>, LeavesNone(f)
  PROVE  Same(<<>>, Cons(f, s))
<1> SUFFICES ASSUME NEW i \in Slot PROVE Weight(<<>>, i) = Weight(Cons(f, s), i)
  BY DEF Same
<1>1. Weight(Cons(f, s), i) = Held(s, i) + Worth(f, i)
  BY WeightCons
<1>2. Held(<<>>, i) = 0
  BY HeldNone
<1>3. Num(Given(<<>>, i)) = 0
  BY DEF Given, Num
<1>4. Worth(f, i) = 0
  BY DEF LeavesNone
<1>5. QED
  BY <1>1, <1>2, <1>3, <1>4 DEF Weight

LEMMA End == ASSUME Inductive, NEW t \in Task, end(t) PROVE Inductive'
<1>1. PICK f, r : Here(t, f, r) /\ f.at = "end"
  BY Acts DEF end
<1>2. GoodFrame(f) /\ IsFrame(f) /\ GoodTop(t, f) /\ Top(t) = f /\ Tables
  BY <1>1, HereIs
<1>3. LeavesNone(f) /\ f.dir = Null /\ f.ino = Null
  BY <1>1, <1>2, Classes, Blank DEF BareAt
<1>4. stack[t] = Cons(f, r) /\ IsStack(r) /\ GoodStack(r, file[t])
  BY <1>1 DEF Here
<1>5. Len(stack[t]) = Len(r) + 1 /\ Len(r) \in Nat /\ (Len(r) = 0 => r = <<>>)
  BY <1>4, LenCons
<1>6. OnlyCalls /\ (RunsOn(t) \/ MaySleep)
  BY DEF end
<1>7. Calmly(t)
  BY <1>1, <1>6, CalmCalls
<1>8. CASE Len(stack[t]) > 1
  <2>1. Return(t, Null) /\ RunsOn(t)
    BY <1>8 DEF end
  <2>2. Len(r) # 0
    BY <1>5, <1>8
  <2>3. r # <<>>
    BY <2>2
  <2>4. Kind(f.at) = "inode or none"
    BY <1>1 DEF Kind, Whole, OpenCall, Claiming, Reading
  <2>5. running' = t
    BY <2>1 DEF RunsOn
  <2>6. QED
    BY <1>1, <1>3, <1>7, <2>1, <2>3, <2>4, <2>5, ReturnsNull
<1>9. CASE ~ (Len(stack[t]) > 1)
  <2>1. r = <<>>
    BY <1>5, <1>9
  <2>2. stack' = [stack EXCEPT ![t] = <<>>]
    BY <1>9 DEF end
  <2>3. MovesTo(t, <<>>)
    BY <1>7, <2>2 DEF MovesTo, Calmly
  <2>4. Arrives(t, <<>>)
    BY GoodEmpty DEF Arrives
  <2>5. Same(<<>>, Cons(f, r))
    BY <1>3, <1>4, <2>1, NothingLeft
  <2>6. QED
    BY <1>1, <1>7, <2>3, <2>4, <2>5, CalmStep DEF Calmly
<1>10. QED
  BY <1>8, <1>9

-------------------------------------------------------------------------------
(* One inode whose count changes. *)

Loose(f, i, m) ==
  inode_table[i].count > Worth(f, i) + Num(i = Root) => m.num = inode_table[i].num /\ ~ Claimed(i)
OthersSame(i) == \A j \in Slot \ {i} : inode_table'[j] = inode_table[j]

LEMMA BusyPut ==
  ASSUME NEW t \in Task, NEW f, NEW r, Here(t, f, r), NEW i \in Slot, NEW m, IsInode(m),
         Loose(f, i, m), Put(i, m), UNCHANGED last_allocated_inode, GoodDisk(d_inode)',
         GoodData(data)', UNCHANGED namei_vars, RunsOn(t)
  PROVE  Busily(t, f) /\ inode_table'[i] = m /\ OthersSame(i)
<1>1. Tables /\ halted = "no"
  BY HereIs
<1>2. /\ Tables' /\ inode_table'[i] = m
      /\ \A j \in Slot \ {i} : inode_table'[j] = inode_table[j]
  BY <1>1, PutTables
<1>3. ASSUME NEW j \in Slot, inode_table[j].count > Worth(f, j) + Num(j = Root)
      PROVE  Keeps(j)
  <2>1. CASE j = i
    BY <1>2, <1>3, <2>1 DEF Loose, Keeps
  <2>2. CASE j # i
    BY <1>2, <2>2 DEF Keeps, Claimed
  <2>3. QED
    BY <2>1, <2>2
<1>4. Spares(f)
  BY <1>3 DEF Spares
<1>5. halted' = "no" /\ running' = t /\ file' = file
  BY <1>1 DEF RunsOn, namei_vars
<1>6. QED
  BY <1>2, <1>4, <1>5 DEF Busily, OthersSame

\* One reference less, and none that anybody else has.
Released(f, a) ==
  /\ a \in Slot /\ LeavesOne(f, a) /\ OthersSame(a)
  /\ inode_table'[a].count = inode_table[a].count - 1

LEMMA Releases ==
  ASSUME Tables, NEW f, NEW a, Released(f, a), NEW v, \A i \in Slot : Hands(Kind(f.at), v, i) = 0
  PROVE  CountsFor(f, v)
<1> SUFFICES ASSUME NEW i \in Slot
             PROVE  inode_table'[i].count = inode_table[i].count - Worth(f, i)
                                            + Hands(Kind(f.at), v, i)
  BY DEF CountsFor
<1>1. inode_table[i].count \in Int
  BY CountType
<1>2. Worth(f, i) = Num(a = i) /\ Hands(Kind(f.at), v, i) = 0
  BY DEF Released, LeavesOne
<1>3. inode_table'[i].count = inode_table[i].count - Num(a = i)
  BY <1>1 DEF Released, OthersSame, Num
<1>4. QED
  BY <1>1, <1>2, <1>3 DEF Num

LEMMA Looses ==
  ASSUME NEW f, NEW i, Tables, i \in Slot, LeavesOne(f, i), NEW m,
         m.num = inode_table[i].num \/ inode_table[i].count <= 1
  PROVE  Loose(f, i, m)
<1>1. Worth(f, i) = 1
  BY DEF LeavesOne, Num
<1>2. inode_table[i].count \in Int
  BY CountType
<1>3. Num(i = Root) \in Nat
  BY NumType
<1>4. QED
  BY <1>1, <1>2, <1>3 DEF Loose, Claimed

LEMMA GetDirRoot == ASSUME Inductive, NEW t \in Task, get_dir(t) PROVE Inductive'
<1>1. PICK f, r : Here(t, f, r) /\ f.at = "get_dir"
  BY Acts DEF get_dir
<1>2. GoodFrame(f) /\ IsFrame(f) /\ GoodTop(t, f) /\ Top(t) = f /\ Tables
  BY <1>1, HereIs
<1>3. LeavesNone(f) /\ f.dir = Null /\ f.ino = Null
  BY <1>1, <1>2, Classes, Blank DEF BareAt
<1>4. Root \in Slot
  BY SlotIs
<1>5. IsInode(inode_table[Root])
  BY <1>2, <1>4, InodeAt
<1>6. PICK m : m = [inode_table[Root] EXCEPT !.count = @ + 1]
  OBVIOUS
<1>7. IsInode(m) /\ m.num = inode_table[Root].num /\ m.count = inode_table[Root].count + 1
  BY <1>5, <1>6 DEF IsInode
<1>8. PICK g : g = [f EXCEPT !.at = "get_dir_next", !.dir = Root]
  OBVIOUS
<1>9. IsFrame(g) /\ g.at = "get_dir_next" /\ g.dir = Root /\ g.ino = Null
  BY <1>2, <1>3, <1>8 DEF IsFrame
<1>10. GoodFrame(g)
  BY <1>4, <1>9 DEF GoodFrame, HasDir, HasIno, HasI, Putting, Reading, Claiming
<1>11. Replaces(f, g)
  BY <1>1, <1>9, <1>10 DEF Replaces, Kind, Whole, OpenCall, Claiming, Reading
<1>12. Put(Root, m) /\ Goto(t, g) /\ RunsOn(t) /\ OnlyTable
  BY <1>2, <1>6, <1>8 DEF get_dir
<1>13. Loose(f, Root, m)
  <2>1. Worth(f, Root) = 0 /\ Num(Root = Root) = 1
    BY <1>3, <1>4 DEF LeavesNone, Num
  <2>2. inode_table[Root].count > 1 => ~ Claimed(Root)
    BY DEF Claimed
  <2>3. QED
    BY <1>7, <2>1, <2>2 DEF Loose
<1>14. /\ UNCHANGED last_allocated_inode /\ UNCHANGED namei_vars
       /\ GoodDisk(d_inode)' /\ GoodData(data)'
  BY <1>2, <1>12, DiskKept DEF OnlyTable, disk
<1>15. Busily(t, f) /\ inode_table'[Root] = m /\ OthersSame(Root)
  BY <1>1, <1>4, <1>7, <1>12, <1>13, <1>14, BusyPut
<1>16. LeavesOne(g, Root)
  BY <1>9, <1>10, Classes DEF DirAt
<1>17. CountsTo(f, g)
  <2> SUFFICES ASSUME NEW i \in Slot
               PROVE  inode_table'[i].count = inode_table[i].count - Worth(f, i) + Worth(g, i)
    BY DEF CountsTo
  <2>1. inode_table[i].count \in Int
    BY <1>2, CountType
  <2>2. Worth(f, i) = 0 /\ Worth(g, i) = Num(Root = i)
    BY <1>3, <1>16 DEF LeavesNone, LeavesOne
  <2>3. inode_table'[i].count = inode_table[i].count + Num(Root = i)
    BY <1>7, <1>15, <2>1 DEF OthersSame, Num
  <2>4. QED
    BY <2>1, <2>2, <2>3 DEF Num
<1>18. stack' = [stack EXCEPT ![t] = Cons(g, r)]
  BY <1>1, <1>12, GotoShape
<1>19. GoodTop(t, g)'
  <2>1. g.at \notin Needy
    BY <1>9 DEF Needy, Gives, Claimer, Got, Maybe, Found, Zoned, Claiming, Reading
  <2>2. QED
    BY <2>1, EasyTop
<1>20. QED
  BY <1>1, <1>11, <1>15, <1>17, <1>18, <1>19, GoesBusy

-------------------------------------------------------------------------------
(* System calls begin and end. *)

LEMMA Opened == ASSUME Inductive, NEW t \in Task, opened(t) PROVE Inductive'
<1>1. PICK f, r : Here(t, f, r) /\ f.at = "opened"
  BY Acts DEF opened
<1>2. GoodFrame(f) /\ Top(t) = f /\ Tables /\ Fits(f, r, file[t])
  BY <1>1, HereIs DEF Here
<1>3. f.ino \in Slot /\ LeavesOne(f, f.ino)
  BY <1>1, <1>2, Classes DEF InoAt
<1>4. r = <<>> /\ file[t] = <<>>
  <2>1. f.at \in OpenCall /\ Kind(f.at) = "call"
    BY <1>1 DEF Kind, Whole, OpenCall
  <2>2. QED
    BY <1>2, <2>1, Kinds DEF Fits
<1>5. PICK o : o = <<f.ino>>
  OBVIOUS
<1>6. /\ stack' = [stack EXCEPT ![t] = <<>>] /\ file' = [file EXCEPT ![t] = o]
      /\ MaySleep /\ UNCHANGED <<table, disk>>
  BY <1>2, <1>5 DEF opened
<1>7. halted = "no" /\ Working
  BY <1>1 DEF Inductive, Here
<1>8. Moves(t, <<>>, o)
  <2>1. DOMAIN stack = Task /\ DOMAIN file = Task
    BY <1>7 DEF Working
  <2>2. Changes(stack, stack', t, <<>>) /\ Changes(file, file', t, o)
    BY <1>6, <2>1 DEF Changes
  <2>3. halted' = "no" /\ running' = Nobody /\ running \in {t, Nobody}
    BY <1>1, <1>6, <1>7 DEF MaySleep, Here
  <2>4. QED
    BY <1>7, <2>2, <2>3 DEF Moves
<1>9. GoodFile(o) /\ GoodStack(<<>>, o)
  BY <1>3, <1>5, GoodEmpty DEF GoodFile
<1>10. inode_table' = inode_table /\ Tables'
  <2>1. /\ inode_table' = inode_table /\ last_allocated_inode' = last_allocated_inode
        /\ d_inode' = d_inode /\ data' = data
    BY <1>6 DEF table, disk
  <2>2. QED
    BY <1>2, <2>1 DEF Tables
<1>11. OthersKeep(t)
  BY <1>10 DEF OthersKeep, Keeps, Claimed
<1>12. Balanced(t, <<>>, o)
  <2> SUFFICES ASSUME NEW i \in Slot
               PROVE  inode_table'[i].count = inode_table[i].count - Share(stack[t], file[t], i)
                                              + Share(<<>>, o, i)
    BY DEF Balanced
  <2>1. inode_table[i].count \in Int
    BY <1>2, CountType
  <2>2. stack[t] = Cons(f, r) /\ IsStack(r) /\ IsStack(stack[t])
    <3>1. stack[t] = Cons(f, r) /\ IsStack(r)
      BY <1>1 DEF Here
    <3>2. QED
      BY <3>1, ConsTop
  <2>3. Share(stack[t], file[t], i) = Weight(stack[t], i) + Opens(file[t], i)
    BY <2>2, ShareIs
  <2>4. Weight(stack[t], i) = Held(r, i) + Worth(f, i) /\ Held(r, i) = 0
    BY <1>4, <2>2, WeightCons, HeldNone
  <2>5. Opens(file[t], i) = 0 /\ Opens(o, i) = Num(f.ino = i)
    BY <1>4, <1>5 DEF Opens, Num
  <2>6. Worth(f, i) = Num(f.ino = i)
    BY <1>3 DEF LeavesOne
  <2>7. Share(<<>>, o, i) = Num(f.ino = i)
    BY <2>5, HeldNone DEF Share, Given, Num
  <2>8. QED
    BY <1>10, <2>1, <2>3, <2>4, <2>5, <2>6, <2>7 DEF Num
<1>13. QED
  BY <1>8, <1>9, <1>10, <1>11, <1>12, Step

\* The calls that begin hold what they have from the open file, or nothing.
Begins(t, s, o) ==
  /\ GoodFile(o) /\ GoodStack(s, o)
  /\ s # <<>> /\ Head(s).at \notin Needy
  /\ \A i \in Slot : Held(s, i) + Opens(o, i) = Opens(file[t], i)

LEMMA Beginning ==
  ASSUME Inductive, NEW t \in Task, NEW s, NEW o, Begin(t, s), Changes(file, file', t, o),
         Begins(t, s, o)
  PROVE  Inductive'
<1>1. /\ halted = "no" /\ running = Nobody /\ stack[t] = <<>>
      /\ stack' = [stack EXCEPT ![t] = s] /\ RunsOn(t) /\ UNCHANGED <<table, disk>>
  BY DEF Begin
<1>2. Working /\ Tables
  BY <1>1 DEF Inductive
<1>3. Moves(t, s, o)
  <2>1. DOMAIN stack = Task
    BY <1>2 DEF Working
  <2>2. Changes(stack, stack', t, s)
    BY <1>1, <2>1 DEF Changes
  <2>3. QED
    BY <1>1, <2>2 DEF Moves, RunsOn
<1>4. \A f : s # <<>> /\ f = Head(s) => GoodTop(t, f)'
  BY EasyTop DEF Begins
<1>5. inode_table' = inode_table /\ Tables'
  <2>1. /\ inode_table' = inode_table /\ last_allocated_inode' = last_allocated_inode
        /\ d_inode' = d_inode /\ data' = data
    BY <1>1 DEF table, disk
  <2>2. QED
    BY <1>2, <2>1 DEF Tables
<1>6. OthersKeep(t)
  BY <1>5 DEF OthersKeep, Keeps, Claimed
<1>7. Balanced(t, s, o)
  <2> SUFFICES ASSUME NEW i \in Slot
               PROVE  inode_table'[i].count = inode_table[i].count - Share(stack[t], file[t], i)
                                              + Share(s, o, i)
    BY DEF Balanced
  <2>1. inode_table[i].count \in Int
    BY <1>2, CountType
  <2>2. Share(stack[t], file[t], i) = Opens(file[t], i)
    BY <1>1, HeldNone, NumType DEF Share, Opens, Given, Num
  <2>3. Num(Given(s, i)) = 0
    BY DEF Begins, Given, Needy, Num
  <2>4. Held(s, i) + Opens(o, i) = Opens(file[t], i)
    BY DEF Begins
  <2>5. Share(s, o, i) = Held(s, i) + Opens(o, i) + Num(Given(s, i))
    BY DEF Share
  <2>6. Opens(file[t], i) \in Nat
    BY NumType DEF Opens
  <2>7. QED
    BY <1>5, <2>1, <2>2, <2>3, <2>4, <2>5, <2>6
<1>8. GoodFile(o) /\ GoodStack(s, o)
  BY DEF Begins
<1>9. QED
  BY <1>3, <1>4, <1>5, <1>6, <1>7, <1>8, Step

\* A task that is not in a call.
LEMMA Idle ==
  ASSUME Inductive, NEW t \in Task, halted = "no"
  PROVE  GoodFile(file[t]) /\ (file' = file => Changes(file, file', t, file[t]))
BY DEF Inductive, Working, Changes

LEMMA LiteralThree ==
  ASSUME NEW a, NEW b, NEW c
  PROVE  <<a, b, c>> = Cons(a, <<b, c>>)
<1>1. PICK S : S = {a, b, c}
  OBVIOUS
<1>2. PICK p, q, r : p = <<a>> /\ q = <<b, c>> /\ r = <<a, b, c>>
  OBVIOUS
<1>3. /\ p \in Seq(S) /\ Len(p) = 1 /\ p[1] = a
      /\ q \in Seq(S) /\ Len(q) = 2 /\ q[1] = b /\ q[2] = c
      /\ r \in Seq(S) /\ Len(r) = 3 /\ r[1] = a /\ r[2] = b /\ r[3] = c
  BY <1>1, <1>2
<1>4. PICK d : d = p \o q
  OBVIOUS
<1>5. /\ d \in Seq(S) /\ Len(d) = 1 + 2
      /\ \A i \in 1..1 + 2 : d[i] = IF i <= 1 THEN p[i] ELSE q[i - 1]
  <2>1. p \in Seq(S) /\ q \in Seq(S) /\ Len(p) = 1 /\ Len(q) = 2
    BY <1>3
  <2>2. QED
    BY <1>4, <2>1, ConcatProperties
<1>6. \A i \in 1..3 : d[i] = r[i]
  BY <1>3, <1>5
<1>7. d = r
  BY <1>3, <1>5, <1>6, SeqEqual
<1>8. QED
  BY <1>2, <1>4, <1>7 DEF Cons

\* A call at the bottom, and one on top of it.
Bottom(g, o) ==
  /\ GoodFrame(g) /\ g.at \in Whole \cup {"end"} /\ (g.at \in OpenCall => o = <<>>)
  /\ \A i \in Slot : Own(g, i) = 0

LEMMA OnBottom ==
  ASSUME NEW g, NEW o, Bottom(g, o)
  PROVE  /\ GoodStack(<<g>>, o) /\ <<g>> # <<>> /\ Head(<<g>>) = g
         /\ \A i \in Slot : Held(<<g>>, i) = 0
<1>1. IsStack(<<>>) /\ GoodStack(<<>>, o)
  BY EmptyStack, GoodEmpty
<1>2. Fits(g, <<>>, o)
  BY DEF Fits, Bottom
<1>3. PICK s : s = Cons(g, <<>>)
  OBVIOUS
<1>4. GoodStack(s, o) /\ s # <<>> /\ Head(s) = g
  BY <1>1, <1>2, <1>3, GoodCons, ConsTop
<1>5. ASSUME NEW i \in Slot PROVE Held(s, i) = 0
  <2>1. Held(s, i) = Held(<<>>, i) + Own(g, i)
    BY <1>1, <1>3, HeldCons
  <2>2. QED
    BY <2>1, HeldNone DEF Bottom
<1>6. s = <<g>>
  BY <1>3, Literal
<1>7. QED
  BY <1>4, <1>5, <1>6

LEMMA OnStack ==
  ASSUME NEW c, NEW s, NEW g, NEW o, GoodStack(s, o), s # <<>>, Head(s) = g, Serves(c, g)
  PROVE  /\ GoodStack(Cons(c, s), o) /\ Cons(c, s) # <<>> /\ Head(Cons(c, s)) = c
         /\ \A i \in Slot : Held(Cons(c, s), i) = Held(s, i) + Own(c, i) /\ Held(s, i) \in Nat
<1>1. IsStack(s)
  BY DEF GoodStack
<1>2. GoodStack(Cons(c, s), o) /\ Cons(c, s) # <<>> /\ Head(Cons(c, s)) = c
  BY Lean
<1>3. QED
  BY <1>1, <1>2, HeldCons

\* A system call with a path: get_dir first, over the call that waits for it.
Starting == {"mkdir", "rmdir", "unlink", "open"}

Nothing(g, l) == IsFrame(g) /\ g.at = l /\ g.dir = Null /\ g.ino = Null
Opening(s, o) ==
  /\ GoodStack(s, o) /\ s # <<>> /\ Head(s).at \notin Needy
  /\ \A i \in Slot : Held(s, i) = 0

LEMMA PathCall ==
  ASSUME NEW l \in Starting, NEW p, NEW g, Nothing(g, l), NEW o, l = "open" => o = <<>>,
         NEW u, u = <<GetDir(p), g>>
  PROVE  Opening(u, o)
<1>0. IsFrame(g) /\ g.at = l /\ g.dir = Null /\ g.ino = Null
  BY DEF Nothing
<1>1. GoodFrame(g)
  BY <1>0 DEF Starting, GoodFrame, HasDir, HasIno, HasI, Putting, Reading, Claiming
<1>2. /\ g.at \in Whole \cup {"end"} /\ (g.at \in OpenCall => g.at = "open")
      /\ Awaits(g.at) = "inode or none"
  BY <1>0 DEF Starting, Whole, OpenCall, Awaits, Claimer, Got, Maybe
<1>3. Bottom(g, o)
  BY <1>0, <1>1, <1>2, Unheld DEF Bottom
<1>4. PICK s : s = <<g>>
  OBVIOUS
<1>5. GoodStack(s, o) /\ s # <<>> /\ Head(s) = g /\ \A i \in Slot : Held(s, i) = 0
  BY <1>3, <1>4, OnBottom
<1>6. PICK c : c = GetDir(p)
  OBVIOUS
<1>7. Callee(c, Awaits(g.at))
  BY <1>2, <1>6, Callees
<1>8. Serves(c, g) /\ c.at \notin Needy /\ \A i \in Slot : Own(c, i) = 0
  BY <1>7, CalleeServes
<1>9. u = Cons(c, s)
  BY <1>4, <1>6, Literal
<1>10. GoodStack(u, o) /\ u # <<>> /\ Head(u) = c
  BY <1>5, <1>8, <1>9, OnStack
<1>11. \A i \in Slot : Held(u, i) = 0
  <2>1. \A i \in Slot : Held(u, i) = Held(s, i) + Own(c, i)
    BY <1>5, <1>8, <1>9, OnStack
  <2>2. QED
    BY <1>5, <1>8, <2>1
<1>12. QED
  BY <1>8, <1>10, <1>11 DEF Opening

LEMMA LinkCall ==
  ASSUME NEW p, NEW b, NEW g, NEW o, Nothing(b, "namei"), Nothing(g, "link"),
         NEW u, u = <<GetDir(p), b, g>>
  PROVE  Opening(u, o)
<1>0. /\ IsFrame(b) /\ b.at = "namei" /\ b.dir = Null /\ b.ino = Null
      /\ IsFrame(g) /\ g.at = "link" /\ g.dir = Null /\ g.ino = Null
  BY DEF Nothing
<1>1. GoodFrame(g) /\ GoodFrame(b)
  BY <1>0 DEF GoodFrame, HasDir, HasIno, HasI, Putting, Reading, Claiming
<1>2. /\ g.at \in Whole \cup {"end"} /\ g.at \notin OpenCall
      /\ Awaits(g.at) = "inode or none"
  BY <1>0 DEF Whole, OpenCall, Awaits, Claimer, Got, Maybe
<1>3. Bottom(g, o)
  BY <1>0, <1>1, <1>2, Unheld DEF Bottom
<1>4. PICK s : s = <<g>>
  OBVIOUS
<1>5. GoodStack(s, o) /\ s # <<>> /\ Head(s) = g /\ \A i \in Slot : Held(s, i) = 0
  BY <1>3, <1>4, OnBottom
<1>6. /\ Kind(b.at) = "inode or none" /\ b.at \notin OpenCall
      /\ Awaits(b.at) = "inode or none"
  BY <1>0 DEF Kind, Whole, OpenCall, Claiming, Reading, Awaits, Claimer, Got, Maybe
<1>7. Serves(b, g)
  BY <1>1, <1>2, <1>6 DEF Serves
<1>8. PICK q : q = Cons(b, s)
  OBVIOUS
<1>9. GoodStack(q, o) /\ q # <<>> /\ Head(q) = b
  BY <1>5, <1>7, <1>8, OnStack
<1>10. \A i \in Slot : Held(q, i) = 0
  <2>1. \A i \in Slot : Held(q, i) = Held(s, i) + Own(b, i)
    BY <1>5, <1>7, <1>8, OnStack
  <2>2. \A i \in Slot : Own(b, i) = 0
    BY <1>0, Unheld
  <2>3. QED
    BY <1>5, <2>1, <2>2
<1>11. PICK c : c = GetDir(p)
  OBVIOUS
<1>12. Callee(c, Awaits(b.at))
  BY <1>6, <1>11, Callees
<1>13. Serves(c, b) /\ c.at \notin Needy /\ \A i \in Slot : Own(c, i) = 0
  BY <1>12, CalleeServes
<1>14. u = Cons(c, q)
  <2>1. q = <<b, g>>
    BY <1>4, <1>8, Literal
  <2>2. QED
    BY <1>11, <2>1, LiteralThree
<1>15. GoodStack(u, o) /\ u # <<>> /\ Head(u) = c
  BY <1>9, <1>13, <1>14, OnStack
<1>16. \A i \in Slot : Held(u, i) = 0
  <2>1. \A i \in Slot : Held(u, i) = Held(q, i) + Own(c, i)
    BY <1>9, <1>13, <1>14, OnStack
  <2>2. QED
    BY <1>10, <1>13, <2>1
<1>17. QED
  BY <1>13, <1>15, <1>16 DEF Opening

\* A call that begins with the file of the task as it was.
LEMMA BeginsWith ==
  ASSUME Inductive, NEW t \in Task, NEW s, Begin(t, s), file' = file, Opening(s, file[t])
  PROVE  Inductive'
<1>1. halted = "no"
  BY DEF Begin
<1>2. PICK o : o = file[t]
  OBVIOUS
<1>3. GoodFile(o) /\ Changes(file, file', t, o)
  BY <1>1, <1>2, Idle
<1>4. \A i \in Slot : Held(s, i) + Opens(o, i) = Opens(file[t], i)
  BY <1>2, NumType DEF Opens, Opening
<1>5. Begins(t, s, o)
  BY <1>2, <1>3, <1>4 DEF Begins, Opening
<1>6. QED
  BY <1>3, <1>5, Beginning

LEMMA SysCall == ASSUME Inductive, NEW t \in Task, sys_call(t) PROVE Inductive'
<1>1. PICK p, q, op, flag :
        /\ \/ op \in Removes \cup {"mkdir"} /\ Begin(t, <<GetDir(p), [Frame(op) EXCEPT !.path = p]>>)
           \/ /\ file[t] = <<>>
              /\ Begin(t, <<GetDir(p), [Frame("open") EXCEPT !.path = p, !.n = flag]>>)
           \/ Begin(t, <<GetDir(p), [Frame("namei") EXCEPT !.path = p],
                         [Frame("link") EXCEPT !.path = q]>>)
        /\ file' = file
  BY DEF sys_call
<1>2. CASE op \in Removes \cup {"mkdir"} /\ Begin(t, <<GetDir(p), [Frame(op) EXCEPT !.path = p]>>)
  <2>1. PICK g, o, s : /\ g = [Frame(op) EXCEPT !.path = p] /\ o = file[t]
                       /\ s = <<GetDir(p), g>>
    OBVIOUS
  <2>2. Nothing(g, op)
    BY <2>1 DEF Nothing, Frame, IsFrame
  <2>3. op \in Starting /\ op # "open"
    BY <1>2 DEF Removes, Starting
  <2>4. Opening(s, o)
    BY <2>1, <2>2, <2>3, PathCall
  <2>5. Begin(t, s)
    BY <1>2, <2>1
  <2>6. QED
    BY <1>1, <2>1, <2>4, <2>5, BeginsWith
<1>3. CASE /\ file[t] = <<>>
           /\ Begin(t, <<GetDir(p), [Frame("open") EXCEPT !.path = p, !.n = flag]>>)
  <2>1. PICK g, o, s : /\ g = [Frame("open") EXCEPT !.path = p, !.n = flag] /\ o = file[t]
                       /\ s = <<GetDir(p), g>>
    OBVIOUS
  <2>2. Nothing(g, "open")
    BY <2>1 DEF Nothing, Frame, IsFrame
  <2>3. "open" \in Starting /\ o = <<>>
    BY <1>3, <2>1 DEF Starting
  <2>4. Opening(s, o)
    BY <2>1, <2>2, <2>3, PathCall
  <2>5. Begin(t, s)
    BY <1>3, <2>1
  <2>6. QED
    BY <1>1, <2>1, <2>4, <2>5, BeginsWith
<1>4. CASE Begin(t, <<GetDir(p), [Frame("namei") EXCEPT !.path = p],
                      [Frame("link") EXCEPT !.path = q]>>)
  <2>1. PICK b, g, o, s : /\ b = [Frame("namei") EXCEPT !.path = p]
                          /\ g = [Frame("link") EXCEPT !.path = q] /\ o = file[t]
                          /\ s = <<GetDir(p), b, g>>
    OBVIOUS
  <2>2. Nothing(b, "namei")
    BY <2>1 DEF Nothing, Frame, IsFrame
  <2>3. Nothing(g, "link")
    BY <2>1 DEF Nothing, Frame, IsFrame
  <2>4. Opening(s, o)
    BY <2>1, <2>2, <2>3, LinkCall
  <2>5. Begin(t, s)
    BY <1>4, <2>1
  <2>6. QED
    BY <1>1, <2>1, <2>4, <2>5, BeginsWith
<1>5. QED
  BY <1>1, <1>2, <1>3, <1>4

LEMMA SysSync == ASSUME Inductive, NEW t \in Task, sys_sync(t) PROVE Inductive'
<1>1. PICK g, o, s : /\ g = [Frame("sync_wait") EXCEPT !.i = 0] /\ o = file[t] /\ s = <<g>>
  OBVIOUS
<1>2. /\ IsFrame(g) /\ g.at = "sync_wait" /\ g.dir = Null /\ g.ino = Null /\ g.i \in Slot
  BY <1>1, SlotIs DEF Frame, IsFrame, Root
<1>3. GoodFrame(g)
  BY <1>2 DEF GoodFrame, HasDir, HasIno, HasI, Putting, Reading, Claiming
<1>4. Bottom(g, o)
  BY <1>2, <1>3, Unheld DEF Bottom, Whole, OpenCall
<1>5. GoodStack(s, o) /\ s # <<>> /\ Head(s) = g /\ \A i \in Slot : Held(s, i) = 0
  BY <1>1, <1>4, OnBottom
<1>6. g.at \notin Needy
  BY <1>2 DEF Needy, Gives, Claimer, Got, Maybe, Found, Zoned, Claiming, Reading
<1>7. Opening(s, o)
  BY <1>5, <1>6 DEF Opening
<1>8. Begin(t, s) /\ file' = file
  BY <1>1 DEF sys_sync
<1>9. QED
  BY <1>1, <1>7, <1>8, BeginsWith

LEMMA SysClose == ASSUME Inductive, NEW t \in Task, sys_close(t) PROVE Inductive'
<1>1. /\ file[t] # <<>> /\ Begin(t, <<Iput(file[t][1]), Frame("end")>>)
      /\ file' = [file EXCEPT ![t] = <<>>]
  BY DEF sys_close
<1>2. halted = "no" /\ Working
  BY <1>1 DEF Begin, Inductive
<1>3. DOMAIN file = Task /\ GoodFile(file[t])
  BY <1>2 DEF Working
<1>4. PICK a \in Slot : file[t] = <<a>>
  BY <1>1, <1>3 DEF GoodFile
<1>5. PICK c, g, p, s : c = Iput(a) /\ g = Frame("end") /\ p = <<g>> /\ s = <<c, g>>
  OBVIOUS
<1>6. Begin(t, s)
  BY <1>1, <1>4, <1>5
<1>7. Changes(file, file', t, <<>>)
  BY <1>1, <1>3 DEF Changes
<1>8. IsFrame(g) /\ g.at = "end" /\ g.dir = Null /\ g.ino = Null
  BY <1>5 DEF Frame, IsFrame
<1>9. GoodFrame(g)
  BY <1>8 DEF GoodFrame, HasDir, HasIno, HasI, Putting, Reading, Claiming
<1>10. Bottom(g, <<>>)
  BY <1>8, <1>9, Unheld DEF Bottom, OpenCall
<1>11. GoodStack(p, <<>>) /\ p # <<>> /\ Head(p) = g /\ \A i \in Slot : Held(p, i) = 0
  BY <1>5, <1>10, OnBottom
<1>12. /\ Serves(c, g) /\ c.at \notin Needy
       /\ \A i \in Slot : Own(c, i) = Num(a = i)
  <2>1. Awaits(g.at) = "nothing"
    BY <1>8, Ends
  <2>2. QED
    BY <1>5, <2>1, IputServes
<1>13. s = Cons(c, p)
  BY <1>5, Literal
<1>14. /\ GoodStack(s, <<>>) /\ s # <<>> /\ Head(s) = c
       /\ \A i \in Slot : Held(s, i) = Held(p, i) + Own(c, i)
  <2>1. GoodStack(p, <<>>) /\ p # <<>> /\ Head(p) = g /\ Serves(c, g)
    BY <1>11, <1>12
  <2>2. QED
    BY ONLY <1>13, <2>1, OnStack
<1>15. ASSUME NEW i \in Slot PROVE Held(s, i) + Opens(<<>>, i) = Opens(file[t], i)
  <2>1. Opens(<<>>, i) = 0 /\ Opens(file[t], i) = Num(a = i)
    BY <1>4 DEF Opens, Num
  <2>2. Held(s, i) = Num(a = i)
    BY <1>11, <1>12, <1>14, NumType
  <2>3. QED
    BY <2>1, <2>2, NumType
<1>16. Begins(t, s, <<>>)
  BY <1>12, <1>14, <1>15 DEF Begins, GoodFile
<1>17. QED
  BY <1>6, <1>7, <1>16, Beginning

-------------------------------------------------------------------------------
(* read_inode, write_inode, get_empty_inode. *)

LEMMA Panics ==
  ASSUME Inductive, Tables', NEW why, Panic(why), why # "no"
  PROVE  Inductive'
BY DEF Inductive, Panic

LEMMA Cleared ==
  /\ IsInode(memset0) /\ memset0.num = 0 /\ memset0.count = 0
  /\ \A z \in Zone : memset0.zone[z] = 0
<1>1. 0 \in 0..NBlocks /\ 0 \in 0..NInodes
  BY InodeAssumption
<1>2. [z \in Zone |-> 0] \in [Zone -> 0..NBlocks]
  BY <1>1
<1>3. QED
  BY <1>1, <1>2 DEF memset0, IsInode

LEMMA TablesKept ==
  ASSUME Tables, UNCHANGED <<table, d_inode, data>>
  PROVE  Tables'
<1>1. /\ inode_table' = inode_table /\ last_allocated_inode' = last_allocated_inode
      /\ d_inode' = d_inode /\ data' = data
  BY DEF table
<1>2. QED
  BY <1>1 DEF Tables

LEMMA SleepOn ==
  ASSUME Inductive, NEW t \in Task, sleep_on(t), UNCHANGED namei_vars PROVE Inductive'
<1>1. /\ running = t /\ stack[t] # <<>> /\ Top(t).at \in Waiting
      /\ running' = Nobody /\ halted' = halted /\ stack' = stack /\ file' = file
      /\ UNCHANGED <<table, disk>>
  BY DEF sleep_on, MaySleep, namei_vars
<1>2. inode_table' = inode_table /\ Tables'
  <2>1. /\ inode_table' = inode_table /\ last_allocated_inode' = last_allocated_inode
        /\ d_inode' = d_inode /\ data' = data
    BY <1>1 DEF table, disk
  <2>2. Tables
    BY DEF Inductive
  <2>3. QED
    BY <2>1, <2>2 DEF Tables
<1>3. CASE halted # "no"
  BY <1>1, <1>2, <1>3 DEF Inductive
<1>4. CASE halted = "no"
  <2>1. At(t, Top(t).at)
    BY <1>1, <1>4 DEF At
  <2>2. PICK f, r : Here(t, f, r) /\ f.at \in Waiting
    BY <1>1, <2>1, Acts
  <2>3. /\ f = Top(t) /\ stack[t] # <<>> /\ Tables /\ GoodTop(t, f)
        /\ stack[t] = Cons(f, r) /\ IsStack(r)
        /\ Fits(f, r, file[t]) /\ GoodStack(r, file[t]) /\ GoodFile(file[t])
    BY <2>2 DEF Here
  <2>4. PICK s, o : s = stack[t] /\ o = file[t]
    OBVIOUS
  <2>5. Working
    BY <1>4 DEF Inductive
  <2>6. Moves(t, s, o)
    <3>1. DOMAIN stack = Task /\ DOMAIN file = Task
      BY <2>5 DEF Working
    <3>2. Changes(stack, stack', t, s) /\ Changes(file, file', t, o)
      BY <1>1, <2>4, <3>1 DEF Changes
    <3>3. QED
      BY <1>1, <1>4, <3>2 DEF Moves
  <2>7. GoodStack(s, o) /\ GoodFile(o)
    BY <2>5, <2>4 DEF Working
  <2>8. GoodTop(t, f)'
    <3>1. f.at \notin Gives \cup Found
      BY <2>2 DEF Waiting, Gives, Claimer, Got, Maybe, Found
    <3>2. f.at \notin Claimer /\ f.at \notin Got /\ f.at \notin Maybe /\ f.at \notin Found
      BY <3>1 DEF Gives
    <3>3. QED
      BY <1>2, <2>3, <3>1, <3>2 DEF GoodTop, Claimed
  <2>9. \A g : s # <<>> /\ g = Head(s) => GoodTop(t, g)'
    BY <2>3, <2>4, <2>8 DEF Top
  <2>10. OthersKeep(t)
    BY <1>2 DEF OthersKeep, Keeps, Claimed
  <2>11. Balanced(t, s, o)
    <3> SUFFICES ASSUME NEW i \in Slot
                 PROVE  inode_table'[i].count = inode_table[i].count
                          - Share(stack[t], file[t], i) + Share(s, o, i)
      BY DEF Balanced
    <3>1. inode_table[i].count \in Int
      BY <2>3, CountType
    <3>2. IsStack(s)
      BY <2>7 DEF GoodStack
    <3>3. Share(s, o, i) \in Nat
      <4>1. /\ Share(s, o, i) = Weight(s, i) + Opens(o, i)
            /\ Weight(s, i) \in Nat /\ Opens(o, i) \in Nat
        BY <3>2, ShareIs
      <4>2. QED
        BY <4>1
    <3>4. QED
      BY <1>2, <2>4, <3>1, <3>3
  <2>12. QED
    BY <1>2, <2>6, <2>7, <2>9, <2>10, <2>11, Step
<1>5. QED
  BY <1>3, <1>4

LEMMA DiskSet ==
  ASSUME NEW D, GoodDisk(D), NEW n, NEW m, IsInode(m)
  PROVE  GoodDisk([D EXCEPT ![n] = Stored(m)])
<1>1. PICK d, F : d = Stored(m) /\ F = [D EXCEPT ![n] = Stored(m)]
  OBVIOUS
<1>2. IsStored(d)
  BY <1>1 DEF Stored, IsStored, IsInode
<1>3. DOMAIN D = 1..NInodes /\ \A j \in 1..NInodes : IsStored(D[j])
  BY DEF GoodDisk
<1>4. DOMAIN F = 1..NInodes /\ \A j \in 1..NInodes : F[j] = IF j = n THEN d ELSE D[j]
  BY <1>1, <1>3
<1>5. GoodDisk(F)
  BY <1>2, <1>3, <1>4 DEF GoodDisk
<1>6. QED
  BY <1>1, <1>5

LEMMA WriteInode ==
  ASSUME Inductive, NEW t \in Task, write_inode(t), UNCHANGED namei_vars PROVE Inductive'
<1>1. PICK f, r : Here(t, f, r) /\ f.at = "write_inode"
  BY Acts DEF write_inode
<1>2. GoodFrame(f) /\ IsFrame(f) /\ GoodTop(t, f) /\ Top(t) = f /\ Tables
  BY <1>1, HereIs
<1>3. LeavesNone(f) /\ f.dir = Null /\ f.ino = Null
  BY <1>1, <1>2, Classes, Blank DEF BareAt
<1>4. f.i \in Slot
  BY <1>1, <1>2 DEF GoodFrame, HasI, Reading
<1>5. IsInode(inode_table[f.i])
  BY <1>2, <1>4, InodeAt
<1>6. PICK m : m = [inode_table[f.i] EXCEPT !.lock = TRUE]
  OBVIOUS
<1>7. IsInode(m) /\ SameUse(f.i, m)
  BY <1>5, <1>6 DEF IsInode, SameUse
<1>8. PICK g : g = [f EXCEPT !.at = "write_copy"]
  OBVIOUS
<1>9. /\ IsFrame(g) /\ g.at = "write_copy"
      /\ g.i = f.i /\ g.dir = f.dir /\ g.ino = f.ino
  BY <1>1, <1>2, <1>8 DEF IsFrame
<1>10. GoodFrame(g)
  BY <1>1, <1>2, <1>9 DEF GoodFrame, HasDir, HasIno, HasI, Putting, Reading, Claiming
<1>11. Replaces(f, g)
  BY <1>1, <1>2, <1>9, <1>10 DEF Replaces, Kind, Whole, OpenCall, Claiming, Reading
<1>12. Put(f.i, m) /\ Goto(t, g) /\ MaySleep /\ OnlyTable
  BY <1>2, <1>6, <1>8 DEF write_inode, OnlyTable
<1>13. Calmly(t)
  BY <1>1, <1>4, <1>7, <1>12, CalmTable
<1>14. LeavesNone(g)
  BY <1>9, <1>10, Classes DEF BareAt
<1>15. g.at \notin Needy
  BY <1>9 DEF Needy, Gives, Claimer, Got, Maybe, Found, Zoned, Claiming, Reading
<1>16. Even(f, g)
  BY <1>3, <1>14, EvenIs
<1>17. QED
  BY <1>1, <1>11, <1>12, <1>13, <1>15, <1>16, GoesEasy

LEMMA ReadInode ==
  ASSUME Inductive, NEW t \in Task, read_inode(t), UNCHANGED namei_vars PROVE Inductive'
<1>1. PICK f, r : Here(t, f, r) /\ f.at = "read_inode"
  BY Acts DEF read_inode
<1>2. GoodFrame(f) /\ IsFrame(f) /\ GoodTop(t, f) /\ Top(t) = f /\ Tables
  BY <1>1, HereIs
<1>3. f.ino \in Slot /\ LeavesOne(f, f.ino) /\ f.dir = Null
  BY <1>1, <1>2, Classes, Blank DEF InoAt, Claiming, Reading, Putting
<1>4. f.i \in Slot
  BY <1>1, <1>2 DEF GoodFrame, HasI, Reading
<1>5. IsInode(inode_table[f.i])
  BY <1>2, <1>4, InodeAt
<1>6. PICK m : m = [inode_table[f.i] EXCEPT !.lock = TRUE]
  OBVIOUS
<1>7. IsInode(m) /\ SameUse(f.i, m)
  BY <1>5, <1>6 DEF IsInode, SameUse
<1>8. PICK g : g = [f EXCEPT !.at = "read_copy"]
  OBVIOUS
<1>9. /\ IsFrame(g) /\ g.at = "read_copy"
      /\ g.i = f.i /\ g.dir = f.dir /\ g.ino = f.ino
  BY <1>1, <1>2, <1>8 DEF IsFrame
<1>10. GoodFrame(g)
  BY <1>1, <1>2, <1>9 DEF GoodFrame, HasDir, HasIno, HasI, Putting, Reading, Claiming
<1>11. Replaces(f, g)
  BY <1>1, <1>2, <1>9, <1>10 DEF Replaces, Kind, Whole, OpenCall, Claiming, Reading
<1>12. Put(f.i, m) /\ Goto(t, g) /\ MaySleep /\ OnlyTable
  BY <1>2, <1>6, <1>8 DEF read_inode, OnlyTable
<1>13. Calmly(t)
  BY <1>1, <1>4, <1>7, <1>12, CalmTable
<1>14. LeavesOne(g, g.ino)
  BY <1>9, <1>10, Classes DEF InoAt, Reading
<1>15. Even(f, g)
  BY <1>3, <1>9, <1>14, EvenIs
<1>16. GoodTop(t, g)'
  <2>1. inode_table[f.i].num # 0
    BY <1>1, <1>2 DEF GoodTop, Reading
  <2>2. inode_table'[f.i].num = inode_table[f.i].num
    BY <1>4, <1>13 DEF Calmly, Plain
  <2>3. QED
    BY <1>9, <2>1, <2>2 DEF GoodTop, Gives, Claimer, Got, Maybe, Found, Zoned, Claiming
<1>17. stack' = [stack EXCEPT ![t] = Cons(g, r)]
  BY <1>1, <1>12, GotoShape
<1>18. QED
  BY <1>1, <1>11, <1>13, <1>15, <1>16, <1>17, Goes

LEMMA WriteCopy ==
  ASSUME Inductive, NEW t \in Task, write_copy(t), UNCHANGED namei_vars PROVE Inductive'
<1>1. PICK f, r : Here(t, f, r) /\ f.at = "write_copy"
  BY Acts DEF write_copy
<1>2. GoodFrame(f) /\ IsFrame(f) /\ GoodTop(t, f) /\ Top(t) = f /\ Tables
  BY <1>1, HereIs
<1>3. LeavesNone(f) /\ f.dir = Null /\ f.ino = Null
  BY <1>1, <1>2, Classes, Blank DEF BareAt
<1>4. f.i \in Slot
  BY <1>1, <1>2 DEF GoodFrame, HasI
<1>5. PICK m : m = inode_table[f.i] /\ IsInode(m)
  BY <1>2, <1>4, InodeAt
<1>6. PICK w : w = [m EXCEPT !.dirt = FALSE, !.lock = FALSE]
  OBVIOUS
<1>7. IsInode(w) /\ SameUse(f.i, w)
  BY <1>5, <1>6 DEF IsInode, SameUse
<1>8. /\ d_inode' = [d_inode EXCEPT ![m.num] = Stored(m)] /\ data' = data
      /\ Put(f.i, w) /\ Return(t, 0) /\ RunsOn(t)
      /\ last_allocated_inode' = last_allocated_inode
  BY <1>2, <1>5, <1>6 DEF write_copy
<1>9. GoodDisk(d_inode)' /\ GoodData(data)'
  <2>1. GoodDisk(d_inode) /\ GoodData(data)
    BY <1>2 DEF Tables
  <2>2. GoodDisk(d_inode')
    BY <1>5, <1>8, <2>1, DiskSet
  <2>3. QED
    BY <1>8, <2>1, <2>2
<1>10. Calmly(t)
  BY <1>1, <1>4, <1>7, <1>8, <1>9, CalmPut
<1>11. Kind(f.at) = "nothing"
  BY <1>1 DEF Kind, Whole, OpenCall, Claiming, Reading
<1>12. Result("nothing", 0)' /\ running' = t
  BY <1>8 DEF Result, RunsOn
<1>13. QED
  BY <1>1, <1>3, <1>8, <1>10, <1>11, <1>12, ReturnsBare

LEMMA ReadCopy ==
  ASSUME Inductive, NEW t \in Task, read_copy(t), UNCHANGED namei_vars PROVE Inductive'
<1>1. PICK f, r : Here(t, f, r) /\ f.at = "read_copy"
  BY Acts DEF read_copy
<1>2. GoodFrame(f) /\ IsFrame(f) /\ GoodTop(t, f) /\ Top(t) = f /\ Tables
  BY <1>1, HereIs
<1>3. f.ino \in Slot /\ LeavesOne(f, f.ino) /\ f.dir = Null
  BY <1>1, <1>2, Classes, Blank DEF InoAt, Claiming, Reading, Putting
<1>4. f.i \in Slot /\ f.i = f.ino
  BY <1>1, <1>2 DEF GoodFrame, HasI, Reading
<1>5. PICK m : m = inode_table[f.i] /\ IsInode(m)
  BY <1>2, <1>4, InodeAt
<1>6. m.num \in 1..NInodes
  BY <1>1, <1>2, <1>5 DEF GoodTop, Reading, IsInode
<1>7. PICK d : d = d_inode[m.num] /\ IsStored(d)
  BY <1>2, <1>6 DEF Tables, GoodDisk
<1>8. PICK w : w = [Loaded(m, d) EXCEPT !.lock = FALSE]
  OBVIOUS
<1>9. IsInode(w) /\ SameUse(f.i, w)
  BY <1>5, <1>7, <1>8 DEF Loaded, IsInode, IsStored, SameUse
<1>10. Put(f.i, w) /\ Return(t, f.i) /\ RunsOn(t) /\ OnlyTable
  BY <1>2, <1>5, <1>7, <1>8 DEF read_copy, OnlyTable
<1>11. Calmly(t) /\ running' = t
  BY <1>1, <1>4, <1>9, <1>10, CalmTable DEF RunsOn
<1>12. Kind(f.at) = "inode" /\ f.at # "end"
  BY <1>1 DEF Kind, Whole, OpenCall, Claiming, Reading
<1>13. QED
  BY <1>1, <1>3, <1>4, <1>10, <1>11, <1>12, ReturnsInode

LEMMA GetEmptyInode ==
  ASSUME Inductive, NEW t \in Task, get_empty_inode(t), UNCHANGED namei_vars PROVE Inductive'
<1>1. PICK f, r : Here(t, f, r) /\ f.at = "get_empty_inode"
  BY Acts DEF get_empty_inode
<1>2. GoodFrame(f) /\ IsFrame(f) /\ GoodTop(t, f) /\ Top(t) = f /\ Tables
  BY <1>1, HereIs
<1>3. LeavesNone(f) /\ f.dir = Null /\ f.ino = Null
  BY <1>1, <1>2, Classes, Blank DEF BareAt
<1>4. PICK free : free = {k \in Slot : inode_table[(last_allocated_inode + k) % NR_INODE].count = 0}
  OBVIOUS
<1>5. UNCHANGED <<inode_table, disk, namei_vars>>
  BY DEF get_empty_inode
<1>6. CASE free = {}
  <2>1. Panic("No free inodes in mem") /\ UNCHANGED last_allocated_inode
    BY <1>4, <1>6 DEF get_empty_inode
  <2>2. Tables'
    BY <1>2, <1>5, <2>1, TablesKept DEF table, disk
  <2>3. QED
    BY <2>1, <2>2, Panics
<1>7. CASE free # {}
  <2>1. PICK k : k = Min(free)
    OBVIOUS
  <2>2. free \in SUBSET Slot
    BY <1>4
  <2>3. Slot \in SUBSET Nat
    BY InodeAssumption DEF Slot
  <2>4. k \in Nat
    BY <1>7, <2>1, <2>2, <2>3, MinIs
  <2>5. PICK a : a = (last_allocated_inode + k) % NR_INODE
    OBVIOUS
  <2>6. a \in Slot
    BY <1>2, <2>4, <2>5, InodeAssumption DEF Tables, Slot
  <2>7. last_allocated_inode' = a /\ Goto(t, [Frame("empty_wait") EXCEPT !.i = a]) /\ RunsOn(t)
    BY <1>4, <1>7, <2>1, <2>5 DEF get_empty_inode
  <2>8. PICK g : g = [Frame("empty_wait") EXCEPT !.i = a]
    OBVIOUS
  <2>9. /\ IsFrame(g) /\ g.at = "empty_wait"
        /\ g.i = a /\ g.dir = Null /\ g.ino = Null
    BY <2>8 DEF Frame, IsFrame
  <2>10. GoodFrame(g)
    BY <1>1, <1>2, <1>3, <2>6, <2>9 DEF GoodFrame, HasDir, HasIno, HasI, Putting, Reading,
       Claiming
  <2>11. Replaces(f, g)
    BY <1>1, <1>2, <2>9, <2>10 DEF Replaces, Kind, Whole, OpenCall, Claiming, Reading
  <2>12. Goto(t, g) /\ RunsOn(t)
    BY <1>2, <2>7, <1>7, <2>8 DEF Frame
  <2>13. /\ inode_table' = inode_table /\ d_inode' = d_inode /\ data' = data
        /\ file' = file /\ halted = "no" /\ halted' = "no" /\ running' = t
    BY <1>1, <1>5, <2>7 DEF disk, namei_vars, RunsOn, Here
  <2>14. Tables'
    BY <1>2, <2>6, <2>7, <2>13 DEF Tables
  <2>15. Calmly(t)
    BY <2>13, <2>14 DEF Calmly, Plain
  <2>16. LeavesNone(g)
    BY <2>9, <2>10, Classes DEF BareAt
  <2>17. g.at \notin Needy
    BY <2>9 DEF Needy, Gives, Claimer, Got, Maybe, Found, Zoned, Claiming, Reading
  <2>18. Even(f, g)
    BY <1>1, <1>3, <2>9, <2>16, EvenIs
  <2>19. QED
    BY <1>1, <2>11, <2>12, <2>15, <2>17, <2>18, GoesEasy
<1>8. QED
  BY <1>6, <1>7

LEMMA EmptyWait ==
  ASSUME Inductive, NEW t \in Task, empty_wait(t), UNCHANGED namei_vars PROVE Inductive'
<1>1. PICK f, r : Here(t, f, r) /\ f.at = "empty_wait"
  BY Acts DEF empty_wait
<1>2. GoodFrame(f) /\ IsFrame(f) /\ GoodTop(t, f) /\ Top(t) = f /\ Tables
  BY <1>1, HereIs
<1>3. LeavesNone(f) /\ f.dir = Null /\ f.ino = Null
  BY <1>1, <1>2, Classes, Blank DEF BareAt
<1>4. f.i \in Slot
  BY <1>1, <1>2 DEF GoodFrame, HasI
<1>5. PICK m : m = inode_table[f.i] /\ IsInode(m)
  BY <1>2, <1>4, InodeAt
<1>6. RunsOn(t) /\ UNCHANGED <<last_allocated_inode, disk, namei_vars>>
  BY DEF empty_wait
<1>7. CASE m.dirt
  <2>1. PICK g : g = f
    OBVIOUS
  <2>2. /\ IsFrame(g) /\ g.at = "empty_wait"
        /\ g.i = f.i /\ g.dir = Null /\ g.ino = Null
    BY <1>1, <1>2, <1>3, <2>1 DEF IsFrame
  <2>3. GoodFrame(g)
    BY <1>1, <1>2, <1>3, <2>2 DEF GoodFrame, HasDir, HasIno, HasI, Putting, Reading, Claiming
  <2>4. Replaces(f, g)
    BY <1>1, <1>2, <2>2, <2>3 DEF Replaces, Kind, Whole, OpenCall, Claiming, Reading
  <2>5. PICK c : c = [Frame("write_inode") EXCEPT !.i = f.i]
    OBVIOUS
  <2>6. Call(t, c, g) /\ RunsOn(t) /\ OnlyCalls
    BY <1>2, <1>5, <1>6, <1>7, <2>1, <2>5 DEF empty_wait, OnlyCalls, table
  <2>7. Calmly(t)
    BY <1>1, <2>6, CalmCalls
  <2>8. Awaits(g.at) = "nothing"
    BY <2>2 DEF Awaits, Claimer, Got, Maybe, Found, Zoned, Claiming, Reading
  <2>9. Callee(c, Awaits(g.at))
    BY <1>4, <2>5, <2>8, Callees
  <2>10. Owning(f, g)
    BY <1>3, <2>2, OwningIs
  <2>11. QED
    BY <1>1, <2>4, <2>6, <2>7, <2>9, <2>10, CallsFree
<1>8. CASE ~ m.dirt /\ m.count # 0
  <2>1. PICK g : g = Frame("get_empty_inode")
    OBVIOUS
  <2>2. /\ IsFrame(g) /\ g.at = "get_empty_inode"
        /\ g.dir = Null /\ g.ino = Null
    BY <2>1 DEF Frame, IsFrame
  <2>3. GoodFrame(g)
    BY <1>1, <1>2, <1>3, <2>2 DEF GoodFrame, HasDir, HasIno, HasI, Putting, Reading, Claiming
  <2>4. Replaces(f, g)
    BY <1>1, <1>2, <2>2, <2>3 DEF Replaces, Kind, Whole, OpenCall, Claiming, Reading
  <2>5. Goto(t, g) /\ RunsOn(t) /\ OnlyCalls
    BY <1>2, <1>5, <1>6, <1>8, <2>1 DEF empty_wait, OnlyCalls, table
  <2>6. Calmly(t)
    BY <1>1, <2>5, CalmCalls
  <2>7. LeavesNone(g)
    BY <2>2, <2>3, Classes DEF BareAt
  <2>8. g.at \notin Needy
    BY <2>2 DEF Needy, Gives, Claimer, Got, Maybe, Found, Zoned, Claiming, Reading
  <2>9. Even(f, g)
    BY <1>1, <1>3, <2>2, <2>7, EvenIs
  <2>10. QED
    BY <1>1, <2>4, <2>5, <2>6, <2>8, <2>9, GoesEasy
<1>9. CASE ~ m.dirt /\ m.count = 0
  <2>1. PICK z : z = memset0
    OBVIOUS
  <2>2. IsInode(z) /\ z.num = 0
    BY <2>1, Cleared
  <2>3. PICK w : w = [z EXCEPT !.count = 1]
    OBVIOUS
  <2>4. w.num = 0 /\ w.count = 1 /\ IsInode(w)
    BY <2>2, <2>3 DEF IsInode
  <2>5. Put(f.i, w) /\ Return(t, f.i)
    BY <1>2, <1>5, <1>9, <2>1, <2>3 DEF empty_wait
  <2>6. Loose(f, f.i, w)
    <3>1. Worth(f, f.i) = 0 /\ Num(f.i = Root) \in Nat
      BY <1>3, <1>4, NumType DEF LeavesNone
    <3>2. QED
      BY <1>5, <1>9, <3>1 DEF Loose
  <2>7. UNCHANGED last_allocated_inode /\ GoodDisk(d_inode)' /\ GoodData(data)'
    BY <1>2, <1>6, DiskKept DEF disk
  <2>8. Busily(t, f) /\ inode_table'[f.i] = w /\ OthersSame(f.i)
    BY <1>1, <1>4, <1>6, <2>4, <2>5, <2>6, <2>7, BusyPut
  <2>9. Kind(f.at) = "slot"
    BY <1>1 DEF Kind, Whole, OpenCall, Claiming, Reading
  <2>10. CountsFor(f, f.i)
    <3> SUFFICES ASSUME NEW i \in Slot
                 PROVE  inode_table'[i].count = inode_table[i].count - Worth(f, i)
                                                + Hands(Kind(f.at), f.i, i)
      BY DEF CountsFor
    <3>1. inode_table[i].count \in Int
      BY <1>2, CountType
    <3>2. Worth(f, i) = 0 /\ Hands(Kind(f.at), f.i, i) = Num(f.i = i)
      BY <1>3, <2>9 DEF LeavesNone, Hands
    <3>3. inode_table'[i].count = inode_table[i].count + Num(f.i = i)
      BY <1>5, <1>9, <2>4, <2>8, <3>1 DEF OthersSame, Num
    <3>4. QED
      BY <3>1, <3>2, <3>3 DEF Num
  <2>11. Result("slot", f.i)'
    BY <1>4, <2>4, <2>8 DEF Result, Claimed
  <2>12. r # <<>>
    BY <1>1, HasCaller DEF Whole, OpenCall
  <2>13. QED
    BY <1>1, <2>5, <2>8, <2>9, <2>10, <2>11, <2>12, ReturnsBusy
<1>10. QED
  BY <1>7, <1>8, <1>9

-------------------------------------------------------------------------------
(* iget and new_inode. *)

LEMMA IgetStep ==
  ASSUME Inductive, NEW t \in Task, iget(t), UNCHANGED namei_vars PROVE Inductive'
<1>1. PICK f, r : Here(t, f, r) /\ f.at \in {"iget", "iget_scan"}
  BY Acts DEF iget
<1>2. GoodFrame(f) /\ IsFrame(f) /\ GoodTop(t, f) /\ Top(t) = f /\ Tables
  BY <1>1, HereIs
<1>3. PICK empty : empty = IF At(t, "iget") THEN Top(t).v ELSE Top(t).ino
  OBVIOUS
<1>4. /\ empty \in Slot /\ Claimed(empty) /\ LeavesOne(f, empty)
      /\ f.dir = Null /\ f.n \in 1..NInodes
  <2>1. CASE f.at = "iget"
    <3>1. At(t, "iget")
      BY <1>1, <2>1 DEF Here, At
    <3>2. empty = f.v
      BY <1>2, <1>3, <3>1
    <3>3. empty \in Slot /\ Claimed(empty)
      BY <1>2, <2>1, <3>2 DEF GoodTop, Claimer
    <3>4. LeavesOne(f, empty) /\ f.dir = Null
      BY <1>2, <2>1, <3>2, Classes, Blank DEF GivenAt
    <3>5. QED
      BY <1>2, <2>1, <3>3, <3>4 DEF GoodFrame
  <2>2. CASE f.at = "iget_scan"
    <3>1. ~ At(t, "iget")
      BY <1>2, <2>2 DEF At
    <3>2. empty = f.ino
      BY <1>2, <1>3, <3>1
    <3>3. Claimed(empty)
      BY <1>2, <2>2, <3>2 DEF GoodTop, Claiming
    <3>4. empty \in Slot /\ LeavesOne(f, empty) /\ f.dir = Null
      BY <1>2, <2>2, <3>2, Classes, Blank DEF InoAt, Claiming
    <3>5. QED
      BY <1>2, <2>2, <3>3, <3>4 DEF GoodFrame, Claiming
  <2>3. QED
    BY <1>1, <2>1, <2>2
<1>5. PICK found : found = {j \in Slot : inode_table[j].num = Top(t).n}
  OBVIOUS
<1>6. RunsOn(t) /\ UNCHANGED <<last_allocated_inode, d_inode, data, file>>
  BY DEF iget, namei_vars
<1>7. PICK m : m = inode_table[empty] /\ IsInode(m)
  BY <1>2, <1>4, InodeAt
<1>8. m.num = 0 /\ m.count = 1
  BY <1>4, <1>7 DEF Claimed
<1>9. Kind(f.at) = "inode" /\ f.at # "end"
  BY <1>1 DEF Kind, Whole, OpenCall, Claiming
<1>10. CASE found # {}
  <2>1. PICK k : k = Min(found)
    OBVIOUS
  <2>2. found \in SUBSET Slot
    BY <1>5
  <2>3. Slot \in SUBSET Nat
    BY InodeAssumption DEF Slot
  <2>4. k \in Slot
    BY <1>10, <2>1, <2>2, <2>3, MinIs
  <2>5. PICK g : g = [f EXCEPT !.at = "iget_wait", !.ino = empty, !.i = k]
    OBVIOUS
  <2>6. /\ IsFrame(g) /\ g.at = "iget_wait"
        /\ g.dir = f.dir /\ g.ino = empty /\ g.i = k /\ g.n = f.n
    BY <1>2, <2>5 DEF IsFrame
  <2>7. GoodFrame(g)
    BY <1>4, <2>4, <2>6 DEF GoodFrame, HasDir, HasIno, HasI, Putting, Reading, Claiming
  <2>8. Replaces(f, g)
    BY <1>9, <2>6, <2>7 DEF Replaces, Kind, Whole, OpenCall, Claiming
  <2>9. Goto(t, g) /\ UNCHANGED inode_table
    BY <1>2, <1>3, <1>5, <1>10, <2>1, <2>5 DEF iget
  <2>10. Calmly(t)
    BY <1>1, <1>6, <2>9, CalmBits DEF table
  <2>11. GoodTop(t, g)'
    <3>1. inode_table'[empty] = m
      BY <1>7, <2>9
    <3>2. Claimed(empty)'
      BY <1>8, <3>1 DEF Claimed
    <3>3. QED
      BY <2>6, <3>2 DEF GoodTop, Gives, Claimer, Got, Maybe, Found, Zoned, Reading
  <2>12. LeavesOne(g, empty)
    BY <2>6, <2>7, Classes DEF InoAt, Claiming
  <2>13. Even(f, g)
    BY <1>4, <2>12, EvenIs
  <2>14. stack' = [stack EXCEPT ![t] = Cons(g, r)]
    BY <1>1, <2>9, GotoShape
  <2>15. QED
    BY <1>1, <2>8, <2>10, <2>11, <2>13, <2>14, Goes
<1>11. CASE found = {}
  <2>1. PICK w : w = [m EXCEPT !.num = f.n]
    OBVIOUS
  <2>2. IsInode(w) /\ w.num = f.n /\ w.count = 1
    BY <1>4, <1>7, <1>8, <2>1 DEF IsInode
  <2>3. PICK g : g = [Frame("read_inode") EXCEPT !.ino = empty, !.i = empty]
    OBVIOUS
  <2>4. Put(empty, w) /\ Goto(t, g)
    BY <1>2, <1>3, <1>5, <1>7, <1>11, <2>1, <2>3 DEF iget
  <2>5. IsFrame(g) /\ g.at = "read_inode" /\ g.dir = Null /\ g.ino = empty /\ g.i = empty
    BY <2>3 DEF Frame, IsFrame
  <2>6. GoodFrame(g)
    BY <1>4, <2>5 DEF GoodFrame, HasDir, HasIno, HasI, Putting, Reading, Claiming
  <2>7. Replaces(f, g)
    BY <1>9, <2>5, <2>6 DEF Replaces, Kind, Whole, OpenCall, Claiming, Reading
  <2>8. Loose(f, empty, w)
    <3>1. inode_table[empty].count <= 1
      BY <1>7, <1>8
    <3>2. QED
      BY <1>2, <1>4, <3>1, Looses
  <2>9. GoodDisk(d_inode)' /\ GoodData(data)'
    BY <1>2, <1>6, DiskKept
  <2>10. Busily(t, f) /\ inode_table'[empty] = w /\ OthersSame(empty)
    BY <1>1, <1>4, <1>6, <2>2, <2>4, <2>8, <2>9, BusyPut
  <2>11. GoodTop(t, g)'
    <3>1. inode_table'[empty].num # 0
      BY <1>4, <2>2, <2>10
    <3>2. QED
      BY <2>5, <3>1 DEF GoodTop, Gives, Claimer, Got, Maybe, Found, Zoned, Claiming
  <2>12. LeavesOne(g, empty)
    BY <2>5, <2>6, Classes DEF InoAt, Reading
  <2>13. Even(f, g)
    BY <1>4, <2>12, EvenIs
  <2>14. CountsTo(f, g)
    <3> SUFFICES ASSUME NEW i \in Slot
                 PROVE  inode_table'[i].count = inode_table[i].count - Worth(f, i) + Worth(g, i)
      BY DEF CountsTo
    <3>1. inode_table[i].count \in Int
      BY <1>2, CountType
    <3>2. inode_table'[i].count = inode_table[i].count
      BY <1>7, <1>8, <2>2, <2>10 DEF OthersSame
    <3>3. Worth(g, i) = Worth(f, i)
      BY <2>13 DEF Even
    <3>4. Worth(f, i) \in Nat
      BY <1>4, NumType DEF LeavesOne
    <3>5. QED
      BY <3>1, <3>2, <3>3, <3>4
  <2>15. stack' = [stack EXCEPT ![t] = Cons(g, r)]
    BY <1>1, <2>4, GotoShape
  <2>16. QED
    BY <1>1, <2>7, <2>10, <2>11, <2>14, <2>15, GoesBusy
<1>12. QED
  BY <1>10, <1>11

LEMMA IgetWait ==
  ASSUME Inductive, NEW t \in Task, iget_wait(t), UNCHANGED namei_vars PROVE Inductive'
<1>1. PICK f, r : Here(t, f, r) /\ f.at = "iget_wait"
  BY Acts DEF iget_wait
<1>2. GoodFrame(f) /\ IsFrame(f) /\ GoodTop(t, f) /\ Top(t) = f /\ Tables
  BY <1>1, HereIs
<1>3. f.ino \in Slot /\ LeavesOne(f, f.ino) /\ f.dir = Null
  BY <1>1, <1>2, Classes, Blank DEF InoAt, Claiming, Reading, Putting
<1>4. f.i \in Slot /\ f.n \in 1..NInodes
  BY <1>1, <1>2 DEF GoodFrame, HasI, Claiming
<1>5. Claimed(f.ino)
  BY <1>1, <1>2 DEF GoodTop, Claiming
<1>6. RunsOn(t) /\ UNCHANGED <<last_allocated_inode, disk, namei_vars>>
  BY DEF iget_wait
<1>7. Kind(f.at) = "inode" /\ f.at # "end"
  BY <1>1 DEF Kind, Whole, OpenCall, Claiming
<1>8. CASE inode_table[f.i].num # f.n
  <2>1. PICK g : g = [f EXCEPT !.at = "iget_scan"]
    OBVIOUS
  <2>2. /\ IsFrame(g) /\ g.at = "iget_scan"
        /\ g.dir = f.dir /\ g.ino = f.ino /\ g.n = f.n
    BY <1>2, <2>1 DEF IsFrame
  <2>3. GoodFrame(g)
    BY <1>3, <1>4, <2>2 DEF GoodFrame, HasDir, HasIno, HasI, Putting, Reading, Claiming
  <2>4. Replaces(f, g)
    BY <1>7, <2>2, <2>3 DEF Replaces, Kind, Whole, OpenCall, Claiming
  <2>5. Goto(t, g) /\ UNCHANGED inode_table
    BY <1>2, <1>8, <2>1 DEF iget_wait
  <2>6. Calmly(t)
    BY <1>1, <1>6, <2>5, CalmBits DEF table, disk, namei_vars
  <2>7. GoodTop(t, g)'
    <3>1. Claimed(f.ino)'
      BY <1>5, <2>5 DEF Claimed
    <3>2. QED
      BY <2>2, <3>1 DEF GoodTop, Gives, Claimer, Got, Maybe, Found, Zoned, Reading
  <2>8. LeavesOne(g, f.ino)
    BY <2>2, <2>3, Classes DEF InoAt, Claiming
  <2>9. Even(f, g)
    BY <1>3, <2>8, EvenIs
  <2>10. stack' = [stack EXCEPT ![t] = Cons(g, r)]
    BY <1>1, <2>5, GotoShape
  <2>11. QED
    BY <1>1, <2>4, <2>6, <2>7, <2>9, <2>10, Goes
<1>9. CASE inode_table[f.i].num = f.n
  <2>1. PICK a, b : a = f.i /\ b = f.ino
    OBVIOUS
  <2>2. /\ inode_table' = [inode_table EXCEPT ![a].count = @ + 1, ![b].count = @ - 1]
        /\ Return(t, a)
    BY <1>2, <1>9, <2>1 DEF iget_wait
  <2>3. PICK m, e : m = inode_table[a] /\ e = inode_table[b] /\ IsInode(m) /\ IsInode(e)
    BY <1>2, <1>3, <1>4, <2>1, InodeAt
  <2>4. m.num = f.n /\ e.num = 0 /\ e.count = 1 /\ a # b
    BY <1>4, <1>5, <1>9, <2>1, <2>3 DEF Claimed
  <2>5. PICK m2, e2 : m2 = [m EXCEPT !.count = @ + 1] /\ e2 = [e EXCEPT !.count = @ - 1]
    OBVIOUS
  <2>6. /\ IsInode(m2) /\ m2.num = f.n /\ m2.count = m.count + 1 /\ m.count \in Int
        /\ IsInode(e2) /\ e2.num = 0 /\ e2.count = 0
    BY <2>3, <2>4, <2>5 DEF IsInode
  <2>7. GoodTable(inode_table)
    BY <1>2 DEF Tables
  <2>8. /\ DOMAIN inode_table' = Slot /\ inode_table'[a] = m2 /\ inode_table'[b] = e2
        /\ \A j \in Slot \ {a, b} : inode_table'[j] = inode_table[j]
    <3>1. DOMAIN inode_table = Slot /\ a \in Slot /\ b \in Slot
      BY <1>3, <1>4, <2>1, <2>7 DEF GoodTable
    <3>2. QED
      BY <2>2, <2>3, <2>4, <2>5, <3>1
  <2>9. GoodTable(inode_table)'
    BY <2>6, <2>7, <2>8 DEF GoodTable
  <2>10. GoodDisk(d_inode)' /\ GoodData(data)'
    BY <1>2, <1>6, DiskKept DEF disk
  <2>11. Tables'
    BY <1>2, <1>6, <2>9, <2>10 DEF Tables
  <2>12. Spares(f)
    <3> SUFFICES ASSUME NEW j \in Slot, inode_table[j].count > Worth(f, j) + Num(j = Root)
                 PROVE  Keeps(j)
      BY DEF Spares
    <3>1. j # b
      <4>1. Num(b = b) = Worth(f, b)
        BY <1>3, <2>1 DEF LeavesOne
      <4>2. Worth(f, b) = 1
        BY <4>1 DEF Num
      <4>3. Num(b = Root) \in Nat
        BY NumType
      <4>4. ~ (inode_table[b].count > Worth(f, b) + Num(b = Root))
        BY <2>3, <2>4, <4>2, <4>3
      <4>5. QED
        BY <4>4
    <3>2. CASE j = a
      <4>1. ~ Claimed(j) /\ inode_table'[j].num = inode_table[j].num
        BY <1>4, <2>3, <2>4, <2>6, <2>8, <3>2 DEF Claimed
      <4>2. QED
        BY <4>1 DEF Keeps
    <3>3. CASE j # a
      <4>1. inode_table'[j] = inode_table[j]
        BY <2>8, <3>1, <3>3
      <4>2. QED
        BY <4>1 DEF Keeps, Claimed
    <3>4. QED
      BY <3>2, <3>3
  <2>13. Busily(t, f)
    BY <1>1, <1>6, <2>11, <2>12 DEF Busily, RunsOn, namei_vars, Here
  <2>14. CountsFor(f, a)
    <3> SUFFICES ASSUME NEW i \in Slot
                 PROVE  inode_table'[i].count = inode_table[i].count - Worth(f, i)
                                                + Hands(Kind(f.at), a, i)
      BY DEF CountsFor
    <3>1. inode_table[i].count \in Int
      BY <1>2, CountType
    <3>2. Worth(f, i) = Num(b = i) /\ Hands(Kind(f.at), a, i) = Num(a = i)
      BY <1>3, <1>7, <2>1 DEF LeavesOne, Hands
    <3>3. CASE i = a
      BY <2>3, <2>4, <2>6, <2>8, <3>2, <3>3 DEF Num
    <3>4. CASE i = b
      BY <2>3, <2>4, <2>6, <2>8, <3>2, <3>4 DEF Num
    <3>5. CASE i # a /\ i # b
      BY <2>8, <3>1, <3>2, <3>5 DEF Num
    <3>6. QED
      BY <3>3, <3>4, <3>5
  <2>15. Result("inode", a)'
    BY <1>4, <2>1 DEF Result
  <2>16. r # <<>>
    BY <1>1, HasCaller DEF Whole, OpenCall
  <2>17. QED
    BY <1>1, <1>7, <2>2, <2>13, <2>14, <2>15, <2>16, ReturnsBusy
<1>10. QED
  BY <1>8, <1>9

\* An inode that is given another count, another number or other links.
LEMMA Recounted ==
  ASSUME NEW m, IsInode(m), NEW c \in Int, NEW w, w = [m EXCEPT !.count = c]
  PROVE  IsInode(w) /\ w.count = c /\ w.num = m.num
BY DEF IsInode

LEMMA Relinked ==
  ASSUME NEW m, IsInode(m), NEW l, NEW w, w = [m EXCEPT !.nlinks = l, !.dirt = TRUE]
  PROVE  IsInode(w) /\ w.count = m.count /\ w.num = m.num
BY DEF IsInode

LEMMA Renumbered ==
  ASSUME NEW m, IsInode(m), NEW n \in 0..NInodes, NEW w, w = [m EXCEPT !.num = n]
  PROVE  IsInode(w) /\ w.count = m.count /\ w.num = n
BY DEF IsInode

LEMMA NewInodeStep ==
  ASSUME Inductive, NEW t \in Task, new_inode(t), UNCHANGED namei_vars PROVE Inductive'
<1>1. PICK f, r : Here(t, f, r) /\ f.at = "new_inode"
  BY Acts DEF new_inode
<1>2. GoodFrame(f) /\ IsFrame(f) /\ GoodTop(t, f) /\ Top(t) = f /\ Tables
  BY <1>1, HereIs
<1>3. LeavesOne(f, f.v) /\ f.dir = Null /\ f.ino = Null
  BY <1>1, <1>2, Classes, Blank DEF GivenAt
<1>4. f.v \in Slot /\ Claimed(f.v)
  BY <1>1, <1>2 DEF GoodTop, Claimer
<1>5. PICK free : free = (1..NInodes) \ imap
  OBVIOUS
<1>6. RunsOn(t) /\ UNCHANGED <<last_allocated_inode, d_inode, data, namei_vars>>
  BY DEF new_inode
<1>7. PICK m : m = inode_table[f.v] /\ IsInode(m)
  BY <1>2, <1>4, InodeAt
<1>8. m.num = 0 /\ m.count = 1
  BY <1>4, <1>7 DEF Claimed
<1>9. GoodDisk(d_inode)' /\ GoodData(data)'
  BY <1>2, <1>6, DiskKept
<1>10. Kind(f.at) = "inode or none"
  BY <1>1 DEF Kind, Whole, OpenCall, Claiming, Reading
<1>11. r # <<>>
  BY <1>1, HasCaller DEF Whole, OpenCall
<1>12. ASSUME NEW w
       PROVE  Loose(f, f.v, w)
  <2>1. inode_table[f.v].count <= 1
    BY <1>7, <1>8
  <2>2. QED
    BY <1>2, <1>3, <1>4, <2>1, Looses
<1>13. CASE free = {}
  <2>1. PICK w : w = [m EXCEPT !.count = @ - 1]
    OBVIOUS
  <2>2. IsInode(w) /\ w.count = m.count - 1
    BY <1>7, <2>1 DEF IsInode
  <2>3. Put(f.v, w) /\ Return(t, Null)
    BY <1>2, <1>5, <1>7, <1>13, <2>1 DEF new_inode
  <2>4. Busily(t, f) /\ inode_table'[f.v] = w /\ OthersSame(f.v)
    BY <1>1, <1>4, <1>6, <1>9, <1>12, <2>2, <2>3, BusyPut
  <2>5. Released(f, f.v)
    BY <1>3, <1>4, <1>7, <2>2, <2>4 DEF Released
  <2>6. \A i \in Slot : Hands(Kind(f.at), Null, i) = 0
    BY SlotIs DEF Hands, Num
  <2>7. CountsFor(f, Null)
    BY <1>2, <2>5, <2>6, Releases
  <2>8. Result("inode or none", Null)'
    BY DEF Result
  <2>9. QED
    BY <1>1, <1>10, <1>11, <2>3, <2>4, <2>7, <2>8, ReturnsBusy
<1>14. CASE free # {}
  <2>1. PICK n : n = Min(free)
    OBVIOUS
  <2>2. n \in 1..NInodes
    <3>1. free \in SUBSET (1..NInodes)
      BY <1>5
    <3>2. free \in SUBSET Nat
      BY <3>1, InodeAssumption
    <3>3. n \in free
      BY <1>14, <2>1, <3>2, MinIs
    <3>4. QED
      BY <3>1, <3>3
  <2>3. PICK w : w = [m EXCEPT !.count = 1, !.nlinks = 1, !.dirt = TRUE, !.num = n]
    OBVIOUS
  <2>4. IsInode(w) /\ w.count = 1
    <3>1. PICK u, v : /\ u = [m EXCEPT !.count = 1]
                      /\ v = [u EXCEPT !.nlinks = 1, !.dirt = TRUE]
      OBVIOUS
    <3>2. w = [v EXCEPT !.num = n]
      BY <2>3, <3>1
    <3>3. IsInode(u) /\ u.count = 1
      BY <1>7, <3>1, Recounted
    <3>4. IsInode(v) /\ v.count = 1
      BY <3>1, <3>3, Relinked
    <3>5. n \in 0..NInodes
      BY <2>2
    <3>6. QED
      BY <3>2, <3>4, <3>5, Renumbered
  <2>5. Put(f.v, w) /\ Return(t, f.v)
    BY <1>2, <1>5, <1>7, <1>14, <2>1, <2>3 DEF new_inode
  <2>6. Busily(t, f) /\ inode_table'[f.v] = w /\ OthersSame(f.v)
    BY <1>1, <1>4, <1>6, <1>9, <1>12, <2>4, <2>5, BusyPut
  <2>7. CountsFor(f, f.v)
    <3> SUFFICES ASSUME NEW i \in Slot
                 PROVE  inode_table'[i].count = inode_table[i].count - Worth(f, i)
                                                + Hands(Kind(f.at), f.v, i)
      BY DEF CountsFor
    <3>1. inode_table[i].count \in Int
      BY <1>2, CountType
    <3>2. Num(f.v = i) = Worth(f, i) /\ Hands(Kind(f.at), f.v, i) = Num(f.v = i)
      BY <1>3, <1>10 DEF LeavesOne, Hands
    <3>3. inode_table'[i].count = inode_table[i].count
      BY <1>7, <1>8, <2>4, <2>6 DEF OthersSame
    <3>4. Num(f.v = i) \in Nat
      BY NumType
    <3>5. QED
      BY <3>1, <3>2, <3>3, <3>4
  <2>8. Result("inode or none", f.v)'
    BY <1>4 DEF Result
  <2>9. QED
    BY <1>1, <1>10, <1>11, <2>5, <2>6, <2>7, <2>8, ReturnsBusy
<1>15. QED
  BY <1>13, <1>14

-------------------------------------------------------------------------------
(* iput and free_inode. *)

\* A reference that a call has is counted.
LEMMA OwnCount ==
  ASSUME Inductive, NEW t \in Task, NEW f, NEW r, Here(t, f, r), NEW j \in Slot
  PROVE  inode_table[j].count >= Worth(f, j)
<1>1. Working
  BY DEF Inductive, Here
<1>2. /\ \A w \in Task : GoodStack(stack[w], file[w])
      /\ inode_table[j].count = Users(stack, file, j) + Num(j = Root)
  BY <1>1 DEF Working
<1>3. \A w \in Task : IsStack(stack[w])
  BY <1>2 DEF GoodStack
<1>4. PICK st, fl : st = stack /\ fl = file
  OBVIOUS
<1>5. Differ(st, fl, st, fl, t)
  BY <1>3, <1>4 DEF Differ
<1>6. /\ Users(st, fl, j) \in Nat /\ Share(st[t], fl[t], j) \in Nat
      /\ Share(st[t], fl[t], j) <= Users(st, fl, j)
  BY <1>5, UsersChange
<1>7. Share(st[t], fl[t], j) >= Worth(f, j) /\ Worth(f, j) \in Nat
  <2>1. stack[t] = Cons(f, r) /\ IsStack(r)
    BY DEF Here
  <2>2. /\ Weight(Cons(f, r), j) = Held(r, j) + Worth(f, j)
        /\ Held(r, j) \in Nat /\ Worth(f, j) \in Nat
    BY <2>1, WeightCons
  <2>3. /\ Share(stack[t], file[t], j) = Weight(stack[t], j) + Opens(file[t], j)
        /\ Opens(file[t], j) \in Nat
    BY <1>3, ShareIs
  <2>4. QED
    BY <1>4, <2>1, <2>2, <2>3
<1>8. Num(j = Root) \in Nat
  BY NumType
<1>9. QED
  BY <1>2, <1>4, <1>6, <1>7, <1>8

\* The one reference that a call has is given back.
LEMMA GivesBack ==
  ASSUME Inductive, NEW t \in Task, NEW f, NEW r, Here(t, f, r), f.at \in Putting,
         NEW m, m = inode_table[f.ino], NEW w, w = [m EXCEPT !.count = @ - 1],
         Put(f.ino, w), Return(t, 0), RunsOn(t),
         UNCHANGED <<last_allocated_inode, disk, namei_vars>>
  PROVE  Inductive'
<1>1. GoodFrame(f) /\ Tables
  BY HereIs
<1>2. f.ino \in Slot /\ LeavesOne(f, f.ino)
  BY <1>1, Classes DEF InoAt
<1>3. IsInode(m)
  BY <1>1, <1>2, InodeAt
<1>4. m.count - 1 \in Int /\ w = [m EXCEPT !.count = m.count - 1]
  BY <1>3 DEF IsInode
<1>5. IsInode(w) /\ w.count = m.count - 1 /\ w.num = m.num
  BY <1>3, <1>4, Recounted
<1>6. GoodDisk(d_inode)' /\ GoodData(data)'
  BY <1>1, DiskKept DEF disk
<1>7. Loose(f, f.ino, w)
  <2>1. w.num = inode_table[f.ino].num
    BY <1>5
  <2>2. QED
    BY <1>1, <1>2, <2>1, Looses
<1>8. Busily(t, f) /\ inode_table'[f.ino] = w /\ OthersSame(f.ino)
  BY <1>2, <1>5, <1>6, <1>7, BusyPut
<1>9. Released(f, f.ino)
  BY <1>2, <1>5, <1>8 DEF Released
<1>10. Kind(f.at) = "nothing"
  BY DEF Kind, Putting, Whole, OpenCall, Claiming, Reading
<1>11. \A i \in Slot : Hands(Kind(f.at), 0, i) = 0
  BY <1>10 DEF Hands, Num
<1>12. CountsFor(f, 0)
  BY <1>1, <1>9, <1>11, Releases
<1>13. Result("nothing", 0)'
  BY DEF Result
<1>14. r # <<>>
  BY HasCaller DEF Putting, Whole, OpenCall
<1>15. QED
  BY <1>8, <1>10, <1>12, <1>13, <1>14, ReturnsBusy

LEMMA IputStep ==
  ASSUME Inductive, NEW t \in Task, iput(t), UNCHANGED namei_vars PROVE Inductive'
<1>1. PICK f, r : Here(t, f, r) /\ f.at = "iput"
  BY Acts DEF iput
<1>2. GoodFrame(f) /\ IsFrame(f) /\ GoodTop(t, f) /\ Top(t) = f /\ Tables
  BY <1>1, HereIs
<1>3. f.ino \in Slot /\ LeavesOne(f, f.ino) /\ f.dir = Null
  BY <1>1, <1>2, Classes, Blank DEF InoAt, Claiming, Reading, Putting
<1>4. f.i = f.ino /\ f.at \in Putting
  BY <1>1, <1>2 DEF GoodFrame, Putting
<1>5. PICK m : m = inode_table[f.ino] /\ IsInode(m)
  BY <1>2, <1>3, InodeAt
<1>6. UNCHANGED <<last_allocated_inode, disk, namei_vars>>
  BY DEF iput
<1>7. CASE m.count = 0
  <2>1. Panic("iput: trying to free free inode") /\ UNCHANGED inode_table
    BY <1>2, <1>4, <1>5, <1>7 DEF iput
  <2>2. Tables'
    BY <1>2, <1>6, <2>1, TablesKept DEF table, disk
  <2>3. QED
    BY <2>1, <2>2, Panics
<1>8. CASE m.count # 0 /\ (m.num = 0 \/ m.count > 1)
  <2>1. PICK w : w = [m EXCEPT !.count = @ - 1]
    OBVIOUS
  <2>2. Put(f.ino, w) /\ Return(t, 0) /\ RunsOn(t)
    BY <1>2, <1>4, <1>5, <1>8, <2>1 DEF iput
  <2>3. QED
    BY <1>1, <1>4, <1>5, <1>6, <2>1, <2>2, GivesBack
<1>9. CASE m.count # 0 /\ ~ (m.num = 0 \/ m.count > 1)
  <2>1. PICK g : g = [f EXCEPT !.at = "iput_repeat"]
    OBVIOUS
  <2>2. /\ IsFrame(g) /\ g.at = "iput_repeat"
        /\ g.i = f.i /\ g.dir = f.dir /\ g.ino = f.ino
    BY <1>1, <1>2, <1>3, <2>1 DEF IsFrame
  <2>3. GoodFrame(g)
    BY <1>1, <1>2, <1>3, <1>4, <2>2 DEF GoodFrame, HasDir, HasIno, HasI, Putting, Reading,
       Claiming
  <2>4. Replaces(f, g)
    BY <1>1, <1>2, <2>2, <2>3 DEF Replaces, Kind, Whole, OpenCall, Claiming, Reading
  <2>5. Goto(t, g) /\ RunsOn(t) /\ UNCHANGED inode_table
    BY <1>2, <1>4, <1>5, <1>9, <2>1 DEF iput
  <2>6. Calmly(t)
    BY <1>1, <1>6, <2>5, CalmBits DEF table, disk, namei_vars
  <2>7. LeavesOne(g, g.ino)
    BY <2>2, <2>3, Classes DEF InoAt, Claiming, Reading, Putting
  <2>8. g.at \notin Needy
    BY <2>2 DEF Needy, Gives, Claimer, Got, Maybe, Found, Zoned, Claiming, Reading
  <2>9. Even(f, g)
    BY <1>1, <1>3, <2>2, <2>7, EvenIs
  <2>10. QED
    BY <1>1, <2>4, <2>5, <2>6, <2>8, <2>9, GoesEasy
<1>10. QED
  BY <1>7, <1>8, <1>9

LEMMA IputRepeat ==
  ASSUME Inductive, NEW t \in Task, iput_repeat(t), UNCHANGED namei_vars PROVE Inductive'
<1>1. PICK f, r : Here(t, f, r) /\ f.at = "iput_repeat"
  BY Acts DEF iput_repeat
<1>2. GoodFrame(f) /\ IsFrame(f) /\ GoodTop(t, f) /\ Top(t) = f /\ Tables
  BY <1>1, HereIs
<1>3. f.ino \in Slot /\ LeavesOne(f, f.ino) /\ f.dir = Null
  BY <1>1, <1>2, Classes, Blank DEF InoAt, Claiming, Reading, Putting
<1>4. f.i = f.ino /\ f.at \in Putting
  BY <1>1, <1>2 DEF GoodFrame, Putting
<1>5. PICK m : m = inode_table[f.ino] /\ IsInode(m)
  BY <1>2, <1>3, InodeAt
<1>6. RunsOn(t) /\ UNCHANGED <<last_allocated_inode, disk, namei_vars>>
  BY DEF iput_repeat
<1>7. f.ino # Null
  BY <1>3, SlotIs
<1>8. CASE m.nlinks = 0
  <2>1. PICK g : g = [f EXCEPT !.at = "free_inode"]
    OBVIOUS
  <2>2. /\ IsFrame(g) /\ g.at = "free_inode"
        /\ g.i = f.i /\ g.dir = f.dir /\ g.ino = f.ino
    BY <1>1, <1>2, <1>3, <2>1 DEF IsFrame
  <2>3. GoodFrame(g)
    BY <1>1, <1>2, <1>3, <1>4, <2>2 DEF GoodFrame, HasDir, HasIno, HasI, Putting, Reading,
       Claiming
  <2>4. Replaces(f, g)
    BY <1>1, <1>2, <2>2, <2>3 DEF Replaces, Kind, Whole, OpenCall, Claiming, Reading
  <2>5. PICK c : c = [Frame("truncate") EXCEPT !.i = f.ino]
    OBVIOUS
  <2>6. Call(t, c, g) /\ RunsOn(t) /\ UNCHANGED inode_table
    BY <1>2, <1>4, <1>5, <1>8, <2>1, <2>5 DEF iput_repeat
  <2>7. Calmly(t)
    BY <1>1, <1>6, <2>6, CalmBits DEF table, disk, namei_vars
  <2>8. Awaits(g.at) = "nothing"
    BY <2>2 DEF Awaits, Claimer, Got, Maybe, Found, Zoned, Claiming, Reading
  <2>9. Callee(c, Awaits(g.at))
    BY <1>3, <2>5, <2>8, Callees
  <2>10. Owning(f, g)
    BY <1>3, <2>2, OwningIs
  <2>11. QED
    BY <1>1, <2>4, <2>6, <2>7, <2>9, <2>10, CallsFree
<1>9. CASE m.nlinks # 0 /\ m.dirt
  <2>1. PICK g : g = f
    OBVIOUS
  <2>2. /\ IsFrame(g) /\ g.at = "iput_repeat"
        /\ g.i = f.i /\ g.dir = f.dir /\ g.ino = f.ino
    BY <1>1, <1>2, <1>3, <2>1 DEF IsFrame
  <2>3. GoodFrame(g)
    BY <1>1, <1>2, <1>3, <1>4, <2>2 DEF GoodFrame, HasDir, HasIno, HasI, Putting, Reading,
       Claiming
  <2>4. Replaces(f, g)
    BY <1>1, <1>2, <2>2, <2>3 DEF Replaces, Kind, Whole, OpenCall, Claiming, Reading
  <2>5. PICK c : c = [Frame("write_inode") EXCEPT !.i = f.ino]
    OBVIOUS
  <2>6. Call(t, c, g) /\ RunsOn(t) /\ UNCHANGED inode_table
    BY <1>2, <1>4, <1>5, <1>9, <2>1, <2>5 DEF iput_repeat
  <2>7. Calmly(t)
    BY <1>1, <1>6, <2>6, CalmBits DEF table, disk, namei_vars
  <2>8. Awaits(g.at) = "nothing"
    BY <2>2 DEF Awaits, Claimer, Got, Maybe, Found, Zoned, Claiming, Reading
  <2>9. Callee(c, Awaits(g.at))
    BY <1>3, <2>5, <2>8, Callees
  <2>10. Owning(f, g)
    BY <1>3, <2>2, OwningIs
  <2>11. QED
    BY <1>1, <2>4, <2>6, <2>7, <2>9, <2>10, CallsFree
<1>10. CASE ~ (m.nlinks = 0) /\ ~ (m.nlinks # 0 /\ m.dirt)
  <2>1. PICK w : w = [m EXCEPT !.count = @ - 1]
    OBVIOUS
  <2>2. Put(f.ino, w) /\ Return(t, 0) /\ RunsOn(t)
    BY <1>2, <1>4, <1>5, <1>10, <2>1 DEF iput_repeat
  <2>3. QED
    BY <1>1, <1>4, <1>5, <1>6, <2>1, <2>2, GivesBack
<1>11. QED
  BY <1>8, <1>9, <1>10

LEMMA FreeInode ==
  ASSUME Inductive, NEW t \in Task, free_inode(t), UNCHANGED namei_vars PROVE Inductive'
<1>1. PICK f, r : Here(t, f, r) /\ f.at = "free_inode"
  BY Acts DEF free_inode
<1>2. GoodFrame(f) /\ IsFrame(f) /\ GoodTop(t, f) /\ Top(t) = f /\ Tables
  BY <1>1, HereIs
<1>3. f.ino \in Slot /\ LeavesOne(f, f.ino) /\ f.dir = Null
  BY <1>1, <1>2, Classes, Blank DEF InoAt, Claiming, Reading, Putting
<1>4. f.i = f.ino /\ f.at \in Putting
  BY <1>1, <1>2 DEF GoodFrame, Putting
<1>5. PICK m : m = inode_table[f.ino] /\ IsInode(m)
  BY <1>2, <1>3, InodeAt
<1>6. UNCHANGED <<last_allocated_inode, d_inode, data, namei_vars>>
  BY DEF free_inode
<1>7. GoodDisk(d_inode)' /\ GoodData(data)'
  BY <1>2, <1>6, DiskKept
<1>8. PICK z : z = memset0 /\ IsInode(z) /\ z.count = 0
  BY Cleared
<1>9. \/ \E why : why # "no" /\ Panic(why) /\ UNCHANGED inode_table
      \/ /\ m.count <= 1 /\ Put(f.ino, z)
         /\ \/ Panic("locked inode freed")
            \/ Return(t, 0) /\ RunsOn(t)
  <2>1. \/ Panic("free_inode") /\ UNCHANGED inode_table
        \/ Panic("free_inode: bit already cleared") /\ UNCHANGED inode_table
        \/ /\ m.count <= 1 /\ Put(f.ino, z)
           /\ \/ Panic("locked inode freed")
              \/ Return(t, 0) /\ RunsOn(t)
    BY <1>2, <1>4, <1>5, <1>8 DEF free_inode
  <2>2. QED
    BY <2>1
<1>10. CASE \E why : why # "no" /\ Panic(why) /\ UNCHANGED inode_table
  <2>1. Tables'
    BY <1>2, <1>6, <1>10, TablesKept DEF table
  <2>2. QED
    BY <2>1, <1>10, Panics
<1>11. CASE Put(f.ino, z) /\ Panic("locked inode freed")
  <2>1. Tables'
    BY <1>2, <1>3, <1>6, <1>7, <1>8, <1>11, PutTables
  <2>2. QED
    BY <2>1, <1>11, Panics
<1>12. CASE m.count <= 1 /\ Put(f.ino, z) /\ Return(t, 0) /\ RunsOn(t)
  <2>1. Loose(f, f.ino, z)
    <3>1. inode_table[f.ino].count <= 1
      BY <1>5, <1>12
    <3>2. QED
      BY <1>2, <1>3, <3>1, Looses
  <2>2. Busily(t, f) /\ inode_table'[f.ino] = z /\ OthersSame(f.ino)
    BY <1>1, <1>3, <1>6, <1>7, <1>8, <1>12, <2>1, BusyPut
  <2>3. m.count = 1
    <3>1. inode_table[f.ino].count >= Worth(f, f.ino)
      BY <1>1, <1>3, OwnCount
    <3>2. Worth(f, f.ino) = Num(f.ino = f.ino)
      BY <1>3 DEF LeavesOne
    <3>3. Worth(f, f.ino) = 1
      BY <3>2 DEF Num
    <3>4. QED
      BY <1>5, <1>12, <3>1, <3>3 DEF IsInode
  <2>4. Released(f, f.ino)
    BY <1>3, <1>5, <1>8, <2>2, <2>3 DEF Released
  <2>5. Kind(f.at) = "nothing"
    BY <1>1 DEF Kind, Whole, OpenCall, Claiming, Reading
  <2>6. \A i \in Slot : Hands(Kind(f.at), 0, i) = 0
    BY <2>5 DEF Hands, Num
  <2>7. CountsFor(f, 0)
    BY <1>2, <2>4, <2>6, Releases
  <2>8. Result("nothing", 0)'
    BY DEF Result
  <2>9. r # <<>>
    BY <1>1, HasCaller DEF Whole, OpenCall
  <2>10. QED
    BY <1>1, <1>12, <2>2, <2>5, <2>7, <2>8, <2>9, ReturnsBusy
<1>13. QED
  BY <1>10, <1>11, <1>12, <1>9

-------------------------------------------------------------------------------
(* truncate, the blocks and sync_inodes. *)

LEMMA ZoneSet ==
  ASSUME NEW m, IsInode(m), NEW z, NEW b \in 0..NBlocks, NEW w, w = [m EXCEPT !.zone[z] = b]
  PROVE  IsInode(w) /\ w.count = m.count /\ w.num = m.num
<1>1. PICK c : c = [m.zone EXCEPT ![z] = b]
  OBVIOUS
<1>2. m.zone \in [Zone -> 0..NBlocks]
  BY DEF IsInode
<1>3. c \in [Zone -> 0..NBlocks]
  BY <1>1, <1>2
<1>4. w = [m EXCEPT !.zone = c]
  BY <1>1
<1>5. QED
  BY <1>3, <1>4 DEF IsInode

LEMMA EmptyIs == GoodBlock(EmptyBlock)
<1>1. PICK o, e : o = 0 /\ e = [inode |-> o, name |-> ""]
  OBVIOUS
<1>2. IsEntry(e)
  <2>1. 0 \in 0..NInodes
    BY ONLY InodeAssumption
  <2>2. o \in 0..NInodes
    BY ONLY <1>1, <2>1
  <2>3. QED
    BY <1>1, <2>2 DEF IsEntry
<1>3. EmptyBlock = [k \in 0..E - 1 |-> e]
  BY <1>1 DEF EmptyBlock, E
<1>4. QED
  BY <1>2, <1>3 DEF GoodBlock

LEMMA TruncateStep ==
  ASSUME Inductive, NEW t \in Task, truncate(t), UNCHANGED namei_vars PROVE Inductive'
<1>1. PICK f, r : Here(t, f, r) /\ f.at = "truncate"
  BY Acts DEF truncate
<1>2. GoodFrame(f) /\ IsFrame(f) /\ GoodTop(t, f) /\ Top(t) = f /\ Tables
  BY <1>1, HereIs
<1>3. LeavesNone(f) /\ f.dir = Null /\ f.ino = Null
  BY <1>1, <1>2, Classes, Blank DEF BareAt
<1>4. f.i \in Slot
  BY <1>1, <1>2 DEF GoodFrame, HasI
<1>5. PICK m : m = inode_table[f.i] /\ IsInode(m)
  BY <1>2, <1>4, InodeAt
<1>6. PICK left : left = {z \in Zone : m.zone[z] # 0}
  OBVIOUS
<1>7. UNCHANGED <<last_allocated_inode, disk, namei_vars>>
  BY DEF truncate
<1>8. CASE m.mode = "none"
  <2>1. Return(t, 0) /\ RunsOn(t) /\ UNCHANGED inode_table
    BY <1>2, <1>5, <1>8 DEF truncate
  <2>2. Calmly(t)
    BY <1>1, <1>7, <2>1, CalmBits DEF table, disk, namei_vars
  <2>3. running' = t
    BY <2>1 DEF RunsOn
  <2>4. Kind(f.at) = "nothing"
    BY <1>1 DEF Kind, Whole, OpenCall, Claiming, Reading
  <2>5. Result("nothing", 0)'
    BY DEF Result
  <2>6. QED
    BY <1>1, <1>3, <2>1, <2>2, <2>3, <2>4, <2>5, ReturnsBare
<1>9. CASE m.mode # "none" /\ left # {}
  <2>1. PICK g : g = [f EXCEPT !.at = "truncated", !.n = Min(left)]
    OBVIOUS
  <2>2. /\ IsFrame(g) /\ g.at = "truncated"
        /\ g.i = f.i /\ g.dir = Null /\ g.ino = Null
    BY <1>1, <1>2, <1>3, <2>1 DEF IsFrame
  <2>3. GoodFrame(g)
    BY <1>1, <1>2, <1>3, <1>4, <2>2 DEF GoodFrame, HasDir, HasIno, HasI, Putting, Reading,
       Claiming
  <2>4. Replaces(f, g)
    BY <1>1, <1>2, <2>2, <2>3 DEF Replaces, Kind, Whole, OpenCall, Claiming, Reading
  <2>5. PICK c : c = [Frame("free_block") EXCEPT !.n = m.zone[Min(left)]]
    OBVIOUS
  <2>6. Call(t, c, g) /\ MaySleep /\ UNCHANGED inode_table
    BY <1>2, <1>5, <1>6, <1>9, <2>1, <2>5 DEF truncate
  <2>7. Calmly(t)
    BY <1>1, <1>7, <2>6, CalmBits DEF table, disk, namei_vars
  <2>8. Awaits(g.at) = "nothing"
    BY <2>2 DEF Awaits, Claimer, Got, Maybe, Found, Zoned, Claiming, Reading
  <2>9. Callee(c, Awaits(g.at))
    BY <2>5, <2>8, Callees
  <2>10. Owning(f, g)
    BY <1>3, <2>2, OwningIs
  <2>11. QED
    BY <1>1, <2>4, <2>6, <2>7, <2>9, <2>10, CallsFree
<1>10. CASE m.mode # "none" /\ left = {}
  <2>1. PICK w : w = [m EXCEPT !.size = 0, !.dirt = TRUE]
    OBVIOUS
  <2>2. IsInode(w) /\ SameUse(f.i, w)
    BY <1>5, <2>1 DEF IsInode, SameUse
  <2>3. Return(t, 0) /\ RunsOn(t) /\ Put(f.i, w)
    BY <1>2, <1>5, <1>6, <2>1, <1>10 DEF truncate
  <2>4. Calmly(t)
    BY <1>1, <1>4, <1>7, <2>2, <2>3, CalmTable DEF OnlyTable
  <2>5. running' = t
    BY <2>3 DEF RunsOn
  <2>6. Kind(f.at) = "nothing"
    BY <1>1 DEF Kind, Whole, OpenCall, Claiming, Reading
  <2>7. Result("nothing", 0)'
    BY DEF Result
  <2>8. QED
    BY <1>1, <1>3, <2>3, <2>4, <2>5, <2>6, <2>7, ReturnsBare
<1>11. QED
  BY <1>8, <1>9, <1>10

LEMMA Truncated ==
  ASSUME Inductive, NEW t \in Task, truncated(t), UNCHANGED namei_vars PROVE Inductive'
<1>1. PICK f, r : Here(t, f, r) /\ f.at = "truncated"
  BY Acts DEF truncated
<1>2. GoodFrame(f) /\ IsFrame(f) /\ GoodTop(t, f) /\ Top(t) = f /\ Tables
  BY <1>1, HereIs
<1>3. LeavesNone(f) /\ f.dir = Null /\ f.ino = Null
  BY <1>1, <1>2, Classes, Blank DEF BareAt
<1>4. f.i \in Slot
  BY <1>1, <1>2 DEF GoodFrame, HasI
<1>5. PICK m : m = inode_table[f.i] /\ IsInode(m)
  BY <1>2, <1>4, InodeAt
<1>6. PICK o, w : o = 0 /\ w = [m EXCEPT !.zone[f.n] = o]
  OBVIOUS
<1>7. IsInode(w) /\ SameUse(f.i, w)
  <2>1. o \in 0..NBlocks
    BY <1>6, InodeAssumption
  <2>2. QED
    BY <1>5, <1>6, <2>1, ZoneSet DEF SameUse
<1>8. PICK g : g = [f EXCEPT !.at = "truncate"]
  OBVIOUS
<1>9. /\ IsFrame(g) /\ g.at = "truncate"
      /\ g.i = f.i /\ g.dir = Null /\ g.ino = Null
  BY <1>1, <1>2, <1>3, <1>8 DEF IsFrame
<1>10. GoodFrame(g)
  BY <1>1, <1>2, <1>3, <1>4, <1>9 DEF GoodFrame, HasDir, HasIno, HasI, Putting, Reading,
     Claiming
<1>11. Replaces(f, g)
  BY <1>1, <1>2, <1>9, <1>10 DEF Replaces, Kind, Whole, OpenCall, Claiming, Reading
<1>12. Goto(t, g) /\ RunsOn(t) /\ Put(f.i, w) /\ OnlyTable
  BY <1>2, <1>5, <1>6, <1>8 DEF truncated, OnlyTable
<1>13. Calmly(t)
  BY <1>1, <1>4, <1>7, <1>12, CalmTable
<1>14. LeavesNone(g)
  BY <1>9, <1>10, Classes DEF BareAt
<1>15. g.at \notin Needy
  BY <1>9 DEF Needy, Gives, Claimer, Got, Maybe, Found, Zoned, Claiming, Reading
<1>16. Even(f, g)
  BY <1>1, <1>3, <1>9, <1>14, EvenIs
<1>17. QED
  BY <1>1, <1>11, <1>12, <1>13, <1>15, <1>16, GoesEasy

LEMMA FreeBlock ==
  ASSUME Inductive, NEW t \in Task, free_block(t), UNCHANGED namei_vars PROVE Inductive'
<1>1. PICK f, r : Here(t, f, r) /\ f.at = "free_block"
  BY Acts DEF free_block
<1>2. GoodFrame(f) /\ IsFrame(f) /\ GoodTop(t, f) /\ Top(t) = f /\ Tables
  BY <1>1, HereIs
<1>3. LeavesNone(f) /\ f.dir = Null /\ f.ino = Null
  BY <1>1, <1>2, Classes, Blank DEF BareAt
<1>4. UNCHANGED <<table, d_inode, data, namei_vars>>
  BY DEF free_block
<1>5. \/ Panic("free_block: bit already cleared")
      \/ Return(t, 0) /\ RunsOn(t)
  BY DEF free_block
<1>6. CASE Panic("free_block: bit already cleared")
  <2>1. Tables'
    BY <1>2, <1>4, TablesKept
  <2>2. QED
    BY <2>1, <1>6, Panics
<1>7. CASE Return(t, 0) /\ RunsOn(t)
  <2>1. Return(t, 0) /\ RunsOn(t)
    BY <1>2, <1>7 DEF Calmly
  <2>2. Calmly(t)
    BY <1>1, <1>4, <2>1, CalmBits DEF namei_vars
  <2>3. running' = t
    BY <2>1 DEF RunsOn
  <2>4. Kind(f.at) = "nothing"
    BY <1>1 DEF Kind, Whole, OpenCall, Claiming, Reading
  <2>5. Result("nothing", 0)'
    BY DEF Result
  <2>6. QED
    BY <1>1, <1>3, <2>1, <2>2, <2>3, <2>4, <2>5, ReturnsBare
<1>8. QED
  BY <1>6, <1>7, <1>5

LEMMA NewBlock ==
  ASSUME Inductive, NEW t \in Task, new_block(t), UNCHANGED namei_vars PROVE Inductive'
<1>1. PICK f, r : Here(t, f, r) /\ f.at = "new_block"
  BY Acts DEF new_block
<1>2. GoodFrame(f) /\ IsFrame(f) /\ GoodTop(t, f) /\ Top(t) = f /\ Tables
  BY <1>1, HereIs
<1>3. LeavesNone(f) /\ f.dir = Null /\ f.ino = Null
  BY <1>1, <1>2, Classes, Blank DEF BareAt
<1>4. UNCHANGED <<table, d_inode, data, namei_vars>>
  BY DEF new_block
<1>5. PICK free : free = (1..NBlocks) \ zmap
  OBVIOUS
<1>6. CASE free = {}
  <2>1. 0 \in 0..NBlocks
    BY InodeAssumption
  <2>2. Return(t, 0) /\ RunsOn(t)
    BY <1>2, <1>5, <1>6 DEF new_block
  <2>3. Calmly(t)
    BY <1>1, <1>4, <2>2, CalmBits DEF namei_vars
  <2>4. running' = t
    BY <2>2 DEF RunsOn
  <2>5. Kind(f.at) = "zone"
    BY <1>1 DEF Kind, Whole, OpenCall, Claiming, Reading
  <2>6. Result("zone", 0)'
    BY <2>1 DEF Result
  <2>7. QED
    BY <1>1, <1>3, <2>2, <2>3, <2>4, <2>5, <2>6, ReturnsBare
<1>7. CASE free # {}
  <2>1. PICK n : n = Min(free)
    OBVIOUS
  <2>2. n \in 1..NBlocks
    <3>1. free \in SUBSET (1..NBlocks)
      BY <1>5
    <3>2. free \in SUBSET Nat
      BY <3>1, InodeAssumption
    <3>3. n \in free
      BY <1>7, <2>1, <3>2, MinIs
    <3>4. QED
      BY <3>1, <3>3
  <2>3. PICK g : g = [Frame("clear_block") EXCEPT !.n = n]
    OBVIOUS
  <2>4. /\ IsFrame(g) /\ g.at = "clear_block"
        /\ g.n = n /\ g.dir = Null /\ g.ino = Null
    BY <2>3 DEF Frame, IsFrame
  <2>5. GoodFrame(g)
    BY <1>1, <1>2, <1>3, <2>2, <2>4 DEF GoodFrame, HasDir, HasIno, HasI, Putting, Reading,
       Claiming
  <2>6. Replaces(f, g)
    BY <1>1, <1>2, <2>4, <2>5 DEF Replaces, Kind, Whole, OpenCall, Claiming, Reading
  <2>7. Goto(t, g) /\ MaySleep
    BY <1>2, <1>5, <2>1, <1>7, <2>3 DEF new_block
  <2>8. Calmly(t)
    BY <1>1, <1>4, <2>7, CalmBits DEF namei_vars
  <2>9. LeavesNone(g)
    BY <2>4, <2>5, Classes DEF BareAt
  <2>10. g.at \notin Needy
    BY <2>4 DEF Needy, Gives, Claimer, Got, Maybe, Found, Zoned, Claiming, Reading
  <2>11. Even(f, g)
    BY <1>1, <1>3, <2>4, <2>9, EvenIs
  <2>12. QED
    BY <1>1, <2>6, <2>7, <2>8, <2>10, <2>11, GoesEasy
<1>8. QED
  BY <1>6, <1>7

LEMMA ClearBlock ==
  ASSUME Inductive, NEW t \in Task, clear_block(t), UNCHANGED namei_vars PROVE Inductive'
<1>1. PICK f, r : Here(t, f, r) /\ f.at = "clear_block"
  BY Acts DEF clear_block
<1>2. GoodFrame(f) /\ IsFrame(f) /\ GoodTop(t, f) /\ Top(t) = f /\ Tables
  BY <1>1, HereIs
<1>3. LeavesNone(f) /\ f.dir = Null /\ f.ino = Null
  BY <1>1, <1>2, Classes, Blank DEF BareAt
<1>4. f.n \in 1..NBlocks
  BY <1>1, <1>2 DEF GoodFrame
<1>5. /\ data' = [data EXCEPT ![f.n] = EmptyBlock]
      /\ UNCHANGED <<table, d_inode, namei_vars>>
  BY <1>2 DEF clear_block
<1>6. GoodDisk(d_inode)' /\ GoodData(data)'
  <2>1. GoodDisk(d_inode) /\ GoodData(data)
    BY <1>2 DEF Tables
  <2>2. GoodData(data')
    BY <1>5, <2>1, EmptyIs, DataSet
  <2>3. QED
    BY <1>5, <2>1, <2>2
<1>7. Tables' /\ Plain
  <2>1. inode_table' = inode_table /\ last_allocated_inode' = last_allocated_inode
    BY <1>5 DEF table
  <2>2. QED
    BY <1>2, <1>6, <2>1 DEF Tables, Plain
<1>8. \/ Panic("new block: count is != 1")
      \/ Return(t, f.n) /\ RunsOn(t)
  BY <1>2 DEF clear_block
<1>9. CASE Panic("new block: count is != 1")
  <2>1. QED
    BY <1>7, <1>9, Panics
<1>10. CASE Return(t, f.n) /\ RunsOn(t)
  <2>1. Return(t, f.n) /\ RunsOn(t)
    BY <1>2, <1>10 DEF Calmly
  <2>2. Calmly(t)
    BY <1>1, <1>5, <1>7, <2>1 DEF Calmly, RunsOn, namei_vars, Here
  <2>3. running' = t
    BY <2>1 DEF RunsOn
  <2>4. Kind(f.at) = "zone"
    BY <1>1 DEF Kind, Whole, OpenCall, Claiming, Reading
  <2>5. Result("zone", f.n)'
    BY <1>4 DEF Result
  <2>6. QED
    BY <1>1, <1>3, <2>1, <2>2, <2>3, <2>4, <2>5, ReturnsBare
<1>11. QED
  BY <1>9, <1>10, <1>8

LEMMA CreateBlock ==
  ASSUME Inductive, NEW t \in Task, create_block(t), UNCHANGED namei_vars PROVE Inductive'
<1>1. PICK f, r : Here(t, f, r) /\ f.at = "create_block"
  BY Acts DEF create_block
<1>2. GoodFrame(f) /\ IsFrame(f) /\ GoodTop(t, f) /\ Top(t) = f /\ Tables
  BY <1>1, HereIs
<1>3. LeavesNone(f) /\ f.dir = Null /\ f.ino = Null
  BY <1>1, <1>2, Classes, Blank DEF BareAt
<1>4. f.i \in Slot /\ f.n \in Zone
  BY <1>1, <1>2 DEF GoodFrame, HasI
<1>5. PICK m : m = inode_table[f.i] /\ IsInode(m)
  BY <1>2, <1>4, InodeAt
<1>6. PICK here : here = m.zone[f.n] /\ here \in 0..NBlocks
  BY <1>4, <1>5 DEF IsInode
<1>7. OnlyCalls
  BY DEF create_block, OnlyCalls
<1>8. CASE here # 0
  <2>1. Return(t, here) /\ RunsOn(t) /\ OnlyCalls
    BY <1>2, <1>5, <1>6, <1>7, <1>8 DEF create_block
  <2>2. Calmly(t)
    BY <1>1, <2>1, CalmCalls
  <2>3. running' = t
    BY <2>1 DEF RunsOn
  <2>4. Kind(f.at) = "zone"
    BY <1>1 DEF Kind, Whole, OpenCall, Claiming, Reading
  <2>5. Result("zone", here)'
    BY <1>6 DEF Result
  <2>6. QED
    BY <1>1, <1>3, <2>1, <2>2, <2>3, <2>4, <2>5, ReturnsBare
<1>9. CASE here = 0
  <2>1. PICK g : g = [f EXCEPT !.at = "created"]
    OBVIOUS
  <2>2. /\ IsFrame(g) /\ g.at = "created"
        /\ g.i = f.i /\ g.dir = Null /\ g.ino = Null
    BY <1>1, <1>2, <1>3, <2>1 DEF IsFrame
  <2>3. GoodFrame(g)
    BY <1>1, <1>2, <1>3, <1>4, <2>2 DEF GoodFrame, HasDir, HasIno, HasI, Putting, Reading,
       Claiming
  <2>4. Replaces(f, g)
    BY <1>1, <1>2, <2>2, <2>3 DEF Replaces, Kind, Whole, OpenCall, Claiming, Reading
  <2>5. PICK c : c = Frame("new_block")
    OBVIOUS
  <2>6. Call(t, c, g) /\ RunsOn(t) /\ OnlyCalls
    BY <1>2, <1>5, <1>6, <1>7, <1>9, <2>1, <2>5 DEF create_block
  <2>7. Calmly(t)
    BY <1>1, <2>6, CalmCalls
  <2>8. Awaits(g.at) = "zone"
    BY <2>2 DEF Awaits, Claimer, Got, Maybe, Found, Zoned, Claiming, Reading
  <2>9. Callee(c, Awaits(g.at))
    BY <2>5, <2>8, Callees
  <2>10. Owning(f, g)
    BY <1>3, <2>2, OwningIs
  <2>11. QED
    BY <1>1, <2>4, <2>6, <2>7, <2>9, <2>10, CallsFree
<1>10. QED
  BY <1>8, <1>9

LEMMA Created ==
  ASSUME Inductive, NEW t \in Task, created(t), UNCHANGED namei_vars PROVE Inductive'
<1>1. PICK f, r : Here(t, f, r) /\ f.at = "created"
  BY Acts DEF created
<1>2. GoodFrame(f) /\ IsFrame(f) /\ GoodTop(t, f) /\ Top(t) = f /\ Tables
  BY <1>1, HereIs
<1>3. LeavesNone(f) /\ f.dir = Null /\ f.ino = Null
  BY <1>1, <1>2, Classes, Blank DEF BareAt
<1>4. f.i \in Slot /\ f.v \in 0..NBlocks
  BY <1>1, <1>2 DEF GoodFrame, HasI, GoodTop, Zoned
<1>5. PICK m : m = inode_table[f.i] /\ IsInode(m)
  BY <1>2, <1>4, InodeAt
<1>6. PICK u, w : u = [m EXCEPT !.zone[f.n] = f.v] /\ w = [u EXCEPT !.dirt = @ \/ f.v # 0]
  OBVIOUS
<1>7. w = [m EXCEPT !.zone[f.n] = f.v, !.dirt = @ \/ f.v # 0]
  BY <1>6
<1>8. IsInode(w) /\ SameUse(f.i, w)
  <2>1. IsInode(u) /\ u.count = m.count /\ u.num = m.num
    BY <1>4, <1>5, <1>6, ZoneSet
  <2>2. PICK d : w = [u EXCEPT !.dirt = d]
    BY <1>6
  <2>3. QED
    BY <1>5, <2>1, <2>2 DEF IsInode, SameUse
<1>9. /\ Put(f.i, w) /\ Return(t, f.v) /\ RunsOn(t)
      /\ UNCHANGED <<last_allocated_inode, d_inode, data, namei_vars>>
  BY <1>2, <1>5, <1>7 DEF created
<1>10. GoodDisk(d_inode)' /\ GoodData(data)'
  BY <1>2, <1>9, DiskKept
<1>11. Calmly(t)
  BY <1>1, <1>4, <1>8, <1>9, <1>10, CalmPut
<1>12. Kind(f.at) = "zone"
  BY <1>1 DEF Kind, Whole, OpenCall, Claiming, Reading
<1>13. Result("zone", f.v)' /\ running' = t
  BY <1>4, <1>9 DEF Result, RunsOn
<1>14. QED
  BY <1>1, <1>3, <1>9, <1>11, <1>12, <1>13, ReturnsBare

LEMMA SyncInodes ==
  ASSUME Inductive, NEW t \in Task, sync_inodes(t), UNCHANGED namei_vars PROVE Inductive'
<1>1. PICK f, r : Here(t, f, r) /\ f.at = "sync_wait"
  BY Acts DEF sync_inodes
<1>2. GoodFrame(f) /\ IsFrame(f) /\ GoodTop(t, f) /\ Top(t) = f /\ Tables
  BY <1>1, HereIs
<1>3. LeavesNone(f) /\ f.dir = Null /\ f.ino = Null
  BY <1>1, <1>2, Classes, Blank DEF BareAt
<1>4. f.i \in Slot
  BY <1>1, <1>2 DEF GoodFrame, HasI
<1>5. PICK g : g = IF f.i = NR_INODE - 1 THEN Frame("end")
                      ELSE [Frame("sync_wait") EXCEPT !.i = f.i + 1]
  OBVIOUS
<1>6. /\ IsFrame(g) /\ g.at \in {"end", "sync_wait"} /\ g.dir = Null /\ g.ino = Null
      /\ g.at = "sync_wait" => g.i \in Slot
  <2>1. CASE f.i = NR_INODE - 1
    BY <1>5, <2>1 DEF Frame, IsFrame
  <2>2. CASE f.i # NR_INODE - 1
    <3>1. g = [Frame("sync_wait") EXCEPT !.i = f.i + 1]
      BY <1>5, <2>2
    <3>2. IsFrame(g) /\ g.at = "sync_wait" /\ g.dir = Null /\ g.ino = Null /\ g.i = f.i + 1
      BY <3>1 DEF Frame, IsFrame
    <3>3. f.i + 1 \in Slot
      BY <1>4, <2>2, InodeAssumption DEF Slot
    <3>4. QED
      BY <3>2, <3>3
  <2>3. QED
    BY <2>1, <2>2
<1>7. GoodFrame(g)
  BY <1>6 DEF GoodFrame, HasDir, HasIno, HasI, Putting, Reading, Claiming
<1>8. Replaces(f, g)
  BY <1>1, <1>6, <1>7 DEF Replaces, Kind, Whole, OpenCall, Claiming, Reading
<1>9. RunsOn(t) /\ OnlyCalls
  BY DEF sync_inodes, OnlyCalls
<1>10. Calmly(t)
  BY <1>1, <1>9, CalmCalls
<1>11. LeavesNone(g) /\ g.at \notin Needy
  BY <1>6, <1>7, Classes DEF BareAt, Needy, Gives, Claimer, Got, Maybe, Found, Zoned,
     Claiming, Reading
<1>12. \/ Call(t, [Frame("write_inode") EXCEPT !.i = f.i], g)
      \/ Goto(t, g)
  BY <1>2, <1>5 DEF sync_inodes
<1>13. CASE Call(t, [Frame("write_inode") EXCEPT !.i = f.i], g)
  <2>1. PICK c : c = [Frame("write_inode") EXCEPT !.i = f.i]
    OBVIOUS
  <2>2. Awaits(g.at) = "nothing"
    BY <1>6 DEF Awaits, Claimer, Got, Maybe, Found, Zoned, Claiming, Reading
  <2>3. Callee(c, Awaits(g.at))
    BY <1>4, <2>1, <2>2, Callees
  <2>4. Owning(f, g)
    BY <1>3, <1>6, OwningIs
  <2>5. QED
    BY <1>1, <1>8, <1>10, <1>13, <2>1, <2>3, <2>4, CallsFree
<1>14. CASE Goto(t, g)
  <2>1. Even(f, g)
    BY <1>3, <1>11, EvenIs
  <2>2. QED
    BY <1>1, <1>8, <1>10, <1>11, <1>14, <2>1, GoesEasy
<1>15. QED
  BY <1>13, <1>14, <1>12

-------------------------------------------------------------------------------
(* The device at the start. *)

LEMMA MadeDisk ==
  ASSUME NEW tree \in Tree, Made(tree)
  PROVE  GoodDisk(d_inode)
<1>1. PICK dirs : dirs = {k \in DOMAIN tree : tree[k][2] = "dir"}
  OBVIOUS
<1>2. /\ DOMAIN tree \subseteq 1..NInodes - 1
      /\ \A k \in dirs : k \in 1..NInodes - 1 /\ k < NBlocks
  BY <1>1, TreeAssumption
<1>3. DOMAIN d_inode = 1..NInodes
  BY DEF Made
<1>4. ASSUME NEW n \in 1..NInodes
      PROVE  IsStored(d_inode[n])
  <2>1. CASE n = ROOT_INO
    <3>1. PICK l, s, z : /\ l = 2 + Cardinality(dirs) /\ s = 2 + Len(tree)
                         /\ z = [y \in Zone |-> 1 - y]
      OBVIOUS
    <3>2. d_inode[n] = [nlinks |-> l, mode |-> "dir", size |-> s, zone |-> z]
      BY <1>1, <2>1, <3>1 DEF Made
    <3>3. z \in [Zone -> 0..NBlocks]
      BY <3>1, InodeAssumption DEF Zone
    <3>4. QED
      BY <3>2, <3>3 DEF IsStored
  <2>2. CASE n # ROOT_INO /\ n - 1 \in dirs
    <3>1. PICK z : z = [y \in Zone |-> (1 - y) * n]
      OBVIOUS
    <3>2. d_inode[n] = [nlinks |-> 2, mode |-> "dir", size |-> 2, zone |-> z]
      BY <1>1, <2>2, <3>1 DEF Made
    <3>3. z \in [Zone -> 0..NBlocks]
      <4>1. n \in 1..NBlocks
        BY <1>2, <2>2, InodeAssumption
      <4>2. Zone = {0, 1}
        BY DEF Zone
      <4>3. 1 * n = n /\ 0 * n = 0 /\ 0 \in 0..NBlocks /\ n \in 0..NBlocks
        BY <4>1, InodeAssumption
      <4>4. ASSUME NEW y \in Zone PROVE (1 - y) * n \in 0..NBlocks
        <5>1. PICK e : e = 1 - y
          OBVIOUS
        <5>2. e = 1 \/ e = 0
          BY <4>2, <5>1
        <5>3. e * n \in 0..NBlocks
          BY <4>3, <5>2
        <5>4. QED
          BY <5>1, <5>3
      <4>5. QED
        BY <3>1, <4>4
    <3>4. QED
      BY <3>2, <3>3 DEF IsStored
  <2>3. CASE n # ROOT_INO /\ n - 1 \notin dirs
    <3>1. PICK l, o : /\ l = (IF n - 1 \in DOMAIN tree THEN 1 ELSE 0)
                      /\ o = (IF n - 1 \in DOMAIN tree THEN "reg" ELSE "none")
      OBVIOUS
    <3>2. PICK e : e = Stored(memset0)
      OBVIOUS
    <3>3. d_inode[n] = [e EXCEPT !.nlinks = l, !.mode = o]
      BY <1>1, <2>3, <3>1, <3>2 DEF Made
    <3>4. IsStored(e)
      BY <3>2, Cleared DEF Stored, IsStored, IsInode
    <3>5. QED
      BY <3>3, <3>4 DEF IsStored
  <2>4. QED
    BY <2>1, <2>2, <2>3
<1>5. QED
  BY <1>3, <1>4 DEF GoodDisk

LEMMA DotIs == ASSUME NEW n \in 0..NInodes PROVE GoodBlock(Dot(n))
<1>1. PICK e, f : /\ e = [inode |-> n, name |-> "."]
                  /\ f = [inode |-> ROOT_INO, name |-> ".."]
  OBVIOUS
<1>2. IsEntry(e)
  BY <1>1 DEF IsEntry
<1>3. IsEntry(f)
  <2>1. ROOT_INO \in 0..NInodes
    BY InodeAssumption DEF ROOT_INO
  <2>2. QED
    BY <1>1, <2>1 DEF IsEntry
<1>4. PICK b, c : b = [EmptyBlock EXCEPT ![0] = e] /\ c = [b EXCEPT ![1] = f]
  OBVIOUS
<1>5. GoodBlock(b)
  BY <1>2, <1>4, EmptyIs, BlockSet
<1>6. GoodBlock(c)
  BY <1>3, <1>4, <1>5, BlockSet
<1>7. c = Dot(n)
  BY <1>1, <1>4 DEF Dot
<1>8. QED
  BY <1>6, <1>7

LEMMA MadeData ==
  ASSUME NEW tree \in Tree, Made(tree)
  PROVE  GoodData(data)
<1>1. PICK dirs : dirs = {k \in DOMAIN tree : tree[k][2] = "dir"}
  OBVIOUS
<1>2. DOMAIN tree \subseteq 1..NInodes - 1 /\ \A k \in dirs : k \in DOMAIN tree
  BY <1>1, TreeAssumption
<1>3. DOMAIN data = 1..NBlocks
  BY DEF Made
<1>4. 1 \in 0..NInodes
  BY InodeAssumption
<1>5. ASSUME NEW b \in 1..NBlocks
      PROVE  GoodBlock(data[b])
  <2>1. CASE b = 1
    <3>1. PICK d : d = Dot(1)
      OBVIOUS
    <3>2. GoodBlock(d)
      BY <1>4, <3>1, DotIs
    <3>3. data[b] = [k \in 0..E - 1 |->
                       IF k - 1 \in DOMAIN tree
                       THEN [inode |-> k - 1 + 1, name |-> tree[k - 1][1]] ELSE d[k]]
      BY <2>1, <3>1 DEF Made
    <3>4. ASSUME NEW k \in 0..E - 1
          PROVE  IsEntry(data[b][k])
      <4>1. CASE k - 1 \in DOMAIN tree
        <5>1. PICK i, m : i = k - 1 + 1 /\ m = tree[k - 1][1]
          OBVIOUS
        <5>2. data[b][k] = [inode |-> i, name |-> m]
          BY <3>3, <4>1, <5>1
        <5>3. i \in 0..NInodes
          BY <1>2, <4>1, <5>1, InodeAssumption
        <5>4. QED
          BY <5>2, <5>3 DEF IsEntry
      <4>2. CASE k - 1 \notin DOMAIN tree
        <5>1. data[b][k] = d[k]
          BY <3>3, <4>2
        <5>2. QED
          BY <3>2, <5>1 DEF GoodBlock
      <4>3. QED
        BY <4>1, <4>2
    <3>5. QED
      BY <3>3, <3>4 DEF GoodBlock
  <2>2. CASE b # 1 /\ b - 1 \in dirs
    <3>1. data[b] = Dot(b)
      BY <1>1, <2>2 DEF Made
    <3>2. b \in 0..NInodes
      BY <1>2, <2>2, InodeAssumption
    <3>3. QED
      BY <3>1, <3>2, DotIs
  <2>3. CASE b # 1 /\ b - 1 \notin dirs
    <3>1. data[b] = EmptyBlock
      BY <1>1, <2>3 DEF Made
    <3>2. QED
      BY <3>1, EmptyIs
  <2>4. QED
    BY <2>1, <2>2, <2>3
<1>6. QED
  BY <1>3, <1>5 DEF GoodData

\* Nobody uses an inode yet, but for the mount of the root.
LEMMA NoUsers ==
  ASSUME NEW st, NEW fl, NEW i, \A t \in Task : st[t] = <<>> /\ fl[t] = <<>>
  PROVE  Users(st, fl, i) = 0
<1>1. \A t \in Task : Refs(st[t], i) = {}
  BY DEF Refs
<1>2. UNION {{t} \X Refs(st[t], i) : t \in Task} = {}
  BY <1>1
<1>3. <<i>> # <<>>
  <2>1. <<i>> = Cons(i, <<>>)
    BY Literal
  <2>2. QED
    BY <2>1, EmptyStack, ConsTop
<1>4. {t \in Task : fl[t] = <<i>>} = {}
  <2>1. PICK x, e : x = <<i>> /\ e = <<>>
    OBVIOUS
  <2>2. \A t \in Task : fl[t] # x
    BY <1>3, <2>1
  <2>3. {t \in Task : fl[t] = x} = {}
    BY ONLY <2>2
  <2>4. QED
    BY <2>1, <2>3
<1>5. {t \in Task : Given(st[t], i)} = {}
  BY DEF Given
<1>6. PICK A, F, V : /\ A = UNION {{t} \X Refs(st[t], i) : t \in Task}
                     /\ F = {t \in Task : fl[t] = <<i>>}
                     /\ V = {t \in Task : Given(st[t], i)}
  OBVIOUS
<1>7. Cardinality(A) = 0 /\ Cardinality(F) = 0 /\ Cardinality(V) = 0
  <2>1. Cardinality({}) = 0
    BY FS_EmptySet
  <2>2. A = {} /\ F = {} /\ V = {}
    BY <1>2, <1>4, <1>5, <1>6
  <2>3. QED
    BY ONLY <2>1, <2>2
<1>8. Users(st, fl, i) = Cardinality(A) + Cardinality(F) + Cardinality(V)
  BY <1>6 DEF Users
<1>9. QED
  BY <1>7, <1>8

LEMMA InitInductive == Init => Inductive
<1> SUFFICES ASSUME Init PROVE Inductive
  OBVIOUS
<1>1. PICK tree \in Tree : Made(tree)
  BY DEF Init
<1>2. GoodDisk(d_inode) /\ GoodData(data)
  BY <1>1, MadeDisk, MadeData
<1>3. PICK z, d : z = memset0 /\ d = d_inode[ROOT_INO]
  OBVIOUS
<1>4. PICK m : m = [Loaded(z, d) EXCEPT !.num = ROOT_INO, !.count = 1]
  OBVIOUS
<1>5. IsInode(z) /\ z.count = 0
  BY <1>3, Cleared
<1>6. ROOT_INO \in 1..NInodes
  BY InodeAssumption DEF ROOT_INO
<1>7. IsStored(d)
  BY <1>2, <1>3, <1>6 DEF GoodDisk
<1>8. IsInode(m) /\ m.count = 1
  <2>1. PICK u, v : u = Loaded(z, d) /\ v = [u EXCEPT !.num = ROOT_INO]
    OBVIOUS
  <2>2. IsInode(u)
    BY <1>5, <1>7, <2>1 DEF Loaded, IsInode, IsStored
  <2>3. IsInode(v)
    BY <1>6, <2>1, <2>2, Renumbered
  <2>4. m = [v EXCEPT !.count = 1]
    BY <1>4, <2>1
  <2>5. QED
    BY <2>3, <2>4, Recounted
<1>9. inode_table = [i \in Slot |-> IF i # Root THEN z ELSE m]
  BY <1>3, <1>4 DEF Init
<1>10. GoodTable(inode_table)
  BY <1>5, <1>8, <1>9 DEF GoodTable
<1>11. Tables
  <2>1. last_allocated_inode \in Slot
    BY SlotIs DEF Init, Root
  <2>2. QED
    BY <1>2, <1>10, <2>1 DEF Tables
<1>12. /\ stack = [t \in Task |-> <<>>] /\ file = [t \in Task |-> <<>>]
       /\ running = Nobody
  BY DEF Init
<1>13. ASSUME NEW i \in Slot
       PROVE  inode_table[i].count = Users(stack, file, i) + Num(i = Root)
  <2>1. PICK st, fl : st = stack /\ fl = file
    OBVIOUS
  <2>2. \A t \in Task : st[t] = <<>> /\ fl[t] = <<>>
    BY <1>12, <2>1
  <2>3. Users(st, fl, i) = 0
    BY <2>2, NoUsers
  <2>4. inode_table[i].count = Num(i = Root)
    BY <1>5, <1>8, <1>9 DEF Num
  <2>5. Num(i = Root) \in Nat
    BY NumType
  <2>6. QED
    BY <2>1, <2>3, <2>4, <2>5
<1>14. \A t \in Task : GoodStack(stack[t], file[t]) /\ GoodFile(file[t]) /\ TopOk(t)
  <2>1. \A t \in Task : stack[t] = <<>> /\ file[t] = <<>>
    BY <1>12
  <2>2. \A t \in Task : GoodStack(stack[t], file[t])
    BY <2>1, GoodEmpty
  <2>3. \A t \in Task : GoodFile(file[t])
    BY <2>1 DEF GoodFile
  <2>4. \A t \in Task : TopOk(t)
    BY <2>1 DEF TopOk
  <2>5. QED
    BY <2>2, <2>3, <2>4
<1>15. Working
  BY <1>12, <1>13, <1>14 DEF Working
<1>16. QED
  BY <1>11, <1>15 DEF Inductive

LEMMA StepInductive ==
  ASSUME Inductive, NEW t \in Task,
         (InodeStep(t) /\ UNCHANGED namei_vars) \/ NameiStep(t)
  PROVE  Inductive'
<1>1. CASE InodeStep(t) /\ UNCHANGED namei_vars
  <2>1. CASE \/ sleep_on(t) \/ write_inode(t) \/ write_copy(t) \/ read_inode(t) \/ read_copy(t)
             \/ get_empty_inode(t) \/ empty_wait(t)
    BY <1>1, <2>1, SleepOn, WriteInode, WriteCopy, ReadInode, ReadCopy, GetEmptyInode, EmptyWait
  <2>2. CASE \/ iget(t) \/ iget_wait(t) \/ new_inode(t)
             \/ iput(t) \/ iput_repeat(t) \/ free_inode(t)
    BY <1>1, <2>2, IgetStep, IgetWait, NewInodeStep, IputStep, IputRepeat, FreeInode
  <2>3. CASE \/ truncate(t) \/ truncated(t) \/ free_block(t)
             \/ new_block(t) \/ clear_block(t) \/ create_block(t) \/ created(t)
             \/ sync_inodes(t)
    BY <1>1, <2>3, TruncateStep, Truncated, FreeBlock, NewBlock, ClearBlock, CreateBlock,
       Created, SyncInodes
  <2>4. QED
    BY <1>1, <2>1, <2>2, <2>3 DEF InodeStep
<1>2. CASE NameiStep(t)
  <2>1. CASE \/ end(t)
             \/ find_entry(t) \/ find_scan(t) \/ add_entry(t) \/ add_scan(t) \/ add_block(t)
             \/ get_dir(t) \/ get_dir_next(t) \/ get_dir_found(t) \/ get_dir_got(t)
    BY <2>1, End, FindEntry, FindScan, AddEntry, AddScan, AddBlock, GetDirRoot, GetDirNext,
       GetDirFound, GetDirGot
  <2>2. CASE \/ namei(t) \/ namei_found(t) \/ namei_got(t)
             \/ open_dir(t) \/ open_found(t) \/ open_new(t) \/ open_added(t) \/ open_got(t)
             \/ opened(t)
    BY <2>2, NameiCall, NameiFound, NameiGot, OpenDir, OpenFound, OpenNew, OpenAdded, OpenGot,
       Opened
  <2>3. CASE \/ mkdir_dir(t) \/ mkdir_found(t) \/ mkdir_new(t) \/ mkdir_block(t)
             \/ mkdir_fill(t) \/ mkdir_added(t) \/ mkdir_free(t) \/ mkdir_undo(t)
    BY <2>3, MkdirDir, MkdirFound, MkdirNew, MkdirBlock, MkdirFill, MkdirAdded, MkdirFree,
       MkdirUndo
  <2>4. CASE \/ remove_dir(t) \/ remove_found(t) \/ rmdir_got(t) \/ empty_dir(t)
             \/ rmdir_empty(t) \/ unlink_got(t)
    BY <2>4, RemoveDir, RemoveFound, RmdirGot, EmptyDir, RmdirEmpty, UnlinkGot
  <2>5. CASE \/ link_old(t) \/ link_dir(t) \/ link_found(t) \/ link_added(t) \/ link_count(t)
             \/ sys_call(t) \/ sys_sync(t) \/ sys_close(t)
    BY <2>5, LinkOld, LinkDir, LinkFound, LinkAdded, LinkCount, SysCall, SysSync, SysClose
  <2>6. QED
    BY <1>2, <2>1, <2>2, <2>3, <2>4, <2>5 DEF NameiStep
<1>3. QED
  BY <1>1, <1>2

LEMMA StillInductive == Inductive /\ UNCHANGED all_vars => Inductive'
<1> SUFFICES ASSUME Inductive, UNCHANGED all_vars PROVE Inductive'
  OBVIOUS
<1>1. /\ inode_table' = inode_table /\ last_allocated_inode' = last_allocated_inode
      /\ d_inode' = d_inode /\ data' = data /\ running' = running /\ stack' = stack
      /\ halted' = halted /\ file' = file
  BY DEF all_vars, vars, table, disk, namei_vars
<1>2. Tables'
  BY <1>1 DEF Inductive, Tables
<1>3. ASSUME Working PROVE Working'
  <2>1. \A t \in Task : TopOk(t) => TopOk(t)'
    BY <1>1 DEF TopOk, GoodTop, Claimed, Entry
  <2>2. QED
    BY <1>1, <1>3, <2>1 DEF Working
<1>4. QED
  BY <1>1, <1>2, <1>3 DEF Inductive

\* A call that holds an inode it has not written down yet is running.
LEMMA Counted == Inductive => CountMatchesUsers
<1> SUFFICES ASSUME Inductive, Asleep, NEW i \in Slot
             PROVE  inode_table[i].count =
                      Cardinality(UNION {{t} \X Refs(stack[t], i) : t \in Task})
                      + Cardinality({t \in Task : file[t] = <<i>>})
                      + IF i = Root THEN 1 ELSE 0
  BY DEF CountMatchesUsers
<1>1. Working /\ running \notin Task
  BY InodeAssumption DEF Inductive, Asleep
<1>2. inode_table[i].count = Users(stack, file, i) + Num(i = Root)
  BY <1>1 DEF Working
<1>3. ASSUME NEW t \in Task, Given(stack[t], i) PROVE FALSE
  <2>1. PICK f : f = Head(stack[t])
    OBVIOUS
  <2>2. stack[t] # <<>> /\ f.at \in Gives
    BY <1>3, <2>1 DEF Given
  <2>3. GoodTop(t, f)
    BY <1>1, <2>1, <2>2 DEF Working, TopOk
  <2>4. QED
    BY <1>1, <2>2, <2>3 DEF GoodTop
<1>4. Cardinality({t \in Task : Given(stack[t], i)}) = 0
  <2>1. {t \in Task : Given(stack[t], i)} = {}
    BY <1>3
  <2>2. QED
    BY <2>1, FS_EmptySet
<1>5. PICK a, b : /\ a = Cardinality(UNION {{t} \X Refs(stack[t], i) : t \in Task})
                  /\ b = Cardinality({t \in Task : file[t] = <<i>>})
  OBVIOUS
<1>6. Users(stack, file, i) = a + b + 0
  BY <1>4, <1>5 DEF Users
<1>7. a \in Nat /\ b \in Nat
  <2>1. PICK R : R = [u \in Task |-> Refs(stack[u], i)]
    OBVIOUS
  <2>2. \A u \in Task : IsStack(stack[u])
    BY <1>1 DEF Working, GoodStack
  <2>3. \A u \in Task : IsFiniteSet(R[u])
    BY <2>1, <2>2, HeldType
  <2>4. IsFiniteSet(Rows(R, Task))
    BY <2>3, FiniteTask, RowsFinite
  <2>5. a = Cardinality(Rows(R, Task))
    BY <1>5, <2>1 DEF Rows
  <2>6. IsFiniteSet({t \in Task : file[t] = <<i>>})
    BY FiniteTask, FS_Subset
  <2>7. QED
    BY <1>5, <2>4, <2>5, <2>6, FS_CardinalityType
<1>8. QED
  BY <1>2, <1>5, <1>6, <1>7 DEF Num

\* i_count is the number of references that calls, open files and the mount have,
\* whatever iput, iget and get_empty_inode slept on.  (inode.c:127-248)
THEOREM CountedAlways == Spec => []CountMatchesUsers
<1>1. Inductive /\ [Next]_all_vars => Inductive'
  BY StepInductive, StillInductive DEF Next
<1>2. QED
  BY <1>1, InitInductive, Counted, PTL DEF Spec

-------------------------------------------------------------------------------
(* One slot for an inode.  Only iget and new_inode give a slot a number, only *)
(* get_empty_inode and free_inode take it away.                               *)

SameNums == \A j \in Slot : inode_table'[j].num = inode_table[j].num
Numbered == SameNums /\ imap' = imap /\ slips \subseteq slips'

Apart ==
  \A i \in Slot : inode_table[i].num # 0 =>
    /\ inode_table[i].num \in imap
    /\ \A j \in Slot \ {i} : inode_table[j].num # inode_table[i].num
Lost == "freed inode read" \in slips

LEMMA OneCopyIs == OneCopy <=> (~ Lost => Apart)
BY Zenon DEF OneCopy, Lost, Apart

LEMMA NumbersKept == ASSUME ~ Lost => Apart, Numbered PROVE ~ Lost' => Apart'
<1>1. Lost => Lost'
  BY Zenon DEF Numbered, Lost
<1>2. Apart => Apart'
  BY DEF Apart, Numbered, SameNums
<1>3. QED
  BY <1>1, <1>2

LEMMA TableKeeps ==
  ASSUME UNCHANGED <<inode_table, imap>>, slips \subseteq slips'
  PROVE  Numbered
BY DEF Numbered, SameNums

LEMMA PutKeeps ==
  ASSUME Tables, NEW i, NEW m, Put(i, m), i \in Slot => m.num = inode_table[i].num,
         UNCHANGED imap, slips \subseteq slips'
  PROVE  Numbered
<1>1. DOMAIN inode_table = Slot
  BY DEF Tables, GoodTable
<1>2. ASSUME NEW j \in Slot PROVE inode_table'[j].num = inode_table[j].num
  BY <1>1, <1>2 DEF Put
<1>3. QED
  BY <1>2 DEF Numbered, SameNums

\* An action that replaces the inode of one slot by one of the same number.
LEMMA Alters ==
  ASSUME Tables, NEW i, NEW w, Put(i, w), IsInode(inode_table[i]) => w.num = inode_table[i].num,
         UNCHANGED <<imap, slips>>
  PROVE  Numbered
<1>1. i \in Slot => w.num = inode_table[i].num
  BY InodeAt
<1>2. QED
  BY <1>1, PutKeeps

LEMMA CopyNumbers ==
  ASSUME Tables, NEW t \in Task,
         write_inode(t) \/ write_copy(t) \/ read_inode(t) \/ read_copy(t)
  PROVE  Numbered
<1>1. PICK i, m, d : i = Top(t).i /\ m = inode_table[i] /\ d = d_inode[m.num]
  OBVIOUS
<1>2. PICK u, v, w : /\ u = [m EXCEPT !.lock = TRUE]
                     /\ v = [m EXCEPT !.dirt = FALSE, !.lock = FALSE]
                     /\ w = [Loaded(m, d) EXCEPT !.lock = FALSE]
  OBVIOUS
<1>3. IsInode(m) => u.num = m.num
  BY <1>2 DEF IsInode
<1>4. IsInode(m) => v.num = m.num
  BY <1>2 DEF IsInode
<1>5. IsInode(m) => w.num = m.num
  BY <1>2 DEF IsInode, Loaded
<1>6. UNCHANGED <<imap, slips>>
  BY DEF write_inode, write_copy, read_inode, read_copy, disk
<1>7. Put(i, u) \/ Put(i, v) \/ Put(i, w)
  BY <1>1, <1>2, Zenon DEF write_inode, write_copy, read_inode, read_copy
<1>8. QED
  BY <1>1, <1>3, <1>4, <1>5, <1>6, <1>7, Alters

LEMMA PutNumbers ==
  ASSUME Tables, NEW t \in Task, iput(t) \/ iput_repeat(t) \/ truncate(t) \/ truncated(t)
  PROVE  Numbered
<1>1. PICK i, n, m : i = Top(t).i /\ n = Top(t).n /\ m = inode_table[i]
  OBVIOUS
<1>2. PICK u, v, w : /\ u = [m EXCEPT !.count = @ - 1]
                     /\ v = [m EXCEPT !.size = 0, !.dirt = TRUE]
                     /\ w = [m EXCEPT !.zone[n] = 0]
  OBVIOUS
<1>3. IsInode(m) => u.num = m.num
  BY <1>2 DEF IsInode
<1>4. IsInode(m) => v.num = m.num
  BY <1>2 DEF IsInode
<1>5. IsInode(m) => w.num = m.num
  <2>1. PICK z : w = [m EXCEPT !.zone = z]
    BY <1>2
  <2>2. QED
    BY <2>1 DEF IsInode
<1>6. UNCHANGED <<imap, slips>>
  <2>1. iput(t) \/ iput_repeat(t) \/ truncate(t) => UNCHANGED disk
    BY Zenon DEF iput, iput_repeat, truncate
  <2>2. truncated(t) => UNCHANGED disk
    BY DEF truncated
  <2>3. QED
    BY <2>1, <2>2 DEF disk
<1>7. UNCHANGED inode_table \/ Put(i, u) \/ Put(i, v) \/ Put(i, w)
  <2>1. CASE iput(t)
    BY <1>1, <1>2, <2>1, Zenon DEF iput
  <2>2. CASE iput_repeat(t)
    BY <1>1, <1>2, <2>2 DEF iput_repeat
  <2>3. CASE truncate(t)
    BY <1>1, <1>2, <2>3, Zenon DEF truncate
  <2>4. CASE truncated(t)
    BY <1>1, <1>2, <2>4 DEF truncated
  <2>5. QED
    BY <2>1, <2>2, <2>3, <2>4
<1>8. CASE UNCHANGED inode_table
  BY <1>6, <1>8, TableKeeps
<1>9. CASE Put(i, u) \/ Put(i, v) \/ Put(i, w)
  BY <1>1, <1>3, <1>4, <1>5, <1>6, <1>9, Alters
<1>10. QED
  BY <1>7, <1>8, <1>9

LEMMA CreatedNumbers == ASSUME Tables, NEW t \in Task, created(t) PROVE Numbered
<1>1. PICK i, m : i = Top(t).i /\ m = inode_table[i]
  OBVIOUS
<1>2. PICK w : w = [m EXCEPT !.zone[Top(t).n] = Top(t).v, !.dirt = @ \/ Top(t).v # 0]
  OBVIOUS
<1>3. Put(i, w) /\ UNCHANGED imap
  BY <1>1, <1>2, Zenon DEF created
<1>4. slips \subseteq slips'
  BY Zenon DEF created
<1>5. PICK x, y : w = [m EXCEPT !.zone = x, !.dirt = y]
  BY <1>2, Zenon
<1>6. i \in Slot => IsInode(m)
  BY <1>1, InodeAt
<1>7. i \in Slot => w.num = m.num
  BY <1>5, <1>6 DEF IsInode
<1>8. QED
  BY <1>1, <1>3, <1>4, <1>7, PutKeeps

LEMMA IgetWaitNumbers == ASSUME Tables, NEW t \in Task, iget_wait(t) PROVE Numbered
<1>1. UNCHANGED <<imap, slips>>
  BY DEF iget_wait, disk
<1>2. PICK i, k : i = Top(t).i /\ k = Top(t).ino
  OBVIOUS
<1>3. \/ UNCHANGED inode_table
      \/ inode_table' = [inode_table EXCEPT ![i].count = @ + 1, ![k].count = @ - 1]
  BY <1>2 DEF iget_wait
<1>4. CASE UNCHANGED inode_table
  BY <1>1, <1>4, TableKeeps
<1>5. CASE inode_table' = [inode_table EXCEPT ![i].count = @ + 1, ![k].count = @ - 1]
  <2>1. PICK T, V : T = inode_table /\ V = inode_table'
    OBVIOUS
  <2>2. DOMAIN T = Slot /\ \A j \in Slot : IsInode(T[j])
    BY <2>1 DEF Tables, GoodTable
  <2>3. V = [T EXCEPT ![i].count = @ + 1, ![k].count = @ - 1]
    BY <1>5, <2>1
  <2>4. ASSUME NEW j \in Slot PROVE V[j].num = T[j].num
    <3>1. IsInode(T[j])
      BY <2>2
    <3>2. CASE j = i /\ j = k
      BY <2>2, <2>3, <3>1, <3>2 DEF IsInode
    <3>3. CASE j = i /\ j # k
      BY <2>2, <2>3, <3>1, <3>3 DEF IsInode
    <3>4. CASE j # i /\ j = k
      BY <2>2, <2>3, <3>1, <3>4 DEF IsInode
    <3>5. CASE j # i /\ j # k
      BY <2>2, <2>3, <3>1, <3>5
    <3>6. QED
      BY <3>2, <3>3, <3>4, <3>5
  <2>5. QED
    BY <1>1, <2>1, <2>4 DEF Numbered, SameNums
<1>6. QED
  BY <1>3, <1>4, <1>5

\* The other actions on the tables change no inode.
LEMMA StillNumbers ==
  ASSUME NEW t \in Task,
         \/ sleep_on(t) \/ get_empty_inode(t)
         \/ free_block(t) \/ new_block(t) \/ clear_block(t) \/ create_block(t) \/ sync_inodes(t)
  PROVE  Numbered
<1>1. UNCHANGED <<inode_table, imap, slips>>
  <2>1. CASE sleep_on(t)
    BY <2>1 DEF sleep_on, table, disk
  <2>2. CASE get_empty_inode(t)
    BY <2>2, Zenon DEF get_empty_inode, disk
  <2>3. CASE free_block(t)
    BY <2>3, Zenon DEF free_block, table
  <2>4. CASE new_block(t)
    BY <2>4 DEF new_block, table
  <2>5. CASE clear_block(t)
    BY <2>5, Zenon DEF clear_block, table
  <2>6. CASE create_block(t)
    BY <2>6 DEF create_block, table, disk
  <2>7. CASE sync_inodes(t)
    BY <2>7 DEF sync_inodes, table, disk
  <2>8. QED
    BY <2>1, <2>2, <2>3, <2>4, <2>5, <2>6, <2>7
<1>2. QED
  BY <1>1, TableKeeps

LEMMA CallNumbers ==
  ASSUME NEW t \in Task,
         \/ end(t) \/ find_entry(t) \/ find_scan(t) \/ add_entry(t) \/ add_block(t)
         \/ get_dir_next(t) \/ get_dir_found(t) \/ get_dir_got(t) \/ namei(t) \/ namei_found(t)
         \/ open_dir(t) \/ open_found(t) \/ open_got(t) \/ mkdir_dir(t) \/ mkdir_found(t)
         \/ remove_dir(t) \/ remove_found(t) \/ rmdir_got(t) \/ empty_dir(t)
         \/ link_old(t) \/ link_dir(t) \/ link_found(t)
  PROVE  Numbered
<1>1. CASE OnlyCalls
  BY <1>1, TableKeeps DEF OnlyCalls, table, disk
<1>2. CASE \/ end(t) \/ find_entry(t) \/ find_scan(t) \/ add_entry(t) \/ add_block(t)
           \/ get_dir_next(t) \/ get_dir_found(t) \/ get_dir_got(t) \/ namei(t) \/ namei_found(t)
  BY <1>1, <1>2, Zenon DEF end, find_entry, find_scan, add_entry, add_block, get_dir_next,
     get_dir_found, get_dir_got, namei, namei_found
<1>3. CASE \/ open_dir(t) \/ open_found(t) \/ open_got(t) \/ mkdir_dir(t) \/ mkdir_found(t)
  BY <1>1, <1>3 DEF open_dir, open_found, open_got, mkdir_dir, mkdir_found
<1>4. CASE \/ remove_dir(t) \/ remove_found(t) \/ rmdir_got(t) \/ empty_dir(t)
           \/ link_old(t) \/ link_dir(t) \/ link_found(t)
  BY <1>1, <1>4, Zenon DEF remove_dir, remove_found, rmdir_got, empty_dir, link_old,
     link_dir, link_found
<1>5. QED
  BY <1>2, <1>3, <1>4

LEMMA BeginNumbers ==
  ASSUME NEW t \in Task, sys_call(t) \/ sys_sync(t) \/ sys_close(t) \/ opened(t) \/ mkdir_free(t)
  PROVE  Numbered
<1>1. CASE sys_call(t) \/ sys_sync(t) \/ sys_close(t)
  <2>1. \E frames : Begin(t, frames)
    BY <1>1, Zenon DEF sys_call, sys_sync, sys_close
  <2>2. UNCHANGED <<inode_table, imap, slips>>
    BY <2>1 DEF Begin, table, disk
  <2>3. QED
    BY <2>2, TableKeeps
<1>2. CASE opened(t)
  BY <1>2, TableKeeps DEF opened, table, disk
<1>3. CASE mkdir_free(t)
  <2>1. UNCHANGED <<inode_table, imap>>
    BY <1>3, Zenon DEF mkdir_free, table
  <2>2. slips \subseteq slips'
    BY <1>3, Zenon DEF mkdir_free
  <2>3. QED
    BY <2>1, <2>2, TableKeeps
<1>4. QED
  BY <1>1, <1>2, <1>3

LEMMA DirNumbers ==
  ASSUME Tables, NEW t \in Task,
         \/ get_dir(t) \/ namei_got(t) \/ open_new(t) \/ mkdir_new(t) \/ mkdir_block(t)
         \/ mkdir_undo(t) \/ link_count(t)
  PROVE  Numbered
<1>1. UNCHANGED <<imap, slips>>
  <2>1. OnlyTable
    BY DEF get_dir, namei_got, open_new, mkdir_new, mkdir_block, mkdir_undo, link_count
  <2>2. QED
    BY <2>1 DEF OnlyTable, disk
<1>2. ASSUME NEW i, NEW w, Put(i, w), IsInode(inode_table[i]) => w.num = inode_table[i].num
      PROVE  Numbered
  BY <1>1, <1>2, Alters
<1>3. CASE get_dir(t)
  <2>1. PICK w : w = [inode_table[Root] EXCEPT !.count = @ + 1]
    OBVIOUS
  <2>2. Put(Root, w)
    BY <1>3, <2>1 DEF get_dir
  <2>3. IsInode(inode_table[Root]) => w.num = inode_table[Root].num
    BY <2>1 DEF IsInode
  <2>4. QED
    BY <1>2, <2>2, <2>3
<1>4. CASE namei_got(t)
  <2>1. PICK i, w : i = Top(t).v /\ w = [inode_table[i] EXCEPT !.dirt = TRUE]
    OBVIOUS
  <2>2. Put(i, w)
    BY <1>4, <2>1 DEF namei_got
  <2>3. IsInode(inode_table[i]) => w.num = inode_table[i].num
    BY <2>1 DEF IsInode
  <2>4. QED
    BY <1>2, <2>2, <2>3
<1>5. CASE open_new(t)
  <2>1. PICK i, w : i = Top(t).v /\ w = [inode_table[i] EXCEPT !.mode = "reg", !.dirt = TRUE]
    BY Zenon
  <2>2. UNCHANGED inode_table \/ Put(i, w)
    BY <1>5, <2>1 DEF open_new
  <2>3. IsInode(inode_table[i]) => w.num = inode_table[i].num
    BY <2>1 DEF IsInode
  <2>4. QED
    BY <1>1, <1>2, <2>2, <2>3, TableKeeps
<1>6. CASE mkdir_new(t)
  <2>1. PICK i, w : i = Top(t).v /\ w = [inode_table[i] EXCEPT !.size = 2, !.dirt = TRUE]
    BY Zenon
  <2>2. UNCHANGED inode_table \/ Put(i, w)
    BY <1>6, <2>1 DEF mkdir_new
  <2>3. IsInode(inode_table[i]) => w.num = inode_table[i].num
    BY <2>1 DEF IsInode
  <2>4. QED
    BY <1>1, <1>2, <2>2, <2>3, TableKeeps
<1>7. CASE mkdir_block(t)
  <2>1. PICK f, i, w : /\ f = Top(t) /\ i = f.ino
                       /\ w = [inode_table[i] EXCEPT !.zone[0] = f.v, !.dirt = @ \/ f.v # 0]
    BY Zenon
  <2>2. Put(i, w)
    BY <1>7, <2>1, Zenon DEF mkdir_block
  <2>3. PICK x, y : w = [inode_table[i] EXCEPT !.zone = x, !.dirt = y]
    BY <2>1, Zenon
  <2>4. IsInode(inode_table[i]) => w.num = inode_table[i].num
    BY <2>3 DEF IsInode
  <2>5. QED
    BY <1>2, <2>2, <2>4
<1>8. CASE mkdir_undo(t)
  <2>1. PICK i, w : i = Top(t).ino /\ w = [inode_table[i] EXCEPT !.nlinks = 0]
    OBVIOUS
  <2>2. Put(i, w)
    BY <1>8, <2>1 DEF mkdir_undo
  <2>3. IsInode(inode_table[i]) => w.num = inode_table[i].num
    BY <2>1 DEF IsInode
  <2>4. QED
    BY <1>2, <2>2, <2>3
<1>9. CASE link_count(t)
  <2>1. PICK i, w : i = Top(t).ino /\ w = [inode_table[i] EXCEPT !.nlinks = @ + 1, !.dirt = TRUE]
    BY Zenon
  <2>2. Put(i, w)
    BY <1>9, <2>1 DEF link_count
  <2>3. IsInode(inode_table[i]) => w.num = inode_table[i].num
    BY <2>1 DEF IsInode
  <2>4. QED
    BY <1>2, <2>2, <2>3
<1>10. QED
  BY <1>3, <1>4, <1>5, <1>6, <1>7, <1>8, <1>9

LEMMA EntryNumbers ==
  ASSUME Tables, NEW t \in Task,
         \/ add_scan(t) \/ open_added(t) \/ mkdir_fill(t) \/ mkdir_added(t) \/ unlink_got(t)
         \/ link_added(t)
  PROVE  Numbered
<1>1. UNCHANGED imap /\ slips \subseteq slips'
  <2>1. CASE open_added(t)
    BY <2>1, Zenon DEF open_added
  <2>2. CASE DataAndTable
    BY <2>2 DEF DataAndTable
  <2>3. QED
    BY <2>1, <2>2, Zenon DEF add_scan, mkdir_fill, mkdir_added, unlink_got, link_added
<1>2. ASSUME NEW i, NEW w, Put(i, w), IsInode(inode_table[i]) => w.num = inode_table[i].num
      PROVE  Numbered
  <2>1. i \in Slot => w.num = inode_table[i].num
    BY <1>2, InodeAt
  <2>2. QED
    BY <1>1, <1>2, <2>1, PutKeeps
<1>3. CASE UNCHANGED inode_table
  BY <1>1, <1>3, TableKeeps
<1>4. CASE add_scan(t)
  <2>1. PICK f, i, m : f = Top(t) /\ i = f.i /\ m = inode_table[i]
    OBVIOUS
  <2>2. UNCHANGED inode_table \/ Put(i, m)
        \/ \E s : Put(i, [m EXCEPT !.size = s, !.dirt = TRUE])
    BY <1>4, <2>1, Zenon DEF add_scan
  <2>3. ASSUME NEW s PROVE IsInode(m) => [m EXCEPT !.size = s, !.dirt = TRUE].num = m.num
    BY DEF IsInode
  <2>4. QED
    BY <1>2, <1>3, <2>1, <2>2, <2>3, Zenon
<1>5. CASE open_added(t)
  <2>1. PICK i, w : i = Top(t).ino /\ w = [inode_table[i] EXCEPT !.nlinks = @ - 1]
    OBVIOUS
  <2>2. UNCHANGED inode_table \/ Put(i, w)
    BY <1>5, <2>1, Zenon DEF open_added
  <2>3. IsInode(inode_table[i]) => w.num = inode_table[i].num
    BY <2>1 DEF IsInode
  <2>4. QED
    BY <1>2, <1>3, <2>2, <2>3
<1>6. CASE mkdir_fill(t)
  <2>1. PICK i, w : /\ i = Top(t).ino
                    /\ w = [inode_table[i] EXCEPT !.nlinks = 2, !.mode = "dir", !.dirt = TRUE]
    BY Zenon
  <2>2. Put(i, w)
    BY <1>6, <2>1, Zenon DEF mkdir_fill
  <2>3. IsInode(inode_table[i]) => w.num = inode_table[i].num
    BY <2>1 DEF IsInode
  <2>4. QED
    BY <1>2, <2>2, <2>3
<1>7. CASE mkdir_added(t)
  <2>1. PICK i, w : i = Top(t).dir /\ w = [inode_table[i] EXCEPT !.nlinks = @ + 1, !.dirt = TRUE]
    BY Zenon
  <2>2. UNCHANGED inode_table \/ Put(i, w)
    BY <1>7, <2>1 DEF mkdir_added
  <2>3. IsInode(inode_table[i]) => w.num = inode_table[i].num
    BY <2>1 DEF IsInode
  <2>4. QED
    BY <1>2, <1>3, <2>2, <2>3
<1>8. CASE unlink_got(t)
  <2>1. PICK i, w : /\ i = Top(t).v
                    /\ w = [inode_table[i] EXCEPT !.nlinks = IF @ = 0 THEN 0 ELSE @ - 1,
                                                  !.dirt = TRUE]
    BY Zenon
  <2>2. UNCHANGED inode_table \/ Put(i, w)
    BY <1>8, <2>1 DEF unlink_got
  <2>3. IsInode(inode_table[i]) => w.num = inode_table[i].num
    BY <2>1 DEF IsInode
  <2>4. QED
    BY <1>2, <1>3, <2>2, <2>3
<1>9. CASE link_added(t)
  BY <1>3, <1>9 DEF link_added
<1>10. QED
  BY <1>4, <1>5, <1>6, <1>7, <1>8, <1>9

LEMMA RmdirNumbers == ASSUME Inductive, NEW t \in Task, rmdir_empty(t) PROVE Numbered
<1>1. PICK f, r : Here(t, f, r) /\ f.at = "rmdir_empty"
  BY Acts DEF rmdir_empty
<1>2. GoodFrame(f) /\ Top(t) = f /\ Tables
  BY <1>1, HereIs
<1>3. f.dir \in Slot /\ f.ino \in Slot
  BY <1>1, <1>2, Classes DEF BothAt
<1>4. UNCHANGED <<imap, slips>>
  BY DEF rmdir_empty, DataAndTable
<1>5. CASE f.v = 0
  BY <1>2, <1>4, <1>5, TableKeeps DEF rmdir_empty
<1>6. CASE f.v # 0
  <2>1. inode_table' = [inode_table EXCEPT ![f.ino].nlinks = 0, ![f.ino].dirt = TRUE,
                                           ![f.dir].nlinks = @ - 1, ![f.dir].dirt = TRUE]
    BY <1>2, <1>6 DEF rmdir_empty
  <2>2. Plain
    BY <1>2, <1>3, <2>1, TwoInodes, Zenon DEF Tables
  <2>3. QED
    BY <1>4, <2>2 DEF Plain, Numbered, SameNums
<1>7. QED
  BY <1>5, <1>6

\* A slot loses its number, and the bitmap that one or none.
LEMMA LosesNumber ==
  ASSUME Tables, Apart, NEW i \in Slot, NEW w, Put(i, w), w.num = 0,
         imap \ {inode_table[i].num} \subseteq imap'
  PROVE  Apart'
<1>1. PICK T, U : T = inode_table /\ U = inode_table'
  OBVIOUS
<1>2. U[i].num = 0 /\ \A j \in Slot \ {i} : U[j] = T[j]
  <2>1. DOMAIN T = Slot /\ U = [T EXCEPT ![i] = w]
    BY <1>1 DEF Tables, GoodTable, Put
  <2>2. QED
    BY <2>1
<1>3. ASSUME NEW k \in Slot, U[k].num # 0
      PROVE  U[k].num \in imap' /\ \A j \in Slot \ {k} : U[j].num # U[k].num
  <2>1. k # i /\ U[k] = T[k] /\ T[k].num # 0
    BY <1>2, <1>3
  <2>2. T[k].num \in imap /\ \A j \in Slot \ {k} : T[j].num # T[k].num
    BY <1>1, <2>1 DEF Apart
  <2>3. T[k].num \in imap'
    BY <1>1, <2>1, <2>2
  <2>4. QED
    BY <1>2, <1>3, <2>1, <2>2, <2>3
<1>4. QED
  BY <1>1, <1>3 DEF Apart

\* A slot gets a number that no slot has and the bitmap has.
LEMMA GetsNumber ==
  ASSUME Tables, Apart, NEW i \in Slot, NEW w, Put(i, w), w.num \in imap', imap \subseteq imap',
         \A j \in Slot : inode_table[j].num # w.num
  PROVE  Apart'
<1>1. PICK T, U : T = inode_table /\ U = inode_table'
  OBVIOUS
<1>2. U[i] = w /\ \A j \in Slot \ {i} : U[j] = T[j]
  <2>1. DOMAIN T = Slot /\ U = [T EXCEPT ![i] = w]
    BY <1>1 DEF Tables, GoodTable, Put
  <2>2. QED
    BY <2>1
<1>3. ASSUME NEW k \in Slot, U[k].num # 0
      PROVE  U[k].num \in imap' /\ \A j \in Slot \ {k} : U[j].num # U[k].num
  <2>1. CASE k = i
    BY <1>1, <1>2, <2>1
  <2>2. CASE k # i
    <3>1. U[k] = T[k] /\ T[k].num # w.num
      BY <1>1, <1>2, <2>2
    <3>2. T[k].num \in imap /\ \A j \in Slot \ {k} : T[j].num # T[k].num
      BY <1>1, <1>3, <3>1 DEF Apart
    <3>3. QED
      BY <1>2, <3>1, <3>2
  <2>3. QED
    BY <2>1, <2>2
<1>4. QED
  BY <1>1, <1>3 DEF Apart

LEMMA EmptyApart ==
  ASSUME Inductive, ~ Lost => Apart, NEW t \in Task, empty_wait(t)
  PROVE  ~ Lost' => Apart'
<1>1. PICK f, r : Here(t, f, r) /\ f.at = "empty_wait"
  BY Acts DEF empty_wait
<1>2. GoodFrame(f) /\ Top(t) = f /\ Tables
  BY <1>1, HereIs
<1>3. f.i \in Slot
  BY <1>1, <1>2 DEF GoodFrame, HasI
<1>4. PICK w : w = [memset0 EXCEPT !.count = 1]
  OBVIOUS
<1>5. UNCHANGED <<imap, slips>>
  BY DEF empty_wait, disk
<1>6. UNCHANGED inode_table \/ Put(f.i, w)
  BY <1>2, <1>4 DEF empty_wait
<1>7. w.num = 0
  BY <1>4 DEF memset0
<1>8. CASE UNCHANGED inode_table
  BY <1>5, <1>8, TableKeeps, NumbersKept
<1>9. CASE Put(f.i, w)
  <2>1. Lost' <=> Lost
    BY <1>5, Zenon DEF Lost
  <2>2. QED
    BY <1>2, <1>3, <1>5, <1>7, <1>9, <2>1, LosesNumber
<1>10. QED
  BY <1>6, <1>8, <1>9

LEMMA FreeApart ==
  ASSUME Inductive, ~ Lost => Apart, NEW t \in Task, free_inode(t)
  PROVE  ~ Lost' => Apart'
<1>1. PICK f, r : Here(t, f, r) /\ f.at = "free_inode"
  BY Acts, Zenon DEF free_inode
<1>2. GoodFrame(f) /\ Top(t) = f /\ Tables
  BY <1>1, HereIs
<1>3. f.i \in Slot
  BY <1>1, <1>2 DEF GoodFrame, HasI, Putting
<1>4. UNCHANGED slips
  BY Zenon DEF free_inode
<1>5. \/ UNCHANGED <<inode_table, imap>>
      \/ imap' = imap \ {inode_table[f.i].num} /\ Put(f.i, memset0)
  BY <1>2, Zenon DEF free_inode
<1>6. memset0.num = 0
  BY DEF memset0
<1>7. CASE UNCHANGED <<inode_table, imap>>
  BY <1>4, <1>7, TableKeeps, NumbersKept
<1>8. CASE imap' = imap \ {inode_table[f.i].num} /\ Put(f.i, memset0)
  <2>1. Lost' <=> Lost
    BY <1>4, Zenon DEF Lost
  <2>2. QED
    BY <1>2, <1>3, <1>6, <1>8, <2>1, LosesNumber
<1>9. QED
  BY <1>5, <1>7, <1>8

LEMMA NewApart ==
  ASSUME Inductive, ~ Lost => Apart, NEW t \in Task, new_inode(t)
  PROVE  ~ Lost' => Apart'
<1>1. PICK f, r : Here(t, f, r) /\ f.at = "new_inode"
  BY Acts DEF new_inode
<1>2. GoodFrame(f) /\ GoodTop(t, f) /\ Top(t) = f /\ Tables
  BY <1>1, HereIs
<1>3. f.v \in Slot
  BY <1>1, <1>2 DEF GoodTop, Claimer
<1>4. PICK m, free, n : m = inode_table[f.v] /\ free = (1..NInodes) \ imap /\ n = Min(free)
  OBVIOUS
<1>5. IsInode(m)
  BY <1>2, <1>3, <1>4, InodeAt
<1>6. Lost' <=> Lost
  BY Zenon DEF new_inode, Lost
<1>7. CASE free = {}
  <2>1. PICK w : w = [m EXCEPT !.count = @ - 1]
    OBVIOUS
  <2>2. Put(f.v, w) /\ UNCHANGED <<imap, slips>>
    BY <1>2, <1>4, <1>7, <2>1 DEF new_inode
  <2>3. w.num = m.num
    BY <1>5, <2>1 DEF IsInode
  <2>4. QED
    BY <1>2, <1>4, <2>2, <2>3, Alters, NumbersKept
<1>8. CASE free # {}
  <2>1. PICK w : w = [m EXCEPT !.count = 1, !.nlinks = 1, !.dirt = TRUE, !.num = n]
    OBVIOUS
  <2>2. imap' = imap \cup {n} /\ Put(f.v, w)
    BY <1>2, <1>4, <1>8, <2>1 DEF new_inode
  <2>3. w.num = n
    BY <1>5, <2>1 DEF IsInode
  <2>4. n \in free
    <3>1. free \in SUBSET Nat
      BY <1>4
    <3>2. QED
      BY <1>4, <1>8, <3>1, MinIs
  <2>5. n # 0 /\ n \notin imap
    BY <1>4, <2>4, InodeAssumption
  <2>6. ASSUME Apart, NEW j \in Slot PROVE inode_table[j].num # w.num
    BY <2>3, <2>5, <2>6 DEF Apart
  <2>7. QED
    BY <1>2, <1>3, <1>6, <2>2, <2>3, <2>6, GetsNumber
<1>9. QED
  BY <1>7, <1>8

LEMMA IgetApart ==
  ASSUME Inductive, ~ Lost => Apart, NEW t \in Task, iget(t)
  PROVE  ~ Lost' => Apart'
<1>1. PICK f, r : Here(t, f, r) /\ f.at \in {"iget", "iget_scan"}
  BY Acts, Zenon DEF iget
<1>2. GoodFrame(f) /\ GoodTop(t, f) /\ Top(t) = f /\ Tables /\ halted = "no"
  BY <1>1, HereIs
<1>3. PICK e, n, found : /\ e = IF At(t, "iget") THEN f.v ELSE f.ino
                         /\ n = f.n /\ found = {j \in Slot : inode_table[j].num = n}
  OBVIOUS
<1>4. e \in Slot
  <2>1. CASE f.at = "iget"
    <3>1. At(t, "iget")
      BY <1>1, <2>1 DEF Here, At
    <3>2. QED
      BY <1>2, <1>3, <2>1, <3>1 DEF GoodTop, Claimer
  <2>2. CASE f.at = "iget_scan"
    <3>1. ~ At(t, "iget")
      BY <1>2, <2>2 DEF At
    <3>2. QED
      BY <1>2, <1>3, <2>2, <3>1 DEF GoodFrame, HasIno
  <2>3. QED
    BY <1>1, <2>1, <2>2
<1>5. imap' = imap
  BY Zenon DEF iget
<1>6. CASE found # {}
  <2>1. UNCHANGED <<inode_table, slips>>
    BY <1>2, <1>3, <1>6, Zenon DEF iget
  <2>2. QED
    BY <1>5, <2>1, TableKeeps, NumbersKept
<1>7. CASE found = {}
  <2>1. PICK w : w = [inode_table[e] EXCEPT !.num = n]
    OBVIOUS
  <2>2. /\ Put(e, w)
        /\ slips' = slips \cup IF n \in imap THEN {} ELSE {"freed inode read"}
    BY <1>2, <1>3, <1>7, <2>1, Zenon DEF iget
  <2>3. ~ Lost' => ~ Lost /\ n \in imap
    BY <2>2, Zenon DEF Lost
  <2>4. w.num = n
    <3>1. IsInode(inode_table[e])
      BY <1>2, <1>4, InodeAt
    <3>2. QED
      BY <2>1, <3>1 DEF IsInode
  <2>5. \A j \in Slot : inode_table[j].num # w.num
    BY <1>3, <1>7, <2>4
  <2>6. QED
    BY <1>2, <1>4, <1>5, <2>2, <2>3, <2>4, <2>5, GetsNumber
<1>8. QED
  BY <1>6, <1>7

LEMMA StepApart ==
  ASSUME Inductive, OneCopy, [Next]_all_vars
  PROVE  OneCopy'
<1>1. ~ Lost => Apart
  BY OneCopyIs
<1>2. (~ Lost' => Apart') => OneCopy'
  BY Zenon DEF OneCopy, Lost, Apart
<1>3. Tables
  BY DEF Inductive
<1>4. CASE Numbered
  BY <1>1, <1>2, <1>4, NumbersKept
<1>5. CASE UNCHANGED all_vars
  <2>1. UNCHANGED <<inode_table, imap, slips>>
    BY <1>5 DEF all_vars, vars, table, disk
  <2>2. QED
    BY <1>4, <2>1, TableKeeps
<1>6. ASSUME NEW t \in Task, InodeStep(t)
      PROVE  OneCopy'
  <2>1. CASE empty_wait(t) \/ iget(t) \/ new_inode(t) \/ free_inode(t)
    BY <1>1, <1>2, <2>1, EmptyApart, IgetApart, NewApart, FreeApart
  <2>2. CASE \/ write_inode(t) \/ write_copy(t) \/ read_inode(t) \/ read_copy(t)
             \/ iget_wait(t) \/ created(t)
             \/ iput(t) \/ iput_repeat(t) \/ truncate(t) \/ truncated(t)
    BY <1>3, <1>4, <2>2, CopyNumbers, IgetWaitNumbers, CreatedNumbers, PutNumbers
  <2>3. CASE \/ sleep_on(t) \/ get_empty_inode(t)
             \/ free_block(t) \/ new_block(t) \/ clear_block(t) \/ create_block(t)
             \/ sync_inodes(t)
    BY <1>4, <2>3, StillNumbers
  <2>4. QED
    BY <1>6, <2>1, <2>2, <2>3 DEF InodeStep
<1>7. ASSUME NEW t \in Task, NameiStep(t)
      PROVE  OneCopy'
  <2>1. CASE \/ end(t) \/ find_entry(t) \/ find_scan(t) \/ add_entry(t) \/ add_block(t)
             \/ get_dir_next(t) \/ get_dir_found(t) \/ get_dir_got(t) \/ namei(t) \/ namei_found(t)
             \/ open_dir(t) \/ open_found(t) \/ open_got(t) \/ mkdir_dir(t) \/ mkdir_found(t)
             \/ remove_dir(t) \/ remove_found(t) \/ rmdir_got(t) \/ empty_dir(t)
             \/ link_old(t) \/ link_dir(t) \/ link_found(t)
    BY <1>4, <2>1, CallNumbers
  <2>2. CASE \/ get_dir(t) \/ namei_got(t) \/ open_new(t) \/ mkdir_new(t) \/ mkdir_block(t)
             \/ mkdir_undo(t) \/ link_count(t)
    BY <1>3, <1>4, <2>2, DirNumbers
  <2>3. CASE \/ add_scan(t) \/ open_added(t) \/ mkdir_fill(t) \/ mkdir_added(t) \/ unlink_got(t)
             \/ link_added(t)
    BY <1>3, <1>4, <2>3, EntryNumbers
  <2>4. CASE rmdir_empty(t)
    BY <1>4, <2>4, RmdirNumbers
  <2>5. CASE sys_call(t) \/ sys_sync(t) \/ sys_close(t) \/ opened(t) \/ mkdir_free(t)
    BY <1>4, <2>5, BeginNumbers
  <2>6. QED
    BY <1>7, <2>1, <2>2, <2>3, <2>4, <2>5 DEF NameiStep
<1>8. QED
  BY <1>5, <1>6, <1>7 DEF Next

LEMMA InitApart == Init => OneCopy
<1> SUFFICES ASSUME Init PROVE Apart
  BY OneCopyIs
<1>1. /\ inode_table = [i \in Slot |->
           IF i # Root THEN memset0
           ELSE [Loaded(memset0, d_inode[ROOT_INO]) EXCEPT !.num = ROOT_INO, !.count = 1]]
      /\ \E tree \in Tree : Made(tree)
  BY DEF Init
<1>2. ROOT_INO \in imap
  BY <1>1, Zenon DEF Made
<1>3. \A i \in Slot : i # Root => inode_table[i].num = 0
  BY <1>1 DEF memset0
<1>4. Root \in Slot => inode_table[Root].num = ROOT_INO
  <2>1. PICK d : d = d_inode[ROOT_INO]
    OBVIOUS
  <2>2. [Loaded(memset0, d) EXCEPT !.num = ROOT_INO, !.count = 1].num = ROOT_INO
    BY DEF Loaded, memset0
  <2>3. QED
    BY <1>1, <2>1, <2>2
<1>5. ROOT_INO # 0
  BY DEF ROOT_INO
<1>6. QED
  BY <1>2, <1>3, <1>4, <1>5 DEF Apart

\* An inode is in one slot of the table at most, and the bitmap has it in use,
\* though iget sleeps between its search of the table and the slot it claims, but
\* for an inode that was freed while the caller of iget slept.
\* (inode.c:218-264, bitmap.c:99-151)
THEOREM OneCopyAlways == Spec => []OneCopy
<1>1. Inductive /\ [Next]_all_vars => Inductive'
  BY StepInductive, StillInductive DEF Next
<1>2. Inductive /\ OneCopy /\ [Next]_all_vars => OneCopy'
  BY StepApart
<1>3. QED
  BY <1>1, <1>2, InitInductive, InitApart, PTL DEF Spec
==============================================================================
