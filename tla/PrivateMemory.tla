---------------------------- MODULE PrivateMemory ----------------------------
(***************************************************************************)
(* What memory management promises to user programs: every task has a      *)
(* memory of its own, all zeroes where nobody has written; a write changes *)
(* one page of one task; fork gives the child what the father sees at that *)
(* moment; exit and execve clear it.  Nothing is said about sharing:       *)
(* Memory.tla models mm/memory.c, where fork copies no page at all.        *)
(***************************************************************************)
CONSTANTS Slot, Addr, Val, Zero

VARIABLE mem    \* mem[t][a]: what task t sees at its page a

Blank == [a \in Addr |-> Zero]

\* t sees m from now on, and nobody else notices.
Becomes(t, m) == /\ mem'[t] = m
                 /\ \A u \in Slot \ {t} : mem'[u] = mem[u]

Write(t, a, v) == Becomes(t, [mem[t] EXCEPT ![a] = v])

Fork(t, u) == mem[u] = Blank /\ Becomes(u, mem[t])

Clear(t) == Becomes(t, Blank)

\* A new program finds its arguments on one page.
Exec(t, a, v) == Becomes(t, [Blank EXCEPT ![a] = v])

Next == \E t \in Slot :
          \/ Clear(t)
          \/ \E a \in Addr, v \in Val : Write(t, a, v) \/ Exec(t, a, v)
          \/ \E u \in Slot : Fork(t, u)

\* Before the first fork only task 0, the kernel's, has anything.
Init == \E b \in [Addr -> Val] :
          mem = [t \in Slot |-> IF t = 0 THEN b ELSE Blank]

Spec == Init /\ [][Next]_mem
==============================================================================
