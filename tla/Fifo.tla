--------------------------------- MODULE Fifo --------------------------------
(***************************************************************************)
(* What a pipe promises to those who use it: bytes come out in the order   *)
(* they went in, each once, at most Capacity are on their way, and nothing *)
(* is lost as long as somebody has the pipe open.                          *)
(***************************************************************************)
EXTENDS Naturals, Sequences

CONSTANTS Byte, Capacity

VARIABLES
  q,            \* the bytes on their way
  put, got,     \* how many went in and came out, modulo Capacity + 1
  open

Init == q = <<>> /\ put = 0 /\ got = 0 /\ open = FALSE

Create == /\ ~ open /\ open' = TRUE
          /\ q' = <<>> /\ put' = 0 /\ got' = 0

Put == \E n \in 1..Capacity - Len(q) :
         /\ open /\ UNCHANGED <<open, got>>
         /\ \E s \in [1..n -> Byte] : q' = q \o s
         /\ put' = (put + n) % (Capacity + 1)

Get == \E n \in 1..Len(q) :
         /\ open /\ UNCHANGED <<open, put>>
         /\ q' = SubSeq(q, n + 1, Len(q))
         /\ got' = (got + n) % (Capacity + 1)

Destroy == open /\ open' = FALSE /\ q' = <<>> /\ UNCHANGED <<put, got>>

Next == Create \/ Put \/ Get \/ Destroy

Spec == Init /\ [][Next]_<<q, put, got, open>>
==============================================================================
