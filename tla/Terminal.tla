------------------------------ MODULE Terminal -------------------------------
(***************************************************************************)
(* The two halves of a terminal side by side: the screen behind con_write  *)
(* (Console.tla) and the line discipline in front of it (Tty.tla).  They   *)
(* share the characters of write_q only, and con_write does not look at    *)
(* the queues between two of them, so a behaviour shows one half (`part')  *)
(* while the other rests in an initial state.                              *)
(***************************************************************************)
EXTENDS Console

CONSTANTS Reader, Writer, Group, Idle, TTY_BUF_SIZE, Room, Near, startup,
          Request, MaxCalls, MaxTyped, MaxNest

VARIABLES part,
          console, cooked, read_q, write_q, secondary, data, asleep, transmit, running, stack,
          signal, slip, typed, calls

ASSUME LineAssumption ==
  /\ Idle \notin Reader \cup Writer
  /\ TTY_BUF_SIZE \in Nat \ {0, 1} /\ Room \in 0..TTY_BUF_SIZE - 1 /\ Near \in Nat
  /\ startup \in Nat \ {0}
  /\ Request \subseteq Nat

L == INSTANCE Tty

screen == <<scr, state, npar, par, attr, saved, loop, ops>>
discipline == <<console, cooked, read_q, write_q, secondary, data, asleep, transmit, running, stack,
                signal, slip, typed, calls>>

TerminalInit ==
  \/ part = "screen" /\ Init /\ L!Init /\ console = TRUE
  \/ part = "line" /\ Init /\ L!Init /\ scr.origin = 0 /\ scr.pos = 0 /\ scr.top = 0
     /\ scr.bottom = LINES /\ saved.x = 0
TerminalNext ==
  \/ part = "screen" /\ Next /\ UNCHANGED <<discipline, part>>
  \/ part = "line" /\ L!Next /\ UNCHANGED <<screen, part>>
TerminalSpec == TerminalInit /\ [][TerminalNext]_<<screen, discipline, part>> /\ L!Fairness

\* Tty.tla: secondary.data is the number of line ends in the queue, whatever
\* the interrupts add while a reader takes characters (tty_io.c:183, 229, 237).
LinesCounted == L!LinesCounted

\* Tty.tla: a reader or a writer is asleep only while a wake-up is still to come
\* (tty_io.c:115-134, 199, rs_io.s:115-134).
NobodyForgotten == L!NobodyForgotten

\* Tty.tla: no character of the serial line is lost, doubled or overtaken on its
\* way through the queues (GETCH and PUTCH in tty_io.c, the pointers of rs_io.s).
InOrder == L!InOrder

\* Tty.tla: a writer on a serial line is served, by the transmit interrupt and
\* schedule() in tty_write (tty_io.c:262-298, rs_io.s:107-134).
WriterServed == L!WriterServed
=============================================================================
