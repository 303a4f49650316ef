---------------------------------- MODULE Tty --------------------------------
(***************************************************************************)
(* One terminal line: the line discipline of kernel/tty_io.c between the   *)
(* interrupts of keyboard.s and rs_io.s, which fill read_q and empty the   *)
(* serial line's write_q, and the tasks in tty_read and tty_write.  The    *)
(* line is the console (cooked with echo, con_write empties write_q at     *)
(* once) or a serial line (raw, rs_write starts the transmitter), and the  *)
(* mode can be changed (fs/tty_ioctl.c).                                   *)
(*                                                                         *)
(* Interrupts come between any two steps of a task, on its kernel stack:   *)
(* stack[t] holds the calls of task t and of the interrupts on top of it,  *)
(* the innermost first.  The keyboard's gate leaves interrupts enabled and *)
(* has acknowledged the interrupt when it calls copy_to_cooked, so another *)
(* one may come on top.  A GETCH or PUTCH is one step.  Tasks change only  *)
(* where one sleeps or calls schedule().  sleep_on and wake_up have the    *)
(* meaning that SleepQueueWaitSet.tla shows.                               *)
(***************************************************************************)
EXTENDS Integers, SequencesExt

CONSTANTS Reader, Writer, \* tasks that call tty_read, tty_write
          Group,          \* those of the process group of the line, tty->pgrp
          Idle,           \* no task is in the kernel: user mode or task 0
          TTY_BUF_SIZE,   \* cells of a queue
          Room, Near,     \* 128 and 20 in the code
          startup,        \* 256 in rs_io.s
          Request,        \* the numbers of characters they ask for
          MaxCalls, MaxTyped, MaxNest  \* bounds: calls, keys, keyboard interrupts at a time

VARIABLES console, cooked,
          read_q, write_q, secondary,
          data,           \* secondary.data: line ends in it
          asleep,         \* the proc_list of write_q and secondary
          transmit,       \* the serial line's transmit interrupt is enabled
          running, stack, signal,
          slip,           \* history: a character was taken from an empty queue,
                          \* put into a full one, or erased instead of another
          typed, calls

Task == Reader \union Writer
queues == <<read_q, write_q, secondary, data>>
line == <<console, cooked, typed, calls>>
vars == <<queues, line, asleep, transmit, running, stack, signal, slip>>

LineEnd == {"NL", "EOF"}
Char(cook) == {"x", "NL", "EOF"} \union (IF cook THEN {"DEL", "INTR"} ELSE {"INTR"})

(* include/linux/tty.h: head and tail bound a sequence of at most           *)
(* TTY_BUF_SIZE - 1 characters, as long as nothing is taken from an empty  *)
(* queue or put into a full one.                                           *)
Left(q) == TTY_BUF_SIZE - 1 - Len(q)
Empty(q) == q = <<>>
Full(q) == Left(q) = 0
First(q) == IF Empty(q) THEN "x" ELSE Head(q)            \* what lies there, or lay
Taken(q) == IF Empty(q) THEN q ELSE Tail(q)              \* GETCH
Erased(q) == IF Empty(q) THEN q ELSE Front(q)            \* DEC(head)

Frame(label) == [at |-> label, c |-> "", nr |-> 0]
Top == Head(stack[running])
Becomes(frames) == stack' = [stack EXCEPT ![running] = frames \o Tail(@)]
Goto(label) == Becomes(<<[Top EXCEPT !.at = label]>>)
Cooking == {"cook", "got", "store", "unput"}
Interrupts == Cardinality({k \in DOMAIN stack[running] : stack[running][k].at \in Cooking})

(* The model ends with the first slip: behind it a queue appears to hold   *)
(* what it held a round before, or lacks what it holds.                    *)
At(label) == ~ slip /\ stack[running] # <<>> /\ Top.at = label

Wake(q) == asleep' = [asleep EXCEPT ![q] = {}]
Sleep(t, q, label) == /\ asleep' = [asleep EXCEPT ![q] = @ \union {t}]
                      /\ running' = Idle /\ Goto(label)
Return == /\ stack' = [stack EXCEPT ![running] = <<>>] /\ running' = Idle
          /\ signal' = [signal EXCEPT ![running] = FALSE]   \* do_signal

(* tty->write(tty) with q in write_q: con_write or rs_write.               *)
StartWrite(q, back) ==
  IF console THEN Becomes(<<[Frame("con_write") EXCEPT !.nr = Len(q)], back>>) /\ UNCHANGED transmit
             ELSE transmit' = (transmit \/ ~ Empty(q)) /\ Becomes(<<back>>)

----------------------------------------------------------------------------
(* keyboard.s, rs_io.s: a character that finds no room is dropped, by the  *)
(* serial line without a call of copy_to_cooked.                           *)
Arrives(c) ==
  LET room == Left(read_q) > 0
  IN /\ ~ slip /\ typed < MaxTyped /\ typed' = typed + 1
     /\ read_q' = IF room THEN Append(read_q, c) ELSE read_q
     /\ stack' = IF room \/ console
                 THEN [stack EXCEPT ![running] = <<Frame("cook")>> \o @] ELSE stack
     /\ UNCHANGED <<write_q, secondary, data, console, cooked, calls, asleep, transmit, running,
                    signal, slip>>
read_charNests(c) == ~ console /\ Interrupts < MaxNest /\ Arrives(c)  \* faulty: EOI first
keyboard_interrupt(c) == console /\ Interrupts < MaxNest /\ Arrives(c)
read_char(c) == ~ console /\ Interrupts = 0 /\ Arrives(c)

write_charNoWake ==                              \* faulty: nothing to send, nobody woken
  LET n == Len(write_q)
  IN /\ ~ slip /\ transmit /\ Interrupts = 0
     /\ write_q' = Taken(write_q)
     /\ IF n \in 1..startup THEN Wake("write") ELSE UNCHANGED asleep
     /\ transmit' = (n > 1)
     /\ UNCHANGED <<read_q, secondary, data, line, running, stack, signal, slip>>
write_char ==
  LET n == Len(write_q)
  IN /\ ~ slip /\ transmit /\ Interrupts = 0
     /\ write_q' = Taken(write_q)
     /\ IF n <= startup THEN Wake("write") ELSE UNCHANGED asleep
     /\ transmit' = (n > 1)
     /\ UNCHANGED <<read_q, secondary, data, line, running, stack, signal, slip>>

----------------------------------------------------------------------------
(* copy_to_cooked *)
cookNoWake ==                                    \* faulty: wakes readers only when it is full
  /\ At("cook")
  /\ IF Empty(read_q) \/ Full(secondary)
     THEN /\ IF Full(secondary) THEN Wake("secondary") ELSE UNCHANGED asleep
          /\ stack' = [stack EXCEPT ![running] = Tail(@)]
     ELSE Goto("got") /\ UNCHANGED asleep
  /\ UNCHANGED <<queues, line, transmit, running, signal, slip>>
cook ==
  /\ At("cook")
  /\ IF Empty(read_q) \/ Full(secondary)
     THEN Wake("secondary") /\ stack' = [stack EXCEPT ![running] = Tail(@)]
     ELSE Goto("got") /\ UNCHANGED asleep
  /\ UNCHANGED <<queues, line, transmit, running, signal, slip>>

Echo(c) == CASE c = "NL" -> <<"NL", "CR">> [] c = "EOF" -> <<"^", "D">> [] OTHER -> <<c>>

\* The character goes on to `label', echoed in cooked mode.
Echoed(c, s, label) ==
  LET back == [Frame(label) EXCEPT !.c = c]
  IN IF cooked THEN /\ slip' = (slip \/ Empty(read_q) \/ Left(write_q) < Len(s))
                    /\ write_q' = write_q \o s
                    /\ StartWrite(write_q \o s, back)
               ELSE /\ slip' = (slip \/ Empty(read_q))
                    /\ Becomes(<<back>>) /\ UNCHANGED <<write_q, transmit>>

got ==
  LET c == First(read_q)
  IN /\ At("got")
     /\ read_q' = Taken(read_q)
     /\ \/ /\ cooked /\ c = "DEL"
           /\ IF Empty(secondary) \/ Last(secondary) \in LineEnd
              THEN Goto("cook") /\ slip' = (slip \/ Empty(read_q)) /\ UNCHANGED <<write_q, transmit>>
              ELSE Echoed(Last(secondary), <<"DEL">>, "unput")
           /\ UNCHANGED <<data, signal>>
        \/ /\ c = "INTR"                                 \* tty_intr
           /\ signal' = [t \in Task |-> signal[t] \/ (t \in Group /\ stack[t] # <<>>)]
           /\ Goto("cook") /\ slip' = (slip \/ Empty(read_q))
           /\ UNCHANGED <<write_q, transmit, data>>
        \/ /\ c # "INTR" /\ ~ (cooked /\ c = "DEL")
           /\ data' = IF c \in LineEnd THEN data + 1 ELSE data
           /\ Echoed(c, Echo(c), "store")
           /\ UNCHANGED signal
     /\ UNCHANGED <<secondary, line, asleep, running>>

store == /\ At("store")
         /\ secondary' = Append(secondary, Top.c) /\ slip' = Full(secondary)
         /\ Becomes(<<Frame("cook")>>)
         /\ UNCHANGED <<read_q, write_q, data, line, asleep, transmit, running, signal>>
unput == /\ At("unput")
         /\ secondary' = Erased(secondary) /\ slip' = (Empty(secondary) \/ Last(secondary) # Top.c)
         /\ Becomes(<<Frame("cook")>>)
         /\ UNCHANGED <<read_q, write_q, data, line, asleep, transmit, running, signal>>

(* con_write takes as many characters as it found when it was called;      *)
(* Console.tla has what it does with them.                                 *)
con_write ==
  /\ At("con_write")
  /\ IF Top.nr > 0
     THEN /\ write_q' = Taken(write_q) /\ slip' = Empty(write_q)
          /\ Becomes(<<[Top EXCEPT !.nr = @ - 1]>>)
     ELSE /\ stack' = [stack EXCEPT ![running] = Tail(@)]
          /\ UNCHANGED <<write_q, slip>>
  /\ UNCHANGED <<read_q, secondary, data, line, asleep, transmit, running, signal>>

----------------------------------------------------------------------------
(* System calls start from user mode, tasks go on when they are runnable.  *)
Free == ~ slip /\ running = Idle /\ stack[Idle] = <<>>
Start(t, label, n) ==
  /\ Free /\ stack[t] = <<>>
  /\ calls < MaxCalls /\ calls' = calls + 1
  /\ stack' = [stack EXCEPT ![t] = <<[Frame(label) EXCEPT !.nr = n]>>] /\ running' = t
  /\ UNCHANGED <<queues, console, cooked, typed, asleep, transmit, signal, slip>>

resume(t) ==
  /\ Free /\ stack[t] # <<>>
  /\ signal[t] \/ \A q \in DOMAIN asleep : t \notin asleep[q]
  /\ running' = t /\ asleep' = [q \in DOMAIN asleep |-> asleep[q] \ {t}]
  /\ UNCHANGED <<queues, line, transmit, stack, signal, slip>>

(* tty_read.  A line that is not complete keeps a cooked reader from the   *)
(* characters, not from the processor: sleep_if_empty returns at once, and *)
(* no step is possible here but an interrupt's.                            *)
tty_read ==
  LET t == running
      NoLine == cooked /\ data = 0 /\ Left(secondary) > Near
  IN /\ At("read")
     /\ \/ signal[t] /\ Return /\ UNCHANGED asleep
        \/ ~ signal[t] /\ Empty(secondary) /\ Sleep(t, "secondary", "read") /\ UNCHANGED signal
        \/ /\ ~ signal[t] /\ ~ Empty(secondary) /\ ~ NoLine
           /\ Goto("get") /\ UNCHANGED <<asleep, running, signal>>
     /\ UNCHANGED <<queues, line, transmit, slip>>

read_getNL ==                                    \* faulty: an EOF stays counted
  LET c == First(secondary)
  IN /\ At("get")
     /\ secondary' = Taken(secondary) /\ slip' = Empty(secondary)
     /\ data' = IF c = "NL" THEN data - 1 ELSE data
     /\ IF (c = "EOF" /\ cooked) \/ Top.nr = 1 THEN Return
        ELSE Becomes(<<[Top EXCEPT !.at = "more", !.nr = @ - 1]>>) /\ UNCHANGED <<running, signal>>
     /\ UNCHANGED <<read_q, write_q, line, asleep, transmit>>
read_get ==
  LET c == First(secondary)
  IN /\ At("get")
     /\ secondary' = Taken(secondary) /\ slip' = Empty(secondary)
     /\ data' = IF c \in LineEnd THEN data - 1 ELSE data
     /\ IF (c = "EOF" /\ cooked) \/ Top.nr = 1 THEN Return
        ELSE Becomes(<<[Top EXCEPT !.at = "more", !.nr = @ - 1]>>) /\ UNCHANGED <<running, signal>>
     /\ UNCHANGED <<read_q, write_q, line, asleep, transmit>>
read_more ==
  /\ At("more")
  /\ IF Empty(secondary) THEN Return ELSE Goto("get") /\ UNCHANGED <<running, signal>>
  /\ UNCHANGED <<queues, line, asleep, transmit, slip>>

(* tty_write: sleep_if_full at "write", and again at "room" when woken.    *)
tty_write ==
  LET t == running
      wait == IF Top.at = "write" THEN Full(write_q) ELSE Left(write_q) < Room
  IN /\ At("write") \/ At("room")
     /\ \/ wait /\ ~ signal[t] /\ Sleep(t, "write", "room") /\ UNCHANGED signal
        \/ signal[t] /\ Return /\ UNCHANGED asleep
        \/ ~ wait /\ ~ signal[t] /\ Goto("fill") /\ UNCHANGED <<asleep, running, signal>>
     /\ UNCHANGED <<queues, line, transmit, slip>>

write_fill ==
  /\ At("fill")
  /\ IF Top.nr > 0 /\ ~ Full(write_q) THEN Goto("put") /\ UNCHANGED transmit
     ELSE StartWrite(write_q, [Top EXCEPT !.at = "written"])
  /\ UNCHANGED <<queues, line, asleep, running, signal, slip>>
write_put ==
  /\ At("put")
  /\ write_q' = Append(write_q, "x") /\ slip' = Full(write_q)
  /\ Becomes(<<[Top EXCEPT !.at = "fill", !.nr = @ - 1]>>)
  /\ UNCHANGED <<read_q, secondary, data, line, asleep, transmit, running, signal>>
written ==
  /\ At("written")
  /\ IF Top.nr > 0 THEN Goto("write") /\ running' = Idle /\ UNCHANGED signal  \* schedule()
     ELSE Return
  /\ UNCHANGED <<queues, line, asleep, transmit, slip>>

(* tty_ioctl: TCFLSH, TCSETA *)
flush ==
  /\ Free /\ calls < MaxCalls /\ calls' = calls + 1
  /\ \/ read_q' = <<>> /\ UNCHANGED write_q
     \/ write_q' = <<>> /\ UNCHANGED read_q
  /\ UNCHANGED <<secondary, data, console, cooked, typed, asleep, transmit, running, stack, signal,
                 slip>>
set_termio ==
  /\ Free /\ console /\ calls < MaxCalls /\ calls' = calls + 1
  /\ cooked' = ~ cooked
  /\ UNCHANGED <<queues, console, typed, asleep, transmit, running, stack, signal, slip>>

----------------------------------------------------------------------------
Init ==
  /\ console \in BOOLEAN /\ cooked = console
  /\ read_q = <<>> /\ write_q = <<>> /\ secondary = <<>> /\ data = 0
  /\ asleep = [q \in {"write", "secondary"} |-> {}] /\ transmit = FALSE
  /\ running = Idle /\ stack = [t \in Task \union {Idle} |-> <<>>]
  /\ signal = [t \in Task |-> FALSE] /\ slip = FALSE /\ typed = 0 /\ calls = 0

Copying == cook \/ got \/ store \/ unput \/ con_write
Calling == tty_read \/ read_get \/ read_more \/ tty_write \/ write_fill \/ write_put \/ written
Next ==
  \/ \E c \in Char(cooked) : keyboard_interrupt(c) \/ read_char(c)
  \/ write_char
  \/ cook \/ got \/ store \/ unput \/ con_write
  \/ \E n \in Request, t \in Reader : Start(t, "read", n)
  \/ \E n \in Request, t \in Writer : Start(t, "write", n)
  \/ \E t \in Task : resume(t)
  \/ tty_read \/ read_get \/ read_more \/ tty_write \/ write_fill \/ write_put \/ written
  \/ flush \/ set_termio

\* The processor goes on with what it does, runnable tasks get their turn, and
\* the serial line interrupts as long as its transmitter is enabled.
Fairness == /\ WF_vars(Copying \/ Calling) /\ \A t \in Task : SF_vars(resume(t))
            /\ WF_vars(write_char)

Spec == Init /\ [][Next]_vars /\ Fairness

----------------------------------------------------------------------------
Frames(labels) ==
  UNION {{t} \X {k \in DOMAIN stack[t] : stack[t][k].at \in labels} : t \in DOMAIN stack}

\* secondary.data is the number of line ends in the queue, and of those that an
\* interrupt has counted and not yet put there: a reader neither waits for a
\* line that is there nor goes on without one (tty_io.c:183, 229, 237).
LinesCounted ==
  ~ slip => data = Cardinality({k \in DOMAIN secondary : secondary[k] \in LineEnd})
                   + Cardinality({x \in Frames({"store"}) : stack[x[1]][x[2]].c \in LineEnd})

\* Nobody sleeps on without a wake-up to come: a reader only while there is
\* nothing to read or a copy_to_cooked is under way, a writer only while the
\* transmitter is enabled (tty_io.c:115-134, 199, rs_io.s:115-134).
NobodyForgotten ==
  ~ slip => /\ asleep["secondary"] # {} =>
                 Empty(secondary) \/ Frames(Cooking) # {}
            /\ asleep["write"] # {} => transmit /\ ~ console

\* The serial line's characters on their way to the readers and to the
\* transmitter: none is lost, doubled or overtaken between interrupt and task,
\* in any order of the two (GETCH and PUTCH without cli, tty_io.c, rs_io.s).
Held == IF Frames({"store"}) = {} THEN <<>> ELSE <<Top.c>>
Inward == secondary \o Held \o read_q
Moves(s, new) == new = s \/ (s # <<>> /\ new = Tail(s)) \/ (new # <<>> /\ s = Front(new))
InOrder ==
  [][\/ console \/ flush \/ (At("got") /\ First(read_q) = "INTR")
     \/ (Moves(Inward, Inward') /\ Moves(write_q, write_q'))]_vars

\* A writer on a serial line gets rid of what it has to write.
WriterServed == \A w \in Writer : ~ console /\ stack[w] # <<>> ~> stack[w] = <<>>

\* console.c:11-16: switching interrupts off and on for a moment "will work even
\* for keyboard interrupts": con_write never takes a character that another
\* con_write, called for an echo, has already taken.
KeyboardInterruptsWork == [][At("con_write") => ~ slip']_vars
==============================================================================
