------------------------------- MODULE Console -------------------------------
(***************************************************************************)
(* The console, kernel/console.c: con_write interprets one character after *)
(* the other and keeps the screen in video memory, where it scrolls by     *)
(* moving `origin' and copies the screen back when it reaches the end.     *)
(* Addresses count cells (character and attribute, 2 bytes) from           *)
(* SCREEN_START.  The cursor registers are left out, respond() belongs to  *)
(* Tty.tla.                                                                *)
(***************************************************************************)
EXTENDS Integers, SequencesExt

CONSTANTS LINES, COLUMNS,
          SCREEN_END,     \* cells of video memory
          Tab,            \* 8 in the code; divides COLUMNS
          Seven, Eight,   \* '7' and '8', which the code compares with x
          NPAR,           \* parameters of an escape sequence
          Digit,          \* the digits a parameter is made of, 0..9 in the code
          MaxPar,         \* bound: a parameter takes a digit only below this
          MaxOps          \* bound: characters that do something to the screen

VARIABLES scr,            \* video memory, cursor and scroll region
          state, npar, par,
          attr,
          saved,          \* saved_x, saved_y
          loop,           \* what is left of csi_L, csi_M, csi_P or csi_at
          ops

ASSUME SizesAssumption ==
  /\ LINES \in Nat \ {0} /\ COLUMNS \in Nat \ {0} /\ Tab \in 1..COLUMNS
  /\ SCREEN_END \in Nat /\ LINES * COLUMNS <= SCREEN_END
  /\ NPAR \in Nat \ {0, 1} /\ Digit \subseteq 0..9

vars == <<scr, state, npar, par, attr, saved, loop, ops>>

Cell(c, a) == <<c, a>>
Blank == Cell("blank", 7)
Attr == {7, 15, 112}

(* The screen as a record, so that the functions of the code, which call   *)
(* each other, are operators on it.                                        *)
Fill(s, from, count) ==
  [s EXCEPT !.mem = [p \in DOMAIN @ |-> IF p \in from..from + count - 1 THEN Blank ELSE @[p]]]
Copy(s, from, to, count) ==
  [s EXCEPT !.mem = [p \in DOMAIN @ |-> IF p \in to..to + count - 1 THEN @[p - to + from] ELSE @[p]]]

At(s, x, y, pos) == [s EXCEPT !.x = x, !.y = y, !.pos = pos]
Window(s, origin, scr_end, pos) == [s EXCEPT !.origin = origin, !.scr_end = scr_end, !.pos = pos]

gotoxy(s, new_x, new_y) ==
  IF new_x \notin 0..COLUMNS - 1 \/ new_y \notin 0..LINES - 1 THEN s
  ELSE At(s, new_x, new_y, s.origin + new_y * COLUMNS + new_x)

scrupKeepsPos(s) ==                    \* faulty: pos is not moved with the window
  LET o == s.origin + COLUMNS
      e == s.scr_end + COLUMNS
      rows == s.bottom - s.top - 1
  IN IF s.top # 0 \/ s.bottom # LINES
     THEN Fill(Copy(s, s.origin + COLUMNS * (s.top + 1), s.origin + COLUMNS * s.top, rows * COLUMNS),
               s.origin + COLUMNS * (s.bottom - 1), COLUMNS)
     ELSE IF e > SCREEN_END
     THEN Window(Fill(Copy(s, o, 0, (LINES - 1) * COLUMNS), (LINES - 1) * COLUMNS, COLUMNS),
                 0, e - o, s.pos + COLUMNS)
     ELSE Window(Fill(s, e - COLUMNS, COLUMNS), o, e, s.pos + COLUMNS)
scrup(s) ==
  LET o == s.origin + COLUMNS
      e == s.scr_end + COLUMNS
      rows == s.bottom - s.top - 1
  IN IF s.top # 0 \/ s.bottom # LINES
     THEN Fill(Copy(s, s.origin + COLUMNS * (s.top + 1), s.origin + COLUMNS * s.top, rows * COLUMNS),
               s.origin + COLUMNS * (s.bottom - 1), COLUMNS)
     ELSE IF e > SCREEN_END
     THEN Window(Fill(Copy(s, o, 0, (LINES - 1) * COLUMNS), (LINES - 1) * COLUMNS, COLUMNS),
                 0, e - o, s.pos + COLUMNS - o)
     ELSE Window(Fill(s, e - COLUMNS, COLUMNS), o, e, s.pos + COLUMNS)

scrdown(s) ==
  LET from == s.origin + COLUMNS * s.top
  IN Fill(Copy(s, from, from + COLUMNS, (s.bottom - s.top - 1) * COLUMNS), from, COLUMNS)

lf(s) == IF s.y + 1 < s.bottom THEN At(s, s.x, s.y + 1, s.pos + COLUMNS) ELSE scrup(s)
ri(s) == IF s.y > s.top THEN At(s, s.x, s.y - 1, s.pos - COLUMNS) ELSE scrdown(s)
cr(s) == At(s, 0, s.y, s.pos - s.x)
backspace(s) == IF s.x = 0 THEN s ELSE At(s, s.x - 1, s.y, s.pos - 1)
del(s) == IF s.x = 0 THEN s ELSE Fill(backspace(s), s.pos - 1, 1)

(* Back to the first column of the next line, for x >= columns.            *)
wrap(s) == lf(At(s, s.x - COLUMNS, s.y, s.pos - COLUMNS))

print(s, c) ==
  LET r == IF s.x >= COLUMNS THEN wrap(s) ELSE s
  IN [At(r, r.x + 1, r.y, r.pos + 1) EXCEPT !.mem[r.pos] = Cell(c, attr)]

tab(s) ==
  LET step == Tab - (s.x % Tab)
      r == At(s, s.x + step, s.y, s.pos + step)
  IN IF r.x > COLUMNS THEN wrap(r) ELSE r

csi_J(s, p) ==
  CASE p = 0 -> Fill(s, s.pos, s.scr_end - s.pos)
    [] p = 1 -> Fill(s, s.origin, s.pos - s.origin)
    [] p = 2 -> Fill(s, s.origin, COLUMNS * LINES)
    [] OTHER -> s

csi_K(s, p) ==
  CASE p = 0 /\ s.x < COLUMNS -> Fill(s, s.pos, COLUMNS - s.x)
    [] p = 1 -> Fill(s, s.pos - s.x, IF s.x < COLUMNS THEN s.x ELSE COLUMNS)
    [] p = 2 -> Fill(s, s.pos - s.x, COLUMNS)
    [] OTHER -> s

(* The last parameter that means something decides.                        *)
csi_m ==
  LET known == {k \in 0..npar : par[k] \in {0, 1, 4, 7, 27}}
      last == par[Max(known)]
  IN IF known = {} THEN attr
     ELSE CASE last \in {1, 4} -> 15 [] last = 7 -> 112 [] OTHER -> 7

insert_char(s) ==
  IF s.x >= COLUMNS THEN s
  ELSE Fill(Copy(s, s.pos, s.pos + 1, COLUMNS - s.x - 1), s.pos, 1)
delete_char(s) ==
  IF s.x >= COLUMNS THEN s
  ELSE Fill(Copy(s, s.pos + 1, s.pos, COLUMNS - s.x - 1), s.pos + COLUMNS - s.x - 1, 1)

(* insert_line and delete_line borrow top and bottom from the region.      *)
Region(s, top, bottom) == [s EXCEPT !.top = top, !.bottom = bottom]
Below(Op(_), s) == Region(Op(Region(s, s.y, LINES)), s.top, s.bottom)
insert_line(s) == Below(scrdown, s)
delete_lineRegion(s) == scrup(s)       \* faulty: in the scroll region
delete_line(s) == Below(scrup, s)

(* csi_L, csi_M, csi_P and csi_at call them again and again; a parameter   *)
(* of 0 stands for once, and more than the screen has is cut down.         *)
Repeated == {"L", "M", "P", "@"}
Times(c, nr) ==
  LET most == IF c \in {"L", "M"} THEN LINES ELSE COLUMNS
  IN IF nr > most THEN most ELSE IF nr = 0 THEN 1 ELSE nr
once(s, c) == CASE c = "L" -> insert_line(s) [] c = "M" -> delete_line(s)
                [] c = "P" -> delete_char(s) [] c = "@" -> insert_char(s)

restore_cur(s) == At(s, saved.x, saved.y, s.origin + saved.y * COLUMNS + saved.x)

(* `[' par `r'.                                                            *)
region(s, from, to) ==
  LET b == IF to = 0 THEN LINES ELSE to
  IN IF from < b /\ b <= LINES THEN Region(s, from, b) ELSE s

Less(p) == IF p = 0 THEN 0 ELSE p - 1
Least1(p) == IF p = 0 THEN 1 ELSE p

(* The last character of ESC `[' par ; par ... (console.c:489-563)         *)
final(s, c) ==
  LET p == par[0]
  IN CASE c = "G" -> gotoxy(s, Less(p), s.y)
       [] c = "A" -> gotoxy(s, s.x, s.y - Least1(p))
       [] c = "B" -> gotoxy(s, s.x, s.y + Least1(p))
       [] c = "C" -> gotoxy(s, s.x + Least1(p), s.y)
       [] c = "D" -> gotoxy(s, s.x - Least1(p), s.y)
       [] c = "E" -> gotoxy(s, 0, s.y + Least1(p))
       [] c = "F" -> gotoxy(s, 0, s.y - Least1(p))
       [] c = "d" -> gotoxy(s, s.x, Less(p))
       [] c = "H" -> gotoxy(s, Less(par[1]), Less(p))
       [] c = "J" -> csi_J(s, p)
       [] c = "K" -> csi_K(s, p)
       [] c = "r" -> region(s, Less(p), par[1])
       [] c = "u" -> restore_cur(s)
       [] OTHER -> s

(***************************************************************************)
(* con_write, one character at a time: an action for each value of state.  *)
(* The parameters are cleared by case 2 before they are read, here as soon *)
(* as they were used.                                                      *)
(***************************************************************************)
Cleared == [k \in 0..NPAR - 1 |-> 0]
Op == ops < MaxOps /\ ops' = ops + 1
Cursor == [x |-> scr.x, y |-> scr.y]

(* case 0 *)
plain(c) ==
  /\ state = 0 /\ loop.nr = 0
  /\ IF c = "ESC" THEN state' = 1 /\ UNCHANGED <<scr, ops>>
     ELSE /\ Op
          /\ scr' = CASE c = "LF" -> lf(scr) [] c = "CR" -> cr(scr) [] c = "DEL" -> del(scr)
                      [] c = "BS" -> backspace(scr) [] c = "TAB" -> tab(scr)
                      [] OTHER -> print(scr, c)
          /\ UNCHANGED state
  /\ UNCHANGED <<npar, par, attr, saved, loop>>

(* case 1: after the tests of c, two tests of x for '7' and '8'            *)
escape(c) ==
  LET other == c \notin {"[", "E", "M", "D", "Z"}
  IN /\ state = 1
     /\ IF c = "[" THEN state' = 2 /\ UNCHANGED <<scr, saved, ops>>
        ELSE /\ state' = 0 /\ Op
             /\ scr' = CASE c = "E" -> gotoxy(scr, 0, scr.y + 1)
                         [] c = "M" -> ri(scr)
                         [] c = "D" -> lf(scr)
                         [] other /\ scr.x = Eight -> restore_cur(scr)
                         [] OTHER -> scr
             /\ saved' = IF other /\ scr.x = Seven THEN Cursor ELSE saved
     /\ UNCHANGED <<npar, par, attr, loop>>

(* case 2 takes a '?', which changes nothing, or goes on as case 3         *)
question == state = 2 /\ state' = 3 /\ UNCHANGED <<scr, npar, par, attr, saved, loop, ops>>

(* case 3 *)
semicolon == /\ state \in {2, 3} /\ npar < NPAR - 1
             /\ npar' = npar + 1 /\ state' = 3
             /\ UNCHANGED <<scr, par, attr, saved, loop, ops>>
digit(d) == /\ state \in {2, 3} /\ par[npar] < MaxPar
            /\ par' = [par EXCEPT ![npar] = 10 * @ + d] /\ state' = 3
            /\ UNCHANGED <<scr, npar, attr, saved, loop, ops>>

(* case 4, reached from 3 in the same round *)
letter(c) ==
  /\ state \in {2, 3} /\ Op
  /\ state' = 0
  /\ scr' = final(scr, c)
  /\ attr' = IF c = "m" THEN csi_m ELSE attr
  /\ saved' = IF c = "s" THEN Cursor ELSE saved
  /\ loop' = IF c \in Repeated THEN [c |-> c, nr |-> Times(c, par[0])] ELSE loop
  /\ npar' = 0 /\ par' = Cleared

again == /\ loop.nr > 0
         /\ scr' = once(scr, loop.c) /\ loop' = [loop EXCEPT !.nr = @ - 1]
         /\ UNCHANGED <<state, npar, par, attr, saved, ops>>

Control == {"ESC", "LF", "CR", "DEL", "BS", "TAB"}
Escape == {"[", "E", "M", "D", "Z", "other"}
Final == {"G", "A", "B", "C", "D", "E", "F", "d", "H", "J", "K", "L", "M", "P", "@", "r", "s", "u",
          "m", "other"}

(* Any screen that earlier output can have left; its cells are told apart. *)
Distinct == [p \in 0..SCREEN_END - 1 |-> Cell(ToString(p), 7)]

Init ==
  /\ \E origin \in {o \in 0..SCREEN_END - LINES * COLUMNS : o % COLUMNS = 0},
        x \in 0..COLUMNS, y \in 0..LINES - 1, top \in 0..LINES - 1, bottom \in 1..LINES :
       /\ top < bottom
       /\ scr = [mem |-> Distinct,
                 origin |-> origin, scr_end |-> origin + LINES * COLUMNS,
                 pos |-> origin + y * COLUMNS + x, x |-> x, y |-> y,
                 top |-> top, bottom |-> bottom]
  /\ saved \in {[x |-> 0, y |-> 0], [x |-> COLUMNS, y |-> LINES - 1]}
  /\ attr = 15 /\ state = 0 /\ npar = 0 /\ par = Cleared /\ ops = 0
  /\ loop = [c |-> "L", nr |-> 0]

Next ==
  \/ \E c \in {"a"} \union Control : plain(c)
  \/ \E c \in Escape : escape(c)
  \/ question \/ semicolon
  \/ \E d \in Digit : digit(d)
  \/ \E c \in Final : letter(c)
  \/ again

Spec == Init /\ [][Next]_vars

----------------------------------------------------------------------------
InWindow(s) ==
  /\ s.pos = s.origin + s.y * COLUMNS + s.x
  /\ s.scr_end = s.origin + LINES * COLUMNS
  /\ s.origin >= 0 /\ s.scr_end <= SCREEN_END
  /\ s.x \in 0..COLUMNS /\ s.y \in 0..LINES - 1
  /\ s.top \in 0..s.bottom - 1 /\ s.bottom \in 1..LINES

(* The cursor's address, its coordinates and the window into video memory  *)
(* agree, and the window ends inside the memory: pos, origin and scr_end   *)
(* are kept up to date by hand in a dozen functions (console.c:69-198,     *)
(* 311-350, 401-406), and a character written at a stale pos would land in *)
(* another line or behind the video memory.                                *)
CursorInWindow == InWindow(scr)

Abstract == INSTANCE Screen WITH
  Ink <- {Cell("a", 7), Cell("a", 15), Cell("a", 112)},
  grid <- [l \in 0..LINES - 1 |-> [c \in 0..COLUMNS - 1 |-> scr.mem[scr.origin + l * COLUMNS + c]]],
  x <- scr.x, y <- scr.y, top <- scr.top, bottom <- scr.bottom

(* The video memory that scrolls by its origin, is copied back when it is  *)
(* used up and is changed by block moves shows a plain screen: each        *)
(* character has on the grid of Screen.tla the effect of one operation.    *)
IsScreen == [][Abstract!Next]_(Abstract!vars)
==============================================================================
