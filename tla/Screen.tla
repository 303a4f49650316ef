-------------------------------- MODULE Screen -------------------------------
(***************************************************************************)
(* What the console promises: a grid of LINES x COLUMNS cells, a cursor    *)
(* that may rest behind the last column, and a scroll region top..bottom-1.*)
(* No video memory, no addresses.  Console.tla implements it.              *)
(***************************************************************************)
EXTENDS Integers

CONSTANTS LINES, COLUMNS, Tab, Blank, Ink

VARIABLES grid, x, y, top, bottom

vars == <<grid, x, y, top, bottom>>

Line == 0..LINES - 1
Column == 0..COLUMNS - 1
Empty == [c \in Column |-> Blank]

(* The lines a..b-1 move up or down by one.                                *)
Up(g, a, b) ==
  [l \in Line |-> IF l \notin a..b - 1 THEN g[l] ELSE IF l + 1 < b THEN g[l + 1] ELSE Empty]
Down(g, a, b) ==
  [l \in Line |-> IF l \notin a..b - 1 THEN g[l] ELSE IF l > a THEN g[l - 1] ELSE Empty]

Keep(v) == UNCHANGED v
Fixed == Keep(<<top, bottom>>)

LineFeed == IF y + 1 < bottom THEN y' = y + 1 /\ Keep(grid)
                              ELSE grid' = Up(grid, top, bottom) /\ Keep(y)

(* The next character goes to the next line when this one is full.         *)
PutChar(c) ==
  /\ IF x < COLUMNS
     THEN grid' = [grid EXCEPT ![y][x] = c] /\ x' = x + 1 /\ Keep(y)
     ELSE /\ x' = 1
          /\ IF y + 1 < bottom
             THEN grid' = [grid EXCEPT ![y + 1][0] = c] /\ y' = y + 1
             ELSE grid' = [Up(grid, top, bottom) EXCEPT ![y][0] = c] /\ Keep(y)
  /\ Fixed

Feed == LineFeed /\ Keep(x) /\ Fixed
ReverseFeed == /\ IF y > top THEN y' = y - 1 /\ Keep(grid)
                             ELSE grid' = Down(grid, top, bottom) /\ Keep(y)
               /\ Keep(x) /\ Fixed
TabStop ==
  LET next == (x \div Tab + 1) * Tab
  IN /\ IF next <= COLUMNS THEN x' = next /\ Keep(<<grid, y>>)
                           ELSE x' = next - COLUMNS /\ LineFeed
     /\ Fixed
Erase == /\ x > 0 /\ x' = x - 1
         /\ grid' = [grid EXCEPT ![y][x - 1] = Blank]
         /\ Keep(y) /\ Fixed

(* The cursor goes to a cell, or behind the last one of the line where it  *)
(* was saved.                                                              *)
Move == x' \in 0..COLUMNS /\ y' \in Line /\ Keep(grid) /\ Fixed

(* Cells are cleared from one place to another, in reading order.          *)
Clear(from, to) ==
  /\ grid' = [l \in Line |-> [c \in Column |->
                IF l * COLUMNS + c \in from..to - 1 THEN Blank ELSE grid[l][c]]]
  /\ Keep(<<x, y>>) /\ Fixed
Here == y * COLUMNS + x
ClearSome == \/ Clear(Here, LINES * COLUMNS) \/ Clear(0, Here) \/ Clear(0, LINES * COLUMNS)
             \/ Clear(Here, (y + 1) * COLUMNS) \/ Clear(y * COLUMNS, Here)
             \/ Clear(y * COLUMNS, (y + 1) * COLUMNS)

(* Lines are inserted and deleted between the cursor and the last line,    *)
(* whatever the scroll region; characters between the cursor and the       *)
(* margin.                                                                 *)
InsertLine == grid' = Down(grid, y, LINES) /\ Keep(<<x, y>>) /\ Fixed
DeleteLine == grid' = Up(grid, y, LINES) /\ Keep(<<x, y>>) /\ Fixed
InsertChar ==
  /\ x < COLUMNS
  /\ grid' = [grid EXCEPT ![y] = [c \in Column |->
                IF c < x THEN @[c] ELSE IF c > x THEN @[c - 1] ELSE Blank]]
  /\ Keep(<<x, y>>) /\ Fixed
DeleteChar ==
  /\ grid' = [grid EXCEPT ![y] = [c \in Column |->
                IF c < x THEN @[c] ELSE IF c + 1 < COLUMNS THEN @[c + 1] ELSE Blank]]
  /\ Keep(<<x, y>>) /\ Fixed

SetRegion == /\ top' \in Line /\ bottom' \in top' + 1..LINES
             /\ Keep(<<grid, x, y>>)

Next ==
  \/ \E c \in Ink : PutChar(c)
  \/ Feed \/ ReverseFeed \/ TabStop \/ Erase \/ Move \/ ClearSome \/ SetRegion
  \/ InsertLine \/ DeleteLine \/ InsertChar \/ DeleteChar
==============================================================================
