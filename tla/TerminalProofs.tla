---------------------------- MODULE TerminalProofs ---------------------------
(***************************************************************************)
(* The two halves of a terminal.  The screen: the cursor stays in the      *)
(* window, and what the window shows is a plain screen, for every size of  *)
(* the screen and of the video memory and for every sequence of            *)
(* characters.  The line: the line ends are counted and                    *)
(* nobody sleeps on without a wake-up to come, for every size of the       *)
(* queues, any number of readers and writers and any depth of interrupts.  *)
(***************************************************************************)
EXTENDS Terminal, FiniteSetTheorems, SequenceTheorems, TLAPS

USE SizesAssumption

\* A record of the screen, whatever the cells are.
Screen(s) ==
  s \in [mem : {s.mem}, origin : Int, scr_end : Int, pos : Int,
         x : Int, y : Int, top : Int, bottom : Int]

\* In the window, but for a cursor that a tab takes up to w cells wide.
Within(s, w) ==
  /\ Screen(s)
  /\ s.pos = s.origin + s.y * COLUMNS + s.x
  /\ s.scr_end = s.origin + LINES * COLUMNS
  /\ s.origin >= 0 /\ s.scr_end <= SCREEN_END
  /\ s.x \in 0..w /\ s.y \in 0..LINES - 1
  /\ s.top \in 0..s.bottom - 1 /\ s.bottom \in 1..LINES

Good(s) == Within(s, COLUMNS)

Inductive ==
  /\ Good(scr)
  /\ par \in [0..NPAR - 1 -> Nat] /\ npar \in 0..NPAR - 1
  /\ saved \in [x : 0..COLUMNS, y : 0..LINES - 1]
  /\ loop \in [c : Repeated, nr : Nat]

-------------------------------------------------------------------------------
(* What the operators on the record leave alone. *)

LEMMA AtFields ==
  ASSUME NEW s, Screen(s), NEW a \in Int, NEW b \in Int, NEW p \in Int
  PROVE  /\ Screen(At(s, a, b, p))
         /\ At(s, a, b, p).x = a /\ At(s, a, b, p).y = b /\ At(s, a, b, p).pos = p
         /\ At(s, a, b, p).origin = s.origin /\ At(s, a, b, p).scr_end = s.scr_end
         /\ At(s, a, b, p).top = s.top /\ At(s, a, b, p).bottom = s.bottom
BY DEF Screen, At

LEMMA WindowFields ==
  ASSUME NEW s, Screen(s), NEW o \in Int, NEW e \in Int, NEW p \in Int
  PROVE  /\ Screen(Window(s, o, e, p))
         /\ Window(s, o, e, p).x = s.x /\ Window(s, o, e, p).y = s.y /\ Window(s, o, e, p).pos = p
         /\ Window(s, o, e, p).origin = o /\ Window(s, o, e, p).scr_end = e
         /\ Window(s, o, e, p).top = s.top /\ Window(s, o, e, p).bottom = s.bottom
BY DEF Screen, Window

LEMMA RegionFields ==
  ASSUME NEW s, Screen(s), NEW a \in Int, NEW b \in Int
  PROVE  /\ Screen(Region(s, a, b))
         /\ Region(s, a, b).x = s.x /\ Region(s, a, b).y = s.y /\ Region(s, a, b).pos = s.pos
         /\ Region(s, a, b).origin = s.origin /\ Region(s, a, b).scr_end = s.scr_end
         /\ Region(s, a, b).top = a /\ Region(s, a, b).bottom = b
BY DEF Screen, Region

\* Writing to the video memory.
Stored(s, m) == [s EXCEPT !.mem = m]
LEMMA StoredFields ==
  ASSUME NEW s, NEW m, Screen(s)
  PROVE  /\ Screen(Stored(s, m))
         /\ Stored(s, m).x = s.x /\ Stored(s, m).y = s.y /\ Stored(s, m).pos = s.pos
         /\ Stored(s, m).origin = s.origin /\ Stored(s, m).scr_end = s.scr_end
         /\ Stored(s, m).top = s.top /\ Stored(s, m).bottom = s.bottom
BY DEF Screen, Stored

LEMMA StoredGood == ASSUME NEW s, NEW m, Good(s) PROVE Good(Stored(s, m))
BY StoredFields DEF Good, Within

LEMMA FillGood == ASSUME NEW s, NEW from, NEW count, Good(s) PROVE Good(Fill(s, from, count))
BY StoredGood DEF Fill, Stored

LEMMA CopyGood ==
  ASSUME NEW s, NEW from, NEW to, NEW count, Good(s) PROVE Good(Copy(s, from, to, count))
BY StoredGood DEF Copy, Stored

LEMMA FillFields ==
  ASSUME NEW s, NEW from, NEW count, Screen(s)
  PROVE  /\ Fill(s, from, count).x = s.x /\ Fill(s, from, count).y = s.y
         /\ Fill(s, from, count).origin = s.origin /\ Fill(s, from, count).pos = s.pos
         /\ Fill(s, from, count).scr_end = s.scr_end
         /\ Fill(s, from, count).top = s.top /\ Fill(s, from, count).bottom = s.bottom
BY StoredFields DEF Fill, Stored

LEMMA CopyFields ==
  ASSUME NEW s, NEW from, NEW to, NEW count, Screen(s)
  PROVE  /\ Copy(s, from, to, count).x = s.x /\ Copy(s, from, to, count).y = s.y
         /\ Copy(s, from, to, count).origin = s.origin /\ Copy(s, from, to, count).pos = s.pos
         /\ Copy(s, from, to, count).scr_end = s.scr_end
BY StoredFields DEF Copy, Stored

-------------------------------------------------------------------------------
(* The cursor: along its line, to the next line, to any cell. *)

LEMMA LineGood ==
  ASSUME NEW s, NEW v, NEW n \in Int, NEW w \in Nat,
         Within(s, v), s.x + n \in 0..w
  PROVE  Within(At(s, s.x + n, s.y, s.pos + n), w)
<1>1. s.y \in Int /\ s.pos + n \in Int /\ Screen(s)
  BY DEF Within, Screen
<1>2. s.y * COLUMNS \in Int /\ s.pos \in Int /\ s.x \in Int /\ s.origin \in Int
  BY DEF Within, Screen
<1>3. s.pos + n = s.origin + s.y * COLUMNS + (s.x + n)
  BY <1>2 DEF Within
<1>4. QED
  BY <1>1, <1>3, AtFields DEF Within

LEMMA RowGood ==
  ASSUME NEW s, NEW n \in {-1, 1}, Good(s), s.y + n \in 0..LINES - 1
  PROVE  Good(At(s, s.x, s.y + n, s.pos + n * COLUMNS))
<1>1. s.y \in Int /\ s.pos \in Int /\ s.x \in Int /\ s.origin \in Int /\ Screen(s)
  BY DEF Good, Within, Screen
<1>2. (s.y + n) * COLUMNS = s.y * COLUMNS + n * COLUMNS
  BY <1>1
<1>3. s.y * COLUMNS \in Int /\ n * COLUMNS \in Int /\ s.pos + n * COLUMNS \in Int
  BY <1>1
<1>4. s.pos + n * COLUMNS = s.origin + (s.y + n) * COLUMNS + s.x
  BY <1>1, <1>2, <1>3 DEF Good, Within
<1>5. QED
  BY <1>1, <1>3, <1>4, AtFields DEF Good, Within

LEMMA CellGood ==
  ASSUME NEW s, Good(s), NEW a \in 0..COLUMNS, NEW b \in 0..LINES - 1
  PROVE  Good(At(s, a, b, s.origin + b * COLUMNS + a))
<1>1. Screen(s) /\ b * COLUMNS \in Int /\ s.origin \in Int
  BY DEF Good, Within, Screen
<1>2. s.origin + b * COLUMNS + a \in Int
  BY <1>1
<1>3. QED
  BY <1>1, <1>2, AtFields DEF Good, Within

-------------------------------------------------------------------------------
(* The functions of console.c. *)

LEMMA gotoxyGood ==
  ASSUME NEW s, Good(s), NEW a \in Int, NEW b \in Int PROVE Good(gotoxy(s, a, b))
BY CellGood DEF gotoxy

LEMMA scrupGood ==
  ASSUME NEW s, Good(s) PROVE Good(scrup(s)) /\ scrup(s).x = s.x /\ scrup(s).y = s.y
<1> DEFINE o == s.origin + COLUMNS
           e == s.scr_end + COLUMNS
<1>1. CASE s.top # 0 \/ s.bottom # LINES
  <2> DEFINE a == s.origin + COLUMNS * (s.top + 1)
             b == s.origin + COLUMNS * s.top
             n == (s.bottom - s.top - 1) * COLUMNS
             f == s.origin + COLUMNS * (s.bottom - 1)
  <2>1. scrup(s) = Fill(Copy(s, a, b, n), f, COLUMNS)
    BY <1>1 DEF scrup
  <2> HIDE DEF a, b, n, f
  <2>2. Good(Copy(s, a, b, n)) /\ Copy(s, a, b, n).x = s.x /\ Copy(s, a, b, n).y = s.y
    BY CopyGood, CopyFields DEF Good, Within
  <2>3. QED
    BY <2>1, <2>2, FillGood, FillFields DEF Good, Within
<1>2. CASE s.top = 0 /\ s.bottom = LINES /\ e > SCREEN_END
  <2> DEFINE l == (LINES - 1) * COLUMNS
             k == Copy(s, o, 0, l)
             r == Fill(k, l, COLUMNS)
             p == s.pos + COLUMNS - o
  <2>1. scrup(s) = Window(r, 0, e - o, p)
    BY <1>2 DEF scrup
  <2>2. Good(k) /\ k.x = s.x /\ k.y = s.y /\ k.top = s.top /\ k.bottom = s.bottom
    BY CopyGood, StoredFields DEF Copy, Stored, Good, Within
  <2>3. Good(r) /\ r.x = s.x /\ r.y = s.y /\ r.top = s.top /\ r.bottom = s.bottom
    <3> HIDE DEF k, l
    <3>1. Screen(k)
      BY <2>2 DEF Good, Within
    <3>2. Good(r)
      BY ONLY <2>2, FillGood
    <3>3. r.x = k.x /\ r.y = k.y /\ r.top = k.top /\ r.bottom = k.bottom
      BY ONLY <3>1, FillFields
    <3>4. QED
      BY ONLY <2>2, <3>2, <3>3
  <2> HIDE DEF r
  <2>4. /\ s.pos \in Int /\ s.origin \in Int /\ s.scr_end \in Int /\ s.x \in Int
        /\ s.y * COLUMNS \in Int /\ LINES * COLUMNS \in Int
    BY DEF Good, Within, Screen
  <2>5. /\ e - o = LINES * COLUMNS /\ p = s.y * COLUMNS + s.x
        /\ e - o \in Int /\ p \in Int
    BY <2>4 DEF Good, Within
  <2>6. QED
    BY <2>1, <2>3, <2>5, WindowFields DEF Good, Within
<1>3. CASE s.top = 0 /\ s.bottom = LINES /\ ~ (e > SCREEN_END)
  <2> DEFINE r == Fill(s, e - COLUMNS, COLUMNS)
             p == s.pos + COLUMNS
  <2>1. scrup(s) = Window(r, o, e, p)
    BY <1>3 DEF scrup
  <2>2. Good(r) /\ r.x = s.x /\ r.y = s.y /\ r.top = s.top /\ r.bottom = s.bottom
    <3>1. Screen(s)
      BY DEF Good, Within
    <3>2. QED
      BY ONLY <3>1, Good(s), FillGood, FillFields
  <2> HIDE DEF r
  <2>3. /\ s.pos \in Int /\ s.origin \in Int /\ s.scr_end \in Int /\ s.x \in Int
        /\ s.y * COLUMNS \in Int /\ LINES * COLUMNS \in Int
    BY DEF Good, Within, Screen
  <2>4. /\ e = o + LINES * COLUMNS /\ p = o + s.y * COLUMNS + s.x
        /\ o \in Int /\ e \in Int /\ p \in Int /\ o >= 0 /\ e <= SCREEN_END
    BY <1>3, <2>3 DEF Good, Within
  <2>5. QED
    BY <2>1, <2>2, <2>4, WindowFields DEF Good, Within
<1>4. QED
  BY <1>1, <1>2, <1>3

LEMMA scrdownGood ==
  ASSUME NEW s, Good(s) PROVE Good(scrdown(s)) /\ scrdown(s).x = s.x /\ scrdown(s).y = s.y
<1> DEFINE f == s.origin + COLUMNS * s.top
           n == (s.bottom - s.top - 1) * COLUMNS
           k == Copy(s, f, f + COLUMNS, n)
<1>1. scrdown(s) = Fill(k, f, COLUMNS)
  BY DEF scrdown
<1>2. Good(k) /\ k.x = s.x /\ k.y = s.y
  <2> HIDE DEF f, n
  <2>1. QED
    BY CopyGood, CopyFields DEF Good, Within
<1> HIDE DEF k, f
<1>3. QED
  BY <1>1, <1>2, FillGood, FillFields DEF Good, Within

LEMMA lfGood == ASSUME NEW s, Good(s) PROVE Good(lf(s)) /\ lf(s).x = s.x
<1>1. CASE s.y + 1 < s.bottom
  <2>1. s.y \in Int /\ s.y + 1 \in 0..LINES - 1 /\ 1 * COLUMNS = COLUMNS
    BY <1>1 DEF Good, Within, Screen
  <2>2. Good(At(s, s.x, s.y + 1, s.pos + COLUMNS))
    BY <2>1, RowGood
  <2>3. At(s, s.x, s.y + 1, s.pos + COLUMNS).x = s.x
    <3>1. Screen(s) /\ s.x \in Int /\ s.y + 1 \in Int /\ s.pos + COLUMNS \in Int
      BY DEF Good, Within, Screen
    <3>2. QED
      BY <3>1, AtFields
  <2>4. QED
    BY <1>1, <2>2, <2>3 DEF lf
<1>2. CASE ~ (s.y + 1 < s.bottom)
  BY <1>2, scrupGood DEF lf
<1>3. QED
  BY <1>1, <1>2

LEMMA riGood == ASSUME NEW s, Good(s) PROVE Good(ri(s))
<1>1. CASE s.y > s.top
  <2>1. s.y \in Int /\ s.pos \in Int /\ s.y + -1 \in 0..LINES - 1
    BY <1>1 DEF Good, Within, Screen
  <2>2. s.y + -1 = s.y - 1 /\ s.pos + -1 * COLUMNS = s.pos - COLUMNS
    BY <2>1
  <2>3. Good(At(s, s.x, s.y + -1, s.pos + -1 * COLUMNS))
    BY <2>1, RowGood
  <2>4. QED
    BY <1>1, <2>2, <2>3 DEF ri
<1>2. CASE ~ (s.y > s.top)
  BY <1>2, scrdownGood DEF ri
<1>3. QED
  BY <1>1, <1>2

LEMMA crGood == ASSUME NEW s, Good(s) PROVE Good(cr(s))
<1>1. s.x \in Int /\ s.pos \in Int /\ -s.x \in Int /\ s.x + -s.x = 0 /\ s.pos + -s.x = s.pos - s.x
  BY DEF Good, Within, Screen
<1>2. Good(At(s, s.x + -s.x, s.y, s.pos + -s.x))
  <2>1. s.x + -s.x \in 0..COLUMNS /\ COLUMNS \in Nat /\ Within(s, COLUMNS)
    BY <1>1 DEF Good
  <2>2. QED
    BY <1>1, <2>1, LineGood DEF Good
<1>3. QED
  BY <1>1, <1>2 DEF cr

LEMMA backspaceGood == ASSUME NEW s, Good(s) PROVE Good(backspace(s))
<1>1. CASE s.x # 0
  <2>1. /\ s.x \in Int /\ s.pos \in Int /\ s.x + -1 = s.x - 1 /\ s.pos + -1 = s.pos - 1
        /\ s.x + -1 \in 0..COLUMNS
    BY <1>1 DEF Good, Within, Screen
  <2>2. Good(At(s, s.x + -1, s.y, s.pos + -1))
    BY <2>1, LineGood DEF Good
  <2>3. QED
    BY <1>1, <2>1, <2>2 DEF backspace
<1>2. CASE s.x = 0
  BY <1>2 DEF backspace
<1>3. QED
  BY <1>1, <1>2

LEMMA delGood == ASSUME NEW s, Good(s) PROVE Good(del(s))
BY backspaceGood, FillGood DEF del

\* A cursor behind the last column comes back to the next line.
LEMMA wrapGood ==
  ASSUME NEW s, Within(s, 2 * COLUMNS), s.x >= COLUMNS
  PROVE  Good(wrap(s)) /\ wrap(s).x = s.x - COLUMNS
<1> DEFINE m == -COLUMNS
<1>1. /\ s.x \in Int /\ s.y \in Int /\ s.pos \in Int /\ m \in Int
      /\ s.x + m = s.x - COLUMNS /\ s.pos + m = s.pos - COLUMNS
      /\ s.x + m \in 0..COLUMNS
  BY DEF Within, Screen
<1>2. Good(At(s, s.x + m, s.y, s.pos + m))
  BY <1>1, LineGood DEF Good
<1>3. At(s, s.x - COLUMNS, s.y, s.pos - COLUMNS).x = s.x - COLUMNS
  BY <1>1, AtFields DEF Within
<1>4. QED
  BY <1>1, <1>2, <1>3, lfGood DEF wrap

LEMMA printGood == ASSUME NEW s, NEW c, Good(s) PROVE Good(print(s, c))
<1> DEFINE r == IF s.x >= COLUMNS THEN wrap(s) ELSE s
<1>1. Good(r) /\ r.x < COLUMNS
  <2>1. CASE s.x >= COLUMNS
    <3>1. Within(s, 2 * COLUMNS)
      BY DEF Good, Within, Screen
    <3>2. QED
      BY <2>1, <3>1, wrapGood DEF Good, Within, Screen
  <2>2. CASE ~ (s.x >= COLUMNS)
    BY <2>2 DEF Good, Within, Screen
  <2>3. QED
    BY <2>1, <2>2
<1>2. print(s, c) = Stored(At(r, r.x + 1, r.y, r.pos + 1),
                           [At(r, r.x + 1, r.y, r.pos + 1).mem EXCEPT ![r.pos] = Cell(c, attr)])
  BY DEF print, Stored
<1> HIDE DEF r
<1>3. Good(At(r, r.x + 1, r.y, r.pos + 1))
  BY <1>1, LineGood DEF Good, Within, Screen
<1>4. QED
  BY <1>2, <1>3, StoredGood

LEMMA tabGood == ASSUME NEW s, Good(s) PROVE Good(tab(s))
<1> DEFINE step == Tab - (s.x % Tab)
           r == At(s, s.x + step, s.y, s.pos + step)
<1>1. s.x \in Nat /\ s.x <= COLUMNS /\ step \in 0..COLUMNS
  <2>1. s.x \in Nat /\ s.x <= COLUMNS
    BY DEF Good, Within
  <2>2. s.x % Tab \in 0..Tab - 1
    BY <2>1
  <2>3. QED
    BY <2>1, <2>2
<1> HIDE DEF step
<1>2. Within(r, 2 * COLUMNS) /\ r.x = s.x + step
  <2>1. s.x + step \in 0..2 * COLUMNS /\ step \in Int /\ 2 * COLUMNS \in Nat
    BY <1>1
  <2>2. Within(r, 2 * COLUMNS)
    BY <2>1, LineGood DEF Good
  <2>3. QED
    BY <2>1, <2>2, AtFields DEF Good, Within, Screen
<1>3. CASE r.x > COLUMNS
  <2>1. Good(wrap(r))
    BY <1>2, <1>3, wrapGood DEF Within, Screen
  <2>2. QED
    BY <1>3, <2>1 DEF tab, step
<1>4. CASE ~ (r.x > COLUMNS)
  <2>1. Good(r)
    BY <1>2, <1>4 DEF Good, Within, Screen
  <2>2. QED
    BY <1>4, <2>1 DEF tab, step
<1>5. QED
  BY <1>3, <1>4

\* insert_char and delete_char only write to the memory.
LEMMA CharsGood == ASSUME NEW s, Good(s) PROVE Good(insert_char(s)) /\ Good(delete_char(s))
<1>1. Good(insert_char(s))
  BY CopyGood, FillGood DEF insert_char
<1>2. Good(delete_char(s))
  BY CopyGood, FillGood DEF delete_char
<1>3. QED
  BY <1>1, <1>2

\* insert_line and delete_line give the region back.
LEMMA LinesGood == ASSUME NEW s, Good(s) PROVE Good(insert_line(s)) /\ Good(delete_line(s))
<1> DEFINE b == Region(s, s.y, LINES)
<1>1. /\ s.y \in 0..LINES - 1 /\ s.y \in Int /\ s.top \in Int /\ s.bottom \in Int /\ Screen(s)
  BY DEF Good, Within, Screen
<1>2. Good(b)
  BY <1>1, RegionFields DEF Good, Within
<1> HIDE DEF b
<1>3. ASSUME NEW r, Good(r) PROVE Good(Region(r, s.top, s.bottom))
  <2>1. Screen(r) /\ s.top \in 0..s.bottom - 1 /\ s.bottom \in 1..LINES
    BY <1>3 DEF Good, Within
  <2>2. QED
    BY <1>1, <1>3, <2>1, RegionFields DEF Good, Within
<1>4. Good(Region(scrdown(b), s.top, s.bottom)) /\ Good(Region(scrup(b), s.top, s.bottom))
  BY <1>2, <1>3, scrdownGood, scrupGood
<1>5. QED
  BY <1>4 DEF insert_line, delete_line, Below, b

LEMMA onceGood == ASSUME NEW s, NEW c \in Repeated, Good(s) PROVE Good(once(s, c))
BY CharsGood, LinesGood DEF once, Repeated

LEMMA eraseGood ==
  ASSUME NEW s, NEW p, Good(s) PROVE Good(csi_J(s, p)) /\ Good(csi_K(s, p))
<1>1. Good(csi_J(s, p))
  BY FillGood DEF csi_J
<1>2. Good(csi_K(s, p))
  BY FillGood DEF csi_K
<1>3. QED
  BY <1>1, <1>2

LEMMA regionGood ==
  ASSUME NEW s, NEW from \in Nat, NEW to \in Nat, Good(s) PROVE Good(region(s, from, to))
<1> DEFINE b == IF to = 0 THEN LINES ELSE to
<1>1. CASE from < b /\ b <= LINES
  <2>1. Screen(s) /\ b \in 1..LINES /\ from \in 0..b - 1
    BY <1>1 DEF Good, Within
  <2>2. Good(Region(s, from, b))
    <3> HIDE DEF b
    <3>1. QED
      BY <2>1, RegionFields DEF Good, Within
  <2>3. QED
    BY <1>1, <2>2 DEF region
<1>2. CASE ~ (from < b /\ b <= LINES)
  BY <1>2 DEF region
<1>3. QED
  BY <1>1, <1>2

LEMMA restoreGood == ASSUME NEW s, Good(s), Inductive PROVE Good(restore_cur(s))
BY CellGood DEF restore_cur, Inductive

LEMMA finalGood == ASSUME NEW c, Inductive PROVE Good(final(scr, c))
<1> DEFINE p == par[0]
           g(k) == gotoxy(scr, k[1], k[2])
<1>1. p \in Nat /\ par[1] \in Nat /\ Less(p) \in Nat /\ Less(par[1]) \in Nat /\ Least1(p) \in Nat
  BY DEF Inductive, Less, Least1
<1>2. scr.x \in Int /\ scr.y \in Int /\ Good(scr)
  BY DEF Inductive, Good, Within, Screen
<1>3. /\ scr.y - Least1(p) \in Int /\ scr.y + Least1(p) \in Int
      /\ scr.x - Least1(p) \in Int /\ scr.x + Least1(p) \in Int
  BY <1>1, <1>2
<1>4. /\ Good(gotoxy(scr, Less(p), scr.y))
      /\ Good(gotoxy(scr, scr.x, scr.y - Least1(p)))
      /\ Good(gotoxy(scr, scr.x, scr.y + Least1(p)))
      /\ Good(gotoxy(scr, scr.x + Least1(p), scr.y))
      /\ Good(gotoxy(scr, scr.x - Least1(p), scr.y))
      /\ Good(gotoxy(scr, 0, scr.y + Least1(p)))
      /\ Good(gotoxy(scr, 0, scr.y - Least1(p)))
      /\ Good(gotoxy(scr, scr.x, Less(p)))
      /\ Good(gotoxy(scr, Less(par[1]), Less(p)))
  BY <1>1, <1>2, <1>3, gotoxyGood
<1>5. Good(csi_J(scr, p)) /\ Good(csi_K(scr, p))
  BY <1>2, eraseGood
<1>6. Good(region(scr, Less(p), par[1])) /\ Good(restore_cur(scr))
  BY <1>1, <1>2, regionGood, restoreGood
<1>7. QED
  BY <1>2, <1>4, <1>5, <1>6 DEF final

-------------------------------------------------------------------------------
(* The specification. *)

LEMMA InductiveInit == Init => Inductive
<1> SUFFICES ASSUME Init PROVE Inductive
  OBVIOUS
<1>1. PICK o \in 0..SCREEN_END - LINES * COLUMNS, a \in 0..COLUMNS, b \in 0..LINES - 1,
           t \in 0..LINES - 1, u \in 1..LINES :
         /\ t < u
         /\ scr = [mem |-> Distinct,
                   origin |-> o, scr_end |-> o + LINES * COLUMNS,
                   pos |-> o + b * COLUMNS + a, x |-> a, y |-> b, top |-> t, bottom |-> u]
  BY DEF Init
<1>2. LINES * COLUMNS \in Int /\ b * COLUMNS \in Int /\ o \in Int
  OBVIOUS
<1>3. Screen(scr) /\ Good(scr)
  BY <1>1, <1>2 DEF Good, Within, Screen
<1>4. par \in [0..NPAR - 1 -> Nat] /\ npar \in 0..NPAR - 1
  BY DEF Init, Cleared
<1>5. saved \in [x : 0..COLUMNS, y : 0..LINES - 1] /\ loop \in [c : Repeated, nr : Nat]
  BY DEF Init, Repeated
<1>6. QED
  BY <1>3, <1>4, <1>5 DEF Inductive

\* The cursor can be saved wherever it is.
LEMMA CursorType == Good(scr) => Cursor \in [x : 0..COLUMNS, y : 0..LINES - 1]
BY DEF Good, Within, Cursor

LEMMA InductiveNext == Inductive /\ [Next]_vars => Inductive'
<1> SUFFICES ASSUME Inductive, [Next]_vars PROVE Inductive'
  OBVIOUS
<1>0. Good(scr) /\ scr.y \in Int
  BY DEF Inductive, Good, Within, Screen
<1>1. ASSUME NEW c, plain(c) PROVE Inductive'
  <2>1. Good(scr')
    BY <1>0, <1>1, lfGood, crGood, delGood, backspaceGood, tabGood, printGood DEF plain
  <2>2. QED
    BY <1>1, <2>1 DEF plain, Inductive, Good
<1>2. ASSUME NEW c, escape(c) PROVE Inductive'
  <2>1. /\ Good(gotoxy(scr, 0, scr.y + 1)) /\ Good(ri(scr)) /\ Good(lf(scr))
        /\ Good(restore_cur(scr))
    BY <1>0, gotoxyGood, riGood, lfGood, restoreGood
  <2>2. Good(scr')
    BY <1>0, <1>2, <2>1 DEF escape
  <2>3. saved' \in [x : 0..COLUMNS, y : 0..LINES - 1]
    BY <1>0, <1>2, CursorType DEF escape, Inductive
  <2>4. QED
    BY <1>2, <2>2, <2>3 DEF escape, Inductive, Good
<1>3. CASE question
  BY <1>3 DEF question, Inductive, Good
<1>4. CASE semicolon
  BY <1>4 DEF semicolon, Inductive, Good
<1>5. ASSUME NEW d \in Digit, digit(d) PROVE Inductive'
  <2>1. par[npar] \in Nat /\ d \in Nat
    BY DEF Inductive
  <2>2. 10 * par[npar] + d \in Nat
    BY <2>1
  <2>3. par' \in [0..NPAR - 1 -> Nat]
    BY <1>5, <2>2 DEF digit, Inductive
  <2>4. QED
    BY <1>5, <2>3 DEF digit, Inductive, Good
<1>6. ASSUME NEW c, letter(c) PROVE Inductive'
  <2>1. Good(scr')
    BY <1>6, finalGood DEF letter
  <2>2. saved' \in [x : 0..COLUMNS, y : 0..LINES - 1]
    BY <1>0, <1>6, CursorType DEF letter, Inductive
  <2>3. par[0] \in Nat
    BY DEF Inductive
  <2>4. loop' \in [c : Repeated, nr : Nat]
    BY <1>6, <2>3 DEF letter, Times, Inductive
  <2>5. npar' \in 0..NPAR - 1 /\ par' \in [0..NPAR - 1 -> Nat]
    BY <1>6 DEF letter, Cleared
  <2>6. QED
    BY <2>1, <2>2, <2>4, <2>5 DEF Inductive, Good
<1>7. CASE again
  <2>1. loop.c \in Repeated /\ loop.nr \in Nat /\ loop.nr - 1 \in Nat
    BY <1>7 DEF again, Inductive
  <2>2. Good(scr')
    BY <1>0, <1>7, <2>1, onceGood DEF again
  <2>3. loop' \in [c : Repeated, nr : Nat]
    BY <1>7, <2>1 DEF again, Inductive
  <2>4. QED
    BY <1>7, <2>2, <2>3 DEF again, Inductive, Good
<1>8. CASE UNCHANGED vars
  BY <1>8 DEF vars, Inductive, Good
<1>9. QED
  BY <1>1, <1>2, <1>3, <1>4, <1>5, <1>6, <1>7, <1>8 DEF Next

\* Whatever is written to the console, the cursor's address is that of its
\* line and column in the window, and the window ends inside the video memory:
\* the hand-kept pos, origin and scr_end of console.c never disagree.
THEOREM CursorInWindowAlways == TerminalSpec => []CursorInWindow
<1>1. Inductive => CursorInWindow
  BY DEF Inductive, Good, Within, CursorInWindow, InWindow
<1>2. TerminalInit => Inductive
  BY InductiveInit DEF TerminalInit
<1>3. Inductive /\ [TerminalNext]_<<screen, discipline, part>> => Inductive'
  <2> SUFFICES ASSUME Inductive, [TerminalNext]_<<screen, discipline, part>>
               PROVE  Inductive'
    OBVIOUS
  <2>1. [Next]_vars
    BY DEF TerminalNext, screen, vars
  <2>2. QED
    BY <2>1, InductiveNext
<1>4. QED
  BY <1>1, <1>2, <1>3, PTL DEF TerminalSpec

HIDE SizesAssumption
USE LineAssumption

-------------------------------------------------------------------------------
(* Sequences: one taken apart at either end, and the number of its elements *)
(* in a set. *)

IsCons(S, c, f, t) ==
  /\ c \in Seq(S) /\ c # <<>> /\ Len(c) = Len(t) + 1 /\ Len(t) \in Nat
  /\ DOMAIN c = 1..Len(c) /\ DOMAIN t = 1..Len(t)
  /\ c[1] = f /\ \A k \in 1..Len(t) : c[k + 1] = t[k]
  /\ Head(c) = f /\ Tail(c) = t

LEMMA ConsIs ==
  ASSUME NEW S, NEW f \in S, NEW t \in Seq(S)
  PROVE  IsCons(S, Cons(f, t), f, t)
<1>1. <<f>> \in Seq(S) /\ Len(<<f>>) = 1 /\ <<f>>[1] = f
  OBVIOUS
<1>2. PICK one : one = <<f>>
  OBVIOUS
<1>3. PICK c : c = one \o t
  OBVIOUS
<1>4. /\ c \in Seq(S) /\ Len(c) = 1 + Len(t)
      /\ \A i \in 1..1 + Len(t) : c[i] = IF i <= 1 THEN one[i] ELSE t[i - 1]
  BY <1>1, <1>2, <1>3, ConcatProperties
<1>5. Len(t) \in Nat
  BY LenProperties
<1>6. c[1] = f /\ \A k \in 1..Len(t) : c[k + 1] = t[k]
  BY <1>1, <1>2, <1>4, <1>5
<1>7. c # <<>>
  BY <1>4, <1>5
<1>8. Head(c) = f
  BY <1>6
<1>9. Tail(c) = t
  <2>1. /\ Tail(c) \in Seq(S) /\ Len(Tail(c)) = Len(c) - 1
        /\ \A i \in 1..Len(Tail(c)) : Tail(c)[i] = c[i + 1]
    BY <1>4, <1>7, HeadTailProperties
  <2>2. Len(Tail(c)) = Len(t) /\ \A i \in 1..Len(Tail(c)) : Tail(c)[i] = t[i]
    BY <1>4, <1>5, <1>6, <2>1
  <2>3. QED
    BY <2>1, <2>2, SeqEqual
<1>10. Cons(f, t) = c
  BY <1>2, <1>3 DEF Cons
<1>11. DOMAIN c = 1..Len(c) /\ DOMAIN t = 1..Len(t)
  BY <1>4, LenProperties
<1>12. QED
  BY <1>4, <1>5, <1>6, <1>7, <1>8, <1>9, <1>10, <1>11 DEF IsCons

LEMMA Split ==
  ASSUME NEW S, NEW s \in Seq(S), s # <<>>
  PROVE  /\ Head(s) \in S /\ Tail(s) \in Seq(S) /\ s = Cons(Head(s), Tail(s))
<1>1. PICK h, t : h = Head(s) /\ t = Tail(s)
  OBVIOUS
<1>2. /\ h \in S /\ t \in Seq(S) /\ Len(t) = Len(s) - 1
      /\ \A i \in 1..Len(t) : t[i] = s[i + 1]
  BY <1>1, HeadTailProperties
<1>3. Len(s) \in Nat \ {0} /\ s[1] = h
  BY <1>1, EmptySeq
<1>4. PICK c : c = Cons(h, t)
  OBVIOUS
<1>a. IsCons(S, c, h, t)
  BY <1>2, <1>4, ConsIs
<1>5. /\ c \in Seq(S) /\ Len(c) = Len(t) + 1 /\ c[1] = h
      /\ \A k \in 1..Len(t) : c[k + 1] = t[k]
  BY <1>a DEF IsCons
<1>6. Len(c) = Len(s)
  BY <1>2, <1>3, <1>5
<1>7. ASSUME NEW i \in 1..Len(s)
      PROVE  s[i] = c[i]
  <2>1. CASE i = 1
    BY <1>3, <1>5, <2>1
  <2>2. CASE i # 1
    <3>1. i - 1 \in 1..Len(t)
      BY <1>2, <1>3, <2>2
    <3>2. (i - 1) + 1 = i
      BY <1>3
    <3>3. QED
      BY <1>2, <1>5, <3>1, <3>2
  <2>3. QED
    BY <2>1, <2>2
<1>8. s = c
  BY <1>5, <1>6, <1>7, SeqEqual
<1>9. QED
  BY <1>1, <1>2, <1>4, <1>8

LEMMA TwoOnTop ==
  ASSUME NEW S, NEW g \in S, NEW f \in S, NEW t \in Seq(S)
  PROVE  <<g, f>> \o t = Cons(g, Cons(f, t))
<1>1. <<g, f>> = <<g>> \o <<f>>
  <2>1. PICK a, b, c : a = <<g>> /\ b = <<f>> /\ c = <<g, f>>
    OBVIOUS
  <2>2. /\ a \in Seq(S) /\ Len(a) = 1 /\ a[1] = g
        /\ b \in Seq(S) /\ Len(b) = 1 /\ b[1] = f
        /\ c \in Seq(S) /\ Len(c) = 2 /\ c[1] = g /\ c[2] = f
    BY <2>1
  <2>3. PICK d : d = a \o b
    OBVIOUS
  <2>4. /\ d \in Seq(S) /\ Len(d) = 1 + 1
        /\ \A i \in 1..1 + 1 : d[i] = IF i <= 1 THEN a[i] ELSE b[i - 1]
    BY <2>2, <2>3, ConcatProperties
  <2>5. \A i \in 1..2 : d[i] = c[i]
    BY <2>2, <2>4
  <2>6. d = c
    BY <2>2, <2>4, <2>5, SeqEqual
  <2>7. QED
    BY <2>1, <2>3, <2>6
<1>2. <<g>> \in Seq(S) /\ <<f>> \in Seq(S)
  OBVIOUS
<1>3. QED
  BY <1>1, <1>2, ConcatAssociative DEF Cons

\* The number of elements of X in a sequence.
Count(s, X) == Cardinality({k \in DOMAIN s : s[k] \in X})

LEMMA CountType ==
  ASSUME NEW S, NEW s \in Seq(S), NEW X
  PROVE  /\ IsFiniteSet({k \in DOMAIN s : s[k] \in X}) /\ Count(s, X) \in Nat
         /\ DOMAIN s = 1..Len(s) /\ Len(s) \in Nat
<1>1. DOMAIN s = 1..Len(s) /\ Len(s) \in Nat
  BY LenProperties
<1>2. IsFiniteSet(1..Len(s))
  BY <1>1, FS_Interval
<1>3. IsFiniteSet({k \in DOMAIN s : s[k] \in X})
  BY <1>1, <1>2, FS_Subset
<1>4. QED
  BY <1>1, <1>3, FS_CardinalityType DEF Count

LEMMA CountEmpty == ASSUME NEW X PROVE Count(<<>>, X) = 0
<1>1. {k \in DOMAIN <<>> : <<>>[k] \in X} = {}
  OBVIOUS
<1>2. QED
  BY <1>1, FS_EmptySet DEF Count

LEMMA CountCons ==
  ASSUME NEW S, NEW f \in S, NEW t \in Seq(S), NEW X
  PROVE  Count(Cons(f, t), X) = Count(t, X) + IF f \in X THEN 1 ELSE 0
<1>1. PICK c : c = Cons(f, t)
  OBVIOUS
<1>a. IsCons(S, c, f, t)
  BY <1>1, ConsIs
<1>2. /\ c \in Seq(S) /\ Len(c) = Len(t) + 1 /\ Len(t) \in Nat /\ c[1] = f
      /\ \A k \in 1..Len(t) : c[k + 1] = t[k]
  BY <1>a DEF IsCons
<1>3. DOMAIN c = 1..Len(t) + 1 /\ DOMAIN t = 1..Len(t)
  BY <1>a DEF IsCons
<1>4. PICK A, B : A = {k \in DOMAIN t : t[k] \in X} /\ B = {k \in 2..Len(t) + 1 : c[k] \in X}
  OBVIOUS
<1>5. PICK g : g = [k \in A |-> k + 1]
  OBVIOUS
<1>6. g \in Bijection(A, B)
  <2>1. \A k \in A : g[k] = k + 1 /\ k \in 1..Len(t) /\ k + 1 \in B
    BY <1>2, <1>3, <1>4, <1>5
  <2>2. \A m \in B : m - 1 \in A /\ g[m - 1] = m
    <3> SUFFICES ASSUME NEW m \in B PROVE m - 1 \in A /\ g[m - 1] = m
      OBVIOUS
    <3>1. m \in 2..Len(t) + 1 /\ c[m] \in X
      BY <1>4
    <3>2. m - 1 \in 1..Len(t) /\ (m - 1) + 1 = m
      BY <1>2, <3>1
    <3>3. t[m - 1] = c[m]
      BY <1>2, <3>2
    <3>4. m - 1 \in A
      BY <1>3, <1>4, <3>1, <3>2, <3>3
    <3>5. QED
      BY <2>1, <3>2, <3>4
  <2>3. g \in [A -> B]
    BY <1>5, <2>1
  <2>4. \A k, m \in A : g[k] = g[m] => k = m
    BY <2>1
  <2>5. QED
    BY <1>5, <2>2, <2>3, <2>4 DEF Bijection, Injection, Surjection, IsInjective
<1>7. IsFiniteSet(A) /\ Cardinality(A) \in Nat
  BY <1>4, CountType DEF Count
<1>8. IsFiniteSet(B) /\ Cardinality(B) = Cardinality(A)
  BY <1>6, <1>7, FS_Bijection DEF ExistsBijection
<1>9. PICK C : C = {k \in DOMAIN c : c[k] \in X}
  OBVIOUS
<1>10. C = IF f \in X THEN B \cup {1} ELSE B
  BY <1>2, <1>3, <1>4, <1>9
<1>11. 1 \notin B
  BY <1>4
<1>12. Cardinality(B \cup {1}) = Cardinality(B) + 1
  BY <1>8, <1>11, FS_AddElement
<1>13. Count(t, X) = Cardinality(A) /\ Count(Cons(f, t), X) = Cardinality(C)
  BY <1>1, <1>4, <1>9 DEF Count
<1>14. QED
  BY <1>7, <1>8, <1>10, <1>12, <1>13

LEMMA CountOne ==
  ASSUME NEW S, NEW f \in S, NEW X
  PROVE  Count(Cons(f, <<>>), X) = IF f \in X THEN 1 ELSE 0
<1>1. PICK e : e = <<>>
  OBVIOUS
<1>2. e \in Seq(S) /\ Count(e, X) = 0
  BY <1>1, EmptySeq, CountEmpty
<1>3. Count(Cons(f, e), X) = Count(e, X) + IF f \in X THEN 1 ELSE 0
  BY ONLY <1>2, f \in S, CountCons
<1>4. QED
  BY <1>1, <1>2, <1>3

LEMMA CountAppend ==
  ASSUME NEW S, NEW e \in S, NEW t \in Seq(S), NEW X
  PROVE  Count(Append(t, e), X) = Count(t, X) + IF e \in X THEN 1 ELSE 0
<1>1. PICK c : c = Append(t, e)
  OBVIOUS
<1>2. PICK n : n = Len(t) + 1
  OBVIOUS
<1>3. /\ c \in Seq(S) /\ Len(c) = n /\ Len(t) \in Nat /\ c[n] = e
      /\ \A k \in 1..Len(t) : c[k] = t[k]
  BY <1>1, <1>2, AppendProperties, LenProperties
<1>4. DOMAIN c = 1..n /\ DOMAIN t = 1..Len(t)
  BY <1>3, LenProperties
<1>5. PICK A : A = {k \in DOMAIN t : t[k] \in X}
  OBVIOUS
<1>6. IsFiniteSet(A) /\ Cardinality(A) \in Nat
  BY <1>5, CountType DEF Count
<1>7. n \notin A
  BY <1>2, <1>3, <1>4, <1>5
<1>8. PICK C : C = {k \in DOMAIN c : c[k] \in X}
  OBVIOUS
<1>9. C = IF e \in X THEN A \cup {n} ELSE A
  BY <1>2, <1>3, <1>4, <1>5, <1>8
<1>10. Cardinality(A \cup {n}) = Cardinality(A) + 1
  BY <1>6, <1>7, FS_AddElement
<1>11. Count(t, X) = Cardinality(A) /\ Count(Append(t, e), X) = Cardinality(C)
  BY <1>1, <1>5, <1>8 DEF Count
<1>12. QED
  BY <1>6, <1>9, <1>10, <1>11

\* The last element apart.
LEMMA SplitLast ==
  ASSUME NEW S, NEW s \in Seq(S), s # <<>>
  PROVE  /\ Front(s) \in Seq(S) /\ Last(s) \in S /\ s = Append(Front(s), Last(s))
<1>1. PICK r \in Seq(S), e \in S : s = Append(r, e)
  BY SequenceEmptyOrAppend
<1>2. /\ Len(s) = Len(r) + 1 /\ Len(r) \in Nat /\ s[Len(r) + 1] = e
      /\ \A i \in 1..Len(r) : s[i] = r[i]
  BY <1>1, AppendProperties, LenProperties
<1>3. Last(s) = e
  BY <1>2 DEF Last
<1>4. PICK f, n : n = Len(r) /\ f = SubSeq(s, 1, n)
  OBVIOUS
<1>5. \A i \in 1..n : s[i] \in S
  BY <1>2, <1>4, LenProperties
<1>6. f \in Seq(S) /\ Len(f) = n /\ \A i \in 1..n : f[i] = s[i]
  <2>1. n \in Nat /\ (IF 1 <= n THEN n - 1 + 1 ELSE 0) = n
    BY <1>2, <1>4
  <2>2. /\ SubSeq(s, 1, n) \in Seq(S)
        /\ Len(SubSeq(s, 1, n)) = IF 1 <= n THEN n - 1 + 1 ELSE 0
        /\ \A i \in 1..n - 1 + 1 : SubSeq(s, 1, n)[i] = s[1 + i - 1]
    BY <1>5, <2>1, SubSeqProperties
  <2>3. QED
    BY <1>4, <2>1, <2>2
<1>7. f = r
  BY <1>2, <1>4, <1>6, SeqEqual
<1>8. Front(s) = f
  BY <1>2, <1>4 DEF Front
<1>9. QED
  BY <1>1, <1>3, <1>7, <1>8

-------------------------------------------------------------------------------
(* The calls of a task and of the interrupts on top of it. *)

Chars == {"", "x", "NL", "EOF", "DEL", "INTR"}
Echoes == Chars \cup {"CR", "^", "D"}
Base == {"read", "get", "more", "write", "room", "fill", "put", "written"}
Filling == {"fill", "put"}
Rests == {"read", "write", "room"}
Places == L!Cooking \cup Base \cup {"con_write"}
Call == [at : Places, c : Chars, nr : Int]
Stores == {f \in Call : f.at = "store" /\ f.c \in L!LineEnd}

Has(s, A) == \E k \in DOMAIN s : s[k].at \in A

\* A task's own call is the outermost; an erased character is no line end.
Stacked(s) == \A k \in DOMAIN s : /\ s[k].at \in Base => k = Len(s)
                                  /\ s[k].at = "unput" => s[k].c \notin L!LineEnd

\* The innermost con_write has n characters to go.
Writing(s, n) == \E k \in DOMAIN s : /\ s[k].at = "con_write" /\ s[k].nr = n
                                     /\ \A j \in 1..k - 1 : s[j].at # "con_write"

LEMMA NoCall ==
  /\ \A A : ~ Has(<<>>, A)
  /\ Stacked(<<>>)
  /\ \A n : ~ Writing(<<>>, n)
  /\ Count(<<>>, Stores) = 0
BY CountEmpty DEF Has, Stacked, Writing

LEMMA HasCons ==
  ASSUME NEW f \in Call, NEW t \in Seq(Call), NEW A
  PROVE  Has(Cons(f, t), A) <=> f.at \in A \/ Has(t, A)
<1>1. PICK c : c = Cons(f, t)
  OBVIOUS
<1>2. IsCons(Call, c, f, t)
  BY <1>1, ConsIs
<1>3. /\ DOMAIN c = 1..Len(t) + 1 /\ DOMAIN t = 1..Len(t) /\ Len(t) \in Nat
      /\ c[1] = f /\ \A k \in 1..Len(t) : c[k + 1] = t[k]
  BY <1>2 DEF IsCons
<1>4. ASSUME Has(c, A), f.at \notin A
      PROVE  Has(t, A)
  <2>1. PICK k \in DOMAIN c : c[k].at \in A
    BY <1>4 DEF Has
  <2>2. k - 1 \in 1..Len(t) /\ (k - 1) + 1 = k
    BY <1>3, <1>4, <2>1
  <2>3. t[k - 1].at \in A
    BY <1>3, <2>1, <2>2
  <2>4. QED
    BY <1>3, <2>2, <2>3 DEF Has
<1>5. ASSUME f.at \in A
      PROVE  Has(c, A)
  BY <1>3, <1>5 DEF Has
<1>6. ASSUME Has(t, A)
      PROVE  Has(c, A)
  <2>1. PICK k \in DOMAIN t : t[k].at \in A
    BY <1>6 DEF Has
  <2>2. k + 1 \in DOMAIN c /\ c[k + 1] = t[k]
    BY <1>3
  <2>3. QED
    BY <2>1, <2>2 DEF Has
<1>7. QED
  BY <1>1, <1>4, <1>5, <1>6

LEMMA StackedCons ==
  ASSUME NEW f \in Call, NEW t \in Seq(Call)
  PROVE  Stacked(Cons(f, t)) <=> /\ Stacked(t)
                                 /\ f.at \in Base => t = <<>>
                                 /\ f.at = "unput" => f.c \notin L!LineEnd
<1>1. PICK c : c = Cons(f, t)
  OBVIOUS
<1>2. IsCons(Call, c, f, t)
  BY <1>1, ConsIs
<1>3. /\ DOMAIN c = 1..Len(t) + 1 /\ DOMAIN t = 1..Len(t) /\ Len(t) \in Nat
      /\ Len(c) = Len(t) + 1
      /\ c[1] = f /\ \A k \in 1..Len(t) : c[k + 1] = t[k]
  BY <1>2 DEF IsCons
<1>4. Len(t) = 0 <=> t = <<>>
  BY EmptySeq
<1>5. ASSUME Stacked(c)
      PROVE  /\ Stacked(t)
             /\ f.at \in Base => t = <<>>
             /\ f.at = "unput" => f.c \notin L!LineEnd
  <2>1. ASSUME NEW k \in DOMAIN t
        PROVE  /\ t[k].at \in Base => k = Len(t)
               /\ t[k].at = "unput" => t[k].c \notin L!LineEnd
    <3>1. k + 1 \in DOMAIN c /\ c[k + 1] = t[k] /\ k \in Nat
      BY <1>3
    <3>2. /\ t[k].at \in Base => k + 1 = Len(c)
          /\ t[k].at = "unput" => t[k].c \notin L!LineEnd
      BY <1>5, <3>1 DEF Stacked
    <3>3. QED
      BY <1>3, <3>1, <3>2
  <2>2. 1 \in DOMAIN c
    BY <1>3
  <2>3. QED
    BY <1>3, <1>4, <1>5, <2>1, <2>2 DEF Stacked
<1>6. ASSUME Stacked(t), f.at \in Base => t = <<>>, f.at = "unput" => f.c \notin L!LineEnd
      PROVE  Stacked(c)
  <2>1. ASSUME NEW k \in DOMAIN c
        PROVE  /\ c[k].at \in Base => k = Len(c)
               /\ c[k].at = "unput" => c[k].c \notin L!LineEnd
    <3>1. CASE k = 1
      BY <1>3, <1>4, <1>6, <3>1
    <3>2. CASE k # 1
      <4>1. k - 1 \in 1..Len(t) /\ (k - 1) + 1 = k
        BY <1>3, <3>2
      <4>2. c[k] = t[k - 1]
        BY <1>3, <4>1
      <4>3. /\ t[k - 1].at \in Base => k - 1 = Len(t)
            /\ t[k - 1].at = "unput" => t[k - 1].c \notin L!LineEnd
        BY <1>3, <1>6, <4>1 DEF Stacked
      <4>4. QED
        BY <1>3, <4>1, <4>2, <4>3
    <3>3. QED
      BY <3>1, <3>2
  <2>2. QED
    BY <2>1 DEF Stacked
<1>7. QED
  BY <1>1, <1>5, <1>6

LEMMA WritingCons ==
  ASSUME NEW f \in Call, NEW t \in Seq(Call), NEW n
  PROVE  Writing(Cons(f, t), n) <=> IF f.at = "con_write" THEN f.nr = n ELSE Writing(t, n)
<1>1. PICK c : c = Cons(f, t)
  OBVIOUS
<1>2. IsCons(Call, c, f, t)
  BY <1>1, ConsIs
<1>3. /\ DOMAIN c = 1..Len(t) + 1 /\ DOMAIN t = 1..Len(t) /\ Len(t) \in Nat
      /\ c[1] = f /\ \A k \in 1..Len(t) : c[k + 1] = t[k]
  BY <1>2 DEF IsCons
<1>4. ASSUME Writing(c, n)
      PROVE  IF f.at = "con_write" THEN f.nr = n ELSE Writing(t, n)
  <2>1. PICK k \in DOMAIN c : /\ c[k].at = "con_write" /\ c[k].nr = n
                              /\ \A j \in 1..k - 1 : c[j].at # "con_write"
    BY <1>4 DEF Writing
  <2>2. CASE k = 1
    BY <1>3, <2>1, <2>2
  <2>3. CASE k # 1
    <3>1. k - 1 \in 1..Len(t) /\ (k - 1) + 1 = k /\ 1 \in 1..k - 1
      BY <1>3, <2>3
    <3>2. c[k] = t[k - 1] /\ f.at # "con_write"
      BY <1>3, <2>1, <3>1
    <3>3. ASSUME NEW j \in 1..(k - 1) - 1
          PROVE  t[j].at # "con_write"
      <4>1. j + 1 \in 1..k - 1 /\ j \in 1..Len(t)
        BY <3>1
      <4>2. QED
        BY <1>3, <2>1, <4>1
    <3>4. QED
      BY <1>3, <2>1, <3>1, <3>2, <3>3 DEF Writing
  <2>4. QED
    BY <2>2, <2>3
<1>5. ASSUME f.at = "con_write", f.nr = n
      PROVE  Writing(c, n)
  <2>1. 1 \in DOMAIN c /\ 1..1 - 1 = {}
    BY <1>3
  <2>2. QED
    BY <1>3, <1>5, <2>1 DEF Writing
<1>6. ASSUME f.at # "con_write", Writing(t, n)
      PROVE  Writing(c, n)
  <2>1. PICK k \in DOMAIN t : /\ t[k].at = "con_write" /\ t[k].nr = n
                              /\ \A j \in 1..k - 1 : t[j].at # "con_write"
    BY <1>6 DEF Writing
  <2>2. k \in 1..Len(t) /\ k + 1 \in DOMAIN c /\ c[k + 1] = t[k] /\ (k + 1) - 1 = k
    BY <1>3
  <2>3. ASSUME NEW j \in 1..(k + 1) - 1
        PROVE  c[j].at # "con_write"
    <3>1. CASE j = 1
      BY <1>3, <1>6, <3>1
    <3>2. CASE j # 1
      <4>1. j - 1 \in 1..k - 1 /\ j - 1 \in 1..Len(t) /\ (j - 1) + 1 = j
        BY <1>3, <2>2, <3>2
      <4>2. QED
        BY <1>3, <2>1, <4>1
    <3>3. QED
      BY <3>1, <3>2
  <2>4. QED
    BY <2>1, <2>2, <2>3 DEF Writing
<1>7. QED
  BY <1>1, <1>4, <1>5, <1>6

LEMMA OneCall ==
  ASSUME NEW f \in Call
  PROVE  /\ Cons(f, <<>>) \in Seq(Call)
         /\ Stacked(Cons(f, <<>>)) <=> (f.at = "unput" => f.c \notin L!LineEnd)
         /\ \A A : Has(Cons(f, <<>>), A) <=> f.at \in A
<1>1. PICK e : e = <<>>
  OBVIOUS
<1>2. e \in Seq(Call)
  BY <1>1, EmptySeq
<1>3. PICK c : c = Cons(f, e)
  OBVIOUS
<1>4. IsCons(Call, c, f, e)
  BY <1>2, <1>3, ConsIs
<1>5. c \in Seq(Call)
  BY <1>4 DEF IsCons
<1>6. Stacked(c) <=> /\ Stacked(e)
                     /\ f.at \in Base => e = <<>>
                     /\ f.at = "unput" => f.c \notin L!LineEnd
  BY <1>2, <1>3, StackedCons
<1>7. Stacked(e)
  BY <1>1, NoCall
<1>8. ASSUME NEW A
      PROVE  Has(c, A) <=> f.at \in A
  <2>1. Has(c, A) <=> f.at \in A \/ Has(e, A)
    BY <1>2, <1>3, HasCons
  <2>2. QED
    BY <1>1, <2>1, NoCall
<1>9. QED
  BY <1>1, <1>3, <1>5, <1>6, <1>7, <1>8

-------------------------------------------------------------------------------
(* The inductive invariant. *)

Task == Reader \cup Writer

Queues ==
  /\ console \in BOOLEAN /\ cooked \in BOOLEAN /\ transmit \in BOOLEAN
  /\ console => ~ transmit
  /\ ~ console => ~ cooked
  /\ read_q \in Seq(Chars) /\ write_q \in Seq(Echoes) /\ secondary \in Seq(Chars)
  /\ data \in Int
  /\ asleep \in [{"write", "secondary"} -> SUBSET Task]

\* Only the stack of the task that runs has more than a call at rest.
Stacks ==
  /\ running \in Task \cup {Idle}
  /\ stack \in [Task \cup {Idle} -> Seq(Call)]
  /\ Stacked(stack[running])
  /\ ~ Has(stack[Idle], Base)
  /\ \A t \in (Task \cup {Idle}) \ {running} :
       \/ stack[t] = <<>>
       \/ t # Idle /\ \E f \in Call : f.at \in Rests /\ stack[t] = Cons(f, <<>>)

\* Whoever sleeps for characters, a copy_to_cooked will wake him if there are any.
Waits(a, q, s) == a["secondary"] # {} => q = <<>> \/ Has(s, L!Cooking)

\* The characters in write_q have somebody to empty it: the transmitter or the
\* task that is filling it; on the console the innermost con_write, which takes
\* them all.
Flows(q, tr, a, s) ==
  /\ ~ console /\ q # <<>> => tr \/ Has(s, Filling)
  /\ console /\ q # <<>> => \/ ~ Has(s, {"con_write"}) /\ Has(s, Filling)
                            \/ Writing(s, Len(q))
  /\ a["write"] # {} => tr /\ ~ console

Ends(q) == Count(q, L!LineEnd)
Counted(d, q, s) == d = Ends(q) + Count(s, Stores)

Orderly ==
  /\ Queues /\ Stacks
  /\ Waits(asleep, secondary, stack[running])
  /\ Flows(write_q, transmit, asleep, stack[running])
  /\ Counted(data, secondary, stack[running])

\* A step of what runs, that leaves X on its stack.
Leaves(X) ==
  /\ X \in Seq(Call) /\ Stacked(X) /\ (Has(X, Base) => Has(stack[running], Base))
  /\ stack' = [stack EXCEPT ![running] = X] /\ running' = running /\ console' = console

LEMMA GoesOn ==
  ASSUME Orderly, NEW X, Leaves(X), Queues',
         Waits(asleep', secondary', X), Flows(write_q', transmit', asleep', X),
         Counted(data', secondary', X)
  PROVE  Orderly'
<1>1. /\ X \in Seq(Call) /\ Stacked(X) /\ (Has(X, Base) => Has(stack[running], Base))
      /\ running' = running /\ console' = console
      /\ running \in Task \cup {Idle} /\ stack \in [Task \cup {Idle} -> Seq(Call)]
  BY DEF Leaves, Orderly, Stacks
<1>2. /\ stack' \in [Task \cup {Idle} -> Seq(Call)] /\ stack'[running] = X
      /\ \A t \in (Task \cup {Idle}) \ {running} : stack'[t] = stack[t]
  BY <1>1 DEF Leaves
<1>3. ~ Has(stack'[Idle], Base)
  BY <1>1, <1>2 DEF Orderly, Stacks
<1>4. Stacks'
  BY <1>1, <1>2, <1>3 DEF Orderly, Stacks
<1>5. stack'[running'] = X
  BY <1>1, <1>2
<1>6. Flows(write_q', transmit', asleep', X) <=> Flows(write_q, transmit, asleep, X)'
  BY <1>1 DEF Flows
<1>7. QED
  BY <1>1, <1>4, <1>5 DEF Orderly, Flows

\* What a task that is in its own call has on its stack, and who else.
LEMMA InBase ==
  ASSUME Orderly, NEW h \in Call, NEW t \in Seq(Call), stack[running] = Cons(h, t),
         h.at \in Base
  PROVE  /\ t = <<>> /\ running \in Task /\ stack[Idle] = <<>>
         /\ asleep["secondary"] # {} => secondary = <<>>
         /\ h.at \notin Filling => /\ write_q # <<>> => ~ console /\ transmit
         /\ data = Ends(secondary)
<1>1. t = <<>>
  BY StackedCons DEF Orderly, Stacks
<1>2. Has(stack[running], Base) /\ running # Idle /\ running \in Task
  <2>1. Has(stack[running], Base)
    BY HasCons
  <2>2. running \in Task \cup {Idle} /\ ~ Has(stack[Idle], Base)
    BY DEF Orderly, Stacks
  <2>3. QED
    BY ONLY <2>1, <2>2
<1>3. stack[Idle] = <<>>
  BY <1>2 DEF Orderly, Stacks
<1>4. ASSUME NEW A
      PROVE  Has(stack[running], A) <=> h.at \in A
  <2>1. Has(Cons(h, t), A) <=> h.at \in A \/ Has(t, A)
    BY ONLY h \in Call, t \in Seq(Call), HasCons
  <2>2. ~ Has(<<>>, A)
    BY ONLY NoCall
  <2>3. QED
    BY ONLY stack[running] = Cons(h, t), <1>1, <2>1, <2>2
<1>5. /\ ~ Has(stack[running], L!Cooking) /\ h.at # "con_write"
      /\ Has(stack[running], Filling) <=> h.at \in Filling
  <2>1. h.at \notin L!Cooking /\ h.at # "con_write"
    BY DEF L!Cooking, Base
  <2>2. QED
    BY <1>4, <2>1
<1>6. ASSUME NEW n
      PROVE  ~ Writing(stack[running], n)
  <2>1. Writing(Cons(h, t), n) <=> IF h.at = "con_write" THEN h.nr = n ELSE Writing(t, n)
    BY WritingCons
  <2>2. QED
    BY <1>1, <1>5, <2>1, NoCall
<1>7. Count(stack[running], Stores) = 0
  <2>1. h \notin Stores
    BY DEF Stores, Base
  <2>2. QED
    BY <1>1, <2>1, CountOne
<1>8. Ends(secondary) \in Nat
  BY CountType DEF Orderly, Queues, Ends
<1>9. QED
  BY <1>1, <1>2, <1>3, <1>5, <1>6, <1>7, <1>8 DEF Orderly, Waits, Flows, Counted, Queues

\* A step of a task in its own call that gives up the processor.
Rested(X) == X = <<>> \/ \E f \in Call : f.at \in Rests /\ X = Cons(f, <<>>)

LEMMA GivesUp ==
  ASSUME Orderly, NEW h \in Call, NEW t \in Seq(Call), stack[running] = Cons(h, t),
         h.at \in Base \ Filling, NEW X, Rested(X),
         stack' = [stack EXCEPT ![running] = X], running' = Idle,
         UNCHANGED <<console, cooked, read_q, write_q, transmit>>,
         secondary' \in Seq(Chars), data' \in Int, data' = Ends(secondary'),
         asleep' \in [{"write", "secondary"} -> SUBSET Task],
         asleep'["secondary"] # {} => secondary' = <<>>,
         asleep'["write"] # {} => transmit /\ ~ console
  PROVE  Orderly'
<1>1. /\ t = <<>> /\ running \in Task /\ stack[Idle] = <<>>
      /\ write_q # <<>> => ~ console /\ transmit
  <2>1. h.at \in Base /\ h.at \notin Filling
    OBVIOUS
  <2>2. QED
    BY <2>1, InBase
<1>2. X \in Seq(Call)
  BY OneCall, EmptySeq DEF Rested
<1>3. /\ stack' \in [Task \cup {Idle} -> Seq(Call)]
      /\ stack'[running] = X
      /\ \A u \in (Task \cup {Idle}) \ {running} : stack'[u] = stack[u]
  BY <1>1, <1>2 DEF Orderly, Stacks
<1>4. stack'[Idle] = <<>> /\ running # Idle
  BY <1>1, <1>3 DEF Task
<1>5. Stacks'
  BY <1>1, <1>3, <1>4, NoCall DEF Orderly, Stacks, Rested
<1>6. Queues'
  BY DEF Orderly, Queues
<1>7. /\ Waits(asleep', secondary', <<>>) /\ Flows(write_q', transmit', asleep', <<>>)
      /\ Counted(data', secondary', <<>>)
  <2>1. data' + 0 = data'
    OBVIOUS
  <2>2. Ends(secondary') + 0 = Ends(secondary')
    BY <2>1
  <2>3. QED
    BY <1>1, <2>2, NoCall DEF Waits, Flows, Counted
<1>8. stack'[running'] = <<>>
  BY <1>4
<1>9. QED
  BY <1>5, <1>6, <1>7, <1>8 DEF Orderly, Flows

\* A task gets the processor.
LEMMA GoesUp ==
  ASSUME Orderly, running = Idle, stack[Idle] = <<>>, NEW t \in Task, running' = t,
         stack' \in [Task \cup {Idle} -> Seq(Call)],
         \A u \in (Task \cup {Idle}) \ {t} : stack'[u] = stack[u],
         \E f \in Call : f.at \in Rests /\ stack'[t] = Cons(f, <<>>),
         UNCHANGED <<console, cooked, read_q, write_q, secondary, data, transmit>>,
         asleep' \in [{"write", "secondary"} -> SUBSET Task],
         \A q \in {"write", "secondary"} : asleep'[q] \subseteq asleep[q]
  PROVE  Orderly'
<1>1. PICK f \in Call : f.at \in Rests /\ stack'[t] = Cons(f, <<>>)
  OBVIOUS
<1>2. /\ ~ Has(<<>>, L!Cooking) /\ ~ Has(<<>>, Filling) /\ \A n : ~ Writing(<<>>, n)
      /\ Count(<<>>, Stores) = 0
  BY NoCall
<1>3. Count(stack'[t], Stores) = 0
  <2>1. f \notin Stores
    BY <1>1 DEF Stores, Rests
  <2>2. Count(Cons(f, <<>>), Stores) = 0
    BY <2>1, CountOne
  <2>3. QED
    BY <1>1, <2>2
<1>4. Stacked(stack'[t])
  BY <1>1, OneCall DEF Rests
<1>5. Stacks'
  BY <1>4, NoCall DEF Orderly, Stacks, Task
<1>6. Queues'
  BY DEF Orderly, Queues
<1>7. QED
  BY <1>2, <1>3, <1>5, <1>6 DEF Orderly, Waits, Flows, Counted

-------------------------------------------------------------------------------
(* What a step does to the stack. *)

Runs(h, t) ==
  /\ running \in Task \cup {Idle} /\ stack \in [Task \cup {Idle} -> Seq(Call)]
  /\ stack[running] = Cons(h, t) /\ L!Top = h /\ Tail(stack[running]) = t
  /\ Stacked(t) /\ (h.at \in Base => t = <<>>) /\ (h.at = "unput" => h.c \notin L!LineEnd)

Put(X) == stack' = [stack EXCEPT ![running] = X]

LEMMA Innermost ==
  ASSUME Orderly, stack[running] # <<>>
  PROVE  \E h \in Call, t \in Seq(Call) : Runs(h, t)
<1>1. /\ running \in Task \cup {Idle} /\ stack \in [Task \cup {Idle} -> Seq(Call)]
      /\ Stacked(stack[running])
  BY DEF Orderly, Stacks
<1>2. PICK s : s = stack[running]
  OBVIOUS
<1>3. PICK h, t : h = Head(s) /\ t = Tail(s)
  OBVIOUS
<1>4. h \in Call /\ t \in Seq(Call) /\ s = Cons(h, t)
  BY <1>1, <1>2, <1>3, Split
<1>5. /\ Stacked(t) /\ (h.at \in Base => t = <<>>)
      /\ (h.at = "unput" => h.c \notin L!LineEnd)
  BY <1>1, <1>2, <1>4, StackedCons
<1>6. L!Top = h /\ Tail(stack[running]) = t
  BY <1>2, <1>3 DEF L!Top
<1>7. QED
  BY <1>1, <1>2, <1>4, <1>5, <1>6 DEF Runs

LEMMA BecomesOne ==
  ASSUME NEW h \in Call, NEW t \in Seq(Call), Runs(h, t), NEW g, L!Becomes(<<g>>)
  PROVE  Put(Cons(g, t))
<1>1. stack' = [stack EXCEPT ![running] = <<g>> \o Tail(stack[running])]
  BY DEF L!Becomes, Runs
<1>2. Tail(stack[running]) = t
  BY DEF Runs
<1>3. QED
  BY <1>1, <1>2 DEF Put, Cons

LEMMA BecomesTwo ==
  ASSUME NEW h \in Call, NEW t \in Seq(Call), Runs(h, t), NEW g \in Call, NEW f \in Call,
         L!Becomes(<<g, f>>)
  PROVE  Put(Cons(g, Cons(f, t)))
<1>1. stack' = [stack EXCEPT ![running] = <<g, f>> \o Tail(stack[running])]
  BY DEF L!Becomes, Runs
<1>2. Tail(stack[running]) = t
  BY DEF Runs
<1>3. <<g, f>> \o t = Cons(g, Cons(f, t))
  BY TwoOnTop
<1>4. QED
  BY <1>1, <1>2, <1>3 DEF Put

LEMMA Goes ==
  ASSUME NEW h \in Call, NEW t \in Seq(Call), Runs(h, t), NEW l \in Places, L!Goto(l)
  PROVE  \E g \in Call : g.at = l /\ g.c = h.c /\ g.nr = h.nr /\ Put(Cons(g, t))
<1>1. PICK g : g = [h EXCEPT !.at = l]
  OBVIOUS
<1>2. g \in Call /\ g.at = l /\ g.c = h.c /\ g.nr = h.nr
  BY <1>1 DEF Call
<1>3. L!Becomes(<<g>>)
  BY <1>1 DEF L!Goto, Runs
<1>4. Put(Cons(g, t))
  BY <1>3, BecomesOne
<1>5. QED
  BY <1>2, <1>4

\* The same characters flow under stacks that write alike.
Alike(X, s) ==
  /\ Has(X, Filling) <=> Has(s, Filling)
  /\ Has(X, {"con_write"}) <=> Has(s, {"con_write"})
  /\ \A n : Writing(X, n) <=> Writing(s, n)

LEMMA FlowsAlike ==
  ASSUME NEW X, NEW s, Alike(X, s), NEW q, NEW tr, NEW a, NEW b, Flows(q, tr, a, s),
         b["write"] # {} => a["write"] # {}
  PROVE  Flows(q, tr, b, X)
BY DEF Alike, Flows

LEMMA CookingIsAlike ==
  ASSUME NEW f \in Call, NEW t \in Seq(Call), f.at \in L!Cooking
  PROVE  Alike(Cons(f, t), t) /\ Alike(t, Cons(f, t)) /\ Has(Cons(f, t), L!Cooking)
<1>1. f.at \notin Filling /\ f.at # "con_write"
  BY DEF L!Cooking, Filling
<1>2. /\ Has(Cons(f, t), Filling) <=> f.at \in Filling \/ Has(t, Filling)
      /\ Has(Cons(f, t), {"con_write"}) <=> f.at \in {"con_write"} \/ Has(t, {"con_write"})
      /\ Has(Cons(f, t), L!Cooking) <=> f.at \in L!Cooking \/ Has(t, L!Cooking)
  BY HasCons
<1>3. ASSUME NEW n
      PROVE  Writing(Cons(f, t), n) <=> Writing(t, n)
  <2>1. Writing(Cons(f, t), n) <=> IF f.at = "con_write" THEN f.nr = n ELSE Writing(t, n)
    BY WritingCons
  <2>2. QED
    BY <1>1, <2>1
<1>4. QED
  BY <1>1, <1>2, <1>3 DEF Alike

LEMMA BothCook ==
  ASSUME NEW f \in Call, NEW g \in Call, NEW t \in Seq(Call), f.at \in L!Cooking,
         g.at \in L!Cooking
  PROVE  Alike(Cons(g, t), Cons(f, t))
<1>1. Alike(Cons(g, t), t) /\ Alike(t, Cons(f, t))
  BY CookingIsAlike
<1>2. QED
  BY <1>1 DEF Alike

\* The call that runs goes on as another.
LEMMA Turns ==
  ASSUME Orderly, NEW h \in Call, NEW t \in Seq(Call), Runs(h, t), NEW g \in Call,
         Put(Cons(g, t)), running' = running, console' = console,
         g.at \in Base => h.at \in Base, g.at = "unput" => g.c \notin L!LineEnd, Queues',
         asleep'["secondary"] # {} => secondary' = <<>> \/ g.at \in L!Cooking \/ Has(t, L!Cooking),
         Flows(write_q', transmit', asleep', Cons(g, t)),
         Counted(data', secondary', Cons(g, t))
  PROVE  Orderly'
<1>1. PICK X : X = Cons(g, t)
  OBVIOUS
<1>2. IsCons(Call, X, g, t)
  BY <1>1, ConsIs
<1>3. X \in Seq(Call)
  BY <1>2 DEF IsCons
<1>4. Stacked(X)
  <2>1. Stacked(t) /\ (g.at \in Base => t = <<>>)
    BY DEF Runs
  <2>2. QED
    BY <1>1, <2>1, StackedCons
<1>5. Has(X, Base) => Has(stack[running], Base)
  <2>1. Has(X, Base) <=> g.at \in Base \/ Has(t, Base)
    BY <1>1, HasCons
  <2>2. Has(Cons(h, t), Base) <=> h.at \in Base \/ Has(t, Base)
    BY HasCons
  <2>3. QED
    BY <2>1, <2>2 DEF Runs
<1>6. Leaves(X)
  BY <1>1, <1>3, <1>4, <1>5 DEF Leaves, Put
<1>7. Has(X, L!Cooking) <=> g.at \in L!Cooking \/ Has(t, L!Cooking)
  BY <1>1, HasCons
<1>8. Waits(asleep', secondary', X)
  BY <1>7 DEF Waits
<1>9. Flows(write_q', transmit', asleep', X) /\ Counted(data', secondary', X)
  BY <1>1
<1>10. QED
  BY <1>6, <1>8, <1>9, GoesOn
LEMMA AtIs ==
  ASSUME Orderly, NEW l, L!At(l)
  PROVE  \E h \in Call, t \in Seq(Call) : Runs(h, t) /\ h.at = l
<1>1. stack[running] # <<>> /\ L!Top.at = l
  BY DEF L!At
<1>2. PICK h \in Call, t \in Seq(Call) : Runs(h, t)
  BY <1>1, Innermost
<1>3. QED
  BY <1>1, <1>2 DEF Runs

LEMMA CountCall ==
  ASSUME NEW f \in Call, NEW t \in Seq(Call)
  PROVE  /\ Count(t, Stores) \in Nat
         /\ Count(Cons(f, t), Stores) =
              Count(t, Stores) + IF f.at = "store" /\ f.c \in L!LineEnd THEN 1 ELSE 0
<1>1. Count(Cons(f, t), Stores) = Count(t, Stores) + IF f \in Stores THEN 1 ELSE 0
  BY CountCons
<1>2. f \in Stores <=> f.at = "store" /\ f.c \in L!LineEnd
  BY DEF Stores
<1>3. Count(t, Stores) \in Nat
  BY CountType
<1>4. QED
  BY <1>1, <1>2, <1>3

LEMMA EndsType ==
  ASSUME NEW q \in Seq(Chars)
  PROVE  Ends(q) \in Nat
BY CountType DEF Ends

LEMMA EndsAppend ==
  ASSUME NEW q \in Seq(Chars), NEW c \in Chars
  PROVE  /\ Append(q, c) \in Seq(Chars)
         /\ Ends(Append(q, c)) = Ends(q) + IF c \in L!LineEnd THEN 1 ELSE 0
<1>1. Append(q, c) \in Seq(Chars)
  BY AppendProperties
<1>2. Count(Append(q, c), L!LineEnd) = Count(q, L!LineEnd) + IF c \in L!LineEnd THEN 1 ELSE 0
  BY CountAppend
<1>3. QED
  BY <1>1, <1>2 DEF Ends

LEMMA EndsFront ==
  ASSUME NEW q \in Seq(Chars), q # <<>>
  PROVE  /\ Front(q) \in Seq(Chars) /\ Last(q) \in Chars
         /\ Ends(q) = Ends(Front(q)) + IF Last(q) \in L!LineEnd THEN 1 ELSE 0
<1>1. PICK f, l : f = Front(q) /\ l = Last(q)
  OBVIOUS
<1>2. f \in Seq(Chars) /\ l \in Chars /\ q = Append(f, l)
  BY <1>1, SplitLast
<1>3. Ends(Append(f, l)) = Ends(f) + IF l \in L!LineEnd THEN 1 ELSE 0
  BY <1>2, EndsAppend
<1>4. QED
  BY <1>1, <1>2, <1>3

LEMMA LastIs == ASSUME NEW q PROVE L!Last(q) = Last(q) /\ L!Front(q) = Front(q)
BY DEF Last, L!Last, Front, L!Front

LEMMA EndsTail ==
  ASSUME NEW q \in Seq(Chars), q # <<>>
  PROVE  /\ Tail(q) \in Seq(Chars) /\ Head(q) \in Chars
         /\ Ends(q) = Ends(Tail(q)) + IF Head(q) \in L!LineEnd THEN 1 ELSE 0
<1>1. PICK h, t : h = Head(q) /\ t = Tail(q)
  OBVIOUS
<1>2. h \in Chars /\ t \in Seq(Chars) /\ q = Cons(h, t)
  BY <1>1, Split
<1>3. Count(Cons(h, t), L!LineEnd) = Count(t, L!LineEnd) + IF h \in L!LineEnd THEN 1 ELSE 0
  BY <1>2, CountCons
<1>4. QED
  BY <1>1, <1>2, <1>3 DEF Ends

\* A copy_to_cooked that goes on, and leaves what flows alone.
LEMMA CooksOn ==
  ASSUME Orderly, NEW h \in Call, NEW t \in Seq(Call), Runs(h, t), h.at \in L!Cooking,
         NEW g \in Call, g.at \in L!Cooking, Put(Cons(g, t)),
         g.at = "unput" => g.c \notin L!LineEnd,
         UNCHANGED <<running, console, cooked, write_q, transmit, asleep>>,
         read_q' \in Seq(Chars), secondary' \in Seq(Chars), data' \in Int,
         Counted(data', secondary', Cons(g, t))
  PROVE  Orderly'
<1>1. g.at \notin Base
  BY DEF L!Cooking, Base
<1>2. Queues'
  BY DEF Orderly, Queues
<1>3. Flows(write_q', transmit', asleep', Cons(g, t))
  <2>1. Alike(Cons(g, t), Cons(h, t))
    BY BothCook
  <2>2. Flows(write_q, transmit, asleep, Cons(h, t))
    BY DEF Orderly, Runs
  <2>3. Flows(write_q, transmit, asleep, Cons(g, t))
    BY <2>1, <2>2, FlowsAlike
  <2>4. QED
    BY <2>3
<1>4. running' = running /\ console' = console
  OBVIOUS
<1>5. QED
  BY <1>1, <1>2, <1>3, <1>4, Turns
-------------------------------------------------------------------------------
(* The interrupts. *)

LEMMA StacksOn ==
  ASSUME Orderly
  PROVE  /\ stack[running] \in Seq(Call) /\ running \in Task \cup {Idle}
         /\ stack \in [Task \cup {Idle} -> Seq(Call)] /\ Stacked(stack[running])
         /\ Waits(asleep, secondary, stack[running])
         /\ Flows(write_q, transmit, asleep, stack[running])
         /\ Counted(data, secondary, stack[running])
BY DEF Orderly, Stacks

\* Nothing changes on the stack that runs.
LEMMA Beside ==
  ASSUME Orderly, UNCHANGED <<console, running, stack>>, Queues',
         Waits(asleep', secondary', stack[running]),
         Flows(write_q', transmit', asleep', stack[running]),
         Counted(data', secondary', stack[running])
  PROVE  Orderly'
<1>1. PICK X : X = stack[running]
  OBVIOUS
<1>2. Leaves(X)
  BY <1>1, StacksOn DEF Leaves
<1>3. QED
  BY <1>1, <1>2, GoesOn

LEMMA FrameType ==
  ASSUME NEW l \in Places
  PROVE  L!Frame(l) \in Call /\ L!Frame(l).at = l /\ L!Frame(l).c = "" /\ L!Frame(l).nr = 0
BY DEF L!Frame, Call, Chars

LEMMA ArrivesKeeps ==
  ASSUME Orderly, NEW c \in Chars, L!Arrives(c)
  PROVE  Orderly'
<1>1. /\ read_q' = (IF L!Left(read_q) > 0 THEN Append(read_q, c) ELSE read_q)
      /\ stack' = (IF L!Left(read_q) > 0 \/ console
                   THEN [stack EXCEPT ![running] = <<L!Frame("cook")>> \o stack[running]]
                   ELSE stack)
      /\ UNCHANGED <<write_q, secondary, data, console, cooked, asleep, transmit, running>>
  BY StacksOn DEF L!Arrives
<1>2. read_q' \in Seq(Chars)
  BY <1>1, AppendProperties DEF Orderly, Queues
<1>3. Queues'
  BY <1>1, <1>2 DEF Orderly, Queues
<1>4. CASE L!Left(read_q) > 0 \/ console
  <2>1. PICK s, g : s = stack[running] /\ g = L!Frame("cook")
    OBVIOUS
  <2>2. s \in Seq(Call) /\ g \in Call /\ g.at = "cook" /\ g.at \in L!Cooking /\ g.at \notin Base
    BY <2>1, FrameType, StacksOn DEF Places, L!Cooking, Base
  <2>3. PICK X : X = Cons(g, s)
    OBVIOUS
  <2>4. IsCons(Call, X, g, s)
    BY <2>2, <2>3, ConsIs
  <2>5. stack' = [stack EXCEPT ![running] = X]
    BY <1>1, <1>4, <2>1, <2>3 DEF Cons
  <2>6. Stacked(X)
    <3>1. Stacked(s)
      BY <2>1, StacksOn
    <3>2. QED
      BY <2>2, <2>3, <3>1, StackedCons
  <2>7. Has(X, Base) => Has(s, Base)
    <3>1. Has(X, Base) <=> g.at \in Base \/ Has(s, Base)
      BY <2>2, <2>3, HasCons
    <3>2. QED
      BY <2>2, <3>1
  <2>8. Leaves(X)
    BY <1>1, <2>1, <2>4, <2>5, <2>6, <2>7 DEF Leaves, IsCons
  <2>9. Alike(X, s) /\ Has(X, L!Cooking)
    BY <2>2, <2>3, CookingIsAlike
  <2>10. Waits(asleep', secondary', X)
    BY <2>9 DEF Waits
  <2>11. Flows(write_q', transmit', asleep', X)
    <3>1. Flows(write_q, transmit, asleep, s)
      BY <2>1, StacksOn
    <3>2. Flows(write_q, transmit, asleep, X)
      BY <2>9, <3>1, FlowsAlike
    <3>3. QED
      BY <1>1, <3>2
  <2>12. Counted(data', secondary', X)
    <3>1. Counted(data, secondary, s)
      BY <2>1, StacksOn
    <3>2. Count(X, Stores) = Count(s, Stores) + 0 /\ Count(s, Stores) \in Nat
      BY <2>2, <2>3, CountCall
    <3>3. QED
      BY <1>1, <3>1, <3>2 DEF Counted
  <2>13. QED
    BY <1>3, <2>8, <2>10, <2>11, <2>12, GoesOn
<1>5. CASE ~ (L!Left(read_q) > 0 \/ console)
  <2>1. UNCHANGED <<console, running, stack>>
    BY <1>1, <1>5
  <2>2. /\ Waits(asleep', secondary', stack[running])
        /\ Flows(write_q', transmit', asleep', stack[running])
        /\ Counted(data', secondary', stack[running])
    BY <1>1, StacksOn
  <2>3. QED
    BY <1>3, <2>1, <2>2, Beside
<1>6. QED
  BY <1>4, <1>5

LEMMA write_charKeeps ==
  ASSUME Orderly, L!write_char
  PROVE  Orderly'
<1>1. PICK n : n = Len(write_q)
  OBVIOUS
<1>2. /\ transmit
      /\ write_q' = (IF write_q = <<>> THEN write_q ELSE Tail(write_q))
      /\ asleep' = (IF n <= startup THEN [asleep EXCEPT !["write"] = {}] ELSE asleep)
      /\ transmit' = (n > 1)
      /\ UNCHANGED <<read_q, secondary, data, console, cooked, running, stack>>
  BY <1>1 DEF L!write_char, L!Taken, L!Empty, L!Wake, L!line
<1>3. ~ console /\ write_q \in Seq(Echoes) /\ asleep \in [{"write", "secondary"} -> SUBSET Task]
  BY <1>2 DEF Orderly, Queues
<1>4. n \in Nat
  BY <1>1, <1>3, LenProperties
<1>5. write_q' \in Seq(Echoes) /\ (write_q' # <<>> => n > 1)
  <2>1. CASE write_q = <<>>
    BY <1>2, <1>3, <2>1
  <2>2. CASE write_q # <<>>
    <3>1. Tail(write_q) \in Seq(Echoes) /\ Len(Tail(write_q)) = n - 1
      BY <1>1, <1>3, <2>2, HeadTailProperties
    <3>2. PICK w : w = Tail(write_q)
      OBVIOUS
    <3>3. w # <<>> => Len(w) # 0
      BY <3>1, <3>2, EmptySeq
    <3>4. n # 0
      BY <1>1, <1>3, <2>2, EmptySeq
    <3>5. QED
      BY <1>2, <1>4, <2>2, <3>1, <3>2, <3>3, <3>4
  <2>3. QED
    BY <2>1, <2>2
<1>6. /\ asleep' \in [{"write", "secondary"} -> SUBSET Task]
      /\ asleep'["secondary"] = asleep["secondary"]
      /\ asleep'["write"] # {} => n > startup
  BY <1>2, <1>3, <1>4
<1>7. Queues'
  BY <1>2, <1>3, <1>5, <1>6 DEF Orderly, Queues
<1>8. Waits(asleep', secondary', stack[running]) /\ Counted(data', secondary', stack[running])
  <2>1. Waits(asleep, secondary, stack[running]) /\ Counted(data, secondary, stack[running])
    BY StacksOn
  <2>2. secondary' = secondary /\ data' = data
    BY <1>2
  <2>3. Waits(asleep', secondary', stack[running])
    BY <1>6, <2>1, <2>2 DEF Waits
  <2>4. Counted(data', secondary', stack[running])
    BY <2>1, <2>2 DEF Counted
  <2>5. QED
    BY <2>3, <2>4
<1>9. Flows(write_q', transmit', asleep', stack[running])
  <2>1. asleep'["write"] # {} => transmit'
    <3>1. asleep'["write"] # {} => n > 1
      BY <1>4, <1>6, LineAssumption
    <3>2. n > 1 => transmit'
      BY <1>2
    <3>3. QED
      BY <3>1, <3>2
  <2>2. write_q' # <<>> => transmit'
    BY <1>2, <1>5
  <2>3. QED
    BY <1>3, <2>1, <2>2 DEF Flows
<1>10. QED
  BY <1>2, <1>7, <1>8, <1>9, Beside
-------------------------------------------------------------------------------
(* copy_to_cooked and con_write. *)

\* The call that runs returns to the one beneath it.
LEMMA Pops ==
  ASSUME Orderly, NEW h \in Call, NEW t \in Seq(Call), Runs(h, t), h \notin Stores, Put(t),
         UNCHANGED <<console, cooked, running, read_q, write_q, secondary, data, transmit>>,
         asleep' \in [{"write", "secondary"} -> SUBSET Task],
         asleep'["write"] = asleep["write"],
         Waits(asleep', secondary, t), Flows(write_q, transmit, asleep, t)
  PROVE  Orderly'
<1>1. /\ stack[running] = Cons(h, t) /\ Stacked(t)
  BY DEF Runs
<1>2. Has(Cons(h, t), Base) <=> h.at \in Base \/ Has(t, Base)
  BY HasCons
<1>3. Leaves(t)
  BY <1>1, <1>2 DEF Leaves, Put
<1>4. Queues'
  BY DEF Orderly, Queues
<1>5. Flows(write_q', transmit', asleep', t) /\ Waits(asleep', secondary', t)
  BY DEF Flows
<1>6. Counted(data', secondary', t)
  <2>1. Counted(data, secondary, Cons(h, t))
    BY <1>1, StacksOn
  <2>2. Count(Cons(h, t), Stores) = Count(t, Stores) + IF h \in Stores THEN 1 ELSE 0
    BY CountCons
  <2>3. Count(t, Stores) \in Nat
    BY CountType
  <2>4. Count(Cons(h, t), Stores) = Count(t, Stores)
    BY <2>2, <2>3
  <2>5. QED
    BY <2>1, <2>4 DEF Counted
<1>7. QED
  BY <1>3, <1>4, <1>5, <1>6, GoesOn

LEMMA cookKeeps ==
  ASSUME Orderly, L!cook
  PROVE  Orderly'
<1>1. PICK h \in Call, t \in Seq(Call) : Runs(h, t) /\ h.at = "cook"
  BY AtIs DEF L!cook
<1>2. /\ UNCHANGED <<read_q, write_q, secondary, data, console, cooked, transmit, running>>
      /\ \/ asleep' = [asleep EXCEPT !["secondary"] = {}] /\ Put(Tail(stack[running]))
         \/ asleep' = asleep /\ L!Goto("got")
  BY <1>1 DEF L!cook, L!queues, L!line, L!Wake, Put, Runs
<1>3. h.at \in L!Cooking /\ h \notin Stores
  BY <1>1 DEF L!Cooking, Stores
<1>4. CASE asleep' = [asleep EXCEPT !["secondary"] = {}] /\ Put(Tail(stack[running]))
  <2>1. Put(t)
    BY <1>1, <1>4 DEF Runs
  <2>2. /\ asleep' \in [{"write", "secondary"} -> SUBSET Task]
        /\ asleep'["write"] = asleep["write"] /\ asleep'["secondary"] = {}
    BY <1>4 DEF Orderly, Queues
  <2>3. Flows(write_q, transmit, asleep, t)
    <3>1. Flows(write_q, transmit, asleep, Cons(h, t))
      BY <1>1, StacksOn DEF Runs
    <3>2. Alike(t, Cons(h, t))
      BY <1>3, CookingIsAlike
    <3>3. QED
      BY <3>1, <3>2, FlowsAlike
  <2>4. Waits(asleep', secondary, t)
    BY <2>2 DEF Waits
  <2>5. QED
    BY <1>1, <1>2, <1>3, <2>1, <2>2, <2>3, <2>4, Pops
<1>5. CASE asleep' = asleep /\ L!Goto("got")
  <2>1. PICK g \in Call : g.at = "got" /\ g.c = h.c /\ g.nr = h.nr /\ Put(Cons(g, t))
    BY <1>1, <1>5, Goes DEF Places, L!Cooking
  <2>2. Counted(data', secondary', Cons(g, t))
    <3>1. Counted(data, secondary, Cons(h, t))
      BY <1>1, StacksOn DEF Runs
    <3>2. Count(Cons(g, t), Stores) = Count(Cons(h, t), Stores)
      BY <1>1, <2>1, CountCall
    <3>3. QED
      BY <1>2, <3>1, <3>2 DEF Counted
  <2>3. g.at \in L!Cooking /\ (g.at = "unput" => g.c \notin L!LineEnd)
    BY <2>1 DEF L!Cooking
  <2>4. UNCHANGED <<running, console, cooked, write_q, transmit, asleep>>
    BY <1>2, <1>5
  <2>5. read_q' \in Seq(Chars) /\ secondary' \in Seq(Chars) /\ data' \in Int
    BY <1>2 DEF Orderly, Queues
  <2>6. QED
    BY <1>1, <1>3, <2>1, <2>2, <2>3, <2>4, <2>5, CooksOn
<1>6. QED
  BY <1>2, <1>4, <1>5

LEMMA storeKeeps ==
  ASSUME Orderly, L!store
  PROVE  Orderly'
<1>1. PICK h \in Call, t \in Seq(Call) : Runs(h, t) /\ h.at = "store"
  BY AtIs DEF L!store
<1>2. /\ secondary' = Append(secondary, h.c) /\ L!Becomes(<<L!Frame("cook")>>)
      /\ UNCHANGED <<running, console, cooked, read_q, write_q, data, transmit, asleep>>
  BY <1>1 DEF L!store, L!line, Runs
<1>3. PICK g : g = L!Frame("cook")
  OBVIOUS
<1>4. g \in Call /\ g.at = "cook" /\ g.at \in L!Cooking /\ h.at \in L!Cooking
  BY <1>1, <1>3, FrameType DEF Places, L!Cooking
<1>5. Put(Cons(g, t))
  BY <1>1, <1>2, <1>3, BecomesOne
<1>6. secondary \in Seq(Chars) /\ h.c \in Chars /\ read_q \in Seq(Chars) /\ data \in Int
  BY DEF Orderly, Queues, Call
<1>7. PICK q : q = Append(secondary, h.c)
  OBVIOUS
<1>8. q \in Seq(Chars) /\ Ends(q) = Ends(secondary) + IF h.c \in L!LineEnd THEN 1 ELSE 0
  BY <1>6, <1>7, EndsAppend
<1>9. Counted(data', secondary', Cons(g, t))
  <2>1. Counted(data, secondary, Cons(h, t))
    BY <1>1, StacksOn DEF Runs
  <2>2. /\ Count(t, Stores) \in Nat /\ Count(Cons(g, t), Stores) = Count(t, Stores) + 0
        /\ Count(Cons(h, t), Stores) = Count(t, Stores) + IF h.c \in L!LineEnd THEN 1 ELSE 0
    BY <1>1, <1>4, CountCall
  <2>3. Ends(secondary) \in Nat
    BY <1>6, EndsType
  <2>4. data = Ends(q) + Count(Cons(g, t), Stores)
    BY <1>8, <2>1, <2>2, <2>3 DEF Counted
  <2>5. QED
    BY <1>2, <1>7, <2>4 DEF Counted
<1>10. /\ g.at = "unput" => g.c \notin L!LineEnd
       /\ read_q' \in Seq(Chars) /\ secondary' \in Seq(Chars) /\ data' \in Int
  BY <1>2, <1>4, <1>6, <1>7, <1>8
<1>11. UNCHANGED <<running, console, cooked, write_q, transmit, asleep>>
  BY <1>2
<1>12. QED
  BY <1>1, <1>4, <1>5, <1>9, <1>10, <1>11, CooksOn

LEMMA unputKeeps ==
  ASSUME Orderly, L!unput, ~ slip'
  PROVE  Orderly'
<1>1. PICK h \in Call, t \in Seq(Call) : Runs(h, t) /\ h.at = "unput"
  BY AtIs DEF L!unput
<1>2. /\ secondary # <<>> /\ Last(secondary) = h.c /\ secondary' = Front(secondary)
      /\ L!Becomes(<<L!Frame("cook")>>)
      /\ UNCHANGED <<running, console, cooked, read_q, write_q, data, transmit, asleep>>
  <2>1. /\ slip' = (L!Empty(secondary) \/ L!Last(secondary) # L!Top.c)
        /\ secondary' = L!Erased(secondary) /\ L!Becomes(<<L!Frame("cook")>>)
        /\ UNCHANGED <<running, console, cooked, read_q, write_q, data, transmit, asleep>>
    BY DEF L!unput, L!line
  <2>2. ~ L!Empty(secondary) /\ L!Last(secondary) = L!Top.c
    BY <2>1
  <2>3. QED
    BY <1>1, <2>1, <2>2, LastIs DEF L!Erased, L!Empty, Runs
<1>3. PICK g : g = L!Frame("cook")
  OBVIOUS
<1>4. g \in Call /\ g.at = "cook" /\ g.at \in L!Cooking /\ h.at \in L!Cooking
  BY <1>1, <1>3, FrameType DEF Places, L!Cooking
<1>5. Put(Cons(g, t))
  BY <1>1, <1>2, <1>3, BecomesOne
<1>6. /\ secondary \in Seq(Chars) /\ read_q \in Seq(Chars) /\ data \in Int
      /\ h.c \notin L!LineEnd
  BY <1>1 DEF Orderly, Queues, Runs
<1>7. PICK q : q = Front(secondary)
  OBVIOUS
<1>8. q \in Seq(Chars) /\ Ends(secondary) = Ends(q) + IF h.c \in L!LineEnd THEN 1 ELSE 0
  BY <1>2, <1>6, <1>7, EndsFront
<1>9. Counted(data', secondary', Cons(g, t))
  <2>1. Counted(data, secondary, Cons(h, t))
    BY <1>1, StacksOn DEF Runs
  <2>2. Count(Cons(g, t), Stores) = Count(Cons(h, t), Stores)
    BY <1>1, <1>4, CountCall
  <2>3. Ends(q) \in Nat
    BY <1>8, EndsType
  <2>4. data = Ends(q) + Count(Cons(g, t), Stores)
    BY <1>6, <1>8, <2>1, <2>2, <2>3 DEF Counted
  <2>5. QED
    BY <1>2, <1>7, <2>4 DEF Counted
<1>10. /\ g.at = "unput" => g.c \notin L!LineEnd
       /\ read_q' \in Seq(Chars) /\ secondary' \in Seq(Chars) /\ data' \in Int
  BY <1>2, <1>4, <1>6, <1>7, <1>8
<1>11. UNCHANGED <<running, console, cooked, write_q, transmit, asleep>>
  BY <1>2
<1>12. QED
  BY <1>1, <1>4, <1>5, <1>9, <1>10, <1>11, CooksOn

LEMMA con_writeKeeps ==
  ASSUME Orderly, L!con_write, ~ slip'
  PROVE  Orderly'
<1>1. PICK h \in Call, t \in Seq(Call) : Runs(h, t) /\ h.at = "con_write"
  BY AtIs DEF L!con_write
<1>2. UNCHANGED <<running, console, cooked, read_q, secondary, data, transmit, asleep>>
  BY DEF L!con_write, L!line
<1>3. /\ h.nr > 0 => /\ write_q # <<>> /\ write_q' = Tail(write_q)
                     /\ L!Becomes(<<[h EXCEPT !.nr = h.nr - 1]>>)
      /\ ~ (h.nr > 0) => write_q' = write_q /\ Put(t)
  BY <1>1 DEF L!con_write, L!Taken, L!Empty, Put, Runs
<1>4. /\ write_q \in Seq(Echoes) /\ Flows(write_q, transmit, asleep, Cons(h, t))
      /\ Waits(asleep, secondary, Cons(h, t)) /\ Counted(data, secondary, Cons(h, t))
      /\ asleep \in [{"write", "secondary"} -> SUBSET Task]
  BY <1>1, StacksOn DEF Orderly, Queues, Runs
<1>5. Has(Cons(h, t), L!Cooking) <=> Has(t, L!Cooking)
  <2>1. Has(Cons(h, t), L!Cooking) <=> h.at \in L!Cooking \/ Has(t, L!Cooking)
    BY HasCons
  <2>2. QED
    BY <1>1, <2>1 DEF L!Cooking
<1>6. Has(Cons(h, t), Filling) <=> Has(t, Filling)
  <2>1. Has(Cons(h, t), Filling) <=> h.at \in Filling \/ Has(t, Filling)
    BY HasCons
  <2>2. QED
    BY <1>1, <2>1 DEF Filling
<1>7. console /\ write_q # <<>> => h.nr = Len(write_q)
  <2>1. Has(Cons(h, t), {"con_write"}) <=> h.at \in {"con_write"} \/ Has(t, {"con_write"})
    BY HasCons
  <2>2. PICK n : n = Len(write_q)
    OBVIOUS
  <2>3. Writing(Cons(h, t), n) <=> IF h.at = "con_write" THEN h.nr = n ELSE Writing(t, n)
    BY WritingCons
  <2>4. QED
    BY <1>1, <1>4, <2>1, <2>2, <2>3 DEF Flows
<1>8. CASE h.nr > 0
  <2>1. PICK g : g = [h EXCEPT !.nr = h.nr - 1]
    OBVIOUS
  <2>2. g \in Call /\ g.at = "con_write" /\ g.nr = h.nr - 1
    <3>1. h.nr - 1 \in Int
      BY DEF Call
    <3>2. h.at = "con_write"
      BY <1>1
    <3>3. QED
      BY ONLY h \in Call, <2>1, <3>1, <3>2 DEF Call
  <2>3. Put(Cons(g, t))
    BY <1>1, <1>3, <1>8, <2>1, BecomesOne
  <2>4. PICK w : w = Tail(write_q)
    OBVIOUS
  <2>5. w \in Seq(Echoes) /\ Len(w) = Len(write_q) - 1
    BY <1>3, <1>4, <1>8, <2>4, HeadTailProperties
  <2>6. Flows(w, transmit, asleep, Cons(g, t))
    <3>1. Has(Cons(g, t), Filling) <=> g.at \in Filling \/ Has(t, Filling)
      BY <2>2, HasCons
    <3>2. PICK n : n = Len(w)
      OBVIOUS
    <3>3. Writing(Cons(g, t), n) <=> IF g.at = "con_write" THEN g.nr = n ELSE Writing(t, n)
      BY <2>2, WritingCons
    <3>4. console => Writing(Cons(g, t), Len(w))
      BY <1>3, <1>7, <1>8, <2>2, <2>5, <3>2, <3>3
    <3>5. Has(t, Filling) => Has(Cons(g, t), Filling)
      BY <3>1
    <3>6. ~ console => transmit \/ Has(Cons(g, t), Filling)
      BY <1>3, <1>4, <1>6, <1>8, <3>5 DEF Flows
    <3>7. asleep["write"] # {} => transmit /\ ~ console
      BY <1>4 DEF Flows
    <3>8. QED
      BY <3>4, <3>6, <3>7 DEF Flows
  <2>7. Counted(data, secondary, Cons(g, t))
    <3>1. Count(Cons(g, t), Stores) = Count(Cons(h, t), Stores)
      BY <1>1, <2>2, CountCall
    <3>2. QED
      BY <1>4, <3>1 DEF Counted
  <2>8. /\ Flows(write_q', transmit', asleep', Cons(g, t))
        /\ Counted(data', secondary', Cons(g, t))
        /\ running' = running /\ console' = console
    BY <1>2, <1>3, <1>8, <2>4, <2>6, <2>7
  <2>9. asleep'["secondary"] # {} => secondary' = <<>> \/ Has(t, L!Cooking)
    BY <1>2, <1>4, <1>5 DEF Waits
  <2>10. Queues'
    BY <1>2, <1>3, <1>8, <2>4, <2>5 DEF Orderly, Queues
  <2>11. g.at \notin Base /\ g.at # "unput"
    BY <2>2 DEF Base
  <2>12. QED
    BY <1>1, <2>2, <2>3, <2>8, <2>9, <2>10, <2>11, Turns
<1>9. CASE ~ (h.nr > 0)
  <2>1. h \notin Stores
    BY <1>1 DEF Stores
  <2>2. Waits(asleep', secondary, t)
    BY <1>2, <1>4, <1>5 DEF Waits
  <2>3. Flows(write_q, transmit, asleep, t)
    <3>1. write_q # <<>> => Len(write_q) \in Nat \ {0}
      BY <1>4, EmptySeq, LenProperties
    <3>2. console => write_q = <<>>
      BY <1>7, <1>9, <3>1
    <3>3. QED
      BY <1>4, <1>6, <3>2 DEF Flows
  <2>4. QED
    BY <1>1, <1>2, <1>3, <1>4, <1>9, <2>1, <2>2, <2>3, Pops
<1>10. QED
  BY <1>8, <1>9
LEMMA WithNr ==
  ASSUME NEW n \in Int, NEW g, g = [L!Frame("con_write") EXCEPT !.nr = n]
  PROVE  g \in Call /\ g.at = "con_write" /\ g.nr = n
<1>1. PICK f : f = L!Frame("con_write")
  OBVIOUS
<1>2. f \in Call /\ f.at = "con_write"
  BY <1>1, FrameType DEF Places
<1>3. g = [f EXCEPT !.nr = n]
  BY <1>1
<1>4. QED
  BY <1>2, <1>3 DEF Call

With(label, c) == [L!Frame(label) EXCEPT !.c = c]

LEMMA WithC ==
  ASSUME NEW label \in Places, NEW c \in Chars, NEW g, g = With(label, c)
  PROVE  g \in Call /\ g.at = label /\ g.c = c
<1>1. PICK f : f = L!Frame(label)
  OBVIOUS
<1>2. f \in Call /\ f.at = label
  BY <1>1, FrameType
<1>3. g = [f EXCEPT !.c = c]
  BY <1>1 DEF With
<1>4. QED
  BY <1>2, <1>3 DEF Call

\* tty->write(tty), with q in write_q: afterwards the call is `back'.
LEMMA StartsWriting ==
  ASSUME Orderly, NEW h \in Call, NEW t \in Seq(Call), Runs(h, t),
         NEW q \in Seq(Echoes), NEW back \in Call, L!StartWrite(q, back), write_q' = q,
         UNCHANGED <<running, console, cooked, asleep>>,
         back.at \in Base => h.at \in Base, back.at = "unput" => back.c \notin L!LineEnd,
         read_q' \in Seq(Chars), secondary' \in Seq(Chars), data' \in Int,
         asleep["secondary"] # {} =>
           secondary' = <<>> \/ back.at \in L!Cooking \/ Has(t, L!Cooking),
         Counted(data', secondary', Cons(back, t))
  PROVE  Orderly'
<1>1. /\ console \in BOOLEAN /\ transmit \in BOOLEAN /\ (console => ~ transmit)
      /\ asleep["write"] # {} => transmit /\ ~ console
  BY StacksOn DEF Orderly, Queues, Flows
<1>2. CASE console
  <2>1. PICK g : g = [L!Frame("con_write") EXCEPT !.nr = Len(q)]
    OBVIOUS
  <2>2. /\ g \in Call /\ g.at = "con_write" /\ g.nr = Len(q)
        /\ L!Becomes(<<g, back>>) /\ transmit' = transmit
    <3>1. PICK n : n = Len(q)
      OBVIOUS
    <3>2. n \in Int
      BY <3>1, LenProperties
    <3>3. g \in Call /\ g.at = "con_write" /\ g.nr = Len(q)
      BY <2>1, <3>1, <3>2, WithNr
    <3>4. QED
      BY <1>2, <2>1, <3>3 DEF L!StartWrite
  <2>3. PICK Y : Y = Cons(back, t)
    OBVIOUS
  <2>4. IsCons(Call, Y, back, t)
    BY <2>3, ConsIs
  <2>5. Y \in Seq(Call)
    BY <2>4 DEF IsCons
  <2>6. PICK X : X = Cons(g, Y)
    OBVIOUS
  <2>7. IsCons(Call, X, g, Y)
    BY <2>2, <2>5, <2>6, ConsIs
  <2>8. Put(X)
    BY <2>2, <2>3, <2>6, BecomesTwo
  <2>9. Stacked(X)
    <3>1. Stacked(t) /\ (back.at \in Base => t = <<>>)
      BY DEF Runs
    <3>2. Stacked(Y)
      BY <2>3, <3>1, StackedCons
    <3>3. g.at \notin Base /\ g.at # "unput"
      BY <2>2 DEF Base
    <3>4. QED
      BY <2>2, <2>5, <2>6, <3>2, <3>3, StackedCons
  <2>10. Has(X, Base) => Has(stack[running], Base)
    <3>1. Has(X, Base) <=> g.at \in Base \/ Has(Y, Base)
      BY <2>2, <2>5, <2>6, HasCons
    <3>2. Has(Y, Base) <=> back.at \in Base \/ Has(t, Base)
      BY <2>3, HasCons
    <3>3. Has(Cons(h, t), Base) <=> h.at \in Base \/ Has(t, Base)
      BY HasCons
    <3>4. g.at \notin Base
      BY <2>2 DEF Base
    <3>5. QED
      BY <3>1, <3>2, <3>3, <3>4 DEF Runs
  <2>11. Leaves(X)
    BY <2>7, <2>8, <2>9, <2>10 DEF Leaves, Put, IsCons
  <2>12. Queues'
    BY <2>2 DEF Orderly, Queues
  <2>13. Waits(asleep', secondary', X)
    <3>1. Has(X, L!Cooking) <=> g.at \in L!Cooking \/ Has(Y, L!Cooking)
      BY <2>2, <2>5, <2>6, HasCons
    <3>2. Has(Y, L!Cooking) <=> back.at \in L!Cooking \/ Has(t, L!Cooking)
      BY <2>3, HasCons
    <3>3. QED
      BY <3>1, <3>2 DEF Waits
  <2>14. Flows(write_q', transmit', asleep', X)
    <3>1. PICK n : n = Len(q)
      OBVIOUS
    <3>2. Writing(X, n) <=> IF g.at = "con_write" THEN g.nr = n ELSE Writing(Y, n)
      BY <2>2, <2>5, <2>6, WritingCons
    <3>3. Writing(X, Len(q))
      BY <2>2, <3>1, <3>2
    <3>4. QED
      BY <1>1, <1>2, <3>3 DEF Flows
  <2>15. Counted(data', secondary', X)
    <3>1. Count(X, Stores) = Count(Y, Stores) + 0 /\ Count(Y, Stores) \in Nat
      <4>1. Count(Y, Stores) \in Nat
        BY <2>5, CountType
      <4>2. QED
        BY <2>2, <2>5, <2>6, <4>1, CountCall
    <3>2. QED
      BY <2>3, <3>1 DEF Counted
  <2>16. QED
    BY <2>11, <2>12, <2>13, <2>14, <2>15, GoesOn
<1>3. CASE ~ console
  <2>1. transmit' = (transmit \/ ~ L!Empty(q)) /\ L!Becomes(<<back>>)
    BY <1>3 DEF L!StartWrite
  <2>2. Put(Cons(back, t))
    BY <2>1, BecomesOne
  <2>3. transmit' \in BOOLEAN /\ (transmit => transmit') /\ (q # <<>> => transmit')
    BY <2>1 DEF L!Empty
  <2>4. Queues'
    BY <1>3, <2>3 DEF Orderly, Queues
  <2>5. Flows(write_q', transmit', asleep', Cons(back, t))
    BY <1>1, <1>3, <2>3 DEF Flows
  <2>6. running' = running /\ console' = console /\ asleep' = asleep
    OBVIOUS
  <2>7. QED
    BY <2>2, <2>4, <2>5, <2>6, Turns
<1>4. QED
  BY <1>1, <1>2, <1>3

LEMMA EchoType ==
  ASSUME NEW c \in Chars
  PROVE  L!Echo(c) \in Seq(Echoes)
<1>1. <<"NL", "CR">> \in Seq(Echoes) /\ <<"^", "D">> \in Seq(Echoes) /\ <<c>> \in Seq(Echoes)
  <2>1. /\ "NL" \in Echoes /\ "CR" \in Echoes /\ "^" \in Echoes /\ "D" \in Echoes
        /\ c \in Echoes
    BY DEF Echoes, Chars
  <2>2. QED
    BY <2>1
<1>2. QED
  BY <1>1 DEF L!Echo

\* A character leaves read_q, and goes on to `label' with or without an echo.
LEMMA EchoedKeeps ==
  ASSUME Orderly, NEW h \in Call, NEW t \in Seq(Call), Runs(h, t), h.at = "got",
         NEW c \in Chars, NEW s \in Seq(Echoes), NEW label \in {"store", "unput"},
         L!Echoed(c, s, label), label = "unput" => c \notin L!LineEnd,
         UNCHANGED <<running, console, cooked, asleep, secondary>>, read_q' \in Seq(Chars),
         data' = IF label = "store" /\ c \in L!LineEnd THEN data + 1 ELSE data
  PROVE  Orderly'
<1>1. PICK back : back = [L!Frame(label) EXCEPT !.c = c]
  OBVIOUS
<1>2. back \in Call /\ back.at = label /\ back.c = c
  <2>1. label \in Places
    BY DEF Places, L!Cooking
  <2>2. back = With(label, c)
    BY <1>1 DEF With
  <2>3. QED
    BY <2>1, <2>2, WithC
<1>3. back.at \in L!Cooking /\ h.at \in L!Cooking /\ back.at \notin Base
  BY <1>2 DEF L!Cooking, Base
<1>4. secondary \in Seq(Chars) /\ data \in Int /\ write_q \in Seq(Echoes)
  BY DEF Orderly, Queues
<1>5. data' \in Int /\ Counted(data', secondary', Cons(back, t))
  <2>1. Counted(data, secondary, Cons(h, t))
    BY StacksOn DEF Runs
  <2>2. /\ Count(t, Stores) \in Nat /\ Count(Cons(h, t), Stores) = Count(t, Stores) + 0
        /\ Count(Cons(back, t), Stores)
             = Count(t, Stores) + IF label = "store" /\ c \in L!LineEnd THEN 1 ELSE 0
    BY <1>2, CountCall
  <2>3. Ends(secondary) \in Nat
    BY <1>4, EndsType
  <2>4. data' \in Int /\ data' = Ends(secondary) + Count(Cons(back, t), Stores)
    BY <1>4, <2>1, <2>2, <2>3 DEF Counted
  <2>5. QED
    BY <2>4 DEF Counted
<1>6. CASE cooked
  <2>1. write_q' = write_q \o s /\ L!StartWrite(write_q \o s, back)
    BY <1>1, <1>6 DEF L!Echoed
  <2>2. PICK q : q = write_q \o s
    OBVIOUS
  <2>3. q \in Seq(Echoes)
    BY <1>4, <2>2, ConcatProperties
  <2>4. L!StartWrite(q, back) /\ write_q' = q
    BY <2>1, <2>2
  <2>5. /\ UNCHANGED <<running, console, cooked, asleep>> /\ secondary' \in Seq(Chars)
        /\ back.at = "unput" => back.c \notin L!LineEnd
    BY <1>2, <1>4
  <2>6. QED
    BY <1>2, <1>3, <1>5, <2>3, <2>4, <2>5, StartsWriting
<1>7. CASE ~ cooked
  <2>1. L!Becomes(<<back>>) /\ UNCHANGED <<write_q, transmit>>
    BY <1>1, <1>7 DEF L!Echoed
  <2>2. Put(Cons(back, t))
    BY <1>2, <2>1, BecomesOne
  <2>3. /\ UNCHANGED <<running, console, cooked, write_q, transmit, asleep>>
        /\ secondary' \in Seq(Chars)
        /\ back.at = "unput" => back.c \notin L!LineEnd
    BY <1>2, <1>4, <2>1
  <2>4. QED
    BY <1>2, <1>3, <1>5, <2>2, <2>3, CooksOn
<1>8. QED
  BY <1>6, <1>7

LEMMA gotKeeps ==
  ASSUME Orderly, L!got
  PROVE  Orderly'
<1>1. PICK h \in Call, t \in Seq(Call) : Runs(h, t) /\ h.at = "got"
  BY AtIs DEF L!got
<1>2. PICK c : c = L!First(read_q)
  OBVIOUS
<1>3. read_q \in Seq(Chars) /\ secondary \in Seq(Chars) /\ data \in Int
  BY DEF Orderly, Queues
<1>4. c \in Chars /\ L!Taken(read_q) \in Seq(Chars)
  <2>1. CASE read_q = <<>>
    BY <1>2, <1>3, <2>1 DEF L!First, L!Taken, L!Empty, Chars
  <2>2. CASE read_q # <<>>
    BY <1>2, <1>3, <2>2, EndsTail DEF L!First, L!Taken, L!Empty
  <2>3. QED
    BY <2>1, <2>2
<1>5. /\ read_q' = L!Taken(read_q) /\ UNCHANGED <<secondary, console, cooked, asleep, running>>
      /\ \/ L!Goto("cook") /\ UNCHANGED <<write_q, transmit, data>>
         \/ /\ ~ (L!Empty(secondary) \/ L!Last(secondary) \in L!LineEnd)
            /\ L!Echoed(L!Last(secondary), <<"DEL">>, "unput") /\ data' = data
         \/ /\ data' = IF c \in L!LineEnd THEN data + 1 ELSE data
            /\ L!Echoed(c, L!Echo(c), "store")
  BY <1>2 DEF L!got, L!line
<1>6. CASE L!Goto("cook") /\ UNCHANGED <<write_q, transmit, data>>
  <2>1. PICK g \in Call : g.at = "cook" /\ g.c = h.c /\ g.nr = h.nr /\ Put(Cons(g, t))
    BY <1>1, <1>6, Goes DEF Places, L!Cooking
  <2>2. Counted(data', secondary', Cons(g, t))
    <3>1. Counted(data, secondary, Cons(h, t))
      BY <1>1, StacksOn DEF Runs
    <3>2. Count(Cons(g, t), Stores) = Count(Cons(h, t), Stores)
      BY <1>1, <2>1, CountCall
    <3>3. QED
      BY <1>5, <1>6, <3>1, <3>2 DEF Counted
  <2>3. /\ g.at \in L!Cooking /\ h.at \in L!Cooking
        /\ g.at = "unput" => g.c \notin L!LineEnd
    BY <1>1, <2>1 DEF L!Cooking
  <2>4. UNCHANGED <<running, console, cooked, write_q, transmit, asleep>>
    BY <1>5, <1>6
  <2>5. read_q' \in Seq(Chars) /\ secondary' \in Seq(Chars) /\ data' \in Int
    BY <1>3, <1>4, <1>5, <1>6
  <2>6. QED
    BY <1>1, <2>1, <2>2, <2>3, <2>4, <2>5, CooksOn
<1>7. CASE /\ ~ (L!Empty(secondary) \/ L!Last(secondary) \in L!LineEnd)
           /\ L!Echoed(L!Last(secondary), <<"DEL">>, "unput") /\ data' = data
  <2>1. PICK e : e = L!Last(secondary)
    OBVIOUS
  <2>2. PICK s : s = <<"DEL">>
    OBVIOUS
  <2>3. PICK label : label = "unput"
    OBVIOUS
  <2>4. e \in Chars /\ e \notin L!LineEnd
    BY <1>3, <1>7, <2>1, EndsFront, LastIs DEF L!Empty
  <2>5. s \in Seq(Echoes) /\ label \in {"store", "unput"}
    BY <2>2, <2>3 DEF Echoes, Chars
  <2>6. L!Echoed(e, s, label)
    BY <1>7, <2>1, <2>2, <2>3
  <2>7. /\ UNCHANGED <<running, console, cooked, asleep, secondary>> /\ read_q' \in Seq(Chars)
        /\ data' = IF label = "store" /\ e \in L!LineEnd THEN data + 1 ELSE data
    BY <1>4, <1>5, <1>7, <2>3
  <2>8. QED
    BY <1>1, <2>4, <2>5, <2>6, <2>7, EchoedKeeps
<1>8. CASE /\ data' = IF c \in L!LineEnd THEN data + 1 ELSE data
           /\ L!Echoed(c, L!Echo(c), "store")
  <2>1. PICK s : s = L!Echo(c)
    OBVIOUS
  <2>2. PICK label : label = "store"
    OBVIOUS
  <2>3. s \in Seq(Echoes) /\ label \in {"store", "unput"}
    BY <1>4, <2>1, <2>2, EchoType
  <2>4. L!Echoed(c, s, label)
    BY <1>8, <2>1, <2>2
  <2>5. /\ UNCHANGED <<running, console, cooked, asleep, secondary>> /\ read_q' \in Seq(Chars)
        /\ data' = IF label = "store" /\ c \in L!LineEnd THEN data + 1 ELSE data
        /\ label = "unput" => c \notin L!LineEnd
    BY <1>4, <1>5, <1>8, <2>2
  <2>6. QED
    BY <1>1, <1>4, <2>3, <2>4, <2>5, EchoedKeeps
<1>9. QED
  BY <1>5, <1>6, <1>7, <1>8
-------------------------------------------------------------------------------
(* tty_read and tty_write. *)

LEMMA AtBase ==
  ASSUME Orderly, NEW h \in Call, NEW t \in Seq(Call), Runs(h, t), h.at \in Base
  PROVE  /\ t = <<>> /\ running \in Task /\ stack[Idle] = <<>>
         /\ asleep["secondary"] # {} => secondary = <<>>
         /\ asleep["write"] # {} => transmit /\ ~ console
         /\ h.at \notin Filling => /\ write_q # <<>> => ~ console /\ transmit
         /\ data = Ends(secondary)
         /\ asleep \in [{"write", "secondary"} -> SUBSET Task]
         /\ secondary \in Seq(Chars) /\ data \in Int /\ write_q \in Seq(Echoes)
<1>1. stack[running] = Cons(h, t)
  BY DEF Runs
<1>2. /\ t = <<>> /\ running \in Task /\ stack[Idle] = <<>>
      /\ asleep["secondary"] # {} => secondary = <<>>
      /\ h.at \notin Filling => /\ write_q # <<>> => ~ console /\ transmit
      /\ data = Ends(secondary)
  BY <1>1, InBase
<1>3. asleep["write"] # {} => transmit /\ ~ console
  BY DEF Orderly, Flows
<1>4. QED
  BY <1>2, <1>3 DEF Orderly, Queues

LEMMA StaysUp ==
  ASSUME Orderly, NEW h \in Call, NEW t \in Seq(Call), Runs(h, t), h.at \in Base,
         h.at \notin Filling,
         NEW g \in Call, g.at \in Base, g.at # "unput", g.at # "store", Put(Cons(g, t)),
         UNCHANGED <<running, console, cooked, read_q, write_q, transmit, asleep>>,
         secondary' \in Seq(Chars), data' = Ends(secondary'),
         secondary = <<>> => secondary' = <<>>
  PROVE  Orderly'
<1>1. /\ t = <<>> /\ (asleep["secondary"] # {} => secondary = <<>>)
      /\ asleep["write"] # {} => transmit /\ ~ console
      /\ write_q # <<>> => ~ console /\ transmit
  BY AtBase
<1>2. Queues'
  <2>1. data' \in Int
    BY EndsType
  <2>2. QED
    BY <2>1 DEF Orderly, Queues
<1>3. Flows(write_q', transmit', asleep', Cons(g, t))
  BY <1>1 DEF Flows
<1>4. Counted(data', secondary', Cons(g, t))
  <2>1. Count(Cons(g, t), Stores) = 0
    <3>1. g \notin Stores
      BY DEF Stores
    <3>2. QED
      BY <1>1, <3>1, CountOne
  <2>2. Ends(secondary') \in Nat
    BY EndsType
  <2>3. QED
    BY <2>1, <2>2 DEF Counted
<1>5. asleep'["secondary"] # {} => secondary' = <<>>
  BY <1>1
<1>6. running' = running /\ console' = console
  OBVIOUS
<1>7. QED
  BY <1>2, <1>3, <1>4, <1>5, <1>6, Turns

LEMMA Settles ==
  ASSUME NEW h \in Call, NEW t \in Seq(Call), Runs(h, t), t = <<>>, NEW l \in Rests, L!Goto(l)
  PROVE  \E X : Rested(X) /\ Put(X)
<1>1. PICK g \in Call : g.at = l /\ Put(Cons(g, t))
  BY Goes DEF Places, Base, Rests
<1>2. Rested(Cons(g, t))
  BY <1>1 DEF Rested
<1>3. QED
  BY <1>1, <1>2

LEMMA Returns ==
  ASSUME L!Return
  PROVE  /\ \E X : Rested(X) /\ Put(X)
         /\ running' = Idle
<1>1. Rested(<<>>) /\ Put(<<>>) /\ running' = Idle
  BY DEF Rested, Put, L!Return
<1>2. QED
  BY <1>1

\* A step of a task that gives up the processor and leaves the queues.
LEMMA GoesDown ==
  ASSUME Orderly, NEW h \in Call, NEW t \in Seq(Call), Runs(h, t), h.at \in Base,
         h.at \notin Filling, \E X : Rested(X) /\ Put(X), running' = Idle,
         UNCHANGED <<console, cooked, read_q, write_q, transmit>>,
         secondary' \in Seq(Chars), data' = Ends(secondary'),
         asleep' \in [{"write", "secondary"} -> SUBSET Task],
         asleep'["secondary"] # {} => secondary' = <<>>,
         asleep'["write"] # {} => transmit /\ ~ console
  PROVE  Orderly'
<1>1. PICK X : Rested(X) /\ Put(X)
  OBVIOUS
<1>2. stack[running] = Cons(h, t) /\ h.at \in Base \ Filling
  BY DEF Runs
<1>3. stack' = [stack EXCEPT ![running] = X]
  BY <1>1 DEF Put
<1>4. data' \in Int
  <2>1. Ends(secondary') \in Nat
    BY EndsType
  <2>2. QED
    BY <2>1
<1>5. QED
  BY <1>1, <1>2, <1>3, <1>4, GivesUp

LEMMA tty_readKeeps ==
  ASSUME Orderly, L!tty_read
  PROVE  Orderly'
<1>1. PICK h \in Call, t \in Seq(Call) : Runs(h, t) /\ h.at = "read"
  BY AtIs DEF L!tty_read
<1>2. /\ UNCHANGED <<read_q, write_q, secondary, data, console, cooked, transmit>>
      /\ \/ L!Return /\ asleep' = asleep
         \/ secondary = <<>> /\ L!Sleep(running, "secondary", "read")
         \/ L!Goto("get") /\ UNCHANGED <<asleep, running>>
  BY DEF L!tty_read, L!queues, L!line, L!Empty
<1>3. h.at \in Base /\ h.at \notin Filling
  BY <1>1 DEF Base, Filling
<1>4. /\ t = <<>> /\ running \in Task
      /\ asleep["secondary"] # {} => secondary = <<>>
      /\ asleep["write"] # {} => transmit /\ ~ console
      /\ data = Ends(secondary) /\ secondary \in Seq(Chars)
      /\ asleep \in [{"write", "secondary"} -> SUBSET Task]
  BY <1>1, <1>3, AtBase
<1>5. secondary' \in Seq(Chars) /\ data' = Ends(secondary')
  BY <1>2, <1>4
<1>6. CASE L!Return /\ asleep' = asleep
  BY <1>1, <1>2, <1>3, <1>4, <1>5, <1>6, Returns, GoesDown
<1>7. CASE secondary = <<>> /\ L!Sleep(running, "secondary", "read")
  <2>1. /\ asleep' = [asleep EXCEPT !["secondary"] = asleep["secondary"] \cup {running}]
        /\ running' = Idle /\ L!Goto("read")
    BY <1>4, <1>7 DEF L!Sleep
  <2>2. \E X : Rested(X) /\ Put(X)
    BY <1>1, <1>4, <2>1, Settles DEF Rests
  <2>3. /\ asleep' \in [{"write", "secondary"} -> SUBSET Task]
        /\ asleep'["write"] = asleep["write"] /\ secondary' = <<>>
    BY <1>2, <1>4, <1>7, <2>1
  <2>4. QED
    BY <1>1, <1>2, <1>3, <1>4, <1>5, <2>1, <2>2, <2>3, GoesDown
<1>8. CASE L!Goto("get") /\ UNCHANGED <<asleep, running>>
  <2>1. PICK g \in Call : g.at = "get" /\ Put(Cons(g, t))
    BY <1>1, <1>8, Goes DEF Places, Base
  <2>2. g.at \in Base /\ g.at # "unput" /\ g.at # "store"
    BY <2>1 DEF Base
  <2>3. UNCHANGED <<running, console, cooked, read_q, write_q, transmit, asleep, secondary>>
    BY <1>2, <1>8
  <2>4. QED
    BY <1>1, <1>3, <1>5, <2>1, <2>2, <2>3, StaysUp
<1>9. QED
  BY <1>2, <1>6, <1>7, <1>8

LEMMA read_getKeeps ==
  ASSUME Orderly, L!read_get
  PROVE  Orderly'
<1>1. PICK h \in Call, t \in Seq(Call) : Runs(h, t) /\ h.at = "get"
  BY AtIs DEF L!read_get
<1>2. /\ UNCHANGED <<read_q, write_q, console, cooked, asleep, transmit>>
      /\ secondary' = L!Taken(secondary)
      /\ data' = IF L!First(secondary) \in L!LineEnd THEN data - 1 ELSE data
      /\ \/ L!Return
         \/ /\ L!Becomes(<<[h EXCEPT !.at = "more", !.nr = h.nr - 1]>>)
            /\ running' = running
  BY <1>1 DEF L!read_get, L!line, Runs
<1>3. h.at \in Base /\ h.at \notin Filling
  BY <1>1 DEF Base, Filling
<1>4. /\ t = <<>> /\ running \in Task
      /\ asleep["secondary"] # {} => secondary = <<>>
      /\ asleep["write"] # {} => transmit /\ ~ console
      /\ data = Ends(secondary) /\ secondary \in Seq(Chars) /\ data \in Int
      /\ asleep \in [{"write", "secondary"} -> SUBSET Task]
  BY <1>1, <1>3, AtBase
<1>5. ASSUME secondary = <<>>
      PROVE  secondary' \in Seq(Chars) /\ data' = Ends(secondary')
  <2>1. secondary' = secondary /\ L!First(secondary) = "x"
    BY <1>2, <1>5 DEF L!Taken, L!First, L!Empty
  <2>2. "x" \notin L!LineEnd
    BY DEF L!LineEnd
  <2>3. QED
    BY <1>2, <1>4, <2>1, <2>2
<1>6. ASSUME secondary # <<>>
      PROVE  secondary' \in Seq(Chars) /\ data' = Ends(secondary')
  <2>1. PICK q : q = Tail(secondary)
    OBVIOUS
  <2>2. secondary' = q /\ L!First(secondary) = Head(secondary)
    BY <1>2, <1>6, <2>1 DEF L!Taken, L!First, L!Empty
  <2>3. /\ q \in Seq(Chars)
        /\ Ends(secondary) = Ends(q) + IF Head(secondary) \in L!LineEnd THEN 1 ELSE 0
    BY <1>4, <1>6, <2>1, EndsTail
  <2>4. Ends(q) \in Nat
    BY <2>3, EndsType
  <2>5. data' = Ends(q)
    BY <1>2, <1>4, <2>2, <2>3, <2>4
  <2>6. QED
    BY <2>2, <2>3, <2>5
<1>7. /\ secondary' \in Seq(Chars) /\ data' = Ends(secondary')
      /\ secondary = <<>> => secondary' = <<>>
  <2>1. secondary = <<>> => secondary' = <<>>
    BY <1>2 DEF L!Taken, L!Empty
  <2>2. QED
    BY <1>5, <1>6, <2>1
<1>8. CASE L!Return
  <2>1. asleep'["secondary"] # {} => secondary' = <<>>
    BY <1>2, <1>4, <1>7
  <2>2. QED
    BY <1>1, <1>2, <1>3, <1>4, <1>7, <1>8, <2>1, Returns, GoesDown
<1>9. CASE /\ L!Becomes(<<[h EXCEPT !.at = "more", !.nr = h.nr - 1]>>)
           /\ running' = running
  <2>1. PICK g : g = [h EXCEPT !.at = "more", !.nr = h.nr - 1]
    OBVIOUS
  <2>2. g \in Call /\ g.at = "more"
    <3>1. "more" \in Places /\ h.nr - 1 \in Int
      BY DEF Places, Base, Call
    <3>2. QED
      BY <2>1, <3>1 DEF Call
  <2>3. Put(Cons(g, t))
    BY <1>1, <1>9, <2>1, BecomesOne
  <2>4. g.at \in Base /\ g.at # "unput" /\ g.at # "store"
    BY <2>2 DEF Base
  <2>5. UNCHANGED <<running, console, cooked, read_q, write_q, transmit, asleep>>
    BY <1>2, <1>9
  <2>6. QED
    BY <1>1, <1>3, <1>7, <2>2, <2>3, <2>4, <2>5, StaysUp
<1>10. QED
  BY <1>2, <1>8, <1>9

LEMMA read_moreKeeps ==
  ASSUME Orderly, L!read_more
  PROVE  Orderly'
<1>1. PICK h \in Call, t \in Seq(Call) : Runs(h, t) /\ h.at = "more"
  BY AtIs DEF L!read_more
<1>2. /\ UNCHANGED <<read_q, write_q, secondary, data, console, cooked, asleep, transmit>>
      /\ \/ L!Return
         \/ L!Goto("get") /\ running' = running
  BY DEF L!read_more, L!queues, L!line
<1>3. h.at \in Base /\ h.at \notin Filling
  BY <1>1 DEF Base, Filling
<1>4. /\ t = <<>> /\ running \in Task
      /\ asleep["secondary"] # {} => secondary = <<>>
      /\ asleep["write"] # {} => transmit /\ ~ console
      /\ data = Ends(secondary) /\ secondary \in Seq(Chars)
      /\ asleep \in [{"write", "secondary"} -> SUBSET Task]
  BY <1>1, <1>3, AtBase
<1>5. secondary' \in Seq(Chars) /\ data' = Ends(secondary')
  BY <1>2, <1>4
<1>6. CASE L!Return
  BY <1>1, <1>2, <1>3, <1>4, <1>5, <1>6, Returns, GoesDown
<1>7. CASE L!Goto("get") /\ running' = running
  <2>1. PICK g \in Call : g.at = "get" /\ Put(Cons(g, t))
    BY <1>1, <1>7, Goes DEF Places, Base
  <2>2. g.at \in Base /\ g.at # "unput" /\ g.at # "store"
    BY <2>1 DEF Base
  <2>3. UNCHANGED <<running, console, cooked, read_q, write_q, transmit, asleep, secondary>>
    BY <1>2, <1>7
  <2>4. QED
    BY <1>1, <1>3, <1>5, <2>1, <2>2, <2>3, StaysUp
<1>8. QED
  BY <1>2, <1>6, <1>7
LEMMA tty_writeKeeps ==
  ASSUME Orderly, L!tty_write
  PROVE  Orderly'
<1>1. PICK h \in Call, t \in Seq(Call) : Runs(h, t) /\ h.at \in {"write", "room"}
  BY AtIs DEF L!tty_write
<1>4. /\ UNCHANGED <<read_q, write_q, secondary, data, console, cooked, transmit>>
      /\ \/ /\ L!Full(write_q) \/ L!Left(write_q) < Room
            /\ L!Sleep(running, "write", "room")
         \/ L!Return /\ asleep' = asleep
         \/ L!Goto("fill") /\ UNCHANGED <<asleep, running>>
  BY DEF L!tty_write, L!queues, L!line
<1>5. h.at \in Base /\ h.at \notin Filling
  BY <1>1 DEF Base, Filling
<1>6. /\ t = <<>> /\ running \in Task
      /\ asleep["secondary"] # {} => secondary = <<>>
      /\ asleep["write"] # {} => transmit /\ ~ console
      /\ write_q # <<>> => ~ console /\ transmit
      /\ data = Ends(secondary) /\ secondary \in Seq(Chars) /\ write_q \in Seq(Echoes)
      /\ asleep \in [{"write", "secondary"} -> SUBSET Task]
  BY <1>1, <1>5, AtBase
<1>7. secondary' \in Seq(Chars) /\ data' = Ends(secondary')
  BY <1>4, <1>6
<1>8. CASE /\ L!Full(write_q) \/ L!Left(write_q) < Room
           /\ L!Sleep(running, "write", "room")
  <2>1. write_q # <<>>
    <3>1. Len(write_q) \in Nat /\ (write_q = <<>> => Len(write_q) = 0)
      BY <1>6, LenProperties
    <3>2. L!Left(write_q) = 0 \/ L!Left(write_q) < Room
      BY <1>8 DEF L!Full
    <3>3. L!Left(write_q) = TTY_BUF_SIZE - 1 - Len(write_q)
      BY DEF L!Left
    <3>4. QED
      BY <3>1, <3>2, <3>3, LineAssumption
  <2>2. /\ asleep' = [asleep EXCEPT !["write"] = asleep["write"] \cup {running}]
        /\ running' = Idle /\ L!Goto("room")
    BY <1>6, <1>8 DEF L!Sleep
  <2>3. \E X : Rested(X) /\ Put(X)
    BY <1>1, <1>6, <2>2, Settles DEF Rests
  <2>4. /\ asleep' \in [{"write", "secondary"} -> SUBSET Task]
        /\ asleep'["secondary"] = asleep["secondary"]
    BY <1>6, <2>2
  <2>5. /\ asleep'["secondary"] # {} => secondary' = <<>>
        /\ asleep'["write"] # {} => transmit /\ ~ console
    BY <1>4, <1>6, <2>1, <2>4
  <2>6. QED
    BY <1>1, <1>4, <1>5, <1>7, <2>2, <2>3, <2>4, <2>5, GoesDown
<1>9. CASE L!Return /\ asleep' = asleep
  BY <1>1, <1>4, <1>5, <1>6, <1>7, <1>9, Returns, GoesDown
<1>10. CASE L!Goto("fill") /\ UNCHANGED <<asleep, running>>
  <2>1. PICK g \in Call : g.at = "fill" /\ Put(Cons(g, t))
    BY <1>1, <1>10, Goes DEF Places, Base
  <2>2. g.at \in Base /\ g.at # "unput" /\ g.at # "store"
    BY <2>1 DEF Base
  <2>3. UNCHANGED <<running, console, cooked, read_q, write_q, transmit, asleep, secondary>>
    BY <1>4, <1>10
  <2>4. QED
    BY <1>1, <1>5, <1>7, <2>1, <2>2, <2>3, StaysUp
<1>11. QED
  BY <1>4, <1>8, <1>9, <1>10

\* A task that fills write_q goes on filling it.
LEMMA FillsOn ==
  ASSUME Orderly, NEW h \in Call, NEW t \in Seq(Call), Runs(h, t), h.at \in Filling,
         NEW g \in Call, g.at \in Filling, Put(Cons(g, t)),
         UNCHANGED <<running, console, cooked, read_q, secondary, data, transmit, asleep>>,
         write_q' \in Seq(Echoes)
  PROVE  Orderly'
<1>1. h.at \in Base /\ g.at \in Base /\ g.at # "unput" /\ g.at # "con_write"
  BY DEF Base, Filling
<1>2. /\ t = <<>> /\ (asleep["secondary"] # {} => secondary = <<>>)
      /\ asleep["write"] # {} => transmit /\ ~ console
  BY <1>1, AtBase
<1>3. Queues'
  BY DEF Orderly, Queues
<1>4. Has(Cons(g, t), Filling) /\ ~ Has(Cons(g, t), {"con_write"})
  <2>1. /\ Has(Cons(g, t), Filling) <=> g.at \in Filling \/ Has(t, Filling)
        /\ Has(Cons(g, t), {"con_write"}) <=> g.at \in {"con_write"} \/ Has(t, {"con_write"})
    BY HasCons
  <2>2. ~ Has(t, {"con_write"})
    BY <1>2, NoCall
  <2>3. QED
    BY <1>1, <2>1, <2>2
<1>5. Flows(write_q', transmit', asleep', Cons(g, t))
  BY <1>2, <1>4 DEF Flows
<1>6. Counted(data', secondary', Cons(g, t))
  <2>1. Counted(data, secondary, Cons(h, t))
    BY StacksOn DEF Runs
  <2>2. Count(Cons(g, t), Stores) = Count(Cons(h, t), Stores)
    BY CountCall DEF Filling
  <2>3. QED
    BY <2>1, <2>2 DEF Counted
<1>7. asleep'["secondary"] # {} => secondary' = <<>>
  BY <1>2
<1>8. running' = running /\ console' = console
  OBVIOUS
<1>9. QED
  BY <1>1, <1>3, <1>5, <1>6, <1>7, <1>8, Turns

LEMMA write_fillKeeps ==
  ASSUME Orderly, L!write_fill
  PROVE  Orderly'
<1>1. PICK h \in Call, t \in Seq(Call) : Runs(h, t) /\ h.at = "fill"
  BY AtIs DEF L!write_fill
<1>2. PICK back : back = [h EXCEPT !.at = "written"]
  OBVIOUS
<1>3. /\ UNCHANGED <<read_q, write_q, secondary, data, console, cooked, asleep, running>>
      /\ \/ L!Goto("put") /\ transmit' = transmit
         \/ L!StartWrite(write_q, back)
  BY <1>1, <1>2 DEF L!write_fill, L!queues, L!line, Runs
<1>4. h.at \in Base /\ h.at \in Filling
  BY <1>1 DEF Base, Filling
<1>5. /\ t = <<>> /\ (asleep["secondary"] # {} => secondary = <<>>)
      /\ secondary \in Seq(Chars) /\ write_q \in Seq(Echoes) /\ read_q \in Seq(Chars)
      /\ data \in Int
  BY <1>1, <1>4, AtBase DEF Orderly, Queues
<1>6. CASE L!Goto("put") /\ transmit' = transmit
  <2>1. PICK g \in Call : g.at = "put" /\ Put(Cons(g, t))
    BY <1>1, <1>6, Goes DEF Places, Base
  <2>2. g.at \in Filling
    BY <2>1 DEF Filling
  <2>3. /\ UNCHANGED <<running, console, cooked, read_q, secondary, data, transmit, asleep>>
        /\ write_q' \in Seq(Echoes)
    BY <1>3, <1>5, <1>6
  <2>4. QED
    BY <1>1, <1>4, <2>1, <2>2, <2>3, FillsOn
<1>7. CASE L!StartWrite(write_q, back)
  <2>1. back \in Call /\ back.at = "written"
    <3>1. "written" \in Places
      BY DEF Places, Base
    <3>2. QED
      BY <1>2, <3>1 DEF Call
  <2>2. Counted(data', secondary', Cons(back, t))
    <3>1. Counted(data, secondary, Cons(h, t))
      BY <1>1, StacksOn DEF Runs
    <3>2. Count(Cons(back, t), Stores) = Count(Cons(h, t), Stores)
      BY <1>1, <2>1, CountCall
    <3>3. QED
      BY <1>3, <3>1, <3>2 DEF Counted
  <2>3. /\ write_q' = write_q /\ UNCHANGED <<running, console, cooked, asleep>>
        /\ read_q' \in Seq(Chars) /\ secondary' \in Seq(Chars) /\ data' \in Int
        /\ asleep["secondary"] # {} => secondary' = <<>>
        /\ back.at # "unput"
    BY <1>3, <1>5, <2>1
  <2>4. QED
    BY <1>1, <1>4, <1>5, <1>7, <2>1, <2>2, <2>3, StartsWriting
<1>8. QED
  BY <1>3, <1>6, <1>7

LEMMA write_putKeeps ==
  ASSUME Orderly, L!write_put
  PROVE  Orderly'
<1>1. PICK h \in Call, t \in Seq(Call) : Runs(h, t) /\ h.at = "put"
  BY AtIs DEF L!write_put
<1>2. PICK g : g = [h EXCEPT !.at = "fill", !.nr = h.nr - 1]
  OBVIOUS
<1>3. /\ UNCHANGED <<read_q, secondary, data, console, cooked, transmit, asleep, running>>
      /\ write_q' = Append(write_q, "x") /\ L!Becomes(<<g>>)
  BY <1>1, <1>2 DEF L!write_put, L!line, Runs
<1>4. g \in Call /\ g.at = "fill"
  <2>1. "fill" \in Places /\ h.nr - 1 \in Int
    BY DEF Places, Base, Call
  <2>2. QED
    BY <1>2, <2>1 DEF Call
<1>5. Put(Cons(g, t))
  BY <1>1, <1>3, BecomesOne
<1>6. g.at \in Filling /\ h.at \in Filling
  BY <1>1, <1>4 DEF Filling
<1>7. write_q' \in Seq(Echoes)
  <2>1. write_q \in Seq(Echoes) /\ "x" \in Echoes
    BY DEF Orderly, Queues, Echoes, Chars
  <2>2. QED
    BY <1>3, <2>1, AppendProperties
<1>8. QED
  BY <1>1, <1>3, <1>4, <1>5, <1>6, <1>7, FillsOn

LEMMA writtenKeeps ==
  ASSUME Orderly, L!written
  PROVE  Orderly'
<1>1. PICK h \in Call, t \in Seq(Call) : Runs(h, t) /\ h.at = "written"
  BY AtIs DEF L!written
<1>2. /\ UNCHANGED <<read_q, write_q, secondary, data, console, cooked, asleep, transmit>>
      /\ \/ L!Goto("write") /\ running' = Idle
         \/ L!Return
  BY DEF L!written, L!queues, L!line
<1>3. h.at \in Base /\ h.at \notin Filling
  BY <1>1 DEF Base, Filling
<1>4. /\ t = <<>> /\ running \in Task
      /\ asleep["secondary"] # {} => secondary = <<>>
      /\ asleep["write"] # {} => transmit /\ ~ console
      /\ data = Ends(secondary) /\ secondary \in Seq(Chars)
      /\ asleep \in [{"write", "secondary"} -> SUBSET Task]
  BY <1>1, <1>3, AtBase
<1>5. secondary' \in Seq(Chars) /\ data' = Ends(secondary')
  BY <1>2, <1>4
<1>6. (\E X : Rested(X) /\ Put(X)) /\ running' = Idle
  <2>1. CASE L!Goto("write") /\ running' = Idle
    BY <1>1, <1>4, <2>1, Settles DEF Rests
  <2>2. CASE L!Return
    BY <2>2, Returns
  <2>3. QED
    BY <1>2, <2>1, <2>2
<1>7. QED
  BY <1>1, <1>2, <1>3, <1>4, <1>5, <1>6, GoesDown

\* A task gets the processor, at rest in its call.
Up(t) ==
  /\ running = Idle /\ stack[Idle] = <<>> /\ running' = t
  /\ stack' \in [Task \cup {Idle} -> Seq(Call)]
  /\ \A u \in (Task \cup {Idle}) \ {t} : stack'[u] = stack[u]
  /\ \E f \in Call : f.at \in Rests /\ stack'[t] = Cons(f, <<>>)
  /\ UNCHANGED <<console, cooked, read_q, write_q, secondary, data, transmit>>

LEMMA StartIsUp ==
  ASSUME Orderly, NEW t \in Task, NEW label \in {"read", "write"}, NEW n \in Nat,
         L!Start(t, label, n)
  PROVE  Up(t) /\ asleep' = asleep
<1>1. PICK f : f = [L!Frame(label) EXCEPT !.nr = n]
  OBVIOUS
<1>2. f \in Call /\ f.at \in Rests
  <2>1. PICK g : g = L!Frame(label)
    OBVIOUS
  <2>2. label \in Places /\ label \in Rests
    BY DEF Places, Base, Rests
  <2>3. g \in Call /\ g.at = label
    BY <2>1, <2>2, FrameType
  <2>4. f = [g EXCEPT !.nr = n]
    BY <1>1, <2>1
  <2>5. f \in Call /\ f.at = label
    BY <2>3, <2>4 DEF Call
  <2>6. QED
    BY <2>2, <2>5
<1>3. /\ running = Idle /\ stack[Idle] = <<>> /\ running' = t
      /\ stack' = [stack EXCEPT ![t] = <<f>>]
      /\ UNCHANGED <<console, cooked, read_q, write_q, secondary, data, transmit, asleep>>
  BY <1>1 DEF L!Start, L!Free, L!queues
<1>4. <<f>> = Cons(f, <<>>)
  <2>1. <<f>> \in Seq(Call)
    BY <1>2
  <2>2. QED
    BY <2>1, ConcatEmptySeq DEF Cons
<1>5. Cons(f, <<>>) \in Seq(Call)
  BY <1>2, OneCall
<1>6. /\ stack' \in [Task \cup {Idle} -> Seq(Call)] /\ stack'[t] = Cons(f, <<>>)
      /\ \A u \in (Task \cup {Idle}) \ {t} : stack'[u] = stack[u]
  BY <1>3, <1>4, <1>5, StacksOn
<1>7. QED
  BY <1>2, <1>3, <1>6 DEF Up

LEMMA resumeIsUp ==
  ASSUME Orderly, NEW t \in Task, L!resume(t)
  PROVE  Up(t) /\ asleep' = [q \in DOMAIN asleep |-> asleep[q] \ {t}]
<1>1. /\ running = Idle /\ stack[Idle] = <<>> /\ running' = t /\ stack[t] # <<>>
      /\ asleep' = [q \in DOMAIN asleep |-> asleep[q] \ {t}]
      /\ UNCHANGED <<console, cooked, read_q, write_q, secondary, data, transmit, stack>>
  BY DEF L!resume, L!Free, L!queues, L!line
<1>2. t # running
  BY <1>1, LineAssumption DEF Task
<1>3. \E f \in Call : f.at \in Rests /\ stack'[t] = Cons(f, <<>>)
  BY <1>1, <1>2 DEF Orderly, Stacks
<1>4. /\ stack' \in [Task \cup {Idle} -> Seq(Call)]
      /\ \A u \in (Task \cup {Idle}) \ {t} : stack'[u] = stack[u]
  BY <1>1, StacksOn
<1>5. QED
  BY <1>1, <1>3, <1>4 DEF Up

LEMMA UpKeeps ==
  ASSUME Orderly, NEW t \in Task, Up(t), asleep' \in [{"write", "secondary"} -> SUBSET Task],
         \A q \in {"write", "secondary"} : asleep'[q] \subseteq asleep[q]
  PROVE  Orderly'
<1>1. /\ running = Idle /\ stack[Idle] = <<>> /\ running' = t
      /\ stack' \in [Task \cup {Idle} -> Seq(Call)]
      /\ \A u \in (Task \cup {Idle}) \ {t} : stack'[u] = stack[u]
      /\ \E f \in Call : f.at \in Rests /\ stack'[t] = Cons(f, <<>>)
      /\ UNCHANGED <<console, cooked, read_q, write_q, secondary, data, transmit>>
  BY DEF Up
<1>2. QED
  BY <1>1, GoesUp

LEMMA StartKeeps ==
  ASSUME Orderly, NEW t \in Task, NEW label \in {"read", "write"}, NEW n \in Nat,
         L!Start(t, label, n)
  PROVE  Orderly'
<1>1. asleep \in [{"write", "secondary"} -> SUBSET Task]
  BY DEF Orderly, Queues
<1>2. Up(t) /\ asleep' = asleep
  BY StartIsUp
<1>3. QED
  BY <1>1, <1>2, UpKeeps

LEMMA resumeKeeps ==
  ASSUME Orderly, NEW t \in Task, L!resume(t)
  PROVE  Orderly'
<1>1. asleep \in [{"write", "secondary"} -> SUBSET Task]
  BY DEF Orderly, Queues
<1>2. Up(t) /\ asleep' = [q \in DOMAIN asleep |-> asleep[q] \ {t}]
  BY resumeIsUp
<1>3. /\ asleep' \in [{"write", "secondary"} -> SUBSET Task]
      /\ \A q \in {"write", "secondary"} : asleep'[q] \subseteq asleep[q]
  BY <1>1, <1>2
<1>4. QED
  BY <1>2, <1>3, UpKeeps

LEMMA flushKeeps ==
  ASSUME Orderly, L!flush
  PROVE  Orderly'
<1>1. /\ UNCHANGED <<secondary, data, console, cooked, asleep, transmit, running, stack>>
      /\ \/ read_q' = <<>> /\ write_q' = write_q
         \/ write_q' = <<>> /\ read_q' = read_q
  BY DEF L!flush
<1>2. Queues'
  <2>1. read_q' \in Seq(Chars) /\ write_q' \in Seq(Echoes)
    BY <1>1, EmptySeq DEF Orderly, Queues
  <2>2. QED
    BY <1>1, <2>1 DEF Orderly, Queues
<1>3. /\ Waits(asleep, secondary, stack[running])
      /\ Flows(write_q, transmit, asleep, stack[running])
      /\ Counted(data, secondary, stack[running])
  BY StacksOn
<1>4. Flows(write_q', transmit', asleep', stack[running])
  BY <1>1, <1>3 DEF Flows
<1>5. Waits(asleep', secondary', stack[running]) /\ Counted(data', secondary', stack[running])
  BY <1>1, <1>3 DEF Waits, Counted
<1>6. QED
  BY <1>1, <1>2, <1>4, <1>5, Beside

LEMMA set_termioKeeps ==
  ASSUME Orderly, L!set_termio
  PROVE  Orderly'
<1>1. /\ console /\ cooked' \in BOOLEAN
      /\ UNCHANGED <<read_q, write_q, secondary, data, console, asleep, transmit, running, stack>>
  BY DEF L!set_termio, L!queues
<1>2. Queues'
  BY <1>1 DEF Orderly, Queues
<1>3. /\ Waits(asleep, secondary, stack[running])
      /\ Flows(write_q, transmit, asleep, stack[running])
      /\ Counted(data, secondary, stack[running])
  BY StacksOn
<1>4. Flows(write_q', transmit', asleep', stack[running])
  BY <1>1, <1>3 DEF Flows
<1>5. Waits(asleep', secondary', stack[running]) /\ Counted(data', secondary', stack[running])
  BY <1>1, <1>3 DEF Waits, Counted
<1>6. QED
  BY <1>1, <1>2, <1>4, <1>5, Beside
-------------------------------------------------------------------------------
LineInv == ~ slip => Orderly

LEMMA LineInitially ==
  ASSUME L!Init
  PROVE  Orderly
<1>1. /\ console \in BOOLEAN /\ cooked = console
      /\ read_q = <<>> /\ write_q = <<>> /\ secondary = <<>> /\ data = 0
      /\ asleep = [q \in {"write", "secondary"} |-> {}] /\ transmit = FALSE
      /\ running = Idle /\ stack = [t \in Task \cup {Idle} |-> <<>>]
  BY DEF L!Init, Task, L!Task
<1>2. Queues
  <2>1. read_q \in Seq(Chars) /\ write_q \in Seq(Echoes) /\ secondary \in Seq(Chars)
    BY <1>1, EmptySeq
  <2>2. asleep \in [{"write", "secondary"} -> SUBSET Task]
    BY <1>1
  <2>3. /\ console \in BOOLEAN /\ cooked \in BOOLEAN /\ transmit \in BOOLEAN
        /\ (console => ~ transmit) /\ (~ console => ~ cooked)
    BY <1>1, Zenon
  <2>4. data \in Int
    BY <1>1
  <2>5. QED
    BY <2>1, <2>2, <2>3, <2>4 DEF Queues
<1>3. stack \in [Task \cup {Idle} -> Seq(Call)] /\ \A t \in Task \cup {Idle} : stack[t] = <<>>
  BY <1>1, EmptySeq
<1>4. stack[running] = <<>> /\ stack[Idle] = <<>> /\ running \in Task \cup {Idle}
  BY <1>1, <1>3
<1>5. Stacks
  BY <1>3, <1>4, NoCall DEF Stacks
<1>6. Waits(asleep, secondary, stack[running]) /\ Flows(write_q, transmit, asleep, stack[running])
  BY <1>1 DEF Waits, Flows
<1>7. Counted(data, secondary, stack[running])
  <2>1. Ends(secondary) = 0 /\ Count(stack[running], Stores) = 0
    BY <1>1, <1>4, CountEmpty DEF Ends
  <2>2. QED
    BY <1>1, <2>1 DEF Counted
<1>8. QED
  BY <1>2, <1>5, <1>6, <1>7 DEF Orderly

LEMMA NextKeeps ==
  ASSUME Orderly, L!Next, ~ slip'
  PROVE  Orderly'
<1>1. CASE \E c \in L!Char(cooked) : L!keyboard_interrupt(c) \/ L!read_char(c)
  <2>1. PICK c \in L!Char(cooked) : L!keyboard_interrupt(c) \/ L!read_char(c)
    BY <1>1
  <2>2. c \in Chars /\ L!Arrives(c)
    BY <2>1 DEF L!keyboard_interrupt, L!read_char, L!Char, Chars
  <2>3. QED
    BY <2>2, ArrivesKeeps
<1>2. CASE L!write_char
  BY <1>2, write_charKeeps
<1>3. CASE L!cook
  BY <1>3, cookKeeps
<1>4. CASE L!got
  BY <1>4, gotKeeps
<1>5. CASE L!store
  BY <1>5, storeKeeps
<1>6. CASE L!unput
  BY <1>6, unputKeeps
<1>7. CASE L!con_write
  BY <1>7, con_writeKeeps
<1>8. CASE \E n \in Request, t \in Reader : L!Start(t, "read", n)
  <2>1. PICK n \in Request, t \in Reader : L!Start(t, "read", n)
    BY <1>8
  <2>2. n \in Nat /\ t \in Task
    BY LineAssumption DEF Task
  <2>3. QED
    BY <2>1, <2>2, StartKeeps
<1>9. CASE \E n \in Request, t \in Writer : L!Start(t, "write", n)
  <2>1. PICK n \in Request, t \in Writer : L!Start(t, "write", n)
    BY <1>9
  <2>2. n \in Nat /\ t \in Task
    BY LineAssumption DEF Task
  <2>3. QED
    BY <2>1, <2>2, StartKeeps
<1>10. CASE \E t \in L!Task : L!resume(t)
  BY <1>10, resumeKeeps DEF Task, L!Task
<1>11. CASE L!tty_read
  BY <1>11, tty_readKeeps
<1>12. CASE L!read_get
  BY <1>12, read_getKeeps
<1>13. CASE L!read_more
  BY <1>13, read_moreKeeps
<1>14. CASE L!tty_write
  BY <1>14, tty_writeKeeps
<1>15. CASE L!write_fill
  BY <1>15, write_fillKeeps
<1>16. CASE L!write_put
  BY <1>16, write_putKeeps
<1>17. CASE L!written
  BY <1>17, writtenKeeps
<1>18. CASE L!flush
  BY <1>18, flushKeeps
<1>19. CASE L!set_termio
  BY <1>19, set_termioKeeps
<1>20. QED
  BY <1>1, <1>2, <1>3, <1>4, <1>5, <1>6, <1>7, <1>8, <1>9, <1>10, <1>11, <1>12, <1>13, <1>14,
     <1>15, <1>16, <1>17, <1>18, <1>19 DEF L!Next

\* The model stops with the first slip.
LEMMA NoStepAfterSlip == L!Next => ~ slip
<1>1. ASSUME L!Next
      PROVE  ~ slip
  BY <1>1 DEF L!Next, L!keyboard_interrupt, L!read_char, L!Arrives, L!write_char, L!cook, L!got,
     L!store, L!unput, L!con_write, L!Start, L!resume, L!tty_read, L!read_get, L!read_more,
     L!tty_write, L!write_fill, L!write_put, L!written, L!flush, L!set_termio, L!At, L!Free
<1>2. QED
  BY <1>1

LEMMA LineInvStep == LineInv /\ [TerminalNext]_<<screen, discipline, part>> => LineInv'
<1> SUFFICES ASSUME LineInv, [TerminalNext]_<<screen, discipline, part>>, ~ slip'
             PROVE  Orderly'
  BY DEF LineInv
<1>1. CASE UNCHANGED discipline
  <2>1. slip' = slip
    BY <1>1 DEF discipline
  <2>2. Orderly
    BY <2>1 DEF LineInv
  <2>3. QED
    BY <1>1, <2>2 DEF discipline, Orderly, Queues, Stacks, Flows
<1>2. CASE L!Next
  <2>1. Orderly
    BY <1>2, NoStepAfterSlip DEF LineInv
  <2>2. QED
    BY <1>2, <2>1, NextKeeps
<1>3. QED
  BY <1>1, <1>2 DEF TerminalNext

-------------------------------------------------------------------------------
(* What the invariant says of the properties. *)

LEMMA OthersRest ==
  ASSUME Orderly, NEW u \in DOMAIN stack, u # running, NEW k \in DOMAIN stack[u]
  PROVE  stack[u][k].at \in Rests
<1>1. PICK s : s = stack[u]
  OBVIOUS
<1>2. u \in Task \cup {Idle}
  BY StacksOn
<1>3. s # <<>>
  <2>1. DOMAIN <<>> = {}
    OBVIOUS
  <2>2. QED
    BY <1>1, <2>1
<1>4. PICK f \in Call : f.at \in Rests /\ s = Cons(f, <<>>)
  BY <1>1, <1>2, <1>3 DEF Orderly, Stacks
<1>5. Has(s, Places \ Rests) <=> f.at \in Places \ Rests
  BY <1>4, OneCall
<1>6. ~ Has(s, Places \ Rests)
  BY <1>4, <1>5
<1>7. s[k] \in Call
  BY <1>1, <1>2, StacksOn
<1>8. s[k].at \in Places
  BY <1>7 DEF Call
<1>9. QED
  BY <1>1, <1>6, <1>8 DEF Has

\* Until a character slips, the queues and the stacks are in order: what each
\* sleeper waits for, who empties write_q and which line ends are counted is as
\* Waits, Flows and Counted say (the handlers of tty_io.c, keyboard.s, rs_io.s).
THEOREM LineInvariant == TerminalSpec => []LineInv
<1>1. TerminalInit => LineInv
  BY LineInitially DEF TerminalInit, LineInv
<1>2. QED
  BY <1>1, LineInvStep, PTL DEF TerminalSpec

LEMMA CardinalityIs == ASSUME NEW S PROVE L!Cardinality(S) = Cardinality(S)
BY DEF L!Cardinality, Cardinality

\* The calls at `store' with a line end, of all stacks.
StoreFrames == {x \in L!Frames({"store"}) : stack[x[1]][x[2]].c \in L!LineEnd}

LEMMA StoresCounted ==
  ASSUME Orderly
  PROVE  Cardinality(StoreFrames) = Count(stack[running], Stores)
<1>1. /\ stack[running] \in Seq(Call) /\ running \in Task \cup {Idle}
      /\ stack \in [Task \cup {Idle} -> Seq(Call)]
  BY StacksOn
<1>2. PICK s, K : s = stack[running] /\ K = {k \in DOMAIN s : s[k] \in Stores}
  OBVIOUS
<1>3. s \in Seq(Call) /\ IsFiniteSet(K) /\ Count(s, Stores) = Cardinality(K)
  <2>1. s \in Seq(Call)
    BY <1>1, <1>2
  <2>2. IsFiniteSet({k \in DOMAIN s : s[k] \in Stores})
    BY <2>1, CountType
  <2>3. QED
    BY <1>2, <2>1, <2>2 DEF Count
<1>4. StoreFrames = {running} \X K
  <2>1. ASSUME NEW x \in StoreFrames
        PROVE  x \in {running} \X K
    <3>1. PICK u \in DOMAIN stack : \E k \in DOMAIN stack[u] :
            x = <<u, k>> /\ stack[u][k].at = "store" /\ stack[u][k].c \in L!LineEnd
      BY DEF StoreFrames, L!Frames
    <3>b. PICK k \in DOMAIN stack[u] :
            x = <<u, k>> /\ stack[u][k].at = "store" /\ stack[u][k].c \in L!LineEnd
      BY <3>1
    <3>2. u = running
      BY <3>b, OthersRest DEF Rests
    <3>3. s[k] \in Stores
      <4>1. s[k] \in Call
        BY <1>2, <1>3, <3>2
      <4>2. QED
        BY <1>2, <3>b, <3>2, <4>1 DEF Stores
    <3>4. QED
      BY <1>2, <3>b, <3>2, <3>3
  <2>2. ASSUME NEW k \in K
        PROVE  <<running, k>> \in StoreFrames
    <3>1. k \in DOMAIN stack[running] /\ stack[running][k] \in Stores
      BY <1>2
    <3>2. stack[running][k].at = "store" /\ stack[running][k].c \in L!LineEnd
      BY <3>1 DEF Stores
    <3>3. running \in DOMAIN stack
      BY <1>1
    <3>4. QED
      BY <3>1, <3>2, <3>3 DEF StoreFrames, L!Frames
  <2>3. QED
    BY <2>1, <2>2
<1>5. PICK R : R = {running} \X K
  OBVIOUS
<1>6. PICK g : g = [k \in K |-> <<running, k>>]
  OBVIOUS
<1>7. g \in Bijection(K, R)
  <2>1. \A k \in K : g[k] = <<running, k>> /\ g[k] \in R
    BY <1>5, <1>6
  <2>2. \A x \in R : \E k \in K : x = <<running, k>>
    BY <1>5
  <2>3. g \in [K -> R]
    BY <1>6, <2>1
  <2>4. \A k, m \in K : g[k] = g[m] => k = m
    BY <2>1
  <2>5. \A x \in R : \E k \in K : g[k] = x
    BY <2>1, <2>2
  <2>6. QED
    BY <2>3, <2>4, <2>5 DEF Bijection, Injection, Surjection, IsInjective
<1>8. Cardinality(R) = Cardinality(K)
  BY <1>3, <1>7, FS_Bijection DEF ExistsBijection
<1>9. QED
  BY <1>2, <1>3, <1>4, <1>5, <1>8

\* secondary.data is the number of line ends in the queue and of those counted on
\* their way to it, whatever the interrupts add while a reader takes characters
\* (INC(tty->secondary.data) in copy_to_cooked, its decrement in tty_read).
THEOREM LineEndsCounted == TerminalSpec => []LinesCounted
<1>1. LineInv => LinesCounted
  <2> SUFFICES ASSUME LineInv, ~ slip
               PROVE  data = L!Cardinality({k \in DOMAIN secondary : secondary[k] \in L!LineEnd})
                             + L!Cardinality(StoreFrames)
    BY DEF LinesCounted, L!LinesCounted, StoreFrames
  <2>1. Orderly
    BY DEF LineInv
  <2>2. data = Ends(secondary) + Count(stack[running], Stores)
    BY <2>1, StacksOn DEF Counted
  <2>3. data = Cardinality({k \in DOMAIN secondary : secondary[k] \in L!LineEnd})
               + Cardinality(StoreFrames)
    BY <2>1, <2>2, StoresCounted DEF Ends, Count
  <2>4. QED
    BY <2>3, CardinalityIs
<1>2. QED
  BY <1>1, LineInvariant, PTL

\* A reader is asleep only while there is nothing to read or a copy_to_cooked
\* will wake him, a writer only on a serial line whose transmitter is enabled:
\* no sleep_if_empty or sleep_if_full is entered after its last wake-up.
THEOREM NobodyIsForgotten == TerminalSpec => []NobodyForgotten
<1>1. LineInv => NobodyForgotten
  <2> SUFFICES ASSUME LineInv, ~ slip
               PROVE  /\ asleep["secondary"] # {} =>
                           secondary = <<>> \/ L!Frames(L!Cooking) # {}
                      /\ asleep["write"] # {} => transmit /\ ~ console
    BY DEF NobodyForgotten, L!NobodyForgotten, L!Empty
  <2>1. Orderly
    BY DEF LineInv
  <2>2. asleep["write"] # {} => transmit /\ ~ console
    BY <2>1, StacksOn DEF Flows
  <2>3. ASSUME Has(stack[running], L!Cooking)
        PROVE  L!Frames(L!Cooking) # {}
    <3>1. PICK k \in DOMAIN stack[running] : stack[running][k].at \in L!Cooking
      BY <2>3 DEF Has
    <3>2. running \in DOMAIN stack
      BY <2>1, StacksOn
    <3>3. <<running, k>> \in L!Frames(L!Cooking)
      BY <3>1, <3>2 DEF L!Frames
    <3>4. QED
      BY <3>3
  <2>4. QED
    BY <2>1, <2>2, <2>3, StacksOn DEF Waits
<1>2. QED
  BY <1>1, LineInvariant, PTL
-------------------------------------------------------------------------------
(* The serial line: one interrupt at a time, and no echo. *)

Inner == Places \ Base
Echoing == {"con_write", "unput"}

Serial(s) == s # <<>> => Head(s).at \notin Echoing /\ ~ Has(Tail(s), Inner)

\* The character between read_q and secondary.
HeldOf(f) == IF f.at = "store" THEN <<f.c>> ELSE <<>>
HeldIn(s) == IF s = <<>> THEN <<>> ELSE HeldOf(Head(s))

LEMMA SerialCons ==
  ASSUME NEW f \in Call, NEW t \in Seq(Call)
  PROVE  /\ Serial(Cons(f, t)) <=> f.at \notin Echoing /\ ~ Has(t, Inner)
         /\ HeldIn(Cons(f, t)) = HeldOf(f)
<1>1. PICK c : c = Cons(f, t)
  OBVIOUS
<1>2. IsCons(Call, c, f, t)
  BY <1>1, ConsIs
<1>3. c # <<>> /\ Head(c) = f /\ Tail(c) = t
  BY <1>2 DEF IsCons
<1>4. QED
  BY <1>1, <1>3 DEF Serial, HeldIn

LEMMA SerialEmpty == Serial(<<>>) /\ HeldIn(<<>>) = <<>>
BY DEF Serial, HeldIn

\* Where the stack of what runs is afterwards.
LEMMA PutIs ==
  ASSUME Orderly, NEW X, Put(X)
  PROVE  /\ stack'[running] = X
         /\ \A u \in (Task \cup {Idle}) \ {running} : stack'[u] = stack[u]
BY StacksOn DEF Put

SerialHolds == Serial(stack[running])

\* The call that runs goes on as another.
LEMMA SerialTurns ==
  ASSUME Orderly, NEW h \in Call, NEW t \in Seq(Call), Runs(h, t), SerialHolds,
         NEW g \in Call, g.at \notin Echoing, Put(Cons(g, t)), running' = running
  PROVE  /\ Serial(stack'[running'])
         /\ HeldIn(stack[running]) = HeldOf(h) /\ HeldIn(stack'[running']) = HeldOf(g)
<1>1. stack[running] = Cons(h, t)
  BY DEF Runs
<1>2. Serial(Cons(h, t)) <=> h.at \notin Echoing /\ ~ Has(t, Inner)
  BY SerialCons
<1>3. ~ Has(t, Inner)
  BY <1>1, <1>2 DEF SerialHolds
<1>4. stack'[running'] = Cons(g, t)
  BY PutIs
<1>5. QED
  BY <1>1, <1>3, <1>4, SerialCons

\* A step of a task in its own call: it goes on, or gives up the processor.
BaseStep(t) ==
  \/ running' = Idle /\ \E X : Put(X)
  \/ running' = running /\ \E g \in Call : g.at \in Base /\ Put(Cons(g, t))

LEMMA SerialBase ==
  ASSUME Orderly, NEW h \in Call, NEW t \in Seq(Call), Runs(h, t), SerialHolds, h.at \in Base,
         BaseStep(t)
  PROVE  /\ Serial(stack'[running'])
         /\ HeldIn(stack[running]) = <<>> /\ HeldIn(stack'[running']) = <<>>
<1>1. running \in Task /\ stack[Idle] = <<>>
  BY AtBase
<1>2. HeldIn(stack[running]) = <<>>
  <2>1. HeldIn(stack[running]) = HeldOf(h)
    BY SerialCons DEF Runs
  <2>2. QED
    BY <2>1 DEF HeldOf, Base
<1>3. CASE running' = Idle /\ \E X : Put(X)
  <2>1. stack'[Idle] = <<>>
    BY <1>1, <1>3, PutIs, LineAssumption DEF Task
  <2>2. QED
    BY <1>2, <1>3, <2>1, SerialEmpty
<1>4. CASE running' = running /\ \E g \in Call : g.at \in Base /\ Put(Cons(g, t))
  <2>1. PICK g \in Call : g.at \in Base /\ Put(Cons(g, t))
    BY <1>4
  <2>2. g.at \notin Echoing /\ HeldOf(g) = <<>>
    BY <2>1 DEF Base, Echoing, HeldOf
  <2>3. QED
    BY <1>2, <1>4, <2>1, <2>2, SerialTurns
<1>5. QED
  BY <1>3, <1>4 DEF BaseStep

-------------------------------------------------------------------------------
(* Characters on their way. *)

\* s is a prefix of the way: what lies in it from the reader's end.
Way(sec, held, rq) == sec \o held \o rq

LEMMA MovesNot == ASSUME NEW s PROVE L!Moves(s, s)
BY DEF L!Moves

LEMMA MovesTaken == ASSUME NEW S, NEW s \in Seq(S) PROVE L!Moves(s, L!Taken(s))
BY DEF L!Moves, L!Taken, L!Empty

LEMMA FrontAppend ==
  ASSUME NEW S, NEW s \in Seq(S), NEW e \in S
  PROVE  Front(Append(s, e)) = s /\ Append(s, e) # <<>>
<1>1. PICK c : c = Append(s, e)
  OBVIOUS
<1>2. /\ c \in Seq(S) /\ Len(c) = Len(s) + 1 /\ Len(s) \in Nat
      /\ \A i \in 1..Len(s) : c[i] = s[i]
  BY <1>1, AppendProperties, LenProperties
<1>3. c # <<>>
  BY <1>2, EmptySeq
<1>4. PICK f, l : f = Front(c) /\ l = Last(c)
  OBVIOUS
<1>5. f \in Seq(S) /\ l \in S /\ c = Append(f, l)
  BY <1>2, <1>3, <1>4, SplitLast
<1>6. /\ Len(c) = Len(f) + 1 /\ Len(f) \in Nat
      /\ \A i \in 1..Len(f) : c[i] = f[i]
  BY <1>5, AppendProperties, LenProperties
<1>7. f = s
  BY <1>2, <1>5, <1>6, SeqEqual
<1>8. QED
  BY <1>1, <1>3, <1>4, <1>7

LEMMA MovesAppend ==
  ASSUME NEW S, NEW s \in Seq(S), NEW e \in S
  PROVE  L!Moves(s, Append(s, e))
BY FrontAppend, LastIs DEF L!Moves

LEMMA HeldIsSeq == ASSUME NEW f \in Call PROVE HeldOf(f) \in Seq(Chars)
<1>1. f.c \in Chars
  BY DEF Call
<1>2. <<f.c>> \in Seq(Chars) /\ <<>> \in Seq(Chars)
  BY <1>1, EmptySeq
<1>3. QED
  BY <1>2 DEF HeldOf

\* A character at the end of read_q is one at the end of the way.
LEMMA WayAppend ==
  ASSUME NEW s \in Seq(Chars), NEW w \in Seq(Chars), NEW q \in Seq(Chars), NEW c \in Chars
  PROVE  L!Moves(Way(s, w, q), Way(s, w, Append(q, c)))
<1>1. PICK v : v = s \o w
  OBVIOUS
<1>2. v \in Seq(Chars)
  BY <1>1, ConcatProperties
<1>3. v \o Append(q, c) = Append(v \o q, c)
  BY <1>2, AppendIsConcat, ConcatAssociative, ConcatProperties
<1>4. v \o q \in Seq(Chars)
  BY <1>2, ConcatProperties
<1>5. L!Moves(v \o q, Append(v \o q, c))
  BY <1>4, MovesAppend
<1>6. QED
  BY <1>1, <1>3, <1>5 DEF Way
LEMMA WayTaken ==
  ASSUME NEW s \in Seq(Chars), NEW q \in Seq(Chars)
  PROVE  L!Moves(Way(s, <<>>, q), Way(L!Taken(s), <<>>, q))
<1>1. s \o <<>> = s
  BY ConcatEmptySeq
<1>2. CASE s = <<>>
  BY <1>2, MovesNot DEF L!Taken, L!Empty
<1>3. CASE s # <<>>
  <2>1. PICK h, t : h = Head(s) /\ t = Tail(s)
    OBVIOUS
  <2>2. h \in Chars /\ t \in Seq(Chars) /\ s = Cons(h, t)
    BY <1>3, <2>1, Split
  <2>3. PICK r : r = t \o q
    OBVIOUS
  <2>4. r \in Seq(Chars)
    BY <2>2, <2>3, ConcatProperties
  <2>5. s \o q = Cons(h, r)
    <3>1. <<h>> \in Seq(Chars)
      BY <2>2
    <3>2. (<<h>> \o t) \o q = <<h>> \o (t \o q)
      BY <2>2, <3>1, ConcatAssociative
    <3>3. QED
      BY <2>2, <2>3, <3>2 DEF Cons
  <2>6. PICK c : c = Cons(h, r)
    OBVIOUS
  <2>7. IsCons(Chars, c, h, r)
    BY <2>2, <2>4, <2>6, ConsIs
  <2>8. c # <<>> /\ Tail(c) = r
    BY <2>7 DEF IsCons
  <2>9. t \o <<>> = t
    BY <2>2, ConcatEmptySeq
  <2>10. Way(s, <<>>, q) = c /\ Way(L!Taken(s), <<>>, q) = r
    BY <1>1, <1>3, <2>1, <2>3, <2>5, <2>6, <2>9 DEF Way, L!Taken, L!Empty
  <2>11. QED
    BY <2>8, <2>10 DEF L!Moves
<1>4. QED
  BY <1>2, <1>3

LEMMA WayGot ==
  ASSUME NEW s \in Seq(Chars), NEW q \in Seq(Chars)
  PROVE  L!Moves(Way(s, <<>>, q), Way(s, <<L!First(q)>>, L!Taken(q)))
<1>1. s \o <<>> = s
  BY ConcatEmptySeq
<1>2. CASE q = <<>>
  <2>1. L!First(q) = "x" /\ L!Taken(q) = <<>>
    BY <1>2 DEF L!First, L!Taken, L!Empty
  <2>2. "x" \in Chars /\ <<"x">> \in Seq(Chars)
    <3>1. "x" \in Chars
      BY DEF Chars
    <3>2. QED
      BY <3>1
  <2>3. (s \o <<"x">>) \o <<>> = s \o <<"x">> /\ s \o <<"x">> = Append(s, "x")
    BY <2>2, ConcatProperties, ConcatEmptySeq, AppendIsConcat
  <2>4. L!Moves(s, Append(s, "x"))
    BY <2>2, MovesAppend
  <2>5. QED
    BY <1>1, <1>2, <2>1, <2>3, <2>4 DEF Way
<1>3. CASE q # <<>>
  <2>1. PICK h, t : h = Head(q) /\ t = Tail(q)
    OBVIOUS
  <2>2. h \in Chars /\ t \in Seq(Chars) /\ q = Cons(h, t)
    BY <1>3, <2>1, Split
  <2>3. <<h>> \in Seq(Chars)
    BY <2>2
  <2>4. s \o q = (s \o <<h>>) \o t
    <3>1. (s \o <<h>>) \o t = s \o (<<h>> \o t)
      BY ONLY <2>2, <2>3, s \in Seq(Chars), ConcatAssociative
    <3>2. QED
      BY ONLY <2>2, <3>1 DEF Cons
  <2>5. L!First(q) = h /\ L!Taken(q) = t
    BY <1>3, <2>1 DEF L!First, L!Taken, L!Empty
  <2>6. QED
    BY <1>1, <2>4, <2>5, MovesNot DEF Way
<1>4. QED
  BY <1>2, <1>3

LEMMA WayStore ==
  ASSUME NEW s \in Seq(Chars), NEW q \in Seq(Chars), NEW c \in Chars
  PROVE  L!Moves(Way(s, <<c>>, q), Way(Append(s, c), <<>>, q))
<1>1. Append(s, c) = s \o <<c>> /\ Append(s, c) \in Seq(Chars)
  BY AppendIsConcat, AppendProperties
<1>2. Append(s, c) \o <<>> = Append(s, c)
  BY <1>1, ConcatEmptySeq
<1>3. QED
  BY <1>1, <1>2, MovesNot DEF Way

Exempt == L!flush \/ (L!At("got") /\ L!First(read_q) = "INTR")
Onward ==
  /\ Serial(stack'[running'])
  /\ \/ Exempt
     \/ /\ L!Moves(Way(secondary, HeldIn(stack[running]), read_q),
                   Way(secondary', HeldIn(stack'[running']), read_q'))
        /\ L!Moves(write_q, write_q')

LEMMA OnQueues ==
  ASSUME Orderly
  PROVE  /\ read_q \in Seq(Chars) /\ write_q \in Seq(Echoes) /\ secondary \in Seq(Chars)
         /\ ~ console => ~ cooked
BY DEF Orderly, Queues

\* A step of what runs that takes, adds and moves no character.
LEMMA Quiet ==
  ASSUME Serial(stack'[running']), HeldIn(stack'[running']) = HeldIn(stack[running]),
         UNCHANGED <<read_q, write_q, secondary>>
  PROVE  Onward
BY MovesNot DEF Onward

LEMMA read_charOnward ==
  ASSUME Orderly, SerialHolds, ~ console, NEW c \in Chars, L!read_char(c)
  PROVE  Onward
<1>1. /\ read_q' = (IF L!Left(read_q) > 0 THEN Append(read_q, c) ELSE read_q)
      /\ stack' = (IF L!Left(read_q) > 0 \/ console
                   THEN [stack EXCEPT ![running] = <<L!Frame("cook")>> \o stack[running]]
                   ELSE stack)
      /\ UNCHANGED <<write_q, secondary, running>>
      /\ L!Interrupts = 0
  BY StacksOn DEF L!read_char, L!Arrives
<1>2. PICK s : s = stack[running]
  OBVIOUS
<1>3. s \in Seq(Call) /\ Stacked(s)
  BY <1>2, StacksOn
<1>4. CASE L!Left(read_q) > 0
  <2>1. PICK g : g = L!Frame("cook")
    OBVIOUS
  <2>2. g \in Call /\ g.at = "cook"
    BY <2>1, FrameType DEF Places, L!Cooking
  <2>3. Put(Cons(g, s))
    BY <1>1, <1>2, <1>4, <2>1 DEF Put, Cons
  <2>4. stack'[running'] = Cons(g, s)
    BY <1>1, <2>3, PutIs
  <2>5. ~ Has(s, L!Cooking)
    <3>1. L!Cardinality({k \in DOMAIN s : s[k].at \in L!Cooking}) = 0
      BY <1>1, <1>2 DEF L!Interrupts
    <3>2. PICK K : K = {k \in DOMAIN s : s[k].at \in L!Cooking}
      OBVIOUS
    <3>3. IsFiniteSet(K)
      <4>1. DOMAIN s = 1..Len(s) /\ Len(s) \in Nat
        BY <1>3, LenProperties
      <4>2. IsFiniteSet(1..Len(s))
        BY <4>1, FS_Interval
      <4>3. QED
        BY <3>2, <4>1, <4>2, FS_Subset
    <3>4. Cardinality(K) = 0
      BY <3>1, <3>2, CardinalityIs
    <3>5. K = {}
      BY <3>3, <3>4, FS_EmptySet
    <3>6. QED
      BY <3>2, <3>5 DEF Has
  <2>6. s # <<>> => Head(s).at \in Base /\ ~ Has(Tail(s), Inner)
    <3> SUFFICES ASSUME s # <<>>
                 PROVE  Head(s).at \in Base /\ ~ Has(Tail(s), Inner)
      OBVIOUS
    <3>1. PICK h, t : h = Head(s) /\ t = Tail(s)
      OBVIOUS
    <3>2. h \in Call /\ t \in Seq(Call) /\ s = Cons(h, t)
      BY <1>3, <3>1, Split
    <3>3. h.at \notin Echoing /\ ~ Has(t, Inner)
      BY <1>2, <3>1 DEF SerialHolds, Serial
    <3>4. Has(s, L!Cooking) <=> h.at \in L!Cooking \/ Has(t, L!Cooking)
      BY <3>2, HasCons
    <3>5. h.at \in Places /\ h.at \notin L!Cooking
      BY <2>5, <3>2, <3>4 DEF Call
    <3>6. QED
      BY <3>1, <3>3, <3>5 DEF Places, Echoing
  <2>7. ~ Has(s, Inner)
    <3>1. CASE s = <<>>
      BY <3>1, NoCall
    <3>2. CASE s # <<>>
      <4>1. PICK h, t : h = Head(s) /\ t = Tail(s)
        OBVIOUS
      <4>2. h \in Call /\ t \in Seq(Call) /\ s = Cons(h, t)
        BY <1>3, <3>2, <4>1, Split
      <4>3. Has(s, Inner) <=> h.at \in Inner \/ Has(t, Inner)
        BY <4>2, HasCons
      <4>4. QED
        BY <2>6, <3>2, <4>1, <4>3 DEF Inner
    <3>3. QED
      BY <3>1, <3>2
  <2>8. Serial(Cons(g, s)) /\ HeldIn(Cons(g, s)) = <<>>
    <3>1. g.at \notin Echoing /\ HeldOf(g) = <<>>
      BY <2>2 DEF Echoing, HeldOf
    <3>2. QED
      BY <1>3, <2>2, <2>7, <3>1, SerialCons
  <2>9. HeldIn(s) = <<>>
    BY <2>6 DEF HeldIn, HeldOf, Base
  <2>10. <<>> \in Seq(Chars)
    BY EmptySeq
  <2>11. L!Moves(Way(secondary, <<>>, read_q), Way(secondary, <<>>, Append(read_q, c)))
    BY <2>10, OnQueues, WayAppend
  <2>12. L!Moves(write_q, write_q')
    BY <1>1, MovesNot
  <2>13. QED
    BY <1>1, <1>2, <1>4, <2>4, <2>8, <2>9, <2>11, <2>12 DEF Onward
<1>5. CASE ~ (L!Left(read_q) > 0)
  <2>1. UNCHANGED <<read_q, write_q, secondary, stack, running>>
    BY <1>1, <1>5
  <2>2. QED
    BY <2>1, Quiet DEF SerialHolds
<1>6. QED
  BY <1>4, <1>5

LEMMA write_charOnward ==
  ASSUME Orderly, SerialHolds, L!write_char
  PROVE  Onward
<1>1. /\ write_q' = L!Taken(write_q)
      /\ UNCHANGED <<read_q, secondary, running, stack>>
  BY DEF L!write_char
<1>2. L!Moves(write_q, write_q')
  BY <1>1, OnQueues, MovesTaken
<1>3. QED
  BY <1>1, <1>2, MovesNot DEF Onward, SerialHolds

LEMMA cookOnward ==
  ASSUME Orderly, SerialHolds, L!cook
  PROVE  Onward
<1>1. PICK h \in Call, t \in Seq(Call) : Runs(h, t) /\ h.at = "cook"
  BY AtIs DEF L!cook
<1>2. /\ UNCHANGED <<read_q, write_q, secondary, running>>
      /\ \/ Put(t)
         \/ L!Goto("got")
  BY <1>1 DEF L!cook, L!queues, Put, Runs
<1>3. HeldOf(h) = <<>>
  BY <1>1 DEF HeldOf
<1>4. HeldIn(stack[running]) = <<>> /\ ~ Has(t, Inner)
  <2>1. stack[running] = Cons(h, t)
    BY <1>1 DEF Runs
  <2>2. /\ Serial(Cons(h, t)) <=> h.at \notin Echoing /\ ~ Has(t, Inner)
        /\ HeldIn(Cons(h, t)) = HeldOf(h)
    BY SerialCons
  <2>3. QED
    BY <1>3, <2>1, <2>2 DEF SerialHolds
<1>5. CASE Put(t)
  <2>1. stack'[running'] = t
    BY <1>2, <1>5, PutIs
  <2>2. CASE t = <<>>
    BY <1>2, <1>4, <2>1, <2>2, SerialEmpty, Quiet
  <2>3. CASE t # <<>>
    <3>1. PICK f, r : f = Head(t) /\ r = Tail(t)
      OBVIOUS
    <3>2. f \in Call /\ r \in Seq(Call) /\ t = Cons(f, r)
      BY <2>3, <3>1, Split
    <3>3. Has(t, Inner) <=> f.at \in Inner \/ Has(r, Inner)
      BY <3>2, HasCons
    <3>4. f.at \in Base /\ ~ Has(r, Inner)
      BY <1>4, <3>2, <3>3 DEF Inner, Call
    <3>5. f.at \notin Echoing /\ HeldOf(f) = <<>>
      BY <3>4 DEF Base, Echoing, HeldOf
    <3>6. Serial(t) /\ HeldIn(t) = <<>>
      BY <3>2, <3>4, <3>5, SerialCons
    <3>7. QED
      BY <1>2, <1>4, <2>1, <3>6, Quiet
  <2>4. QED
    BY <2>2, <2>3
<1>6. CASE L!Goto("got")
  <2>1. PICK g \in Call : g.at = "got" /\ Put(Cons(g, t))
    BY <1>1, <1>6, Goes DEF Places, L!Cooking
  <2>2. g.at \notin Echoing /\ HeldOf(g) = <<>>
    BY <2>1 DEF Echoing, HeldOf
  <2>3. Serial(stack'[running']) /\ HeldIn(stack'[running']) = <<>>
    BY <1>1, <1>2, <2>1, <2>2, SerialTurns
  <2>4. QED
    BY <1>2, <1>4, <2>3, Quiet
<1>7. QED
  BY <1>2, <1>5, <1>6
LEMMA gotOnward ==
  ASSUME Orderly, SerialHolds, ~ console, L!got
  PROVE  Onward
<1>1. PICK h \in Call, t \in Seq(Call) : Runs(h, t) /\ h.at = "got"
  BY AtIs DEF L!got
<1>2. PICK c : c = L!First(read_q)
  OBVIOUS
<1>3. c \in Chars
  <2>1. CASE read_q = <<>>
    BY <1>2, <2>1 DEF L!First, L!Empty, Chars
  <2>2. CASE read_q # <<>>
    BY <1>2, <2>2, OnQueues, EndsTail DEF L!First, L!Empty
  <2>3. QED
    BY <2>1, <2>2
<1>4. ~ cooked
  BY OnQueues
<1>5. /\ read_q' = L!Taken(read_q) /\ UNCHANGED <<secondary, running>>
      /\ \/ c = "INTR" /\ L!Goto("cook")
         \/ L!Echoed(c, L!Echo(c), "store")
  BY <1>2, <1>4 DEF L!got
<1>6. HeldIn(stack[running]) = <<>>
  <2>1. stack[running] = Cons(h, t) /\ HeldOf(h) = <<>>
    BY <1>1 DEF Runs, HeldOf
  <2>2. QED
    BY <2>1, SerialCons
<1>7. CASE c = "INTR" /\ L!Goto("cook")
  <2>1. PICK g \in Call : g.at = "cook" /\ Put(Cons(g, t))
    BY <1>1, <1>7, Goes DEF Places, L!Cooking
  <2>2. g.at \notin Echoing
    BY <2>1 DEF Echoing
  <2>3. Serial(stack'[running'])
    BY <1>1, <1>5, <2>1, <2>2, SerialTurns
  <2>4. Exempt
    BY <1>2, <1>7 DEF Exempt, L!got
  <2>5. QED
    BY <2>3, <2>4 DEF Onward
<1>8. CASE L!Echoed(c, L!Echo(c), "store")
  <2>1. PICK g : g = With("store", c)
    OBVIOUS
  <2>2. g \in Call /\ g.at = "store" /\ g.c = c
    <3>1. "store" \in Places
      BY DEF Places, L!Cooking
    <3>2. QED
      BY <1>3, <2>1, <3>1, WithC
  <2>3. L!Becomes(<<g>>) /\ write_q' = write_q
    BY <1>4, <1>8, <2>1 DEF L!Echoed, With
  <2>4. Put(Cons(g, t))
    BY <1>1, <2>3, BecomesOne
  <2>5. g.at \notin Echoing /\ HeldOf(g) = <<c>>
    BY <2>2 DEF Echoing, HeldOf
  <2>6. Serial(stack'[running']) /\ HeldIn(stack'[running']) = <<c>>
    BY <1>1, <1>5, <2>2, <2>4, <2>5, SerialTurns
  <2>7. L!Moves(Way(secondary, <<>>, read_q), Way(secondary, <<c>>, L!Taken(read_q)))
    BY <1>2, OnQueues, WayGot
  <2>8. L!Moves(write_q, write_q')
    BY <2>3, MovesNot
  <2>9. QED
    BY <1>5, <1>6, <2>6, <2>7, <2>8 DEF Onward
<1>9. QED
  BY <1>5, <1>7, <1>8

LEMMA storeOnward ==
  ASSUME Orderly, SerialHolds, L!store
  PROVE  Onward
<1>1. PICK h \in Call, t \in Seq(Call) : Runs(h, t) /\ h.at = "store"
  BY AtIs DEF L!store
<1>2. /\ secondary' = Append(secondary, h.c) /\ L!Becomes(<<L!Frame("cook")>>)
      /\ UNCHANGED <<running, read_q, write_q>>
  BY <1>1 DEF L!store, Runs
<1>3. PICK g : g = L!Frame("cook")
  OBVIOUS
<1>4. g \in Call /\ g.at = "cook"
  BY <1>3, FrameType DEF Places, L!Cooking
<1>5. Put(Cons(g, t))
  BY <1>1, <1>2, <1>3, BecomesOne
<1>6. g.at \notin Echoing /\ HeldOf(g) = <<>> /\ HeldOf(h) = <<h.c>>
  BY <1>1, <1>4 DEF Echoing, HeldOf
<1>7. /\ Serial(stack'[running'])
      /\ HeldIn(stack[running]) = <<h.c>> /\ HeldIn(stack'[running']) = <<>>
  BY <1>1, <1>2, <1>4, <1>5, <1>6, SerialTurns
<1>8. h.c \in Chars
  BY DEF Call
<1>9. L!Moves(Way(secondary, <<h.c>>, read_q), Way(Append(secondary, h.c), <<>>, read_q))
  BY <1>8, OnQueues, WayStore
<1>10. L!Moves(write_q, write_q')
  BY <1>2, MovesNot
<1>11. QED
  BY <1>2, <1>7, <1>9, <1>10 DEF Onward

\* A step of a task in its own call that leaves the queues.
LEMMA BaseQuiet ==
  ASSUME Orderly, NEW h \in Call, NEW t \in Seq(Call), Runs(h, t), SerialHolds, h.at \in Base,
         BaseStep(t), UNCHANGED <<read_q, write_q, secondary>>
  PROVE  Onward
<1>1. /\ Serial(stack'[running'])
      /\ HeldIn(stack[running]) = <<>> /\ HeldIn(stack'[running']) = <<>>
  BY SerialBase
<1>2. QED
  BY <1>1, Quiet

LEMMA GotoIsBase ==
  ASSUME NEW h \in Call, NEW t \in Seq(Call), Runs(h, t), NEW l \in Base, L!Goto(l),
         running' \in {running, Idle}
  PROVE  BaseStep(t)
<1>1. PICK g \in Call : g.at = l /\ Put(Cons(g, t))
  BY Goes DEF Places
<1>2. QED
  BY <1>1 DEF BaseStep

LEMMA ReturnIsBase == ASSUME NEW t, L!Return PROVE BaseStep(t)
BY Returns DEF BaseStep

LEMMA tty_readOnward ==
  ASSUME Orderly, SerialHolds, L!tty_read
  PROVE  Onward
<1>1. PICK h \in Call, t \in Seq(Call) : Runs(h, t) /\ h.at = "read"
  BY AtIs DEF L!tty_read
<1>2. /\ UNCHANGED <<read_q, write_q, secondary>>
      /\ \/ L!Return
         \/ L!Sleep(running, "secondary", "read")
         \/ L!Goto("get") /\ running' = running
  BY DEF L!tty_read, L!queues
<1>3. h.at \in Base /\ "read" \in Base /\ "get" \in Base
  BY <1>1 DEF Base
<1>4. BaseStep(t)
  <2>1. CASE L!Return
    BY <2>1, ReturnIsBase
  <2>2. CASE L!Sleep(running, "secondary", "read")
    BY <1>1, <1>3, <2>2, GotoIsBase DEF L!Sleep
  <2>3. CASE L!Goto("get") /\ running' = running
    BY <1>1, <1>3, <2>3, GotoIsBase
  <2>4. QED
    BY <1>2, <2>1, <2>2, <2>3
<1>5. QED
  BY <1>1, <1>2, <1>3, <1>4, BaseQuiet

LEMMA read_getOnward ==
  ASSUME Orderly, SerialHolds, L!read_get
  PROVE  Onward
<1>1. PICK h \in Call, t \in Seq(Call) : Runs(h, t) /\ h.at = "get"
  BY AtIs DEF L!read_get
<1>2. PICK g : g = [h EXCEPT !.at = "more", !.nr = h.nr - 1]
  OBVIOUS
<1>3. /\ UNCHANGED <<read_q, write_q>> /\ secondary' = L!Taken(secondary)
      /\ \/ L!Return
         \/ L!Becomes(<<g>>) /\ running' = running
  BY <1>1, <1>2 DEF L!read_get, Runs
<1>4. h.at \in Base
  BY <1>1 DEF Base
<1>5. BaseStep(t)
  <2>1. CASE L!Return
    BY <2>1, ReturnIsBase
  <2>2. CASE L!Becomes(<<g>>) /\ running' = running
    <3>1. "more" \in Places /\ h.nr - 1 \in Int
      BY DEF Places, Base, Call
    <3>2. g \in Call /\ g.at = "more"
      BY <1>2, <3>1 DEF Call
    <3>3. Put(Cons(g, t))
      BY <1>1, <2>2, BecomesOne
    <3>4. g.at \in Base
      BY <3>2 DEF Base
    <3>5. QED
      BY <2>2, <3>2, <3>3, <3>4 DEF BaseStep
  <2>3. QED
    BY <1>3, <2>1, <2>2
<1>6. /\ Serial(stack'[running'])
      /\ HeldIn(stack[running]) = <<>> /\ HeldIn(stack'[running']) = <<>>
  BY <1>1, <1>4, <1>5, SerialBase
<1>7. L!Moves(Way(secondary, <<>>, read_q), Way(L!Taken(secondary), <<>>, read_q))
  BY OnQueues, WayTaken
<1>8. L!Moves(write_q, write_q')
  BY <1>3, MovesNot
<1>9. QED
  BY <1>3, <1>6, <1>7, <1>8 DEF Onward

LEMMA read_moreOnward ==
  ASSUME Orderly, SerialHolds, L!read_more
  PROVE  Onward
<1>1. PICK h \in Call, t \in Seq(Call) : Runs(h, t) /\ h.at = "more"
  BY AtIs DEF L!read_more
<1>2. /\ UNCHANGED <<read_q, write_q, secondary>>
      /\ \/ L!Return
         \/ L!Goto("get") /\ running' = running
  BY DEF L!read_more, L!queues
<1>3. h.at \in Base /\ "get" \in Base
  BY <1>1 DEF Base
<1>4. BaseStep(t)
  BY <1>1, <1>2, <1>3, ReturnIsBase, GotoIsBase
<1>5. QED
  BY <1>1, <1>2, <1>3, <1>4, BaseQuiet

LEMMA tty_writeOnward ==
  ASSUME Orderly, SerialHolds, L!tty_write
  PROVE  Onward
<1>1. PICK h \in Call, t \in Seq(Call) : Runs(h, t) /\ h.at \in {"write", "room"}
  BY AtIs DEF L!tty_write
<1>2. /\ UNCHANGED <<read_q, write_q, secondary>>
      /\ \/ L!Return
         \/ L!Sleep(running, "write", "room")
         \/ L!Goto("fill") /\ running' = running
  BY DEF L!tty_write, L!queues
<1>3. h.at \in Base /\ "room" \in Base /\ "fill" \in Base
  BY <1>1 DEF Base
<1>4. BaseStep(t)
  <2>1. CASE L!Return
    BY <2>1, ReturnIsBase
  <2>2. CASE L!Sleep(running, "write", "room")
    BY <1>1, <1>3, <2>2, GotoIsBase DEF L!Sleep
  <2>3. CASE L!Goto("fill") /\ running' = running
    BY <1>1, <1>3, <2>3, GotoIsBase
  <2>4. QED
    BY <1>2, <2>1, <2>2, <2>3
<1>5. QED
  BY <1>1, <1>2, <1>3, <1>4, BaseQuiet

LEMMA write_fillOnward ==
  ASSUME Orderly, SerialHolds, ~ console, L!write_fill
  PROVE  Onward
<1>1. PICK h \in Call, t \in Seq(Call) : Runs(h, t) /\ h.at = "fill"
  BY AtIs DEF L!write_fill
<1>2. PICK back : back = [h EXCEPT !.at = "written"]
  OBVIOUS
<1>3. /\ UNCHANGED <<read_q, write_q, secondary, running>>
      /\ \/ L!Goto("put")
         \/ L!StartWrite(write_q, back)
  BY <1>1, <1>2 DEF L!write_fill, L!queues, Runs
<1>4. h.at \in Base /\ "put" \in Base
  BY <1>1 DEF Base
<1>5. BaseStep(t)
  <2>1. CASE L!Goto("put")
    BY <1>1, <1>3, <1>4, <2>1, GotoIsBase
  <2>2. CASE L!StartWrite(write_q, back)
    <3>1. L!Goto("written")
      BY <1>1, <1>2, <2>2 DEF L!StartWrite, L!Goto, Runs
    <3>2. "written" \in Base
      BY DEF Base
    <3>3. QED
      BY <1>1, <1>3, <3>1, <3>2, GotoIsBase
  <2>3. QED
    BY <1>3, <2>1, <2>2
<1>6. QED
  BY <1>1, <1>3, <1>4, <1>5, BaseQuiet

LEMMA write_putOnward ==
  ASSUME Orderly, SerialHolds, L!write_put
  PROVE  Onward
<1>1. PICK h \in Call, t \in Seq(Call) : Runs(h, t) /\ h.at = "put"
  BY AtIs DEF L!write_put
<1>2. PICK g : g = [h EXCEPT !.at = "fill", !.nr = h.nr - 1]
  OBVIOUS
<1>3. /\ UNCHANGED <<read_q, secondary, running>>
      /\ write_q' = Append(write_q, "x") /\ L!Becomes(<<g>>)
  BY <1>1, <1>2 DEF L!write_put, Runs
<1>4. g \in Call /\ g.at = "fill"
  <2>1. "fill" \in Places /\ h.nr - 1 \in Int
    BY DEF Places, Base, Call
  <2>2. QED
    BY <1>2, <2>1 DEF Call
<1>5. Put(Cons(g, t))
  BY <1>1, <1>3, BecomesOne
<1>6. g.at \in Base /\ h.at \in Base
  BY <1>1, <1>4 DEF Base
<1>7. BaseStep(t)
  BY <1>3, <1>4, <1>5, <1>6 DEF BaseStep
<1>8. /\ Serial(stack'[running'])
      /\ HeldIn(stack[running]) = <<>> /\ HeldIn(stack'[running']) = <<>>
  BY <1>1, <1>6, <1>7, SerialBase
<1>9. L!Moves(write_q, write_q')
  BY <1>3, OnQueues, MovesAppend DEF Echoes, Chars
<1>10. QED
  BY <1>3, <1>8, <1>9, MovesNot DEF Onward

LEMMA writtenOnward ==
  ASSUME Orderly, SerialHolds, L!written
  PROVE  Onward
<1>1. PICK h \in Call, t \in Seq(Call) : Runs(h, t) /\ h.at = "written"
  BY AtIs DEF L!written
<1>2. /\ UNCHANGED <<read_q, write_q, secondary>>
      /\ \/ L!Goto("write") /\ running' = Idle
         \/ L!Return
  BY DEF L!written, L!queues
<1>3. h.at \in Base /\ "write" \in Base
  BY <1>1 DEF Base
<1>4. BaseStep(t)
  BY <1>1, <1>2, <1>3, ReturnIsBase, GotoIsBase
<1>5. QED
  BY <1>1, <1>2, <1>3, <1>4, BaseQuiet
LEMMA UpOnward ==
  ASSUME Orderly, NEW t \in Task, Up(t)
  PROVE  Onward
<1>1. PICK f \in Call : f.at \in Rests /\ stack'[running'] = Cons(f, <<>>)
  BY DEF Up
<1>2. PICK e : e = <<>>
  OBVIOUS
<1>3. e \in Seq(Call) /\ ~ Has(e, Inner)
  BY <1>2, EmptySeq, NoCall
<1>4. f.at \notin Echoing /\ HeldOf(f) = <<>>
  BY <1>1 DEF Rests, Echoing, HeldOf
<1>5. Serial(Cons(f, e)) /\ HeldIn(Cons(f, e)) = <<>>
  BY <1>3, <1>4, SerialCons
<1>6. HeldIn(stack[running]) = <<>>
  BY SerialEmpty DEF Up
<1>7. UNCHANGED <<read_q, write_q, secondary>>
  BY DEF Up
<1>8. QED
  BY <1>1, <1>2, <1>5, <1>6, <1>7, Quiet

LEMMA flushOnward ==
  ASSUME Orderly, SerialHolds, L!flush
  PROVE  Onward
<1>1. UNCHANGED <<running, stack>>
  BY DEF L!flush
<1>2. QED
  BY <1>1 DEF Onward, Exempt, SerialHolds

LEMMA NextOnward ==
  ASSUME Orderly, SerialHolds, ~ console, L!Next
  PROVE  Orderly' /\ Onward
<1>1. CASE \E c \in L!Char(cooked) : L!keyboard_interrupt(c) \/ L!read_char(c)
  <2>1. PICK c \in L!Char(cooked) : L!read_char(c)
    BY <1>1 DEF L!keyboard_interrupt
  <2>2. c \in Chars /\ L!Arrives(c)
    BY <2>1 DEF L!read_char, L!Char, Chars
  <2>3. QED
    BY <2>1, <2>2, ArrivesKeeps, read_charOnward
<1>2. CASE L!write_char
  BY <1>2, write_charKeeps, write_charOnward
<1>3. CASE L!cook
  BY <1>3, cookKeeps, cookOnward
<1>4. CASE L!got
  BY <1>4, gotKeeps, gotOnward
<1>5. CASE L!store
  BY <1>5, storeKeeps, storeOnward
<1>6. CASE L!unput \/ L!con_write
  <2>1. PICK h \in Call, t \in Seq(Call) : Runs(h, t) /\ h.at \in Echoing
    BY <1>6, AtIs DEF L!unput, L!con_write, Echoing
  <2>2. Serial(Cons(h, t)) <=> h.at \notin Echoing /\ ~ Has(t, Inner)
    BY SerialCons
  <2>3. QED
    BY <2>1, <2>2 DEF SerialHolds, Runs
<1>7. CASE \/ \E n \in Request, t \in Reader : L!Start(t, "read", n)
           \/ \E n \in Request, t \in Writer : L!Start(t, "write", n)
  <2>1. PICK n \in Request, t \in Reader \cup Writer, label \in {"read", "write"} :
          L!Start(t, label, n)
    BY <1>7
  <2>2. n \in Nat /\ t \in Task
    BY LineAssumption DEF Task
  <2>3. Up(t)
    BY <2>1, <2>2, StartIsUp
  <2>4. QED
    BY <2>1, <2>2, <2>3, StartKeeps, UpOnward
<1>8. CASE \E t \in L!Task : L!resume(t)
  <2>1. PICK t \in Task : L!resume(t)
    BY <1>8 DEF Task, L!Task
  <2>2. Up(t)
    BY <2>1, resumeIsUp
  <2>3. QED
    BY <2>1, <2>2, resumeKeeps, UpOnward
<1>9. CASE L!tty_read
  BY <1>9, tty_readKeeps, tty_readOnward
<1>10. CASE L!read_get
  BY <1>10, read_getKeeps, read_getOnward
<1>11. CASE L!read_more
  BY <1>11, read_moreKeeps, read_moreOnward
<1>12. CASE L!tty_write
  BY <1>12, tty_writeKeeps, tty_writeOnward
<1>13. CASE L!write_fill
  BY <1>13, write_fillKeeps, write_fillOnward
<1>14. CASE L!write_put
  BY <1>14, write_putKeeps, write_putOnward
<1>15. CASE L!written
  BY <1>15, writtenKeeps, writtenOnward
<1>16. CASE L!flush
  BY <1>16, flushKeeps, flushOnward
<1>17. CASE L!set_termio
  BY <1>17 DEF L!set_termio
<1>18. QED
  BY <1>1, <1>2, <1>3, <1>4, <1>5, <1>6, <1>7, <1>8, <1>9, <1>10, <1>11, <1>12, <1>13, <1>14,
     <1>15, <1>16, <1>17 DEF L!Next

SerialInv == ~ slip /\ ~ console => SerialHolds

LEMMA ConsoleStays == L!Next => UNCHANGED console
BY DEF L!Next, L!keyboard_interrupt, L!read_char, L!Arrives, L!write_char, L!cook, L!got,
     L!store, L!unput, L!con_write, L!Start, L!resume, L!tty_read, L!read_get, L!read_more,
     L!tty_write, L!write_fill, L!write_put, L!written, L!flush, L!set_termio, L!line

LEMMA SerialInvStep ==
  LineInv /\ SerialInv /\ [TerminalNext]_<<screen, discipline, part>> => SerialInv'
<1> SUFFICES ASSUME LineInv, SerialInv, [TerminalNext]_<<screen, discipline, part>>,
                    ~ slip', ~ console'
             PROVE  SerialHolds'
  BY DEF SerialInv
<1>1. CASE UNCHANGED discipline
  BY <1>1 DEF discipline, SerialInv, SerialHolds
<1>2. CASE L!Next
  <2>1. Orderly /\ SerialHolds /\ ~ console
    BY <1>2, NoStepAfterSlip, ConsoleStays DEF LineInv, SerialInv
  <2>2. QED
    BY <1>2, <2>1, NextOnward DEF Onward, SerialHolds
<1>3. QED
  BY <1>1, <1>2 DEF TerminalNext

LEMMA HeldIs == Orderly /\ SerialHolds => L!Held = HeldIn(stack[running])
<1> SUFFICES ASSUME Orderly, SerialHolds
             PROVE  L!Held = HeldIn(stack[running])
  OBVIOUS
<1>1. PICK F : F = L!Frames({"store"})
  OBVIOUS
<1>2. \A u, k : <<u, k>> \in F <=> /\ u \in DOMAIN stack /\ k \in DOMAIN stack[u]
                                   /\ stack[u][k].at = "store"
  BY <1>1 DEF L!Frames
<1>3. \A x \in F : \E u \in DOMAIN stack : \E k \in DOMAIN stack[u] : x = <<u, k>>
  BY <1>1 DEF L!Frames
<1>4. F # {} <=> Has(stack[running], {"store"})
  <2>1. ASSUME F # {}
        PROVE  Has(stack[running], {"store"})
    <3>1. PICK u \in DOMAIN stack, x \in F : \E k \in DOMAIN stack[u] : x = <<u, k>>
      BY <1>3, <2>1
    <3>2. PICK k \in DOMAIN stack[u] : x = <<u, k>>
      BY <3>1
    <3>3. stack[u][k].at = "store"
      BY <1>2, <3>1, <3>2
    <3>4. u = running
      BY <3>3, OthersRest DEF Rests
    <3>5. QED
      BY <3>3, <3>4 DEF Has
  <2>2. ASSUME Has(stack[running], {"store"})
        PROVE  F # {}
    <3>1. PICK k \in DOMAIN stack[running] : stack[running][k].at = "store"
      BY <2>2 DEF Has
    <3>2. running \in DOMAIN stack
      BY StacksOn
    <3>3. <<running, k>> \in F
      BY <1>2, <3>1, <3>2
    <3>4. QED
      BY <3>3
  <2>3. QED
    BY <2>1, <2>2
<1>5. L!Held = IF F = {} THEN <<>> ELSE <<L!Top.c>>
  BY <1>1 DEF L!Held
<1>6. CASE stack[running] = <<>>
  BY <1>4, <1>5, <1>6, NoCall, SerialEmpty
<1>7. CASE stack[running] # <<>>
  <2>1. PICK h \in Call, t \in Seq(Call) : Runs(h, t)
    BY <1>7, Innermost
  <2>2. stack[running] = Cons(h, t) /\ L!Top = h
    BY <2>1 DEF Runs
  <2>3. /\ Serial(Cons(h, t)) <=> h.at \notin Echoing /\ ~ Has(t, Inner)
        /\ HeldIn(Cons(h, t)) = HeldOf(h)
    BY SerialCons
  <2>4. ~ Has(t, Inner)
    BY <2>2, <2>3 DEF SerialHolds
  <2>5. Has(t, {"store"}) => Has(t, Inner)
    BY DEF Has, Inner, Places, L!Cooking, Base
  <2>6. Has(Cons(h, t), {"store"}) <=> h.at \in {"store"} \/ Has(t, {"store"})
    BY HasCons
  <2>7. QED
    BY <1>4, <1>5, <2>2, <2>3, <2>4, <2>5, <2>6 DEF HeldOf
<1>8. QED
  BY <1>6, <1>7

\* On a serial line each step but TCFLSH and the taking of an INTR takes a
\* character from the readers' end of the way from the interrupt to them, adds one
\* at its other end or moves one along, and the same on the way to the
\* transmitter: none is lost, doubled or overtaken (GETCH and PUTCH without cli in
\* copy_to_cooked and tty_read, the queue pointers of rs_io.s).  The model has no
\* step after a slip.
THEOREM CharactersInOrder == TerminalSpec => InOrder
<1>1. LineInv /\ SerialInv /\ [TerminalNext]_<<screen, discipline, part>>
        => [\/ console \/ L!flush \/ (L!At("got") /\ L!First(read_q) = "INTR")
            \/ L!Moves(L!Inward, L!Inward') /\ L!Moves(write_q, write_q')]_L!vars
  <2> SUFFICES ASSUME LineInv, SerialInv, [TerminalNext]_<<screen, discipline, part>>, ~ console,
                      ~ Exempt
               PROVE  \/ L!Moves(L!Inward, L!Inward') /\ L!Moves(write_q, write_q')
                      \/ UNCHANGED L!vars
    BY DEF Exempt
  <2>1. CASE UNCHANGED discipline
    BY <2>1 DEF discipline, L!vars, L!queues, L!line
  <2>2. CASE L!Next
    <3>1. Orderly /\ SerialHolds
      BY <2>2, NoStepAfterSlip DEF LineInv, SerialInv
    <3>2. Orderly' /\ Onward
      BY <2>2, <3>1, NextOnward
    <3>3. SerialHolds'
      BY <3>2 DEF Onward, SerialHolds
    <3>4. L!Held = HeldIn(stack[running])
      BY <3>1, HeldIs
    <3>5. L!Held' = HeldIn(stack'[running'])
      <4>1. (L!Held = HeldIn(stack[running]))'
        BY <3>2, <3>3, HeldIs, PTL
      <4>2. QED
        BY <4>1
    <3>6. /\ L!Inward = Way(secondary, HeldIn(stack[running]), read_q)
          /\ L!Inward' = Way(secondary', HeldIn(stack'[running']), read_q')
      BY <3>4, <3>5 DEF L!Inward, Way
    <3>7. QED
      BY <3>2, <3>6 DEF Onward
  <2>3. QED
    BY <2>1, <2>2 DEF TerminalNext
<1>2. TerminalInit => LineInv /\ SerialInv
  <2>1. ASSUME TerminalInit
        PROVE  LineInv /\ SerialInv
    <3>1. L!Init
      BY <2>1 DEF TerminalInit
    <3>2. Orderly
      BY <3>1, LineInitially
    <3>3. stack[running] = <<>>
      BY <3>1 DEF L!Init
    <3>4. QED
      BY <3>2, <3>3, SerialEmpty DEF LineInv, SerialInv, SerialHolds
  <2>2. QED
    BY <2>1
<1>3. QED
  BY <1>1, <1>2, LineInvStep, SerialInvStep, PTL DEF TerminalSpec, InOrder, L!InOrder

HIDE LineAssumption
USE SizesAssumption

-------------------------------------------------------------------------------
(* The grid that the window shows, and the video memory in rows.               *)

Show(s) ==
  [l \in 0..LINES - 1 |-> [c \in 0..COLUMNS - 1 |-> s.mem[s.origin + l * COLUMNS + c]]]

Full(s) == Good(s) /\ DOMAIN s.mem = 0..SCREEN_END - 1

IsGrid(g) == g = [l \in 0..LINES - 1 |-> [c \in 0..COLUMNS - 1 |-> g[l][c]]]

Agree(g, h) == \A l \in 0..LINES - 1, c \in 0..COLUMNS - 1 : g[l][c] = h[l][c]

LEMMA GridIs == ASSUME NEW g, NEW h, IsGrid(g), IsGrid(h), Agree(g, h) PROVE g = h
BY DEF IsGrid, Agree

LEMMA ShowIsGrid == ASSUME NEW s PROVE IsGrid(Show(s))
BY DEF IsGrid, Show

LEMMA Rows ==
  ASSUME NEW b \in Int, NEW l \in Int, NEW c \in 0..COLUMNS - 1
  PROVE  b * COLUMNS <= l * COLUMNS + c <=> b <= l
<1>1. PICK R, B : R = l * COLUMNS /\ B = b * COLUMNS
  OBVIOUS
<1>2. R \in Int /\ B \in Int
  BY <1>1
<1>3. CASE b <= l
  <2>1. PICK n \in Nat : l = b + n
    BY <1>3
  <2>2. n * COLUMNS \in Nat /\ R = B + n * COLUMNS
    BY <1>1, <2>1
  <2>3. QED
    BY <1>1, <1>2, <1>3, <2>2
<1>4. CASE l < b
  <2>1. PICK n \in Nat : b = l + 1 + n
    BY <1>4
  <2>2. n * COLUMNS \in Nat /\ B = R + COLUMNS + n * COLUMNS
    BY <1>1, <2>1
  <2>3. QED
    BY <1>1, <1>2, <1>4, <2>2
<1>5. QED
  BY <1>3, <1>4

\* Cells in reading order.
LEMMA Order ==
  ASSUME NEW l \in Int, NEW c \in 0..COLUMNS - 1, NEW m \in Int, NEW d \in 0..COLUMNS
  PROVE  m * COLUMNS + d <= l * COLUMNS + c <=> m < l \/ (m = l /\ d <= c)
<1>1. PICK R, M : R = l * COLUMNS /\ M = m * COLUMNS
  OBVIOUS
<1>2. R \in Int /\ M \in Int /\ (m = l => R = M) /\ (m + 1) * COLUMNS = M + COLUMNS
  BY <1>1
<1>3. (M <= R + c <=> m <= l) /\ (M + COLUMNS <= R + c <=> m + 1 <= l)
  BY <1>1, <1>2, Rows
<1>4. QED
  BY <1>1, <1>2, <1>3

\* Every cell of the window is in the memory.
LEMMA InMemory ==
  ASSUME NEW s, Full(s), NEW l \in 0..LINES - 1, NEW c \in 0..COLUMNS - 1
  PROVE  /\ s.origin \in Nat /\ l * COLUMNS + c \in 0..LINES * COLUMNS - 1
         /\ s.origin + l * COLUMNS + c \in DOMAIN s.mem
<1>1. PICK R, W : R = l * COLUMNS /\ W = LINES * COLUMNS
  OBVIOUS
<1>2. R \in Int /\ W \in Int
  BY <1>1
<1>3. 0 <= R + c /\ R + c < W
  <2>1. 0 * COLUMNS = 0
    OBVIOUS
  <2>2. QED
    BY <1>1, <1>2, <2>1, Rows
<1>4. s.origin \in Int /\ s.origin >= 0 /\ s.origin + W <= SCREEN_END
  BY <1>1 DEF Full, Good, Within, Screen
<1>5. QED
  BY <1>1, <1>2, <1>3, <1>4 DEF Full

LEMMA CellOf ==
  ASSUME NEW s, NEW l \in 0..LINES - 1, NEW c \in 0..COLUMNS - 1
  PROVE  Show(s)[l][c] = s.mem[s.origin + l * COLUMNS + c]
BY DEF Show

-------------------------------------------------------------------------------
(* Filling and copying, and what is then shown.                                *)

Same(r, s) == r.x = s.x /\ r.y = s.y /\ r.top = s.top /\ r.bottom = s.bottom

Shown(r, s, g) == Full(r) /\ Same(r, s) /\ Show(r) = g

\* The memory changes, and nothing else.
Wrote(r, s) ==
  /\ Good(r) /\ DOMAIN r.mem = DOMAIN s.mem /\ Same(r, s)
  /\ r.origin = s.origin /\ r.scr_end = s.scr_end /\ r.pos = s.pos

LEMMA StoredIs ==
  ASSUME NEW s, NEW m, Full(s), DOMAIN m = DOMAIN s.mem
  PROVE  Full(Stored(s, m)) /\ Wrote(Stored(s, m), s) /\ Stored(s, m).mem = m
<1>1. Screen(s) /\ Good(s)
  BY DEF Full, Good, Within
<1>2. Good(Stored(s, m)) /\ Stored(s, m).mem = m
  BY <1>1, StoredGood DEF Stored, Screen
<1>3. QED
  BY <1>1, <1>2, StoredFields DEF Full, Wrote, Same

LEMMA FillIs ==
  ASSUME NEW s, Full(s), NEW from \in Int, NEW count \in Int
  PROVE  /\ Full(Fill(s, from, count)) /\ Wrote(Fill(s, from, count), s)
         /\ \A p \in DOMAIN s.mem : Fill(s, from, count).mem[p] =
              IF from <= p /\ p < from + count THEN Blank ELSE s.mem[p]
<1>1. PICK m : m = [p \in DOMAIN s.mem |-> IF p \in from..from + count - 1 THEN Blank ELSE s.mem[p]]
  OBVIOUS
<1>2. Fill(s, from, count) = Stored(s, m)
  BY <1>1 DEF Fill, Stored
<1>3. DOMAIN m = DOMAIN s.mem
  BY <1>1
<1>4. \A p \in DOMAIN s.mem : p \in Int
  BY DEF Full
<1>5. \A p \in DOMAIN s.mem : m[p] = IF from <= p /\ p < from + count THEN Blank ELSE s.mem[p]
  BY <1>1, <1>4
<1>6. QED
  BY <1>2, <1>3, <1>5, StoredIs

LEMMA CopyIs ==
  ASSUME NEW s, Full(s), NEW from \in Int, NEW to \in Int, NEW count \in Int
  PROVE  /\ Full(Copy(s, from, to, count)) /\ Wrote(Copy(s, from, to, count), s)
         /\ \A p \in DOMAIN s.mem : Copy(s, from, to, count).mem[p] =
              IF to <= p /\ p < to + count THEN s.mem[p - to + from] ELSE s.mem[p]
<1>1. PICK m : m = [p \in DOMAIN s.mem |-> IF p \in to..to + count - 1 THEN s.mem[p - to + from]
                                                                 ELSE s.mem[p]]
  OBVIOUS
<1>2. Copy(s, from, to, count) = Stored(s, m)
  BY <1>1 DEF Copy, Stored
<1>3. DOMAIN m = DOMAIN s.mem
  BY <1>1
<1>4. \A p \in DOMAIN s.mem : p \in Int
  BY DEF Full
<1>5. \A p \in DOMAIN s.mem : m[p] = IF to <= p /\ p < to + count THEN s.mem[p - to + from]
                                                               ELSE s.mem[p]
  BY <1>1, <1>4
<1>6. QED
  BY <1>2, <1>3, <1>5, StoredIs

\* A copy and a fill, as scrolling and the insertion of characters are done:
\* what is then at a place of the window, n cells being copied d cells on.
Moved(s, to, d, n, f, k) == Fill(Copy(s, s.origin + to + d, s.origin + to, n), s.origin + f, k)

LEMMA MovedIs ==
  ASSUME NEW s, Full(s), NEW to \in Int, NEW d \in Int, NEW n \in Int, NEW f \in Int, NEW k \in Int
  PROVE  /\ Full(Moved(s, to, d, n, f, k)) /\ Wrote(Moved(s, to, d, n, f, k), s)
         /\ \A l \in 0..LINES - 1, c \in 0..COLUMNS - 1 :
              Show(Moved(s, to, d, n, f, k))[l][c] =
                IF f <= l * COLUMNS + c /\ l * COLUMNS + c < f + k THEN Blank
                ELSE IF to <= l * COLUMNS + c /\ l * COLUMNS + c < to + n
                     THEN s.mem[s.origin + l * COLUMNS + c + d] ELSE Show(s)[l][c]
<1>1. s.origin \in Int
  BY DEF Full, Good, Within, Screen
<1>2. PICK a, b, e : a = s.origin + to + d /\ b = s.origin + to /\ e = s.origin + f
  OBVIOUS
<1>3. a \in Int /\ b \in Int /\ e \in Int
  BY <1>1, <1>2
<1>4. PICK r : r = Copy(s, a, b, n)
  OBVIOUS
<1>5. /\ Full(r) /\ Wrote(r, s)
      /\ \A p \in DOMAIN s.mem : r.mem[p] = IF b <= p /\ p < b + n THEN s.mem[p - b + a]
                                                               ELSE s.mem[p]
  BY <1>3, <1>4, CopyIs
<1>6. PICK q : q = Fill(r, e, k)
  OBVIOUS
<1>7. /\ Full(q) /\ Wrote(q, r)
      /\ \A p \in DOMAIN r.mem : q.mem[p] = IF e <= p /\ p < e + k THEN Blank ELSE r.mem[p]
  BY <1>3, <1>5, <1>6, FillIs
<1>8. Moved(s, to, d, n, f, k) = q
  BY <1>2, <1>4, <1>6 DEF Moved
<1>9. Wrote(q, s)
  BY <1>5, <1>7 DEF Wrote, Same
<1>10. ASSUME NEW l \in 0..LINES - 1, NEW c \in 0..COLUMNS - 1
       PROVE  Show(q)[l][c] =
                IF f <= l * COLUMNS + c /\ l * COLUMNS + c < f + k THEN Blank
                ELSE IF to <= l * COLUMNS + c /\ l * COLUMNS + c < to + n
                     THEN s.mem[s.origin + l * COLUMNS + c + d] ELSE Show(s)[l][c]
  <2>1. PICK P : P = l * COLUMNS + c
    OBVIOUS
  <2>2. P \in Int
    BY <2>1
  <2>3. s.origin + l * COLUMNS + c = s.origin + P
    BY <1>1, <2>1
  <2>4. /\ s.origin + P \in DOMAIN s.mem /\ DOMAIN r.mem = DOMAIN s.mem /\ q.origin = s.origin
        /\ Show(q)[l][c] = q.mem[s.origin + P] /\ Show(s)[l][c] = s.mem[s.origin + P]
    BY <1>5, <1>9, <2>3, InMemory, CellOf DEF Wrote
  <2>5. PICK p : p = s.origin + P
    OBVIOUS
  <2>6. /\ q.mem[p] = IF e <= p /\ p < e + k THEN Blank ELSE r.mem[p]
        /\ r.mem[p] = IF b <= p /\ p < b + n THEN s.mem[p - b + a] ELSE s.mem[p]
    BY ONLY <1>5, <1>7, <2>4, <2>5
  <2>7. /\ e <= p <=> f <= P
        /\ p < e + k <=> P < f + k
        /\ b <= p <=> to <= P
        /\ p < b + n <=> P < to + n
        /\ p - b + a = p + d
    BY <1>1, <1>2, <2>2, <2>5
  <2>8. s.origin + l * COLUMNS + c + d = p + d
    BY <2>3, <2>5
  <2>9. QED
    BY ONLY <2>1, <2>4, <2>5, <2>6, <2>7, <2>8
<1>11. QED
  BY <1>7, <1>8, <1>9, <1>10

-------------------------------------------------------------------------------
(* Scrolling. *)

IsUp(u, g, a, b) ==
  /\ IsGrid(u)
  /\ \A l \in 0..LINES - 1, c \in 0..COLUMNS - 1 :
       u[l][c] = IF ~ (a <= l /\ l < b) THEN g[l][c] ELSE IF l + 1 < b THEN g[l + 1][c] ELSE Blank
IsDown(d, g, a, b) ==
  /\ IsGrid(d)
  /\ \A l \in 0..LINES - 1, c \in 0..COLUMNS - 1 :
       d[l][c] = IF ~ (a <= l /\ l < b) THEN g[l][c] ELSE IF l > a THEN g[l - 1][c] ELSE Blank

LEMMA UpIs ==
  ASSUME NEW g, NEW a, NEW b, a \in Nat, b \in 0..LINES, IsGrid(g)
  PROVE  IsUp(Abstract!Up(g, a, b), g, a, b) /\ IsDown(Abstract!Down(g, a, b), g, a, b)
<1>1. PICK e : e = [c \in 0..COLUMNS - 1 |-> Blank]
  OBVIOUS
<1>2. Abstract!Empty = e
  BY <1>1 DEF Abstract!Empty, Abstract!Column
<1>3. ASSUME NEW l \in 0..LINES - 1, NEW c \in 0..COLUMNS - 1
      PROVE  /\ Abstract!Up(g, a, b)[l][c] = IF ~ (a <= l /\ l < b) THEN g[l][c]
                                              ELSE IF l + 1 < b THEN g[l + 1][c] ELSE Blank
             /\ Abstract!Down(g, a, b)[l][c] = IF ~ (a <= l /\ l < b) THEN g[l][c]
                                                ELSE IF l > a THEN g[l - 1][c] ELSE Blank
  <2>1. l \in a..b - 1 <=> a <= l /\ l < b
    OBVIOUS
  <2>2. /\ Abstract!Up(g, a, b)[l] = IF l \notin a..b - 1 THEN g[l] ELSE IF l + 1 < b THEN g[l + 1] ELSE e
        /\ Abstract!Down(g, a, b)[l] = IF l \notin a..b - 1 THEN g[l] ELSE IF l > a THEN g[l - 1] ELSE e
    BY <1>2, Zenon DEF Abstract!Up, Abstract!Down, Abstract!Line
  <2>3. e[c] = Blank
    BY <1>1
  <2>4. QED
    BY ONLY <2>1, <2>2, <2>3
<1>4. \A l \in 0..LINES - 1 : g[l] = [c \in 0..COLUMNS - 1 |-> g[l][c]]
  BY Zenon DEF IsGrid
<1>5. e = [c \in 0..COLUMNS - 1 |-> e[c]]
  BY <1>1
<1>6. PICK u : u = Abstract!Up(g, a, b)
  OBVIOUS
<1>7. PICK d : d = Abstract!Down(g, a, b)
  OBVIOUS
<1>8. ASSUME NEW l \in 0..LINES - 1
      PROVE  u[l] = [c \in 0..COLUMNS - 1 |-> u[l][c]] /\ d[l] = [c \in 0..COLUMNS - 1 |-> d[l][c]]
  <2>1. l \in a..b - 1 => (l + 1 < b => l + 1 \in 0..LINES - 1) /\ (l > a => l - 1 \in 0..LINES - 1)
    OBVIOUS
  <2>2. /\ u[l] = IF l \notin a..b - 1 THEN g[l] ELSE IF l + 1 < b THEN g[l + 1] ELSE e
        /\ d[l] = IF l \notin a..b - 1 THEN g[l] ELSE IF l > a THEN g[l - 1] ELSE e
    BY <1>2, <1>6, <1>7, Zenon DEF Abstract!Up, Abstract!Down, Abstract!Line
  <2>3. (\E k \in 0..LINES - 1 : u[l] = g[k]) \/ u[l] = e
    BY ONLY <2>1, <2>2
  <2>4. (\E k \in 0..LINES - 1 : d[l] = g[k]) \/ d[l] = e
    BY ONLY <2>1, <2>2
  <2>5. QED
    BY ONLY <1>4, <1>5, <2>3, <2>4, Zenon
<1>9. u = [l \in 0..LINES - 1 |-> u[l]] /\ d = [l \in 0..LINES - 1 |-> d[l]]
  BY <1>6, <1>7, Zenon DEF Abstract!Up, Abstract!Down, Abstract!Line
<1>10. IsGrid(u) /\ IsGrid(d)
  BY ONLY <1>8, <1>9, Zenon DEF IsGrid
<1>11. IsUp(u, g, a, b) /\ IsDown(d, g, a, b)
  BY ONLY <1>3, <1>6, <1>7, <1>10 DEF IsUp, IsDown
<1>12. QED
  BY ONLY <1>6, <1>7, <1>11

LEMMA UpShown ==
  ASSUME NEW s, NEW a, NEW b, a \in Nat, b \in 0..LINES
  PROVE  /\ IsUp(Abstract!Up(Show(s), a, b), Show(s), a, b)
         /\ IsDown(Abstract!Down(Show(s), a, b), Show(s), a, b)
BY ShowIsGrid, UpIs

\* The numbers of a screen.
Numbers(s) ==
  /\ s.x \in 0..COLUMNS /\ s.y \in 0..LINES - 1 /\ s.top \in 0..LINES - 1
  /\ s.bottom \in 1..LINES /\ s.top < s.bottom
  /\ s.origin \in Nat /\ s.pos \in Int /\ s.scr_end \in Int

LEMMA NumbersOf ==
  ASSUME NEW s, Full(s)
  PROVE  /\ Numbers(s) /\ Screen(s) /\ Good(s)
         /\ s.pos = s.origin + s.y * COLUMNS + s.x
         /\ s.scr_end = s.origin + LINES * COLUMNS /\ s.scr_end <= SCREEN_END
<1>1. Good(s) /\ Screen(s)
  BY DEF Full, Good, Within
<1>2. /\ s.origin \in Int /\ s.pos \in Int /\ s.scr_end \in Int
      /\ s.top \in Int /\ s.bottom \in Int
  BY ONLY <1>1 DEF Screen
<1>3. /\ s.pos = s.origin + s.y * COLUMNS + s.x
      /\ s.scr_end = s.origin + LINES * COLUMNS /\ s.scr_end <= SCREEN_END
      /\ s.origin >= 0 /\ s.x \in 0..COLUMNS /\ s.y \in 0..LINES - 1
      /\ s.top \in 0..s.bottom - 1 /\ s.bottom \in 1..LINES
  BY ONLY <1>1, Zenon DEF Good, Within
<1>4. s.top \in 0..LINES - 1 /\ s.top < s.bottom /\ s.origin \in Nat
  BY ONLY <1>2, <1>3, SizesAssumption
<1>5. QED
  BY ONLY <1>1, <1>2, <1>3, <1>4, Zenon DEF Numbers

\* The lines from t to b - 1, when t..b-1 is the scroll region.
LEMMA scrupRegion ==
  ASSUME NEW s, Full(s), s.top # 0 \/ s.bottom # LINES
  PROVE  Shown(scrup(s), s, Abstract!Up(Show(s), s.top, s.bottom))
<1> DEFINE t == s.top
           b == s.bottom
<1>1. /\ t \in 0..LINES - 1 /\ b \in 1..LINES /\ t < b /\ s.origin \in Nat
  BY NumbersOf DEF Numbers
<1>2. PICK T, B : T = t * COLUMNS /\ B = b * COLUMNS
  OBVIOUS
<1>3. T \in Int /\ B \in Int /\ (b - 1) * COLUMNS = B - COLUMNS
  BY <1>1, <1>2
<1>4. /\ s.origin + COLUMNS * (t + 1) = s.origin + T + COLUMNS
      /\ s.origin + COLUMNS * t = s.origin + T
      /\ (b - t - 1) * COLUMNS = B - T - COLUMNS
      /\ s.origin + COLUMNS * (b - 1) = s.origin + (B - COLUMNS)
  BY <1>1, <1>2
<1>5. scrup(s) = Fill(Copy(s, s.origin + COLUMNS * (t + 1), s.origin + COLUMNS * t, (b - t - 1) * COLUMNS),
                      s.origin + COLUMNS * (b - 1), COLUMNS)
  BY DEF scrup
<1>6. scrup(s) = Moved(s, T, COLUMNS, B - T - COLUMNS, B - COLUMNS, COLUMNS)
  BY ONLY <1>4, <1>5 DEF Moved
<1>7. PICK r : r = scrup(s)
  OBVIOUS
<1>8. /\ Full(r) /\ Wrote(r, s)
      /\ \A l \in 0..LINES - 1, c \in 0..COLUMNS - 1 :
           Show(r)[l][c] =
             IF B - COLUMNS <= l * COLUMNS + c /\ l * COLUMNS + c < B - COLUMNS + COLUMNS THEN Blank
             ELSE IF T <= l * COLUMNS + c /\ l * COLUMNS + c < T + (B - T - COLUMNS)
                  THEN s.mem[s.origin + l * COLUMNS + c + COLUMNS] ELSE Show(s)[l][c]
  <2>1. PICK n, f, k : n = B - T - COLUMNS /\ f = B - COLUMNS /\ k = COLUMNS
    OBVIOUS
  <2>2. n \in Int /\ f \in Int /\ k \in Int /\ T \in Int
    BY <1>3, <2>1
  <2>3. r = Moved(s, T, k, n, f, k)
    BY ONLY <1>6, <1>7, <2>1
  <2>4. /\ Full(r) /\ Wrote(r, s)
        /\ \A l \in 0..LINES - 1, c \in 0..COLUMNS - 1 :
             Show(r)[l][c] =
               IF f <= l * COLUMNS + c /\ l * COLUMNS + c < f + k THEN Blank
               ELSE IF T <= l * COLUMNS + c /\ l * COLUMNS + c < T + n
                    THEN s.mem[s.origin + l * COLUMNS + c + k] ELSE Show(s)[l][c]
    BY ONLY Full(s), <2>2, <2>3, MovedIs
  <2>5. QED
    BY ONLY <2>1, <2>4
<1>9. PICK u : u = Abstract!Up(Show(s), t, b)
  OBVIOUS
<1>10. IsUp(u, Show(s), t, b)
  BY ONLY <1>1, <1>9, UpShown, SizesAssumption
<1>11. ASSUME NEW l \in 0..LINES - 1, NEW c \in 0..COLUMNS - 1
       PROVE  Show(r)[l][c] = u[l][c]
  <2>1. PICK P : P = l * COLUMNS + c
    OBVIOUS
  <2>2. P \in Int /\ (l + 1) * COLUMNS + c = P + COLUMNS
    BY <2>1
  <2>3. /\ T <= P <=> t <= l
        /\ B - COLUMNS <= P <=> b - 1 <= l
        /\ B <= P <=> b <= l
    <3>1. t \in Int /\ b \in Int /\ b - 1 \in Int /\ l \in Int
      BY <1>1
    <3>2. QED
      BY ONLY <1>2, <1>3, <2>1, <3>1, Rows
  <2>4. l + 1 < b => Show(s)[l + 1][c] = s.mem[s.origin + P + COLUMNS]
    <3>1. l + 1 < b => l + 1 \in 0..LINES - 1
      BY <1>1
    <3>2. s.origin + (l + 1) * COLUMNS + c = s.origin + P + COLUMNS
      BY <1>1, <2>1
    <3>3. QED
      BY <3>1, <3>2, CellOf
  <2>5. s.origin + l * COLUMNS + c + COLUMNS = s.origin + P + COLUMNS
    BY <1>1, <2>1
  <2>6. Show(r)[l][c] = IF B - COLUMNS <= P /\ P < B THEN Blank
                        ELSE IF T <= P /\ P < B - COLUMNS
                             THEN s.mem[s.origin + P + COLUMNS] ELSE Show(s)[l][c]
    <3>1. B - COLUMNS + COLUMNS = B /\ T + (B - T - COLUMNS) = B - COLUMNS
      BY <1>3
    <3>2. QED
      BY ONLY <1>8, <2>1, <2>5, <3>1
  <2>7. u[l][c] = IF ~ (t <= l /\ l < b) THEN Show(s)[l][c]
                  ELSE IF l + 1 < b THEN Show(s)[l + 1][c] ELSE Blank
    BY <1>10 DEF IsUp
  <2>8. /\ P < B <=> l < b
        /\ P < B - COLUMNS <=> l + 1 < b
        /\ B - COLUMNS <= P /\ P < B <=> l + 1 = b
    BY <1>1, <1>3, <2>2, <2>3
  <2>9. l + 1 = b => t <= l
    BY <1>1
  <2>10. QED
    BY ONLY <1>1, <2>3, <2>4, <2>6, <2>7, <2>8, <2>9
<1>12. QED
  BY <1>7, <1>8, <1>9, <1>10, <1>11, GridIs, ShowIsGrid DEF Shown, Wrote, Agree, IsUp

\* The window moves down a line of the memory, or is copied to its beginning.
LEMMA scrupWhole ==
  ASSUME NEW s, Full(s), s.top = 0, s.bottom = LINES
  PROVE  Shown(scrup(s), s, Abstract!Up(Show(s), s.top, s.bottom))
<1> DEFINE o == s.origin + COLUMNS
           e == s.scr_end + COLUMNS
<1>1. PICK r : r = scrup(s)
  OBVIOUS
<1>2. PICK W : W = LINES * COLUMNS
  OBVIOUS
<1>3. /\ W \in Int /\ (LINES - 1) * COLUMNS = W - COLUMNS /\ LINES \in Nat
      /\ s.origin \in Nat /\ s.scr_end = s.origin + W /\ s.scr_end \in Int /\ s.pos \in Int
      /\ Screen(s)
  BY <1>2, NumbersOf DEF Numbers
<1>4. Good(r) /\ r.x = s.x /\ r.y = s.y
  BY <1>1, scrupGood, NumbersOf
<1>5. /\ DOMAIN r.mem = DOMAIN s.mem /\ r.top = s.top /\ r.bottom = s.bottom
      /\ \A l \in 0..LINES - 1, c \in 0..COLUMNS - 1 :
           r.mem[r.origin + l * COLUMNS + c] =
             IF W - COLUMNS <= l * COLUMNS + c /\ l * COLUMNS + c < W THEN Blank
             ELSE s.mem[s.origin + (l * COLUMNS + c + COLUMNS)]
  <2>1. CASE e > SCREEN_END
    <3>1. PICK n, z : n = W - COLUMNS /\ z = 0
      OBVIOUS
    <3>2. PICK k : k = Copy(s, o, z, n)
      OBVIOUS
    <3>3. PICK q : q = Fill(k, n, COLUMNS)
      OBVIOUS
    <3>4. r = Window(q, 0, e - o, s.pos + COLUMNS - o)
      BY <1>1, <1>3, <2>1, <3>1, <3>2, <3>3 DEF scrup
    <3>5. n \in Int /\ z \in Int /\ o \in Int /\ e - o \in Int /\ s.pos + COLUMNS - o \in Int
      BY <1>3, <3>1
    <3>6. /\ Full(k) /\ Wrote(k, s)
          /\ \A p \in DOMAIN s.mem : k.mem[p] = IF z <= p /\ p < z + n THEN s.mem[p - z + o]
                                                                   ELSE s.mem[p]
      <4>1. PICK a : a = o
        OBVIOUS
      <4>2. a \in Int /\ k = Copy(s, a, z, n)
        BY ONLY <3>2, <3>5, <4>1
      <4>3. /\ Full(k) /\ Wrote(k, s)
            /\ \A p \in DOMAIN s.mem : k.mem[p] = IF z <= p /\ p < z + n THEN s.mem[p - z + a]
                                                                     ELSE s.mem[p]
        BY ONLY Full(s), <3>5, <4>2, CopyIs
      <4>4. QED
        BY ONLY <4>1, <4>3
    <3>7. /\ Full(q) /\ Wrote(q, k)
          /\ \A p \in DOMAIN k.mem : q.mem[p] = IF n <= p /\ p < n + COLUMNS THEN Blank
                                              ELSE k.mem[p]
      BY <3>3, <3>5, <3>6, FillIs
    <3>8. Screen(q)
      BY <3>7, NumbersOf
    <3>9. r.mem = q.mem /\ r.origin = 0 /\ r.top = q.top /\ r.bottom = q.bottom
      BY <3>4, <3>5, <3>8 DEF Window, Screen
    <3>10. ASSUME NEW l \in 0..LINES - 1, NEW c \in 0..COLUMNS - 1
           PROVE  r.mem[r.origin + l * COLUMNS + c] =
                    IF W - COLUMNS <= l * COLUMNS + c /\ l * COLUMNS + c < W THEN Blank
                    ELSE s.mem[s.origin + (l * COLUMNS + c + COLUMNS)]
      <4>1. PICK p : p = l * COLUMNS + c
        OBVIOUS
      <4>2. p \in 0..W - 1 /\ s.origin + p \in DOMAIN s.mem
        <5>1. p \in 0..W - 1 /\ s.origin + l * COLUMNS + c \in DOMAIN s.mem
          BY <1>2, <4>1, InMemory
        <5>2. s.origin + l * COLUMNS + c = s.origin + p
          BY <1>3, <4>1
        <5>3. QED
          BY <5>1, <5>2
      <4>3. p \in DOMAIN s.mem /\ p \in Int
        BY <1>3, <4>2 DEF Full
      <4>4. r.origin + l * COLUMNS + c = p
        BY <3>9, <4>1
      <4>5. q.mem[p] = IF n <= p /\ p < n + COLUMNS THEN Blank
                       ELSE IF z <= p /\ p < z + n THEN s.mem[p - z + o] ELSE s.mem[p]
        BY <3>6, <3>7, <4>3 DEF Wrote
      <4>6. p < z + n <=> ~ (n <= p /\ p < n + COLUMNS)
        BY <1>3, <3>1, <4>2
      <4>7. /\ n + COLUMNS = W /\ z <= p /\ p - z + o = s.origin + (p + COLUMNS)
        BY <1>3, <3>1, <4>2
      <4>8. QED
        BY ONLY <3>1, <3>9, <4>1, <4>4, <4>5, <4>6, <4>7
    <3>11. QED
      BY <3>6, <3>7, <3>9, <3>10 DEF Wrote, Same
  <2>2. CASE ~ (e > SCREEN_END)
    <3>1. PICK f : f = e - COLUMNS
      OBVIOUS
    <3>2. PICK q : q = Fill(s, f, COLUMNS)
      OBVIOUS
    <3>3. r = Window(q, o, e, s.pos + COLUMNS)
      BY <1>1, <1>3, <2>2, <3>1, <3>2, s.top = 0, s.bottom = LINES DEF scrup
    <3>4. f \in Int /\ o \in Int /\ e \in Int /\ s.pos + COLUMNS \in Int /\ f = s.origin + W
      BY <1>3, <3>1
    <3>5. /\ Full(q) /\ Wrote(q, s)
          /\ \A p \in DOMAIN s.mem : q.mem[p] = IF f <= p /\ p < f + COLUMNS THEN Blank ELSE s.mem[p]
      BY <3>2, <3>4, FillIs
    <3>6. Screen(q)
      BY <3>5, NumbersOf
    <3>7. r.mem = q.mem /\ r.origin = o /\ r.top = q.top /\ r.bottom = q.bottom
      BY <3>3, <3>4, <3>6 DEF Window, Screen
    <3>8. ASSUME NEW l \in 0..LINES - 1, NEW c \in 0..COLUMNS - 1
          PROVE  r.mem[r.origin + l * COLUMNS + c] =
                   IF W - COLUMNS <= l * COLUMNS + c /\ l * COLUMNS + c < W THEN Blank
                   ELSE s.mem[s.origin + (l * COLUMNS + c + COLUMNS)]
      <4>1. PICK p : p = l * COLUMNS + c
        OBVIOUS
      <4>2. PICK w : w = s.origin + (p + COLUMNS)
        OBVIOUS
      <4>3. p \in 0..W - 1
        BY <1>2, <4>1, InMemory
      <4>4. w \in DOMAIN s.mem
        <5>1. e <= SCREEN_END
          BY <1>3, <2>2
        <5>2. w \in 0..SCREEN_END - 1
          BY <1>3, <4>2, <4>3, <5>1
        <5>3. QED
          BY <5>2 DEF Full
      <4>5. r.origin + l * COLUMNS + c = w
        BY <1>3, <3>7, <4>1, <4>2
      <4>6. q.mem[w] = IF f <= w /\ w < f + COLUMNS THEN Blank ELSE s.mem[w]
        BY <3>5, <4>4
      <4>7. (f <= w <=> W - COLUMNS <= p) /\ (w < f + COLUMNS <=> p < W)
        BY <1>3, <3>4, <4>2, <4>3
      <4>8. QED
        BY ONLY <3>7, <4>1, <4>2, <4>5, <4>6, <4>7
    <3>9. QED
      BY <3>5, <3>7, <3>8 DEF Wrote, Same
  <2>3. QED
    BY <2>1, <2>2
<1>6. Full(r) /\ Same(r, s)
  BY <1>4, <1>5 DEF Full, Same
<1>7. PICK u : u = Abstract!Up(Show(s), s.top, s.bottom)
  OBVIOUS
<1>8. IsUp(u, Show(s), 0, LINES)
  <2>1. 0 \in Nat /\ LINES \in 0..LINES
    BY <1>3
  <2>2. QED
    BY ONLY <1>7, <2>1, UpShown, s.top = 0, s.bottom = LINES
<1>9. ASSUME NEW l \in 0..LINES - 1, NEW c \in 0..COLUMNS - 1
      PROVE  Show(r)[l][c] = u[l][c]
  <2>1. PICK p : p = l * COLUMNS + c
    OBVIOUS
  <2>2. p \in 0..W - 1 /\ (l + 1) * COLUMNS + c = p + COLUMNS
    BY <1>2, <2>1, InMemory
  <2>3. W - COLUMNS <= p <=> LINES - 1 <= l
    <3>1. LINES - 1 \in Int /\ l \in Int
      BY <1>3
    <3>2. QED
      BY ONLY <1>3, <2>1, <3>1, Rows
  <2>4. Show(r)[l][c] = IF W - COLUMNS <= p /\ p < W THEN Blank ELSE s.mem[s.origin + (p + COLUMNS)]
    BY <1>5, <2>1, CellOf
  <2>5. u[l][c] = IF l + 1 < LINES THEN Show(s)[l + 1][c] ELSE Blank
    BY <1>3, <1>8 DEF IsUp
  <2>6. l + 1 < LINES => Show(s)[l + 1][c] = s.mem[s.origin + (p + COLUMNS)]
    <3>1. l + 1 < LINES => l + 1 \in 0..LINES - 1
      BY <1>3
    <3>2. s.origin + (l + 1) * COLUMNS + c = s.origin + (p + COLUMNS)
      BY <1>3, <2>1
    <3>3. QED
      BY <3>1, <3>2, CellOf
  <2>7. l + 1 < LINES <=> ~ (W - COLUMNS <= p /\ p < W)
    BY <1>3, <2>2, <2>3
  <2>8. QED
    BY ONLY <2>4, <2>5, <2>6, <2>7
<1>10. QED
  BY <1>1, <1>6, <1>7, <1>8, <1>9, GridIs, ShowIsGrid DEF Shown, Agree, IsUp

LEMMA scrupShown ==
  ASSUME NEW s, Full(s)
  PROVE  Shown(scrup(s), s, Abstract!Up(Show(s), s.top, s.bottom))
BY scrupRegion, scrupWhole

LEMMA scrdownShown ==
  ASSUME NEW s, Full(s)
  PROVE  Shown(scrdown(s), s, Abstract!Down(Show(s), s.top, s.bottom))
<1> DEFINE t == s.top
           b == s.bottom
<1>1. /\ t \in 0..LINES - 1 /\ b \in 1..LINES /\ t < b /\ s.origin \in Nat
  BY NumbersOf DEF Numbers
<1>2. PICK T, B : T = t * COLUMNS /\ B = b * COLUMNS
  OBVIOUS
<1>3. T \in Int /\ B \in Int
  BY <1>1, <1>2
<1>4. PICK n, k, d : n = B - T - COLUMNS /\ k = T + COLUMNS /\ d = -COLUMNS
  OBVIOUS
<1>5. /\ s.origin + COLUMNS * t = s.origin + T
      /\ (b - t - 1) * COLUMNS = n
      /\ s.origin + T = s.origin + k + d /\ s.origin + T + COLUMNS = s.origin + k
      /\ n \in Int /\ k \in Int /\ d \in Int /\ COLUMNS \in Int
  BY <1>1, <1>2, <1>3, <1>4
<1>6. scrdown(s) = Fill(Copy(s, s.origin + COLUMNS * t, s.origin + COLUMNS * t + COLUMNS, (b - t - 1) * COLUMNS),
                        s.origin + COLUMNS * t, COLUMNS)
  BY DEF scrdown
<1>7. PICK r : r = scrdown(s)
  OBVIOUS
<1>8. r = Moved(s, k, d, n, T, COLUMNS)
  BY ONLY <1>5, <1>6, <1>7 DEF Moved
<1>9. /\ Full(r) /\ Wrote(r, s)
      /\ \A l \in 0..LINES - 1, c \in 0..COLUMNS - 1 :
           Show(r)[l][c] =
             IF T <= l * COLUMNS + c /\ l * COLUMNS + c < T + COLUMNS THEN Blank
             ELSE IF k <= l * COLUMNS + c /\ l * COLUMNS + c < k + n
                  THEN s.mem[s.origin + l * COLUMNS + c + d] ELSE Show(s)[l][c]
  BY ONLY Full(s), <1>3, <1>5, <1>8, MovedIs
<1>10. PICK u : u = Abstract!Down(Show(s), t, b)
  OBVIOUS
<1>11. IsDown(u, Show(s), t, b)
  BY ONLY <1>1, <1>10, UpShown, SizesAssumption
<1>12. ASSUME NEW l \in 0..LINES - 1, NEW c \in 0..COLUMNS - 1
       PROVE  Show(r)[l][c] = u[l][c]
  <2>1. PICK p : p = l * COLUMNS + c
    OBVIOUS
  <2>2. p \in Int /\ (l - 1) * COLUMNS + c = p + d
    BY <1>4, <2>1
  <2>3. /\ T <= p <=> t <= l
        /\ T + COLUMNS <= p <=> t + 1 <= l
        /\ B <= p <=> b <= l
    <3>1. t \in Int /\ b \in Int /\ t + 1 \in Int /\ l \in Int /\ (t + 1) * COLUMNS = T + COLUMNS
      BY <1>1, <1>2
    <3>2. QED
      BY ONLY <1>2, <1>3, <2>1, <3>1, Rows
  <2>4. t < l => Show(s)[l - 1][c] = s.mem[s.origin + (p + d)]
    <3>1. t < l => l - 1 \in 0..LINES - 1
      BY <1>1
    <3>2. s.origin + (l - 1) * COLUMNS + c = s.origin + (p + d)
      BY <1>1, <1>4, <2>1
    <3>3. QED
      BY <3>1, <3>2, CellOf
  <2>5. s.origin + l * COLUMNS + c + d = s.origin + (p + d)
    BY <1>1, <1>4, <2>1
  <2>6. Show(r)[l][c] = IF T <= p /\ p < T + COLUMNS THEN Blank
                        ELSE IF k <= p /\ p < k + n THEN s.mem[s.origin + (p + d)] ELSE Show(s)[l][c]
    BY ONLY <1>9, <2>1, <2>5
  <2>7. u[l][c] = IF ~ (t <= l /\ l < b) THEN Show(s)[l][c]
                  ELSE IF l > t THEN Show(s)[l - 1][c] ELSE Blank
    BY <1>11 DEF IsDown
  <2>8. /\ T <= p /\ p < T + COLUMNS <=> l = t
        /\ k <= p /\ p < k + n <=> t < l /\ l < b
    BY <1>1, <1>3, <1>4, <2>2, <2>3
  <2>9. QED
    BY ONLY <1>1, <2>4, <2>6, <2>7, <2>8, SizesAssumption
<1>13. QED
  BY <1>7, <1>9, <1>10, <1>11, <1>12, GridIs, ShowIsGrid DEF Shown, Wrote, Agree, IsDown

-------------------------------------------------------------------------------
(* The cursor moves, and what is shown does not.                               *)

Went(r, s) == /\ Full(r) /\ Show(r) = Show(s) /\ r.top = s.top /\ r.bottom = s.bottom

LEMMA AtWent ==
  ASSUME NEW s, NEW a \in Int, NEW b \in Int, NEW p \in Int, Screen(s), DOMAIN s.mem = 0..SCREEN_END - 1,
         Good(At(s, a, b, p))
  PROVE  /\ Went(At(s, a, b, p), s) /\ At(s, a, b, p).x = a /\ At(s, a, b, p).y = b
         /\ At(s, a, b, p).pos = p /\ At(s, a, b, p).mem = s.mem
<1>1. At(s, a, b, p).mem = s.mem
  BY DEF At, Screen
<1>2. QED
  BY <1>1, AtFields DEF Went, Full, Show

LEMMA gotoxyWent ==
  ASSUME NEW s, Full(s), NEW a \in Int, NEW b \in Int PROVE Went(gotoxy(s, a, b), s)
<1>1. CASE a \in 0..COLUMNS - 1 /\ b \in 0..LINES - 1
  <2>1. PICK p : p = s.origin + b * COLUMNS + a
    OBVIOUS
  <2>2. p \in Int
    BY <1>1, <2>1, NumbersOf DEF Numbers
  <2>3. gotoxy(s, a, b) = At(s, a, b, p)
    BY <1>1, <2>1 DEF gotoxy
  <2>4. Good(At(s, a, b, p)) /\ Screen(s)
    BY <2>3, gotoxyGood, NumbersOf
  <2>5. QED
    BY <2>2, <2>3, <2>4, AtWent DEF Full
<1>2. CASE ~ (a \in 0..COLUMNS - 1 /\ b \in 0..LINES - 1)
  BY <1>2 DEF gotoxy, Went
<1>3. QED
  BY <1>1, <1>2

LEMMA crWent == ASSUME NEW s, Full(s) PROVE Went(cr(s), s)
<1>1. s.y \in Int /\ s.x \in Int /\ s.pos - s.x \in Int /\ Screen(s) /\ Good(s) /\ 0 \in Int
  BY NumbersOf DEF Numbers
<1>2. PICK p, z : p = s.pos - s.x /\ z = 0
  OBVIOUS
<1>3. cr(s) = At(s, z, s.y, p)
  BY <1>2 DEF cr
<1>4. Good(At(s, z, s.y, p)) /\ z \in Int /\ p \in Int /\ s.y \in Int
  BY <1>1, <1>2, <1>3, crGood
<1>5. QED
  BY <1>1, <1>3, <1>4, AtWent DEF Full

LEMMA backspaceWent ==
  ASSUME NEW s, Full(s), s.x # 0
  PROVE  /\ Went(backspace(s), s) /\ backspace(s).x = s.x - 1 /\ backspace(s).y = s.y
         /\ backspace(s).origin = s.origin
<1>1. /\ s.y \in Int /\ s.x - 1 \in Int /\ s.pos - 1 \in Int /\ Screen(s) /\ Good(s)
  BY NumbersOf DEF Numbers
<1>2. PICK a, p : a = s.x - 1 /\ p = s.pos - 1
  OBVIOUS
<1>3. backspace(s) = At(s, a, s.y, p)
  BY <1>2 DEF backspace
<1>4. Good(At(s, a, s.y, p)) /\ a \in Int /\ p \in Int /\ s.y \in Int
  BY <1>1, <1>2, <1>3, backspaceGood
<1>5. At(s, a, s.y, p).origin = s.origin
  BY <1>1, <1>4, AtFields
<1>6. QED
  BY <1>1, <1>2, <1>3, <1>4, <1>5, AtWent DEF Full

LEMMA restoreWent == ASSUME Full(scr), Inductive PROVE Went(restore_cur(scr), scr)
<1>1. saved.x \in Int /\ saved.y \in Int /\ scr.origin \in Int /\ Screen(scr) /\ Good(scr)
  BY NumbersOf DEF Inductive, Numbers
<1>2. PICK p : p = scr.origin + saved.y * COLUMNS + saved.x
  OBVIOUS
<1>3. restore_cur(scr) = At(scr, saved.x, saved.y, p) /\ p \in Int
  BY <1>1, <1>2 DEF restore_cur
<1>4. Good(At(scr, saved.x, saved.y, p))
  BY <1>1, <1>3, restoreGood
<1>5. QED
  BY <1>1, <1>3, <1>4, AtWent DEF Full

LineFed(r, s) ==
  /\ Full(r) /\ r.x = s.x /\ r.top = s.top /\ r.bottom = s.bottom
  /\ IF s.y + 1 < s.bottom THEN r.y = s.y + 1 /\ Show(r) = Show(s)
     ELSE r.y = s.y /\ Show(r) = Abstract!Up(Show(s), s.top, s.bottom)

LEMMA lfShown == ASSUME NEW s, Full(s) PROVE LineFed(lf(s), s)
<1>1. CASE s.y + 1 < s.bottom
  <2>1. s.x \in Int /\ s.y + 1 \in Int /\ s.pos + COLUMNS \in Int /\ Screen(s) /\ Good(s)
    BY NumbersOf DEF Numbers
  <2>2. PICK b, p : b = s.y + 1 /\ p = s.pos + COLUMNS
    OBVIOUS
  <2>3. lf(s) = At(s, s.x, b, p)
    BY <1>1, <2>2 DEF lf
  <2>4. Good(At(s, s.x, b, p)) /\ b \in Int /\ p \in Int /\ s.x \in Int
    BY <2>1, <2>2, <2>3, lfGood
  <2>5. Went(lf(s), s) /\ lf(s).x = s.x /\ lf(s).y = b
    BY <2>1, <2>3, <2>4, AtWent DEF Full
  <2>6. QED
    BY <1>1, <2>2, <2>5 DEF LineFed, Went
<1>2. CASE ~ (s.y + 1 < s.bottom)
  <2>1. lf(s) = scrup(s)
    BY <1>2 DEF lf
  <2>2. QED
    BY <1>2, <2>1, scrupShown DEF LineFed, Shown, Same
<1>3. QED
  BY <1>1, <1>2

LEMMA riShown ==
  ASSUME NEW s, Full(s)
  PROVE  /\ Full(ri(s)) /\ ri(s).x = s.x /\ ri(s).top = s.top /\ ri(s).bottom = s.bottom
         /\ IF s.y > s.top THEN ri(s).y = s.y - 1 /\ Show(ri(s)) = Show(s)
            ELSE ri(s).y = s.y /\ Show(ri(s)) = Abstract!Down(Show(s), s.top, s.bottom)
<1>1. CASE s.y > s.top
  <2>1. s.x \in Int /\ s.y - 1 \in Int /\ s.pos - COLUMNS \in Int /\ Screen(s) /\ Good(s)
    BY NumbersOf DEF Numbers
  <2>2. PICK b, p : b = s.y - 1 /\ p = s.pos - COLUMNS
    OBVIOUS
  <2>3. ri(s) = At(s, s.x, b, p)
    BY <1>1, <2>2 DEF ri
  <2>4. Good(At(s, s.x, b, p)) /\ b \in Int /\ p \in Int /\ s.x \in Int
    BY <2>1, <2>2, <2>3, riGood
  <2>5. Went(ri(s), s) /\ ri(s).x = s.x /\ ri(s).y = b
    BY <2>1, <2>3, <2>4, AtWent DEF Full
  <2>6. QED
    BY <1>1, <2>2, <2>5 DEF Went
<1>2. CASE ~ (s.y > s.top)
  <2>1. ri(s) = scrdown(s)
    BY <1>2 DEF ri
  <2>2. QED
    BY <1>2, <2>1, scrdownShown DEF Shown, Same
<1>3. QED
  BY <1>1, <1>2

-------------------------------------------------------------------------------
(* Characters and tabs. *)

LEMMA wrapShown ==
  ASSUME NEW s, Within(s, 2 * COLUMNS), s.x >= COLUMNS, DOMAIN s.mem = 0..SCREEN_END - 1
  PROVE  /\ Full(wrap(s)) /\ wrap(s).x = s.x - COLUMNS
         /\ wrap(s).top = s.top /\ wrap(s).bottom = s.bottom
         /\ IF s.y + 1 < s.bottom THEN wrap(s).y = s.y + 1 /\ Show(wrap(s)) = Show(s)
            ELSE wrap(s).y = s.y /\ Show(wrap(s)) = Abstract!Up(Show(s), s.top, s.bottom)
<1>1. /\ s.x \in Int /\ s.y \in Int /\ s.pos \in Int /\ Screen(s) /\ s.x <= 2 * COLUMNS
  BY DEF Within, Screen
<1>2. PICK m : m = -COLUMNS
  OBVIOUS
<1>3. PICK a, p : a = s.x - COLUMNS /\ p = s.pos - COLUMNS
  OBVIOUS
<1>4. m \in Int /\ a = s.x + m /\ p = s.pos + m /\ s.x + m \in 0..COLUMNS
  BY <1>1, <1>2, <1>3
<1>5. Good(At(s, a, s.y, p))
  <2>1. Within(At(s, s.x + m, s.y, s.pos + m), COLUMNS)
    BY <1>4, LineGood
  <2>2. QED
    BY <1>4, <2>1 DEF Good
<1>6. PICK r : r = At(s, a, s.y, p)
  OBVIOUS
<1>7. /\ Full(r) /\ Show(r) = Show(s) /\ r.top = s.top /\ r.bottom = s.bottom
      /\ r.x = a /\ r.y = s.y
  BY <1>1, <1>4, <1>5, <1>6, AtWent DEF Went
<1>8. wrap(s) = lf(r)
  BY <1>3, <1>6 DEF wrap
<1>9. QED
  BY <1>3, <1>7, <1>8, lfShown DEF LineFed

PutAt(g, y, x, v) == [g EXCEPT ![y][x] = v]

LEMMA CellPut ==
  ASSUME NEW g, IsGrid(g), NEW y \in 0..LINES - 1, NEW x \in 0..COLUMNS - 1, NEW v
  PROVE  /\ IsGrid(PutAt(g, y, x, v))
         /\ \A l \in 0..LINES - 1, c \in 0..COLUMNS - 1 :
              PutAt(g, y, x, v)[l][c] = IF l = y /\ c = x THEN v ELSE g[l][c]
<1>0. PICK h : h = PutAt(g, y, x, v)
  OBVIOUS
<1>2. \A l \in 0..LINES - 1 : g[l] = [c \in 0..COLUMNS - 1 |-> g[l][c]]
  BY Zenon DEF IsGrid
<1>3. DOMAIN g = 0..LINES - 1
  BY DEF IsGrid
<1>1. h = [l \in 0..LINES - 1 |-> IF l = y THEN [g[y] EXCEPT ![x] = v] ELSE g[l]]
  BY <1>0, <1>3 DEF PutAt
<1>5. PICK w : w = [c \in 0..COLUMNS - 1 |-> IF c = x THEN v ELSE g[y][c]]
  OBVIOUS
<1>6. [g[y] EXCEPT ![x] = v] = w
  <2>1. PICK q : q = g[y]
    OBVIOUS
  <2>2. q = [c \in 0..COLUMNS - 1 |-> q[c]]
    BY <1>2, <2>1
  <2>3. [q EXCEPT ![x] = v] = [c \in 0..COLUMNS - 1 |-> IF c = x THEN v ELSE q[c]]
    BY <2>2
  <2>4. QED
    BY ONLY <1>5, <2>1, <2>3
<1>7. \A l \in 0..LINES - 1 : h[l] = IF l = y THEN w ELSE g[l]
  BY <1>1, <1>6
<1>8. \A l \in 0..LINES - 1, c \in 0..COLUMNS - 1 : h[l][c] = IF l = y /\ c = x THEN v ELSE g[l][c]
  <2>1. \A c \in 0..COLUMNS - 1 : w[c] = IF c = x THEN v ELSE g[y][c]
    BY ONLY <1>5
  <2>2. TAKE l \in 0..LINES - 1, c \in 0..COLUMNS - 1
  <2>3. h[l] = IF l = y THEN w ELSE g[l]
    BY ONLY <1>7, l \in 0..LINES - 1
  <2>4. w[c] = IF c = x THEN v ELSE g[y][c]
    BY ONLY <2>1, c \in 0..COLUMNS - 1
  <2>5. QED
    BY ONLY <2>3, <2>4
<1>9. IsGrid(h)
  <2>1. h = [l \in 0..LINES - 1 |-> h[l]]
    BY ONLY <1>1
  <2>2. w = [c \in 0..COLUMNS - 1 |-> w[c]]
    BY <1>5
  <2>3. \A l \in 0..LINES - 1 : h[l] = [c \in 0..COLUMNS - 1 |-> h[l][c]]
    BY ONLY <1>2, <1>7, <2>2
  <2>4. QED
    BY ONLY <2>1, <2>3, Zenon DEF IsGrid
<1>10. QED
  BY ONLY <1>0, <1>8, <1>9

\* Two places are one when their lines and their columns are.
LEMMA OnePlace ==
  ASSUME NEW l \in Int, NEW c \in 0..COLUMNS - 1, NEW m \in Int, NEW d \in 0..COLUMNS - 1
  PROVE  m * COLUMNS + d = l * COLUMNS + c <=> m = l /\ d = c
<1>1. PICK P, Q : P = l * COLUMNS + c /\ Q = m * COLUMNS + d
  OBVIOUS
<1>2. P \in Int /\ Q \in Int
  BY <1>1
<1>3. (Q <= P <=> m < l \/ (m = l /\ d <= c)) /\ (P <= Q <=> l < m \/ (l = m /\ c <= d))
  BY <1>1, Order
<1>4. QED
  BY <1>1, <1>2, <1>3

\* What is written to the place of a cell is shown in that cell alone.
LEMMA PutShown ==
  ASSUME NEW s, Full(s), NEW r, Full(r), NEW y \in 0..LINES - 1, NEW x \in 0..COLUMNS - 1, NEW v,
         r.origin = s.origin,
         \A p \in DOMAIN s.mem : r.mem[p] = IF p = s.origin + y * COLUMNS + x THEN v ELSE s.mem[p]
  PROVE  Show(r) = PutAt(Show(s), y, x, v)
<1>1. PICK g : g = Show(s)
  OBVIOUS
<1>2. IsGrid(g)
  BY <1>1, ShowIsGrid
<1>3. PICK h : h = PutAt(g, y, x, v)
  OBVIOUS
<1>4. /\ IsGrid(h)
      /\ \A l \in 0..LINES - 1, c \in 0..COLUMNS - 1 : h[l][c] = IF l = y /\ c = x THEN v ELSE g[l][c]
  BY <1>2, <1>3, CellPut
<1>5. ASSUME NEW l \in 0..LINES - 1, NEW c \in 0..COLUMNS - 1
      PROVE  Show(r)[l][c] = h[l][c]
  <2>1. PICK p : p = s.origin + l * COLUMNS + c
    OBVIOUS
  <2>2. p \in DOMAIN s.mem /\ Show(r)[l][c] = r.mem[p] /\ g[l][c] = s.mem[p]
    BY <1>1, <2>1, InMemory, CellOf
  <2>3. p = s.origin + y * COLUMNS + x <=> l = y /\ c = x
    <3>1. s.origin \in Int /\ l * COLUMNS + c \in Int /\ y * COLUMNS + x \in Int
      BY NumbersOf DEF Numbers
    <3>2. p = s.origin + y * COLUMNS + x <=> y * COLUMNS + x = l * COLUMNS + c
      BY <2>1, <3>1
    <3>3. QED
      <4>1. l \in Int /\ y \in Int
        OBVIOUS
      <4>2. y * COLUMNS + x = l * COLUMNS + c <=> y = l /\ x = c
        BY ONLY <4>1, c \in 0..COLUMNS - 1, x \in 0..COLUMNS - 1, OnePlace
      <4>3. QED
        BY <3>2, <4>2
  <2>4. QED
    BY <1>4, <2>2, <2>3
<1>6. Show(r) = h
  BY ONLY <1>4, <1>5, GridIs, ShowIsGrid DEF Agree
<1>7. QED
  BY ONLY <1>1, <1>3, <1>6

Inked(r, v) == [At(r, r.x + 1, r.y, r.pos + 1) EXCEPT !.mem[r.pos] = v]

LEMMA InkShown ==
  ASSUME NEW r, Full(r), r.x < COLUMNS, NEW v, NEW q, q = Inked(r, v)
  PROVE  /\ Full(q) /\ q.x = r.x + 1 /\ q.y = r.y /\ q.top = r.top /\ q.bottom = r.bottom
         /\ Show(q) = PutAt(Show(r), r.y, r.x, v)
<1>1. /\ r.x \in 0..COLUMNS - 1 /\ r.y \in 0..LINES - 1 /\ r.pos \in Int /\ r.origin \in Int
      /\ Screen(r) /\ Good(r) /\ r.pos = r.origin + r.y * COLUMNS + r.x
  BY NumbersOf DEF Numbers
<1>2. PICK a, p : a = r.x + 1 /\ p = r.pos + 1
  OBVIOUS
<1>3. PICK k : k = At(r, a, r.y, p)
  OBVIOUS
<1>4. a \in Int /\ p \in Int /\ r.y \in Int
  BY <1>1, <1>2
<1>5. Good(k)
  <2>1. r.x + 1 \in 0..COLUMNS /\ 1 \in Int /\ COLUMNS \in Nat /\ Within(r, COLUMNS)
    BY <1>1 DEF Good
  <2>2. Within(At(r, r.x + 1, r.y, r.pos + 1), COLUMNS)
    BY <2>1, LineGood
  <2>3. QED
    BY <1>2, <1>3, <2>2 DEF Good
<1>6. /\ Went(k, r) /\ k.x = a /\ k.y = r.y /\ k.mem = r.mem /\ k.origin = r.origin /\ Screen(k)
  <2>1. DOMAIN r.mem = 0..SCREEN_END - 1
    BY DEF Full
  <2>2. Went(k, r) /\ k.x = a /\ k.y = r.y /\ k.mem = r.mem
    BY ONLY <1>1, <1>3, <1>4, <1>5, <2>1, AtWent
  <2>3. k.origin = r.origin /\ Screen(k)
    BY ONLY <1>1, <1>3, <1>4, AtFields
  <2>4. QED
    BY <2>2, <2>3
<1>7. PICK m : m = [k.mem EXCEPT ![r.pos] = v]
  OBVIOUS
<1>8. q = Stored(k, m)
  BY <1>2, <1>3, <1>7 DEF Stored, Inked
<1>9. Full(k) /\ DOMAIN m = DOMAIN k.mem
  BY <1>6, <1>7 DEF Went
<1>10. Full(q) /\ Wrote(q, k) /\ q.mem = m
  BY ONLY <1>8, <1>9, StoredIs
<1>11. \A z \in DOMAIN r.mem : q.mem[z] = IF z = r.origin + r.y * COLUMNS + r.x THEN v ELSE r.mem[z]
  BY <1>1, <1>6, <1>7, <1>10
<1>12. q.origin = r.origin
  BY <1>6, <1>10 DEF Wrote
<1>13. Show(q) = PutAt(Show(r), r.y, r.x, v)
  BY ONLY Full(r), <1>1, <1>10, <1>11, <1>12, PutShown
<1>14. QED
  BY <1>2, <1>6, <1>10, <1>13 DEF Wrote, Same, Went

LEMMA printShown ==
  ASSUME NEW s, Full(s), NEW c, NEW q, q = print(s, c), NEW v, v = Cell(c, attr)
  PROVE  /\ Full(q) /\ q.top = s.top /\ q.bottom = s.bottom
         /\ IF s.x < COLUMNS
            THEN q.x = s.x + 1 /\ q.y = s.y /\ Show(q) = PutAt(Show(s), s.y, s.x, v)
            ELSE /\ q.x = 1
                 /\ IF s.y + 1 < s.bottom
                    THEN q.y = s.y + 1 /\ Show(q) = PutAt(Show(s), s.y + 1, 0, v)
                    ELSE /\ q.y = s.y
                         /\ Show(q) = PutAt(Abstract!Up(Show(s), s.top, s.bottom), s.y, 0, v)
<1>1. PICK r : r = IF s.x >= COLUMNS THEN wrap(s) ELSE s
  OBVIOUS
<1>2. q = Inked(r, v)
  BY <1>1 DEF print, Inked
<1>3. s.x \in 0..COLUMNS /\ Good(s)
  BY NumbersOf DEF Numbers
<1>4. CASE s.x < COLUMNS
  <2>1. r = s
    BY <1>1, <1>3, <1>4
  <2>2. QED
    BY ONLY Full(s), <1>2, <1>4, <2>1, InkShown
<1>5. CASE ~ (s.x < COLUMNS)
  <2>1. s.x = COLUMNS /\ s.x >= COLUMNS /\ s.x - COLUMNS = 0 /\ r = wrap(s)
    BY <1>1, <1>3, <1>5
  <2>2. Within(s, 2 * COLUMNS)
    BY <1>3 DEF Good, Within, Screen
  <2>3. /\ Full(r) /\ r.x = 0 /\ r.top = s.top /\ r.bottom = s.bottom
        /\ IF s.y + 1 < s.bottom THEN r.y = s.y + 1 /\ Show(r) = Show(s)
           ELSE r.y = s.y /\ Show(r) = Abstract!Up(Show(s), s.top, s.bottom)
    BY <2>1, <2>2, wrapShown DEF Full
  <2>4. r.x < COLUMNS /\ r.x + 1 = 1
    BY <2>3
  <2>5. QED
    <3>1. /\ Full(q) /\ q.x = r.x + 1 /\ q.y = r.y /\ q.top = r.top /\ q.bottom = r.bottom
          /\ Show(q) = PutAt(Show(r), r.y, r.x, v)
      BY ONLY <1>2, <2>3, <2>4, InkShown
    <3>2. QED
      BY <1>5, <2>3, <2>4, <3>1
<1>6. QED
  BY <1>4, <1>5

LEMMA Division ==
  ASSUME NEW a \in Nat, NEW d, d = a \div Tab, NEW m, m = a % Tab, NEW q, q = d * Tab
  PROVE  a = q + m /\ d \in Int /\ m \in 0..Tab - 1
<1>0. Tab \in Nat \ {0}
  OBVIOUS
<1>1. a = q + m
  BY <1>0
<1>2. d \in Int /\ m \in 0..Tab - 1
  BY <1>0
<1>3. QED
  BY <1>1, <1>2

LEMMA tabShown ==
  ASSUME NEW s, Full(s), NEW n, n = (s.x \div Tab + 1) * Tab
  PROVE  /\ Full(tab(s)) /\ tab(s).top = s.top /\ tab(s).bottom = s.bottom
         /\ IF n <= COLUMNS THEN tab(s).x = n /\ tab(s).y = s.y /\ Show(tab(s)) = Show(s)
            ELSE /\ tab(s).x = n - COLUMNS
                 /\ IF s.y + 1 < s.bottom THEN tab(s).y = s.y + 1 /\ Show(tab(s)) = Show(s)
                    ELSE tab(s).y = s.y /\ Show(tab(s)) = Abstract!Up(Show(s), s.top, s.bottom)
<1>1. /\ s.x \in 0..COLUMNS /\ s.y \in 0..LINES - 1 /\ s.pos \in Int /\ Screen(s) /\ Good(s)
  BY NumbersOf DEF Numbers
<1>2. PICK k : k = Tab - (s.x % Tab)
  OBVIOUS
<1>3. k \in 1..Tab /\ n = s.x + k /\ Tab \in 1..COLUMNS
  <2>1. PICK d, m : d = s.x \div Tab /\ m = s.x % Tab
    OBVIOUS
  <2>2. PICK q : q = d * Tab
    OBVIOUS
  <2>3. Tab \in Nat \ {0} /\ Tab \in 1..COLUMNS /\ s.x \in Nat
    BY <1>1
  <2>4. s.x = q + m /\ d \in Int /\ m \in 0..Tab - 1
    <3>1. PICK a : a = s.x
      OBVIOUS
    <3>2. a \in Nat /\ d = a \div Tab /\ m = a % Tab /\ q = d * Tab
      BY ONLY <2>1, <2>2, <2>3, <3>1
    <3>3. a = q + m /\ d \in Int /\ m \in 0..Tab - 1
      BY ONLY <3>2, Division
    <3>4. QED
      BY ONLY <3>1, <3>3
  <2>5. n = q + Tab /\ q \in Int
    <3>1. n = (d + 1) * Tab
      BY ONLY <2>1, n = (s.x \div Tab + 1) * Tab
    <3>2. (d + 1) * Tab = d * Tab + Tab
      BY <2>3, <2>4
    <3>3. d * Tab \in Int
      BY <2>3, <2>4
    <3>4. QED
      BY ONLY <2>2, <3>1, <3>2, <3>3
  <2>6. k = Tab - m
    BY <1>2, <2>1
  <2>7. QED
    BY ONLY <2>3, <2>4, <2>5, <2>6
<1>4. PICK p : p = s.pos + k
  OBVIOUS
<1>5. PICK r : r = At(s, n, s.y, p)
  OBVIOUS
<1>6. tab(s) = IF r.x > COLUMNS THEN wrap(r) ELSE r
  BY <1>2, <1>3, <1>4, <1>5 DEF tab
<1>7. n \in 0..2 * COLUMNS /\ n \in Int /\ p \in Int /\ s.y \in Int /\ k \in Int
  BY <1>1, <1>3, <1>4
<1>8. Within(r, 2 * COLUMNS) /\ (n <= COLUMNS => Good(r))
  <2>1. Within(s, COLUMNS) /\ 2 * COLUMNS \in Nat /\ COLUMNS \in Nat /\ r = At(s, s.x + k, s.y, s.pos + k)
    BY <1>1, <1>3, <1>4, <1>5 DEF Good
  <2>2. s.x + k \in 0..2 * COLUMNS /\ (n <= COLUMNS => s.x + k \in 0..COLUMNS)
    BY <1>3, <1>7
  <2>3. Within(r, 2 * COLUMNS)
    BY <1>7, <2>1, <2>2, LineGood
  <2>4. n <= COLUMNS => Within(r, COLUMNS)
    BY <1>7, <2>1, <2>2, LineGood
  <2>5. QED
    BY <2>3, <2>4 DEF Good
<1>9. /\ r.x = n /\ r.y = s.y /\ r.origin = s.origin /\ r.top = s.top /\ r.bottom = s.bottom
      /\ r.mem = s.mem
  <2>1. r.mem = s.mem
    BY <1>1, <1>5 DEF At, Screen
  <2>2. QED
    BY <1>1, <1>5, <1>7, <2>1, AtFields
<1>10. Show(r) = Show(s) /\ DOMAIN r.mem = 0..SCREEN_END - 1
  BY <1>9 DEF Show, Full
<1>11. CASE n <= COLUMNS
  <2>1. tab(s) = r /\ Full(r)
    BY <1>6, <1>7, <1>8, <1>9, <1>10, <1>11 DEF Full
  <2>2. QED
    BY <1>9, <1>10, <1>11, <2>1
<1>12. CASE ~ (n <= COLUMNS)
  <2>1. tab(s) = wrap(r) /\ r.x >= COLUMNS
    BY <1>6, <1>7, <1>9, <1>12
  <2>2. QED
    BY <1>8, <1>9, <1>10, <1>12, <2>1, wrapShown
<1>13. QED
  BY <1>11, <1>12

LEMMA delShown ==
  ASSUME NEW s, Full(s), s.x # 0, NEW q, q = del(s)
  PROVE  /\ Full(q) /\ q.x = s.x - 1 /\ q.y = s.y /\ q.top = s.top /\ q.bottom = s.bottom
         /\ Show(q) = PutAt(Show(s), s.y, s.x - 1, Blank)
<1>1. /\ s.x \in 0..COLUMNS /\ s.y \in 0..LINES - 1 /\ s.pos \in Int /\ s.origin \in Int
      /\ s.pos = s.origin + s.y * COLUMNS + s.x
  BY NumbersOf DEF Numbers
<1>2. PICK k, f : k = backspace(s) /\ f = s.pos - 1
  OBVIOUS
<1>3. Went(k, s) /\ k.x = s.x - 1 /\ k.y = s.y /\ k.origin = s.origin
  BY <1>2, backspaceWent
<1>4. q = Fill(k, f, 1) /\ f \in Int /\ 1 \in Int
  BY <1>1, <1>2 DEF del
<1>5. /\ Full(q) /\ Wrote(q, k)
      /\ \A p \in DOMAIN k.mem : q.mem[p] = IF f <= p /\ p < f + 1 THEN Blank ELSE k.mem[p]
  <2>1. Full(k)
    BY <1>3 DEF Went
  <2>2. PICK n : n = 1
    OBVIOUS
  <2>3. n \in Int /\ q = Fill(k, f, n)
    BY <1>4, <2>2
  <2>4. /\ Full(q) /\ Wrote(q, k)
        /\ \A p \in DOMAIN k.mem : q.mem[p] = IF f <= p /\ p < f + n THEN Blank ELSE k.mem[p]
    BY ONLY <1>4, <2>1, <2>3, FillIs
  <2>5. QED
    BY ONLY <2>2, <2>4
<1>6. PICK a : a = s.x - 1
  OBVIOUS
<1>7. a \in 0..COLUMNS - 1 /\ f = k.origin + s.y * COLUMNS + a
  <2>1. s.y * COLUMNS \in Int
    BY <1>1
  <2>2. QED
    BY <1>1, <1>2, <1>3, <1>6, <2>1
<1>8. \A p \in DOMAIN k.mem : q.mem[p] = IF p = k.origin + s.y * COLUMNS + a THEN Blank ELSE k.mem[p]
  <2>1. \A p \in DOMAIN k.mem : p \in Int
    BY <1>3 DEF Went, Full
  <2>2. QED
    BY <1>4, <1>5, <1>7, <2>1
<1>9. Show(q) = PutAt(Show(k), s.y, a, Blank)
  <2>1. Full(k) /\ q.origin = k.origin
    BY <1>3, <1>5 DEF Went, Wrote
  <2>2. QED
    BY ONLY <1>1, <1>5, <1>7, <1>8, <2>1, PutShown
<1>10. QED
  BY <1>3, <1>5, <1>6, <1>9 DEF Went, Wrote, Same

-------------------------------------------------------------------------------
(* Clearing. *)

Wiped(g, f, t) ==
  [l \in 0..LINES - 1 |-> [c \in 0..COLUMNS - 1 |-> IF l * COLUMNS + c \in f..t - 1 THEN Blank ELSE g[l][c]]]

LEMMA FillShown ==
  ASSUME NEW s, Full(s), NEW f \in Int, NEW t \in Int, NEW a, NEW n, a = s.origin + f, n = t - f,
         NEW q, q = Fill(s, a, n)
  PROVE  Shown(q, s, Wiped(Show(s), f, t))
<1>1. s.origin \in Int /\ a \in Int /\ n \in Int /\ a + n = s.origin + t
  BY NumbersOf DEF Numbers
<1>2. /\ Full(q) /\ Wrote(q, s)
      /\ \A p \in DOMAIN s.mem : q.mem[p] = IF a <= p /\ p < a + n THEN Blank ELSE s.mem[p]
  BY ONLY Full(s), q = Fill(s, a, n), <1>1, FillIs
<1>3. PICK u : u = Wiped(Show(s), f, t)
  OBVIOUS
<1>4. IsGrid(u)
  BY <1>3 DEF IsGrid, Wiped
<1>5. ASSUME NEW l \in 0..LINES - 1, NEW c \in 0..COLUMNS - 1
      PROVE  Show(q)[l][c] = u[l][c]
  <2>1. PICK P : P = l * COLUMNS + c
    OBVIOUS
  <2>2. PICK p : p = s.origin + P
    OBVIOUS
  <2>3. P \in Int /\ s.origin + l * COLUMNS + c = p
    BY <1>1, <2>1, <2>2
  <2>4. p \in DOMAIN s.mem /\ Show(s)[l][c] = s.mem[p] /\ Show(q)[l][c] = q.mem[p]
    BY <1>2, <2>3, InMemory, CellOf DEF Wrote
  <2>5. q.mem[p] = IF a <= p /\ p < a + n THEN Blank ELSE s.mem[p]
    BY <1>2, <2>4
  <2>6. (a <= p <=> f <= P) /\ (p < a + n <=> P < t)
    BY <1>1, <2>2, <2>3
  <2>7. u[l][c] = IF P \in f..t - 1 THEN Blank ELSE Show(s)[l][c]
    BY <1>3, <2>1 DEF Wiped
  <2>8. P \in f..t - 1 <=> f <= P /\ P < t
    BY <2>3
  <2>9. QED
    BY ONLY <2>4, <2>5, <2>6, <2>7, <2>8
<1>6. Show(q) = u
  BY ONLY <1>4, <1>5, GridIs, ShowIsGrid DEF Agree
<1>7. QED
  BY <1>2, <1>3, <1>6 DEF Shown, Wrote

\* The parts of the screen that csi_J and csi_K clear.
Wipes(q, s) ==
  LET here == s.y * COLUMNS + s.x
  IN /\ Full(q) /\ Same(q, s)
     /\ \/ q = s
        \/ Show(q) \in {Wiped(Show(s), here, LINES * COLUMNS), Wiped(Show(s), 0, here),
                       Wiped(Show(s), 0, LINES * COLUMNS), Wiped(Show(s), here, (s.y + 1) * COLUMNS),
                       Wiped(Show(s), s.y * COLUMNS, here),
                       Wiped(Show(s), s.y * COLUMNS, (s.y + 1) * COLUMNS)}

LEMMA csi_JShown == ASSUME NEW s, Full(s), NEW p, NEW q, q = csi_J(s, p) PROVE Wipes(q, s)
<1>1. PICK Y, H, W : Y = s.y * COLUMNS /\ H = s.y * COLUMNS + s.x /\ W = LINES * COLUMNS
  OBVIOUS
<1>2. /\ s.x \in 0..COLUMNS /\ Y \in Int /\ H \in Int /\ W \in Int /\ s.origin \in Int
      /\ s.pos = s.origin + H /\ s.scr_end = s.origin + W /\ H = Y + s.x
      /\ COLUMNS * LINES = W
  <2>1. s.x \in 0..COLUMNS /\ s.y \in Int /\ s.origin \in Int
    BY NumbersOf DEF Numbers
  <2>2. Y \in Int /\ H \in Int /\ W \in Int /\ COLUMNS * LINES = W
    BY <1>1, <2>1
  <2>3. s.pos = s.origin + H /\ s.scr_end = s.origin + W
    <3>1. s.pos = s.origin + s.y * COLUMNS + s.x
      BY NumbersOf
    <3>2. s.y * COLUMNS \in Int
      BY <2>1
    <3>3. s.pos = s.origin + H
      BY <1>1, <2>1, <3>1, <3>2
    <3>4. QED
      BY <1>1, <3>3, NumbersOf
  <2>4. QED
    BY <1>1, <2>1, <2>2, <2>3
<1>3. CASE p = 0
  <2>1. PICK a, n : a = s.pos /\ n = s.scr_end - s.pos
    OBVIOUS
  <2>2. a = s.origin + H /\ n = W - H /\ q = Fill(s, a, n)
    BY <1>2, <1>3, <2>1 DEF csi_J
  <2>3. Shown(q, s, Wiped(Show(s), H, W))
    BY ONLY Full(s), <1>2, <2>2, FillShown
  <2>4. QED
    BY <1>1, <2>3 DEF Shown, Wipes
<1>4. CASE p = 1
  <2>1. PICK a, n, z : a = s.origin /\ n = s.pos - s.origin /\ z = 0
    OBVIOUS
  <2>2. a = s.origin + z /\ n = H - z /\ z \in Int /\ q = Fill(s, a, n)
    BY <1>2, <1>4, <2>1 DEF csi_J
  <2>3. Shown(q, s, Wiped(Show(s), z, H))
    BY ONLY Full(s), <1>2, <2>2, FillShown
  <2>4. QED
    BY <1>1, <2>1, <2>3 DEF Shown, Wipes
<1>5. CASE p = 2
  <2>1. PICK a, n, z : a = s.origin /\ n = COLUMNS * LINES /\ z = 0
    OBVIOUS
  <2>2. a = s.origin + z /\ n = W - z /\ z \in Int /\ q = Fill(s, a, n)
    BY <1>2, <1>5, <2>1 DEF csi_J
  <2>3. Shown(q, s, Wiped(Show(s), z, W))
    BY ONLY Full(s), <1>2, <2>2, FillShown
  <2>4. QED
    BY <1>1, <2>1, <2>3 DEF Shown, Wipes
<1>6. CASE p \notin {0, 1, 2}
  BY <1>6 DEF csi_J, Wipes, Same
<1>7. QED
  BY <1>3, <1>4, <1>5, <1>6

LEMMA csi_KShown == ASSUME NEW s, Full(s), NEW p, NEW q, q = csi_K(s, p) PROVE Wipes(q, s)
<1>1. PICK Y, H, E : Y = s.y * COLUMNS /\ H = s.y * COLUMNS + s.x /\ E = (s.y + 1) * COLUMNS
  OBVIOUS
<1>2. /\ s.x \in 0..COLUMNS /\ Y \in Int /\ H \in Int /\ E \in Int /\ s.origin \in Int
      /\ s.pos = s.origin + H /\ H = Y + s.x /\ E = Y + COLUMNS
  <2>1. s.x \in 0..COLUMNS /\ s.y \in Int /\ s.origin \in Int
    BY NumbersOf DEF Numbers
  <2>2. Y \in Int /\ H \in Int /\ E \in Int /\ E = Y + COLUMNS
    BY <1>1, <2>1
  <2>3. s.pos = s.origin + H
    <3>1. s.pos = s.origin + s.y * COLUMNS + s.x
      BY NumbersOf
    <3>2. s.y * COLUMNS \in Int
      BY <2>1
    <3>3. QED
      BY <1>1, <2>1, <3>1, <3>2
  <2>4. QED
    BY <1>1, <2>1, <2>2, <2>3
<1>3. CASE p = 0 /\ s.x < COLUMNS
  <2>1. PICK a, n : a = s.pos /\ n = COLUMNS - s.x
    OBVIOUS
  <2>2. a = s.origin + H /\ n = E - H /\ q = Fill(s, a, n)
    BY <1>2, <1>3, <2>1 DEF csi_K
  <2>3. Shown(q, s, Wiped(Show(s), H, E))
    BY ONLY Full(s), <1>2, <2>2, FillShown
  <2>4. QED
    BY <1>1, <2>3 DEF Shown, Wipes
<1>4. CASE p = 1
  <2>1. PICK a, n : a = s.pos - s.x /\ n = IF s.x < COLUMNS THEN s.x ELSE COLUMNS
    OBVIOUS
  <2>2. a = s.origin + Y /\ n = H - Y /\ q = Fill(s, a, n)
    BY <1>2, <1>4, <2>1 DEF csi_K
  <2>3. Shown(q, s, Wiped(Show(s), Y, H))
    BY ONLY Full(s), <1>2, <2>2, FillShown
  <2>4. QED
    BY <1>1, <2>3 DEF Shown, Wipes
<1>5. CASE p = 2
  <2>1. PICK a, n : a = s.pos - s.x /\ n = COLUMNS
    OBVIOUS
  <2>2. a = s.origin + Y /\ n = E - Y /\ q = Fill(s, a, n)
    BY <1>2, <1>5, <2>1 DEF csi_K
  <2>3. Shown(q, s, Wiped(Show(s), Y, E))
    BY ONLY Full(s), <1>2, <2>2, FillShown
  <2>4. QED
    BY <1>1, <2>3 DEF Shown, Wipes
<1>6. CASE p \notin {0, 1, 2} \/ (p = 0 /\ ~ (s.x < COLUMNS))
  BY <1>6 DEF csi_K, Wipes, Same
<1>7. QED
  BY <1>3, <1>4, <1>5, <1>6

-------------------------------------------------------------------------------
(* Inserting and deleting. *)

RowPut(g, y, w) == [g EXCEPT ![y] = w]
IsRow(w) == w = [c \in 0..COLUMNS - 1 |-> w[c]]

LEMMA RowIsPut ==
  ASSUME NEW g, IsGrid(g), NEW y \in 0..LINES - 1, NEW w, IsRow(w)
  PROVE  /\ IsGrid(RowPut(g, y, w))
         /\ \A l \in 0..LINES - 1, c \in 0..COLUMNS - 1 :
              RowPut(g, y, w)[l][c] = IF l = y THEN w[c] ELSE g[l][c]
<1>1. PICK h : h = RowPut(g, y, w)
  OBVIOUS
<1>2. \A l \in 0..LINES - 1 : g[l] = [c \in 0..COLUMNS - 1 |-> g[l][c]]
  BY Zenon DEF IsGrid
<1>3. DOMAIN g = 0..LINES - 1
  BY DEF IsGrid
<1>4. h = [l \in 0..LINES - 1 |-> IF l = y THEN w ELSE g[l]]
  BY <1>1, <1>3 DEF RowPut
<1>5. \A l \in 0..LINES - 1 : h[l] = IF l = y THEN w ELSE g[l]
  BY <1>4
<1>6. \A l \in 0..LINES - 1, c \in 0..COLUMNS - 1 : h[l][c] = IF l = y THEN w[c] ELSE g[l][c]
  BY ONLY <1>5
<1>7. IsGrid(h)
  <2>1. h = [l \in 0..LINES - 1 |-> h[l]]
    BY ONLY <1>4
  <2>2. \A l \in 0..LINES - 1 : h[l] = [c \in 0..COLUMNS - 1 |-> h[l][c]]
    BY ONLY <1>2, <1>5, IsRow(w) DEF IsRow
  <2>3. QED
    BY ONLY <2>1, <2>2, Zenon DEF IsGrid
<1>8. QED
  BY ONLY <1>1, <1>6, <1>7

RowInserted(g, y, x) ==
  [c \in 0..COLUMNS - 1 |-> IF c < x THEN g[y][c] ELSE IF c > x THEN g[y][c - 1] ELSE Blank]
RowDeleted(g, y, x) ==
  [c \in 0..COLUMNS - 1 |-> IF c < x THEN g[y][c] ELSE IF c + 1 < COLUMNS THEN g[y][c + 1] ELSE Blank]

LEMMA insert_charShown ==
  ASSUME NEW s, Full(s), s.x < COLUMNS, NEW q, q = insert_char(s)
  PROVE  Shown(q, s, RowPut(Show(s), s.y, RowInserted(Show(s), s.y, s.x)))
<1>1. /\ s.x \in 0..COLUMNS - 1 /\ s.y \in 0..LINES - 1 /\ s.origin \in Int /\ s.pos \in Int
      /\ s.pos = s.origin + s.y * COLUMNS + s.x
  BY NumbersOf DEF Numbers
<1>2. PICK f, to, d, n, k : /\ f = s.y * COLUMNS + s.x /\ to = f + 1 /\ d = -1
                            /\ n = COLUMNS - s.x - 1 /\ k = 1
  OBVIOUS
<1>3. /\ f \in Int /\ to \in Int /\ d \in Int /\ n \in Int /\ k \in Int
      /\ s.pos = s.origin + f /\ s.pos = s.origin + to + d /\ s.pos + 1 = s.origin + to
  <2>1. s.y * COLUMNS \in Int
    BY <1>1
  <2>2. QED
    BY <1>1, <1>2, <2>1
<1>4. q = Fill(Copy(s, s.pos, s.pos + 1, COLUMNS - s.x - 1), s.pos, 1)
  BY <1>1 DEF insert_char
<1>5. q = Moved(s, to, d, n, f, k)
  BY ONLY <1>2, <1>3, <1>4 DEF Moved
<1>6. /\ Full(q) /\ Wrote(q, s)
      /\ \A l \in 0..LINES - 1, c \in 0..COLUMNS - 1 :
           Show(q)[l][c] =
             IF f <= l * COLUMNS + c /\ l * COLUMNS + c < f + k THEN Blank
             ELSE IF to <= l * COLUMNS + c /\ l * COLUMNS + c < to + n
                  THEN s.mem[s.origin + l * COLUMNS + c + d] ELSE Show(s)[l][c]
  BY ONLY Full(s), <1>3, <1>5, MovedIs
<1>7. PICK w, u : w = RowInserted(Show(s), s.y, s.x) /\ u = RowPut(Show(s), s.y, w)
  OBVIOUS
<1>8. /\ IsRow(w)
      /\ \A c \in 0..COLUMNS - 1 :
           w[c] = IF c < s.x THEN Show(s)[s.y][c] ELSE IF c > s.x THEN Show(s)[s.y][c - 1] ELSE Blank
  BY <1>7 DEF RowInserted, IsRow
<1>9. /\ IsGrid(u)
      /\ \A l \in 0..LINES - 1, c \in 0..COLUMNS - 1 :
           u[l][c] = IF l = s.y THEN w[c] ELSE Show(s)[l][c]
  <2>1. PICK g, y : g = Show(s) /\ y = s.y
    OBVIOUS
  <2>2. IsGrid(g) /\ y \in 0..LINES - 1 /\ u = RowPut(g, y, w)
    BY <1>1, <1>7, <2>1, ShowIsGrid
  <2>3. /\ IsGrid(u)
        /\ \A l \in 0..LINES - 1, c \in 0..COLUMNS - 1 : u[l][c] = IF l = y THEN w[c] ELSE g[l][c]
    <3>1. IsRow(w)
      BY <1>8
    <3>2. QED
      BY ONLY <2>2, <3>1, RowIsPut
  <2>4. QED
    BY ONLY <2>1, <2>3
<1>10. ASSUME NEW l \in 0..LINES - 1, NEW c \in 0..COLUMNS - 1
       PROVE  Show(q)[l][c] = u[l][c]
  <2>1. PICK P : P = l * COLUMNS + c
    OBVIOUS
  <2>2. P \in Int
    BY <2>1
  <2>3. /\ f <= P <=> s.y < l \/ (s.y = l /\ s.x <= c)
        /\ to <= P <=> s.y < l \/ (s.y = l /\ s.x + 1 <= c)
        /\ to + n <= P <=> s.y < l
    <3>1. s.y \in Int /\ l \in Int /\ s.x \in 0..COLUMNS /\ s.x + 1 \in 0..COLUMNS /\ COLUMNS \in 0..COLUMNS
      BY <1>1
    <3>2. PICK a, b : a = s.x + 1 /\ b = s.y * COLUMNS
      OBVIOUS
    <3>3. b \in Int /\ f = b + s.x /\ to = b + a /\ to + n = b + COLUMNS
      BY <1>1, <1>2, <3>2
    <3>4. /\ b + s.x <= P <=> s.y < l \/ (s.y = l /\ s.x <= c)
          /\ b + a <= P <=> s.y < l \/ (s.y = l /\ a <= c)
          /\ b + COLUMNS <= P <=> s.y < l \/ (s.y = l /\ COLUMNS <= c)
      <4>1. PICK y, x, z : y = s.y /\ x = s.x /\ z = COLUMNS
        OBVIOUS
      <4>2. /\ y \in Int /\ l \in Int /\ c \in 0..COLUMNS - 1
            /\ x \in 0..COLUMNS /\ a \in 0..COLUMNS /\ z \in 0..COLUMNS
        BY ONLY <3>1, <3>2, <4>1, c \in 0..COLUMNS - 1
      <4>3. P = l * COLUMNS + c /\ b = y * COLUMNS
        BY ONLY <2>1, <3>2, <4>1
      <4>4. b + x <= P <=> y < l \/ (y = l /\ x <= c)
        BY ONLY <4>2, <4>3, Order
      <4>5. b + a <= P <=> y < l \/ (y = l /\ a <= c)
        BY ONLY <4>2, <4>3, Order
      <4>6. b + z <= P <=> y < l \/ (y = l /\ z <= c)
        BY ONLY <4>2, <4>3, Order
      <4>7. QED
        BY ONLY <4>1, <4>4, <4>5, <4>6
    <3>5. ~ (COLUMNS <= c)
      OBVIOUS
    <3>6. QED
      BY ONLY <3>2, <3>3, <3>4, <3>5
  <2>4. /\ f <= P /\ P < f + k <=> l = s.y /\ c = s.x
        /\ to <= P /\ P < to + n <=> l = s.y /\ c > s.x
    <3>1. l \in Int /\ c \in Int /\ s.y \in Int /\ s.x \in Int
      BY <1>1
    <3>2. P < f + k <=> ~ (to <= P)
      BY ONLY <1>2, <1>3, <2>2
    <3>3. P < to + n <=> ~ (to + n <= P)
      BY ONLY <1>3, <2>2
    <3>4. (s.x + 1 <= c <=> c > s.x) /\ (s.x <= c /\ ~ (s.x + 1 <= c) <=> c = s.x)
      BY ONLY <3>1
    <3>5. ~ (s.y < l /\ s.y = l)
      BY ONLY <3>1
    <3>6. QED
      BY ONLY <2>3, <3>2, <3>3, <3>4, <3>5
  <2>5. Show(q)[l][c] = IF f <= P /\ P < f + k THEN Blank
                        ELSE IF to <= P /\ P < to + n THEN s.mem[s.origin + l * COLUMNS + c + d] ELSE Show(s)[l][c]
    BY ONLY <1>6, <2>1
  <2>6. c > s.x => Show(s)[l][c - 1] = s.mem[s.origin + l * COLUMNS + c + d]
    <3>1. c > s.x => c - 1 \in 0..COLUMNS - 1
      BY <1>1
    <3>2. PICK b : b = c - 1
      OBVIOUS
    <3>3. s.origin + l * COLUMNS + b = s.origin + l * COLUMNS + c + d
      <4>1. l * COLUMNS \in Int
        OBVIOUS
      <4>2. QED
        BY <1>1, <1>2, <3>2, <4>1
    <3>4. c > s.x => Show(s)[l][b] = s.mem[s.origin + l * COLUMNS + b]
      BY ONLY <3>1, <3>2, CellOf, l \in 0..LINES - 1
    <3>5. QED
      BY ONLY <3>2, <3>3, <3>4, Zenon
  <2>7. c < s.x \/ c = s.x \/ c > s.x
    <3>1. c \in Int /\ s.x \in Int
      BY <1>1
    <3>2. QED
      BY ONLY <3>1
  <2>8. ~ (c < s.x /\ c > s.x) /\ ~ (c = s.x /\ c < s.x) /\ ~ (c = s.x /\ c > s.x)
    <3>1. c \in Int /\ s.x \in Int
      BY <1>1
    <3>2. QED
      BY ONLY <3>1
  <2>9. QED
    BY ONLY <1>8, <1>9, <2>4, <2>5, <2>6, <2>7, <2>8
<1>11. Show(q) = u
  BY ONLY <1>9, <1>10, GridIs, ShowIsGrid DEF Agree
<1>12. QED
  BY <1>6, <1>7, <1>11 DEF Shown, Wrote

LEMMA delete_charShown ==
  ASSUME NEW s, Full(s), s.x < COLUMNS, NEW q, q = delete_char(s)
  PROVE  Shown(q, s, RowPut(Show(s), s.y, RowDeleted(Show(s), s.y, s.x)))
<1>1. /\ s.x \in 0..COLUMNS - 1 /\ s.y \in 0..LINES - 1 /\ s.origin \in Int /\ s.pos \in Int
      /\ s.pos = s.origin + s.y * COLUMNS + s.x
  BY NumbersOf DEF Numbers
<1>2. PICK f, to, d, n, k : /\ to = s.y * COLUMNS + s.x /\ f = s.y * COLUMNS + COLUMNS - 1
                            /\ d = 1 /\ n = COLUMNS - s.x - 1 /\ k = 1
  OBVIOUS
<1>3. /\ f \in Int /\ to \in Int /\ d \in Int /\ n \in Int /\ k \in Int
      /\ s.pos = s.origin + to /\ s.pos + 1 = s.origin + to + d
      /\ s.pos + COLUMNS - s.x - 1 = s.origin + f
  <2>1. s.y * COLUMNS \in Int
    BY <1>1
  <2>2. QED
    BY <1>1, <1>2, <2>1
<1>4. q = Fill(Copy(s, s.pos + 1, s.pos, COLUMNS - s.x - 1), s.pos + COLUMNS - s.x - 1, 1)
  BY <1>1 DEF delete_char
<1>5. q = Moved(s, to, d, n, f, k)
  BY ONLY <1>2, <1>3, <1>4 DEF Moved
<1>6. /\ Full(q) /\ Wrote(q, s)
      /\ \A l \in 0..LINES - 1, c \in 0..COLUMNS - 1 :
           Show(q)[l][c] =
             IF f <= l * COLUMNS + c /\ l * COLUMNS + c < f + k THEN Blank
             ELSE IF to <= l * COLUMNS + c /\ l * COLUMNS + c < to + n
                  THEN s.mem[s.origin + l * COLUMNS + c + d] ELSE Show(s)[l][c]
  BY ONLY Full(s), <1>3, <1>5, MovedIs
<1>7. PICK w, u : w = RowDeleted(Show(s), s.y, s.x) /\ u = RowPut(Show(s), s.y, w)
  OBVIOUS
<1>8. /\ IsRow(w)
      /\ \A c \in 0..COLUMNS - 1 :
           w[c] = IF c < s.x THEN Show(s)[s.y][c] ELSE IF c + 1 < COLUMNS THEN Show(s)[s.y][c + 1] ELSE Blank
  BY <1>7 DEF RowDeleted, IsRow
<1>9. /\ IsGrid(u)
      /\ \A l \in 0..LINES - 1, c \in 0..COLUMNS - 1 :
           u[l][c] = IF l = s.y THEN w[c] ELSE Show(s)[l][c]
  <2>1. PICK g, y : g = Show(s) /\ y = s.y
    OBVIOUS
  <2>2. IsGrid(g) /\ y \in 0..LINES - 1 /\ u = RowPut(g, y, w)
    BY <1>1, <1>7, <2>1, ShowIsGrid
  <2>3. /\ IsGrid(u)
        /\ \A l \in 0..LINES - 1, c \in 0..COLUMNS - 1 : u[l][c] = IF l = y THEN w[c] ELSE g[l][c]
    <3>1. IsRow(w)
      BY <1>8
    <3>2. QED
      BY ONLY <2>2, <3>1, RowIsPut
  <2>4. QED
    BY ONLY <2>1, <2>3
<1>10. ASSUME NEW l \in 0..LINES - 1, NEW c \in 0..COLUMNS - 1
       PROVE  Show(q)[l][c] = u[l][c]
  <2>1. PICK P : P = l * COLUMNS + c
    OBVIOUS
  <2>2. P \in Int
    BY <2>1
  <2>3. /\ f <= P <=> s.y < l \/ (s.y = l /\ COLUMNS - 1 <= c)
        /\ to <= P <=> s.y < l \/ (s.y = l /\ s.x <= c)
        /\ f + k <= P <=> s.y < l
    <3>1. /\ s.y \in Int /\ l \in Int /\ s.x \in 0..COLUMNS
          /\ COLUMNS - 1 \in 0..COLUMNS /\ COLUMNS \in 0..COLUMNS
      BY <1>1
    <3>2. PICK a, b : a = COLUMNS - 1 /\ b = s.y * COLUMNS
      OBVIOUS
    <3>3. b \in Int /\ f = b + a /\ to = b + s.x /\ f + k = b + COLUMNS
      BY <1>1, <1>2, <3>2
    <3>4. /\ b + s.x <= P <=> s.y < l \/ (s.y = l /\ s.x <= c)
          /\ b + a <= P <=> s.y < l \/ (s.y = l /\ a <= c)
          /\ b + COLUMNS <= P <=> s.y < l \/ (s.y = l /\ COLUMNS <= c)
      <4>1. PICK y, x, z : y = s.y /\ x = s.x /\ z = COLUMNS
        OBVIOUS
      <4>2. /\ y \in Int /\ l \in Int /\ c \in 0..COLUMNS - 1
            /\ x \in 0..COLUMNS /\ a \in 0..COLUMNS /\ z \in 0..COLUMNS
        BY ONLY <3>1, <3>2, <4>1, c \in 0..COLUMNS - 1
      <4>3. P = l * COLUMNS + c /\ b = y * COLUMNS
        BY ONLY <2>1, <3>2, <4>1
      <4>4. b + x <= P <=> y < l \/ (y = l /\ x <= c)
        BY ONLY <4>2, <4>3, Order
      <4>5. b + a <= P <=> y < l \/ (y = l /\ a <= c)
        BY ONLY <4>2, <4>3, Order
      <4>6. b + z <= P <=> y < l \/ (y = l /\ z <= c)
        BY ONLY <4>2, <4>3, Order
      <4>7. QED
        BY ONLY <4>1, <4>4, <4>5, <4>6
    <3>5. ~ (COLUMNS <= c)
      OBVIOUS
    <3>6. QED
      BY ONLY <3>2, <3>3, <3>4, <3>5
  <2>4. /\ f <= P /\ P < f + k <=> l = s.y /\ ~ (c + 1 < COLUMNS)
        /\ to <= P /\ P < to + n <=> l = s.y /\ ~ (c < s.x) /\ c + 1 < COLUMNS
    <3>1. l \in Int /\ c \in Int /\ s.y \in Int /\ s.x \in Int /\ COLUMNS \in Int /\ c < COLUMNS
      BY <1>1
    <3>2. P < f + k <=> ~ (f + k <= P)
      BY ONLY <1>2, <1>3, <2>2
    <3>3. P < to + n <=> ~ (f <= P)
      <4>1. s.y * COLUMNS \in Int
        BY <1>1
      <4>2. to + n = f
        BY ONLY <1>2, <3>1, <4>1
      <4>3. QED
        BY ONLY <1>3, <2>2, <4>2
    <3>4. (COLUMNS - 1 <= c <=> ~ (c + 1 < COLUMNS)) /\ (s.x <= c <=> ~ (c < s.x))
      BY ONLY <3>1
    <3>5. ~ (s.y < l /\ s.y = l)
      BY ONLY <3>1
    <3>6. QED
      BY ONLY <2>3, <3>2, <3>3, <3>4, <3>5
  <2>5. Show(q)[l][c] = IF f <= P /\ P < f + k THEN Blank
                        ELSE IF to <= P /\ P < to + n THEN s.mem[s.origin + l * COLUMNS + c + d] ELSE Show(s)[l][c]
    BY ONLY <1>6, <2>1
  <2>6. c + 1 < COLUMNS => Show(s)[l][c + 1] = s.mem[s.origin + l * COLUMNS + c + d]
    <3>1. c + 1 < COLUMNS => c + 1 \in 0..COLUMNS - 1
      OBVIOUS
    <3>2. PICK b : b = c + 1
      OBVIOUS
    <3>3. s.origin + l * COLUMNS + b = s.origin + l * COLUMNS + c + d
      <4>1. l * COLUMNS \in Int
        OBVIOUS
      <4>2. QED
        BY <1>1, <1>2, <3>2, <4>1
    <3>4. c + 1 < COLUMNS => Show(s)[l][b] = s.mem[s.origin + l * COLUMNS + b]
      BY ONLY <3>1, <3>2, CellOf, l \in 0..LINES - 1
    <3>5. QED
      BY ONLY <3>2, <3>3, <3>4, Zenon
  <2>7. c < s.x => c + 1 < COLUMNS
    <3>1. c \in Int /\ s.x \in Int /\ s.x < COLUMNS /\ COLUMNS \in Int
      BY <1>1
    <3>2. QED
      BY ONLY <3>1
  <2>9. QED
    BY ONLY <1>8, <1>9, <2>4, <2>5, <2>6, <2>7
<1>11. Show(q) = u
  BY ONLY <1>9, <1>10, GridIs, ShowIsGrid DEF Agree
<1>12. QED
  BY <1>6, <1>7, <1>11 DEF Shown, Wrote

\* The functions that csi_L and csi_M call again and again: the screen, but
\* for the region that they borrow.
LEMMA RegionShown ==
  ASSUME NEW s, Full(s), NEW t, NEW b, t \in 0..b - 1, b \in 1..LINES, NEW r, r = Region(s, t, b)
  PROVE  /\ Full(r) /\ Show(r) = Show(s) /\ r.x = s.x /\ r.y = s.y /\ r.top = t /\ r.bottom = b
<1>1. Screen(s) /\ t \in Int /\ b \in Int
  BY NumbersOf
<1>2. /\ Screen(r) /\ r.x = s.x /\ r.y = s.y /\ r.pos = s.pos /\ r.origin = s.origin
      /\ r.scr_end = s.scr_end /\ r.top = t /\ r.bottom = b
  BY <1>1, RegionFields
<1>3. r.mem = s.mem
  BY <1>1 DEF Region, Screen
<1>4. Good(r)
  BY <1>2 DEF Full, Good, Within
<1>5. QED
  BY <1>2, <1>3, <1>4 DEF Full, Show

LEMMA LineShown ==
  ASSUME NEW s, Full(s), NEW i, i = insert_line(s), NEW d, d = delete_line(s)
  PROVE  /\ Shown(i, s, Abstract!Down(Show(s), s.y, LINES))
         /\ Shown(d, s, Abstract!Up(Show(s), s.y, LINES))
<1>1. /\ s.y \in 0..LINES - 1 /\ LINES \in 1..LINES /\ s.top \in 0..s.bottom - 1 /\ s.bottom \in 1..LINES
      /\ s.y \in Int
  BY DEF Full, Good, Within
<1>2. PICK y, t, b, l : y = s.y /\ t = s.top /\ b = s.bottom /\ l = LINES
  OBVIOUS
<1>3. PICK r : r = Region(s, y, l)
  OBVIOUS
<1>4. Full(r) /\ Show(r) = Show(s) /\ r.x = s.x /\ r.y = s.y /\ r.top = y /\ r.bottom = l
  BY <1>1, <1>2, <1>3, RegionShown
<1>5. PICK j, k : j = scrdown(r) /\ k = scrup(r)
  OBVIOUS
<1>6. Shown(j, r, Abstract!Down(Show(r), r.top, r.bottom)) /\ Shown(k, r, Abstract!Up(Show(r), r.top, r.bottom))
  BY <1>4, <1>5, scrdownShown, scrupShown
<1>7. i = Region(j, t, b) /\ d = Region(k, t, b)
  BY <1>2, <1>3, <1>5 DEF insert_line, delete_line, Below
<1>8. Full(j) /\ Full(k)
  BY <1>6 DEF Shown
<1>9. /\ Full(i) /\ Show(i) = Show(j) /\ i.x = j.x /\ i.y = j.y /\ i.top = t /\ i.bottom = b
      /\ Full(d) /\ Show(d) = Show(k) /\ d.x = k.x /\ d.y = k.y /\ d.top = t /\ d.bottom = b
  <2>1. t \in 0..b - 1 /\ b \in 1..LINES
    BY <1>1, <1>2
  <2>2. QED
    BY ONLY <1>7, <1>8, <2>1, RegionShown
<1>10. QED
  BY <1>2, <1>4, <1>6, <1>9 DEF Shown, Same

SetTo(r, s) ==
  /\ Full(r) /\ Show(r) = Show(s) /\ r.x = s.x /\ r.y = s.y
  /\ r.top \in 0..LINES - 1 /\ r.bottom \in r.top + 1..LINES

LEMMA regionShown ==
  ASSUME NEW s, Full(s), NEW from \in Nat, NEW to \in Nat, NEW r, r = region(s, from, to)
  PROVE  SetTo(r, s)
<1>1. PICK b : b = IF to = 0 THEN LINES ELSE to
  OBVIOUS
<1>2. b \in Nat /\ r = IF from < b /\ b <= LINES THEN Region(s, from, b) ELSE s
  BY <1>1 DEF region
<1>3. CASE from < b /\ b <= LINES
  <2>1. from \in 0..b - 1 /\ b \in 1..LINES /\ r = Region(s, from, b)
    BY <1>2, <1>3
  <2>2. Full(r) /\ Show(r) = Show(s) /\ r.x = s.x /\ r.y = s.y /\ r.top = from /\ r.bottom = b
    BY <2>1, RegionShown
  <2>3. QED
    BY <2>1, <2>2 DEF SetTo
<1>4. CASE ~ (from < b /\ b <= LINES)
  BY <1>2, <1>4, NumbersOf DEF Numbers, SetTo
<1>5. QED
  BY <1>3, <1>4

-------------------------------------------------------------------------------
(* Every character does to the grid what one action of Screen does. *)

Implements == Abstract!Next \/ UNCHANGED Abstract!vars

\* The state in which the screen is seen: its cells are there, and the
\* attribute is one that the characters of Screen have.
Whole == Inductive /\ DOMAIN scr.mem = 0..SCREEN_END - 1 /\ attr \in Attr

LEMMA WholeIsFull == Whole => Full(scr)
BY DEF Whole, Inductive, Full

LEMMA StayStep == ASSUME Full(scr), scr' = scr PROVE Full(scr') /\ Implements
<1>1. UNCHANGED Abstract!vars
  BY DEF Abstract!vars
<1>2. QED
  BY <1>1 DEF Implements, Full, Good, Within, Screen

LEMMA MoveStep == ASSUME Went(scr', scr) PROVE Full(scr') /\ Implements
<1>1. Full(scr') /\ Show(scr') = Show(scr) /\ scr'.top = scr.top /\ scr'.bottom = scr.bottom
  BY DEF Went
<1>2. scr'.x \in 0..COLUMNS /\ scr'.y \in 0..LINES - 1
  BY <1>1, NumbersOf DEF Numbers
<1>3. Abstract!Move
  BY <1>1, <1>2 DEF Abstract!Move, Abstract!Keep, Abstract!Fixed, Abstract!Line, Show
<1>4. QED
  BY <1>1, <1>3 DEF Implements, Abstract!Next

LEMMA FeedStep == ASSUME LineFed(scr', scr) PROVE Full(scr') /\ Implements
<1>1. Abstract!Feed
  BY DEF LineFed, Abstract!Feed, Abstract!LineFeed, Abstract!Keep, Abstract!Fixed, Show
<1>2. QED
  BY <1>1 DEF LineFed, Implements, Abstract!Next

LEMMA ReverseStep == ASSUME Full(scr), scr' = ri(scr) PROVE Full(scr') /\ Implements
<1>1. /\ Full(scr') /\ scr'.x = scr.x /\ scr'.top = scr.top /\ scr'.bottom = scr.bottom
      /\ IF scr.y > scr.top THEN scr'.y = scr.y - 1 /\ Show(scr') = Show(scr)
         ELSE scr'.y = scr.y /\ Show(scr') = Abstract!Down(Show(scr), scr.top, scr.bottom)
  BY riShown
<1>2. Abstract!ReverseFeed
  BY <1>1 DEF Abstract!ReverseFeed, Abstract!Keep, Abstract!Fixed, Show
<1>3. QED
  BY <1>1, <1>2 DEF Implements, Abstract!Next

LEMMA TabStep == ASSUME Full(scr), scr' = tab(scr) PROVE Full(scr') /\ Implements
<1>1. PICK n : n = (scr.x \div Tab + 1) * Tab
  OBVIOUS
<1>2. /\ Full(scr') /\ scr'.top = scr.top /\ scr'.bottom = scr.bottom
      /\ IF n <= COLUMNS THEN scr'.x = n /\ scr'.y = scr.y /\ Show(scr') = Show(scr)
         ELSE /\ scr'.x = n - COLUMNS
              /\ IF scr.y + 1 < scr.bottom THEN scr'.y = scr.y + 1 /\ Show(scr') = Show(scr)
                 ELSE scr'.y = scr.y /\ Show(scr') = Abstract!Up(Show(scr), scr.top, scr.bottom)
  BY <1>1, tabShown
<1>3. Abstract!TabStop
  BY <1>1, <1>2 DEF Abstract!TabStop, Abstract!LineFeed, Abstract!Keep, Abstract!Fixed, Show
<1>4. QED
  BY <1>2, <1>3 DEF Implements, Abstract!Next

LEMMA PrintStep ==
  ASSUME Full(scr), attr \in Attr, scr' = print(scr, "a") PROVE Full(scr') /\ Implements
<1>1. PICK v : v = Cell("a", attr)
  OBVIOUS
<1>2. /\ Full(scr') /\ scr'.top = scr.top /\ scr'.bottom = scr.bottom
      /\ IF scr.x < COLUMNS
         THEN scr'.x = scr.x + 1 /\ scr'.y = scr.y /\ Show(scr') = PutAt(Show(scr), scr.y, scr.x, v)
         ELSE /\ scr'.x = 1
              /\ IF scr.y + 1 < scr.bottom
                 THEN scr'.y = scr.y + 1 /\ Show(scr') = PutAt(Show(scr), scr.y + 1, 0, v)
                 ELSE /\ scr'.y = scr.y
                      /\ Show(scr') = PutAt(Abstract!Up(Show(scr), scr.top, scr.bottom), scr.y, 0, v)
  BY <1>1, printShown
<1>3. Abstract!PutChar(v)
  BY <1>2 DEF Abstract!PutChar, Abstract!Keep, Abstract!Fixed, Show, PutAt
<1>4. v \in {Cell("a", 7), Cell("a", 15), Cell("a", 112)}
  BY <1>1 DEF Attr
<1>5. Abstract!Next
  BY <1>3, <1>4 DEF Abstract!Next
<1>6. QED
  BY <1>2, <1>5 DEF Implements

LEMMA EraseStep == ASSUME Full(scr), scr' = del(scr) PROVE Full(scr') /\ Implements
<1>1. CASE scr.x = 0
  BY <1>1, StayStep DEF del
<1>2. CASE scr.x # 0
  <2>1. /\ Full(scr') /\ scr'.x = scr.x - 1 /\ scr'.y = scr.y
        /\ scr'.top = scr.top /\ scr'.bottom = scr.bottom
        /\ Show(scr') = PutAt(Show(scr), scr.y, scr.x - 1, Blank)
    BY <1>2, delShown
  <2>2. scr.x > 0
    BY <1>2, NumbersOf DEF Numbers
  <2>3. Abstract!Erase
    BY <2>1, <2>2 DEF Abstract!Erase, Abstract!Keep, Abstract!Fixed, Show, PutAt
  <2>4. QED
    BY <2>1, <2>3 DEF Implements, Abstract!Next
<1>3. QED
  BY <1>1, <1>2

\* A part of the screen is cleared, in reading order.
LEMMA WipeStep == ASSUME Full(scr), Wipes(scr', scr) PROVE Full(scr') /\ Implements
<1>1. Full(scr') /\ Same(scr', scr)
  BY DEF Wipes
<1>2. CASE scr' = scr
  BY <1>2, StayStep
<1>3. CASE scr' # scr
  <2>1. \/ Show(scr') = Wiped(Show(scr), scr.y * COLUMNS + scr.x, LINES * COLUMNS)
        \/ Show(scr') = Wiped(Show(scr), 0, scr.y * COLUMNS + scr.x)
        \/ Show(scr') = Wiped(Show(scr), 0, LINES * COLUMNS)
        \/ Show(scr') = Wiped(Show(scr), scr.y * COLUMNS + scr.x, (scr.y + 1) * COLUMNS)
        \/ Show(scr') = Wiped(Show(scr), scr.y * COLUMNS, scr.y * COLUMNS + scr.x)
        \/ Show(scr') = Wiped(Show(scr), scr.y * COLUMNS, (scr.y + 1) * COLUMNS)
    BY <1>3 DEF Wipes
  <2>2. ASSUME Show(scr') = Wiped(Show(scr), scr.y * COLUMNS + scr.x, LINES * COLUMNS)
       PROVE  Abstract!ClearSome
    <3>1. Abstract!Clear(scr.y * COLUMNS + scr.x, LINES * COLUMNS)
      BY <1>1, <2>2, Zenon DEF Wiped, Same, Show, Abstract!Clear, Abstract!Keep, Abstract!Fixed,
                               Abstract!Line, Abstract!Column
    <3>2. QED
      BY ONLY <3>1, Zenon DEF Abstract!ClearSome, Abstract!Here
  <2>3. ASSUME Show(scr') = Wiped(Show(scr), 0, scr.y * COLUMNS + scr.x)
       PROVE  Abstract!ClearSome
    <3>1. Abstract!Clear(0, scr.y * COLUMNS + scr.x)
      BY <1>1, <2>3, Zenon DEF Wiped, Same, Show, Abstract!Clear, Abstract!Keep, Abstract!Fixed,
                               Abstract!Line, Abstract!Column
    <3>2. QED
      BY ONLY <3>1, Zenon DEF Abstract!ClearSome, Abstract!Here
  <2>4. ASSUME Show(scr') = Wiped(Show(scr), 0, LINES * COLUMNS)
       PROVE  Abstract!ClearSome
    <3>1. Abstract!Clear(0, LINES * COLUMNS)
      BY <1>1, <2>4, Zenon DEF Wiped, Same, Show, Abstract!Clear, Abstract!Keep, Abstract!Fixed,
                               Abstract!Line, Abstract!Column
    <3>2. QED
      BY ONLY <3>1, Zenon DEF Abstract!ClearSome, Abstract!Here
  <2>5. ASSUME Show(scr') = Wiped(Show(scr), scr.y * COLUMNS + scr.x, (scr.y + 1) * COLUMNS)
       PROVE  Abstract!ClearSome
    <3>1. Abstract!Clear(scr.y * COLUMNS + scr.x, (scr.y + 1) * COLUMNS)
      BY <1>1, <2>5, Zenon DEF Wiped, Same, Show, Abstract!Clear, Abstract!Keep, Abstract!Fixed,
                               Abstract!Line, Abstract!Column
    <3>2. QED
      BY ONLY <3>1, Zenon DEF Abstract!ClearSome, Abstract!Here
  <2>6. ASSUME Show(scr') = Wiped(Show(scr), scr.y * COLUMNS, scr.y * COLUMNS + scr.x)
       PROVE  Abstract!ClearSome
    <3>1. Abstract!Clear(scr.y * COLUMNS, scr.y * COLUMNS + scr.x)
      BY <1>1, <2>6, Zenon DEF Wiped, Same, Show, Abstract!Clear, Abstract!Keep, Abstract!Fixed,
                               Abstract!Line, Abstract!Column
    <3>2. QED
      BY ONLY <3>1, Zenon DEF Abstract!ClearSome, Abstract!Here
  <2>7. ASSUME Show(scr') = Wiped(Show(scr), scr.y * COLUMNS, (scr.y + 1) * COLUMNS)
       PROVE  Abstract!ClearSome
    <3>1. Abstract!Clear(scr.y * COLUMNS, (scr.y + 1) * COLUMNS)
      BY <1>1, <2>7, Zenon DEF Wiped, Same, Show, Abstract!Clear, Abstract!Keep, Abstract!Fixed,
                               Abstract!Line, Abstract!Column
    <3>2. QED
      BY ONLY <3>1, Zenon DEF Abstract!ClearSome, Abstract!Here
  <2>8. Abstract!ClearSome
    BY ONLY <2>1, <2>2, <2>3, <2>4, <2>5, <2>6, <2>7, Zenon
  <2>9. QED
    BY <1>1, <2>8 DEF Implements, Abstract!Next
<1>4. QED
  BY <1>2, <1>3

LEMMA RegionStep ==
  ASSUME Full(scr), NEW from \in Nat, NEW to \in Nat, scr' = region(scr, from, to)
  PROVE  Full(scr') /\ Implements
<1>1. SetTo(scr', scr)
  <2>1. PICK s, r : s = scr /\ r = scr'
    OBVIOUS
  <2>2. Full(s) /\ r = region(s, from, to)
    BY <2>1
  <2>3. SetTo(r, s)
    BY ONLY <2>2, from \in Nat, to \in Nat, regionShown
  <2>4. QED
    BY <2>1, <2>3
<1>2. Abstract!SetRegion
  BY <1>1 DEF SetTo, Abstract!SetRegion, Abstract!Keep, Abstract!Line, Show
<1>3. QED
  BY <1>1, <1>2 DEF SetTo, Implements, Abstract!Next

LEMMA OnceStep ==
  ASSUME Full(scr), NEW c \in Repeated, scr' = once(scr, c) PROVE Full(scr') /\ Implements
<1>1. CASE c = "L"
  <2>1. scr' = insert_line(scr)
    BY <1>1 DEF once
  <2>2. Shown(scr', scr, Abstract!Down(Show(scr), scr.y, LINES))
    BY <2>1, LineShown
  <2>3. Abstract!InsertLine
    BY <2>2 DEF Shown, Same, Abstract!InsertLine, Abstract!Keep, Abstract!Fixed, Show
  <2>4. QED
    BY <2>2, <2>3 DEF Shown, Implements, Abstract!Next
<1>2. CASE c = "M"
  <2>1. scr' = delete_line(scr)
    BY <1>2 DEF once
  <2>2. Shown(scr', scr, Abstract!Up(Show(scr), scr.y, LINES))
    BY <2>1, LineShown
  <2>3. Abstract!DeleteLine
    BY <2>2 DEF Shown, Same, Abstract!DeleteLine, Abstract!Keep, Abstract!Fixed, Show
  <2>4. QED
    BY <2>2, <2>3 DEF Shown, Implements, Abstract!Next
<1>3. CASE c = "P" /\ scr.x < COLUMNS
  <2>1. scr' = delete_char(scr)
    BY <1>3 DEF once
  <2>2. Shown(scr', scr, RowPut(Show(scr), scr.y, RowDeleted(Show(scr), scr.y, scr.x)))
    BY <1>3, <2>1, delete_charShown
  <2>3. Abstract!DeleteChar
    BY <2>2 DEF Shown, Same, Abstract!DeleteChar, Abstract!Keep, Abstract!Fixed, Abstract!Column,
                Show, RowPut, RowDeleted
  <2>4. QED
    BY <2>2, <2>3 DEF Shown, Implements, Abstract!Next
<1>4. CASE c = "@" /\ scr.x < COLUMNS
  <2>1. scr' = insert_char(scr)
    BY <1>4 DEF once
  <2>2. Shown(scr', scr, RowPut(Show(scr), scr.y, RowInserted(Show(scr), scr.y, scr.x)))
    BY <1>4, <2>1, insert_charShown
  <2>3. Abstract!InsertChar
    BY <1>4, <2>2 DEF Shown, Same, Abstract!InsertChar, Abstract!Keep, Abstract!Fixed, Abstract!Column,
                Show, RowPut, RowInserted
  <2>4. QED
    BY <2>2, <2>3 DEF Shown, Implements, Abstract!Next
<1>5. CASE c \in {"P", "@"} /\ scr.x >= COLUMNS
  <2>1. scr' = scr
    BY <1>5 DEF once, insert_char, delete_char
  <2>2. QED
    BY <2>1, StayStep
<1>6. scr.x < COLUMNS \/ scr.x >= COLUMNS
  BY NumbersOf DEF Numbers
<1>7. QED
  BY <1>1, <1>2, <1>3, <1>4, <1>5, <1>6 DEF Repeated

\* The letters that move the cursor to a place that they count out.
LEMMA MovingStep ==
  ASSUME Full(scr), NEW a \in Int, NEW b \in Int, scr' = gotoxy(scr, a, b) PROVE Full(scr') /\ Implements
<1>1. Went(gotoxy(scr, a, b), scr)
  BY gotoxyWent
<1>2. QED
  BY <1>1, MoveStep

LEMMA Parameters ==
  ASSUME Whole
  PROVE  /\ par[0] \in Nat /\ par[1] \in Nat
         /\ \A n \in Nat : Less(n) \in Nat /\ Least1(n) \in Nat
         /\ scr.x \in Int /\ scr.y \in Int
<1>1. par \in [0..NPAR - 1 -> Nat] /\ 0 \in 0..NPAR - 1 /\ 1 \in 0..NPAR - 1
  BY DEF Whole, Inductive
<1>2. scr.x \in Int /\ scr.y \in Int
  BY WholeIsFull, NumbersOf DEF Numbers
<1>3. QED
  BY <1>1, <1>2 DEF Less, Least1

LEMMA finalStep == ASSUME Whole, NEW c, scr' = final(scr, c) PROVE Full(scr') /\ Implements
<1>1. Full(scr) /\ Inductive
  BY WholeIsFull DEF Whole
<1>2. PICK p, m, n, q, x, y : /\ p = par[0] /\ m = Less(p) /\ n = Least1(p) /\ q = Less(par[1])
                              /\ x = scr.x /\ y = scr.y
  OBVIOUS
<1>3. p \in Nat /\ m \in Nat /\ n \in Nat /\ q \in Nat /\ x \in Int /\ y \in Int
  BY <1>2, Parameters
<1>4. CASE c \in {"G", "A", "B", "C", "D", "E", "F", "d", "H"}
  <2>1. y - n \in Int /\ y + n \in Int /\ x + n \in Int /\ x - n \in Int /\ 0 \in Int
    BY ONLY <1>3
  <2>2. \/ scr' = gotoxy(scr, m, y) \/ scr' = gotoxy(scr, x, y - n) \/ scr' = gotoxy(scr, x, y + n)
        \/ scr' = gotoxy(scr, x + n, y) \/ scr' = gotoxy(scr, x - n, y)
        \/ scr' = gotoxy(scr, 0, y + n) \/ scr' = gotoxy(scr, 0, y - n)
        \/ scr' = gotoxy(scr, x, m) \/ scr' = gotoxy(scr, q, m)
    BY <1>2, <1>4 DEF final
  <2>3. \E a \in Int, b \in Int : scr' = gotoxy(scr, a, b)
    BY ONLY <1>3, <2>1, <2>2
  <2>4. QED
    BY ONLY <1>1, <2>3, MovingStep
<1>5. CASE c = "J"
  <2>1. Wipes(scr', scr)
    BY <1>1, <1>5, csi_JShown DEF final
  <2>2. QED
    BY <1>1, <2>1, WipeStep
<1>6. CASE c = "K"
  <2>1. Wipes(scr', scr)
    BY <1>1, <1>6, csi_KShown DEF final
  <2>2. QED
    BY <1>1, <2>1, WipeStep
<1>7. CASE c = "r"
  <2>1. PICK k : k = par[1]
    OBVIOUS
  <2>2. k \in Nat
    BY <2>1, Parameters
  <2>3. scr' = region(scr, m, k)
    BY <1>2, <1>7, <2>1 DEF final
  <2>4. QED
    BY ONLY <1>1, <1>3, <2>2, <2>3, RegionStep
<1>8. CASE c = "u"
  <2>1. Went(scr', scr)
    BY <1>1, <1>8, restoreWent DEF final
  <2>2. QED
    BY <2>1, MoveStep
<1>9. CASE c \notin {"G", "A", "B", "C", "D", "E", "F", "d", "H", "J", "K", "r", "u"}
  <2>1. scr' = scr
    BY <1>9 DEF final
  <2>2. QED
    BY <1>1, <2>1, StayStep
<1>10. QED
  BY <1>4, <1>5, <1>6, <1>7, <1>8, <1>9

\* The attribute that ESC [ m sets is one of those that the screen shows.
LEMMA csi_mType == attr \in Attr => csi_m \in Attr
BY DEF csi_m, Attr

LEMMA plainStep ==
  ASSUME Whole, NEW c \in {"a"} \union Control, plain(c) PROVE Full(scr') /\ Implements
<1>1. Full(scr) /\ attr \in Attr
  BY WholeIsFull DEF Whole
<1>2. CASE c = "ESC"
  <2>1. scr' = scr
    BY <1>2 DEF plain
  <2>2. QED
    BY <1>1, <2>1, StayStep
<1>3. CASE c = "LF"
  <2>1. scr' = lf(scr)
    BY <1>3 DEF plain
  <2>2. LineFed(scr', scr)
    BY <1>1, <2>1, lfShown
  <2>3. QED
    BY <2>2, FeedStep
<1>4. CASE c = "CR"
  <2>1. scr' = cr(scr)
    BY <1>4 DEF plain
  <2>2. Went(scr', scr)
    BY <1>1, <2>1, crWent
  <2>3. QED
    BY <2>2, MoveStep
<1>5. CASE c = "DEL"
  <2>1. scr' = del(scr)
    BY <1>5 DEF plain
  <2>2. QED
    BY <1>1, <2>1, EraseStep
<1>6. CASE c = "BS"
  <2>1. scr' = backspace(scr)
    BY <1>6 DEF plain
  <2>2. CASE scr.x = 0
    BY <1>1, <2>1, <2>2, StayStep DEF backspace
  <2>3. CASE scr.x # 0
    <3>1. Went(scr', scr)
      BY <1>1, <2>1, <2>3, backspaceWent
    <3>2. QED
      BY <3>1, MoveStep
  <2>4. QED
    BY <2>2, <2>3
<1>7. CASE c = "TAB"
  <2>1. scr' = tab(scr)
    BY <1>7 DEF plain
  <2>2. QED
    BY <1>1, <2>1, TabStep
<1>8. CASE c = "a"
  <2>1. scr' = print(scr, "a")
    BY <1>8 DEF plain
  <2>2. QED
    BY <1>1, <2>1, PrintStep
<1>9. QED
  BY <1>2, <1>3, <1>4, <1>5, <1>6, <1>7, <1>8 DEF Control

LEMMA escapeStep == ASSUME Whole, NEW c, escape(c) PROVE Full(scr') /\ Implements
<1>1. Full(scr) /\ Inductive
  BY WholeIsFull DEF Whole
<1>2. \/ scr' = scr \/ scr' = gotoxy(scr, 0, scr.y + 1) \/ scr' = ri(scr) \/ scr' = lf(scr)
      \/ scr' = restore_cur(scr)
  BY DEF escape
<1>3. CASE scr' = scr
  BY <1>1, <1>3, StayStep
<1>4. CASE scr' = gotoxy(scr, 0, scr.y + 1)
  <2>1. PICK a, b : a = 0 /\ b = scr.y + 1
    OBVIOUS
  <2>2. a \in Int /\ b \in Int /\ scr' = gotoxy(scr, a, b)
    BY <1>4, <2>1, Parameters
  <2>3. QED
    BY ONLY <1>1, <2>2, MovingStep
<1>5. CASE scr' = ri(scr)
  BY <1>1, <1>5, ReverseStep
<1>6. CASE scr' = lf(scr)
  <2>1. LineFed(scr', scr)
    BY <1>1, <1>6, lfShown
  <2>2. QED
    BY <2>1, FeedStep
<1>7. CASE scr' = restore_cur(scr)
  <2>1. Went(scr', scr)
    BY <1>1, <1>7, restoreWent
  <2>2. QED
    BY <2>1, MoveStep
<1>8. QED
  BY <1>2, <1>3, <1>4, <1>5, <1>6, <1>7

LEMMA WholeNext == Whole /\ [Next]_vars => Whole' /\ Implements
<1> SUFFICES ASSUME Whole, [Next]_vars PROVE Whole' /\ Implements
  OBVIOUS
<1>1. Full(scr) /\ attr \in Attr /\ Inductive
  BY WholeIsFull DEF Whole
<1>2. Inductive'
  BY <1>1, InductiveNext
<1>3. Full(scr') /\ Implements
  <2>1. CASE scr' = scr
    BY <1>1, <2>1, StayStep
  <2>2. ASSUME NEW c \in {"a"} \union Control, plain(c) PROVE Full(scr') /\ Implements
    BY <2>2, plainStep
  <2>3. ASSUME NEW c, escape(c) PROVE Full(scr') /\ Implements
    BY <2>3, escapeStep
  <2>4. ASSUME NEW c, letter(c) PROVE Full(scr') /\ Implements
    <3>1. scr' = final(scr, c)
      BY <2>4 DEF letter
    <3>2. QED
      BY <3>1, finalStep
  <2>5. CASE again
    <3>1. loop.c \in Repeated /\ scr' = once(scr, loop.c)
      BY <1>1, <2>5 DEF again, Inductive
    <3>2. QED
      BY <1>1, <3>1, OnceStep
  <2>6. question \/ semicolon \/ (\E d \in Digit : digit(d)) \/ UNCHANGED vars => scr' = scr
    BY DEF question, semicolon, digit, vars
  <2>7. QED
    BY ONLY [Next]_vars, <2>1, <2>2, <2>3, <2>4, <2>5, <2>6 DEF Next
<1>4. attr' \in Attr
  <2>1. ASSUME NEW c, letter(c) PROVE attr' \in Attr
    BY <1>1, <2>1, csi_mType DEF letter
  <2>2. attr' = attr \/ \E c \in Final : letter(c)
    BY DEF Next, plain, escape, question, semicolon, digit, again, vars
  <2>3. QED
    BY <1>1, <2>1, <2>2
<1>5. QED
  BY <1>2, <1>3, <1>4 DEF Whole, Full

LEMMA WholeInit == Init => Whole
<1> SUFFICES ASSUME Init PROVE Whole
  OBVIOUS
<1>1. Inductive /\ attr \in Attr
  BY InductiveInit DEF Init, Attr
<1>2. scr.mem = Distinct
  BY DEF Init
<1>3. DOMAIN Distinct = 0..SCREEN_END - 1
  BY DEF Distinct
<1>4. QED
  BY <1>1, <1>2, <1>3 DEF Whole

\* Whatever is written to the console, on a screen of any size and with any
\* amount of video memory: what the window shows after a character is what one
\* action of Screen makes of what it showed before.  The origin that scrolls,
\* the copy at the end of the memory, the block moves and fills of console.c,
\* and the addresses they are given, are never seen.
THEOREM ScreenShown == TerminalSpec => IsScreen
<1>1. TerminalInit => Whole
  BY WholeInit DEF TerminalInit
<1>2. Whole /\ [TerminalNext]_<<screen, discipline, part>> => Whole' /\ Implements
  <2> SUFFICES ASSUME Whole, [TerminalNext]_<<screen, discipline, part>>
               PROVE  Whole' /\ Implements
    OBVIOUS
  <2>1. [Next]_vars
    BY DEF TerminalNext, screen, vars
  <2>2. QED
    BY <2>1, WholeNext
<1>3. Implements => [Abstract!Next]_(Abstract!vars)
  BY DEF Implements
<1>4. QED
  BY <1>1, <1>2, <1>3, PTL DEF TerminalSpec, IsScreen
==============================================================================
