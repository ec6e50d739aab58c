---------------------------- MODULE ScreenProofs ----------------------------
(***************************************************************************)
(* What the screen shows, proved for every size of the screen, every       *)
(* set of terminals, every banner, prompt and message, and both users.     *)
(*                                                                         *)
(* The inductive invariant says of each terminal, in front or put away,    *)
(* what the rest of its program's putc() still has to do: Pending relates  *)
(* the screen as it is, the place in putc(), do_enter() or scroll() and    *)
(* the screen had the terminal the machine to itself.  A step of the       *)
(* terminal in front does a part of the rest (StoreStep), a key at a       *)
(* prompt does the same to both screens (KeyStep), and a switch moves the  *)
(* screens and changes none (Exchanged, PutAway), which needs the page     *)
(* tables to lead to the frames (Reaches).                                 *)
(***************************************************************************)
EXTENDS Screen, Induction

\* What a cell holds, and a screen's cells; the places of a program in putc(),
\* Margins those at which the position may be at the margin.
Marks == {BLANK} \cup Terminals
Picture == [Cells -> Marks]
Margins == {"margin", "enter", "scroll", "y", "y++", "home"}
Pcs == {"idle", "read", "row", "column", "store", "x", "x++", "cursor"} \cup Margins

\* A screen of columns up to X and rows up to Y.
Shots(X, Y) == [cells : Picture, x : 0..X, y : 0..Y]

\* Every variable holds a value of its kind.
Typed ==
    /\ user \in Users
    /\ init \in SUBSET Terminals /\ term_cur \in init
    /\ mem \in [Frames -> Picture]
    /\ screen_x \in 0..NUM_COLS /\ screen_y \in 0..MAX_Y
    /\ saved \in [Terminals -> [x : 0..NUM_COLS, y : 0..MAX_Y, pos : 0..KEY_BUFFER_SIZE]]
    /\ key_buffer_pos \in 0..KEY_BUFFER_SIZE
    /\ enter_pressed \in {0, 1}
    /\ prog \in [Terminals -> [pc : Pcs, r : Int]]
    /\ alone = [t \in Terminals |-> alone[t]]

\* The page tables, as Mapped needs them.
Tables ==
    /\ pageDir["VIRTUAL_START"] = Block(ProgramFrame(term_cur), TRUE)
    /\ pageDir["TERM_MEM"] = Table(UserTable, TRUE)
    /\ \A t \in 1..3 : userTable[t] = Block(TermFrame(t), TRUE)
    /\ pageDir["VIRTUAL_END"] \in {Absent, Table(UserTable, TRUE)}
    /\ userTable[0] \in {Absent, Block(VIDEO, TRUE)}
    /\ pageDir = [e \in Entries |-> pageDir[e]]

\* A terminal that was never in front is as init_terminals() left it.
Untouched ==
    \A t \in Terminals \ init :
        /\ mem[TermFrame(t)] = Blanks
        /\ saved[t] = [x |-> 0, y |-> 0, pos |-> 0]
        /\ prog[t] = Idle
        /\ alone[t] = EmptyScreen

\* Where a program is in putc() bounds its register and the column.
Placed(s, p) ==
    /\ s \in Shots(NUM_COLS, MAX_Y)
    /\ p.pc \notin Margins => s.x < NUM_COLS
    /\ p.pc \in {"idle", "read", "row", "x", "cursor"} => p.r = 0
    /\ p.pc \in {"margin", "enter", "y", "home"} => p.r = 0
    /\ p.pc = "column" => p.r \in 0..Index(0, MAX_Y)
    /\ p.pc = "store" => p.r \in 0..Index(NUM_COLS - 1, MAX_Y)
    /\ p.pc = "x++" => p.r \in 0..NUM_COLS - 1
    /\ p.pc = "y++" => p.r \in 0..MAX_Y
    /\ p.pc = "scroll" => p.r \in 0..NUM_ROWS - 1

\* putc() after its store, and after screen_x++.
Wrap(s) == IF s.x >= NUM_COLS THEN DoEnter(s) ELSE s
Advance(s) == Wrap([s EXCEPT !.x = @ + 1])

\* What is left of scroll() from a row on.
ScrollRest(cells, row) ==
    [i \in Cells |-> IF i < Index(0, row) THEN cells[i]
                     ELSE IF i < Index(0, NUM_ROWS - 1) THEN cells[i + NUM_COLS] ELSE BLANK]

\* The screen s of terminal t becomes a when the putc() its program p is in ends.
Pending(s, p, a, t) ==
    /\ p.pc \in {"idle", "read", "cursor"} => a = s
    /\ p.pc \in {"row", "column", "store"} => a = Putc(s, Printable, t)
    /\ p.pc = "column" => p.r = Index(0, s.y)
    /\ p.pc = "store" => p.r = Index(s.x, s.y)
    /\ p.pc \in {"x", "x++"} => a = Advance(s)
    /\ p.pc = "x++" => p.r = s.x
    /\ p.pc = "margin" => a = Wrap(s)
    /\ p.pc \in {"enter", "y", "y++"} => a = DoEnter(s)
    /\ p.pc \in {"y", "y++"} => s.y # NUM_ROWS - 1
    /\ p.pc = "y++" => p.r = s.y
    /\ p.pc = "scroll" =>
          a = [cells |-> ScrollRest(s.cells, p.r), x |-> 0, y |-> NUM_ROWS - 1]
    /\ p.pc = "home" => a = [s EXCEPT !.x = 0]

\* The n characters typed at a read are left of the cursor; e is enter_pressed.
Lined(s, p, n, e, t) ==
    /\ p.pc # "read" => n = 0
    /\ p.pc = "read" /\ e = 0 =>
          n <= s.x /\ \A k \in 1..n : s.cells[Index(s.x, s.y) - k] = t

TypedIn(t) == IF t = term_cur THEN key_buffer_pos ELSE saved[t].pos
EnterIn(t) == IF t = term_cur THEN enter_pressed ELSE 0

Placement == \A t \in init : Placed(ScreenOf(t), prog[t])

\* What holds for the user who types only at prompts.
Prompted ==
    user = "prompted" =>
        /\ \A t \in Terminals : alone[t] \in Shots(NUM_COLS - 1, NUM_ROWS - 1)
        /\ \A t \in init : /\ Pending(ScreenOf(t), prog[t], alone[t], t)
                           /\ Lined(ScreenOf(t), prog[t], TypedIn(t), EnterIn(t), t)
        /\ prog[term_cur].pc \in {"idle", "read"} => cursor = Index(screen_x, screen_y)
        /\ enter_pressed = 1 => prog[term_cur].pc = "read"

\* The inductive invariant.
ScreenInv == Typed /\ Tables /\ Untouched /\ Placement /\ Prompted
-----------------------------------------------------------------------------
(***************************************************************************)
(* Rows, columns and frames.                                               *)
(***************************************************************************)
\* A row's cells are numbered one after the other, and the next row follows;
\* the rows' cells are the cells of the screen.
LEMMA Rows ==
    /\ \A x, y \in Int : Index(x, y) \in Int /\ Index(x, y) = Index(0, y) + x
    /\ \A y \in Int : Index(0, y + 1) = Index(0, y) + NUM_COLS
    /\ Index(0, 0) = 0
    /\ Cells = 0..(Index(0, NUM_ROWS - 1) + NUM_COLS - 1)
  <1>1. \A x, y \in Int : Index(x, y) \in Int /\ Index(x, y) = Index(0, y) + x
    BY ScreenAssumption DEF Index
  <1>2. \A y \in Int : Index(0, y + 1) = Index(0, y) + NUM_COLS
    BY ScreenAssumption DEF Index
  <1>3. NUM_ROWS * NUM_COLS = Index(0, NUM_ROWS)
    BY ScreenAssumption DEF Index
  <1>4. Index(0, NUM_ROWS) = Index(0, NUM_ROWS - 1) + NUM_COLS
    BY <1>2, ScreenAssumption, (NUM_ROWS - 1) + 1 = NUM_ROWS
  <1> QED
    BY <1>1, <1>2, <1>3, <1>4, ScreenAssumption DEF Index, Cells

\* A lower row begins later.
LEMMA RowOrder ==
    ASSUME NEW y \in Nat, NEW z \in Nat, y <= z
    PROVE  Index(0, y) <= Index(0, z) /\ Index(0, y) >= 0
  <1>1. PICK d \in Nat : z = y + d
    BY z - y \in Nat, z = y + (z - y)
  <1>2. NUM_COLS * z = NUM_COLS * y + NUM_COLS * d
    BY <1>1, ScreenAssumption
  <1>3. NUM_COLS * d >= 0 /\ NUM_COLS * y >= 0
    BY ScreenAssumption
  <1>4. NUM_COLS * d \in Int /\ NUM_COLS * y \in Int /\ NUM_COLS * z \in Int
    BY ScreenAssumption
  <1>5. Index(0, y) = NUM_COLS * y /\ Index(0, z) = NUM_COLS * z
    BY <1>4 DEF Index
  <1> QED
    BY <1>2, <1>3, <1>4, <1>5

\* A position on the screen has a cell.
LEMMA OnScreenCell ==
    ASSUME NEW x \in 0..NUM_COLS - 1, NEW y \in 0..NUM_ROWS - 1
    PROVE  Index(x, y) \in Cells
  <1>1. NUM_COLS \in Nat /\ NUM_ROWS \in Nat /\ NUM_ROWS - 1 \in Nat
    BY ScreenAssumption
  <1>2. Index(0, y) <= Index(0, NUM_ROWS - 1) /\ Index(0, y) >= 0
    BY <1>1, RowOrder
  <1>3. Index(x, y) = Index(0, y) + x
    BY <1>1, Rows
  <1>4. Index(0, y) \in Int /\ Index(0, NUM_ROWS - 1) \in Int
    BY <1>1, Rows
  <1>5. Cells = 0..(Index(0, NUM_ROWS - 1) + NUM_COLS - 1)
    BY Rows
  <1>6. Index(x, y) \in Int /\ x >= 0 /\ x <= NUM_COLS - 1
    BY <1>1, <1>3, <1>4
  <1> QED
    BY <1>1, <1>2, <1>3, <1>4, <1>5, <1>6

\* The video memory and the terminals' frames are different frames.
LEMMA DistinctFrames ==
    /\ VIDEO \in Frames
    /\ \A t \in Terminals : TermFrame(t) \in Frames /\ TermFrame(t) # VIDEO
    /\ \A t, u \in Terminals : TermFrame(t) = TermFrame(u) => t = u
  BY DEF Frames, VIDEO, TermFrame

-----------------------------------------------------------------------------
(***************************************************************************)
(* The routines of lib.c keep a screen a screen.                           *)
(***************************************************************************)
\* The rows that screen_y is followed to.
LEMMA Bounds ==
    /\ NUM_COLS \in Nat /\ NUM_COLS > 1 /\ NUM_ROWS \in Nat /\ NUM_ROWS > 1
    /\ MAX_Y \in Nat /\ MAX_Y >= NUM_ROWS /\ KEY_BUFFER_SIZE \in Nat
    /\ Terminals \subseteq Int /\ 1 \in Terminals
  BY ScreenAssumption

\* A blank screen is a picture.
LEMMA BlankPicture == Blanks \in Picture
  BY DEF Blanks, Picture, Marks

\* A store leaves a picture.
LEMMA StorePicture ==
    ASSUME NEW cells \in Picture, NEW i, NEW mark \in Marks
    PROVE  StoreAt(cells, i, mark) \in Picture
  BY DEF StoreAt, Picture

\* So does every turn of scroll(), ...
LEMMA RowUpPicture ==
    ASSUME NEW cells \in Picture, NEW row \in 0..NUM_ROWS - 2
    PROVE  RowUp(cells, row) \in Picture
  <1>1. row + 1 \in Nat /\ NUM_ROWS - 1 \in Nat /\ row + 1 <= NUM_ROWS - 1 /\ row \in Nat
    BY Bounds
  <1>2. Index(0, row + 1) <= Index(0, NUM_ROWS - 1)
    BY <1>1, RowOrder
  <1>3. /\ Index(NUM_COLS - 1, row) = Index(0, row) + NUM_COLS - 1
        /\ Index(0, row + 1) = Index(0, row) + NUM_COLS
        /\ Index(0, row) \in Int /\ Index(0, NUM_ROWS - 1) \in Int
    <2>1. /\ row \in Int /\ NUM_COLS - 1 \in Int /\ NUM_ROWS - 1 \in Int /\ 0 \in Int
      BY <1>1, Bounds
    <2>2. Index(NUM_COLS - 1, row) = Index(0, row) + (NUM_COLS - 1)
      BY ONLY <2>1, Rows
    <2>3. /\ Index(0, row + 1) = Index(0, row) + NUM_COLS
          /\ Index(0, row) \in Int /\ Index(0, NUM_ROWS - 1) \in Int
      BY ONLY <2>1, Rows
    <2> QED
      BY <2>2, <2>3, Bounds
  <1>4. ASSUME NEW i \in Cells, i \in Index(0, row)..Index(NUM_COLS - 1, row)
        PROVE  i + NUM_COLS \in Cells
    <2>1. Cells = 0..(Index(0, NUM_ROWS - 1) + NUM_COLS - 1)
      BY Rows
    <2> QED
      BY <2>1, <1>2, <1>3, <1>4, Bounds
  <1> QED
    BY <1>4 DEF RowUp, Picture

\* ... its last turn, ...
LEMMA LastRowPicture ==
    ASSUME NEW cells \in Picture
    PROVE  LastRowBlank(cells) \in Picture
  BY DEF LastRowBlank, Picture, Marks

\* ... and all of it.
LEMMA ScrolledPicture ==
    ASSUME NEW cells \in Picture
    PROVE  Scrolled(cells) \in Picture
  <1>1. Index(0, NUM_ROWS - 1) \in Int
    BY Bounds, Rows
  <1>2. ASSUME NEW i \in Cells, i < Index(0, NUM_ROWS - 1)
        PROVE  i + NUM_COLS \in Cells
    BY <1>1, <1>2, Rows, Bounds
  <1> QED
    BY <1>2 DEF Scrolled, Picture, Marks

\* A turn of scroll() does what is left of it up to what is left after it.
LEMMA ScrollTurn ==
    ASSUME NEW cells \in Picture, NEW row \in 0..NUM_ROWS - 2
    PROVE  ScrollRest(RowUp(cells, row), row + 1) = ScrollRest(cells, row)
  <1>1. row + 1 \in Nat /\ NUM_ROWS - 1 \in Nat /\ row + 1 <= NUM_ROWS - 1 /\ row \in Nat
    BY Bounds
  <1>2. Index(0, row + 1) <= Index(0, NUM_ROWS - 1)
    BY <1>1, RowOrder
  <1>3. /\ Index(NUM_COLS - 1, row) = Index(0, row) + NUM_COLS - 1
        /\ Index(0, row + 1) = Index(0, row) + NUM_COLS
        /\ Index(0, row) \in Int /\ Index(0, NUM_ROWS - 1) \in Int
    <2>1. /\ row \in Int /\ NUM_COLS - 1 \in Int /\ NUM_ROWS - 1 \in Int /\ 0 \in Int
      BY <1>1, Bounds
    <2>2. Index(NUM_COLS - 1, row) = Index(0, row) + (NUM_COLS - 1)
      BY ONLY <2>1, Rows
    <2>3. /\ Index(0, row + 1) = Index(0, row) + NUM_COLS
          /\ Index(0, row) \in Int /\ Index(0, NUM_ROWS - 1) \in Int
      BY ONLY <2>1, Rows
    <2> QED
      BY <2>2, <2>3, Bounds
  <1> DEFINE up == RowUp(cells, row)
             Rest1(i) == IF i < Index(0, row + 1) THEN up[i]
                         ELSE IF i < Index(0, NUM_ROWS - 1) THEN up[i + NUM_COLS] ELSE BLANK
             Rest0(i) == IF i < Index(0, row) THEN cells[i]
                         ELSE IF i < Index(0, NUM_ROWS - 1) THEN cells[i + NUM_COLS] ELSE BLANK
  <1>4. \A i \in Cells : up[i] = IF i \in Index(0, row)..Index(NUM_COLS - 1, row)
                                 THEN cells[i + NUM_COLS] ELSE cells[i]
    BY DEF RowUp
  <1> HIDE DEF up
  <1>5. ASSUME NEW i \in Cells
        PROVE  Rest1(i) = Rest0(i)
    <2>0. i \in Int
      BY DEF Cells
    <2>1. CASE i < Index(0, row)
      BY <2>0, <2>1, <1>2, <1>3, <1>4, Bounds
    <2>2. CASE i >= Index(0, row) /\ i < Index(0, row + 1)
      BY <2>0, <2>2, <1>2, <1>3, <1>4, Bounds
    <2>3. CASE i >= Index(0, row + 1) /\ i < Index(0, NUM_ROWS - 1)
      <3>1. i + NUM_COLS \in Cells
        BY <2>0, <2>3, <1>3, Rows, Bounds
      <3>2. i + NUM_COLS \notin Index(0, row)..Index(NUM_COLS - 1, row)
        BY <2>0, <2>3, <1>3, Bounds
      <3>3. up[i + NUM_COLS] = cells[i + NUM_COLS]
        BY <3>1, <3>2, <1>4
      <3> QED
        BY <2>0, <2>3, <3>3, <1>2, <1>3, Bounds
    <2>4. CASE i >= Index(0, NUM_ROWS - 1)
      BY <2>0, <2>4, <1>2, <1>3, Bounds
    <2> QED
      BY <2>0, <2>1, <2>2, <2>3, <2>4, <1>3, Bounds
  <1>6. /\ ScrollRest(up, row + 1) = [i \in Cells |-> Rest1(i)]
        /\ ScrollRest(cells, row) = [i \in Cells |-> Rest0(i)]
    BY DEF ScrollRest
  <1>7. ScrollRest(up, row + 1) = ScrollRest(cells, row)
    BY <1>5, <1>6
  <1> QED
    BY <1>7 DEF up

\* All of scroll() is left at its first row, and clearing the last at its last.
LEMMA ScrollEnds ==
    ASSUME NEW cells \in Picture
    PROVE  /\ ScrollRest(cells, 0) = Scrolled(cells)
           /\ ScrollRest(cells, NUM_ROWS - 1) = LastRowBlank(cells)
  <1>1. Index(0, NUM_ROWS - 1) \in Int /\ Index(0, 0) = 0 /\ \A i \in Cells : i \in Int /\ i >= 0
    BY Bounds, Rows
  <1>2. ASSUME NEW i \in Cells
        PROVE  /\ ~(i < Index(0, 0))
               /\ i >= Index(0, NUM_ROWS - 1) <=> ~(i < Index(0, NUM_ROWS - 1))
    BY <1>1
  <1> QED
    BY <1>2 DEF ScrollRest, Scrolled, LastRowBlank

\* A screen is its cells and its position.
LEMMA ShotParts ==
    ASSUME NEW X, NEW Y, NEW s \in Shots(X, Y)
    PROVE  /\ s = [cells |-> s.cells, x |-> s.x, y |-> s.y]
           /\ s.cells \in Picture /\ s.x \in 0..X /\ s.y \in 0..Y
  BY DEF Shots

\* do_enter() does not look at the column.
LEMMA EnterParts ==
    ASSUME NEW c \in Picture, NEW x \in Int, NEW y \in Int
    PROVE  DoEnter([cells |-> c, x |-> x, y |-> y]) =
               IF y = NUM_ROWS - 1 THEN [cells |-> Scrolled(c), x |-> 0, y |-> NUM_ROWS - 1]
               ELSE [cells |-> c, x |-> 0, y |-> Below(y)]
  <1> DEFINE s == [cells |-> c, x |-> x, y |-> y]
  <1>1. s.y = y /\ s.cells = c
    OBVIOUS
  <1>2. [s EXCEPT !.x = 0, !.y = Below(y)] = [cells |-> c, x |-> 0, y |-> Below(y)]
    <2> DEFINE b == Below(y)
               home == [s EXCEPT !.x = 0]
    <2>0. s = [cells |-> c, x |-> x, y |-> y]
      OBVIOUS
    <2> HIDE DEF b, s
    <2>1. home = [cells |-> c, x |-> 0, y |-> y]
      BY <2>0
    <2>2. [s EXCEPT !.x = 0, !.y = b] = [home EXCEPT !.y = b]
      OBVIOUS
    <2> HIDE DEF home
    <2>3. [home EXCEPT !.y = b] = [cells |-> c, x |-> 0, y |-> b]
      BY <2>1
    <2> QED
      BY <2>2, <2>3 DEF b
  <1> HIDE DEF s
  <1>3. DoEnter(s) = IF y = NUM_ROWS - 1 THEN [cells |-> Scrolled(c), x |-> 0, y |-> NUM_ROWS - 1]
                     ELSE [cells |-> c, x |-> 0, y |-> Below(y)]
    BY <1>1, <1>2 DEF DoEnter
  <1> QED
    BY <1>3 DEF s

\* do_enter() returns to the first column, a row further or after a scroll.
LEMMA EnterShot ==
    ASSUME NEW Y \in {NUM_ROWS - 1, MAX_Y}, NEW s \in Shots(NUM_COLS, Y)
    PROVE  DoEnter(s) \in Shots(NUM_COLS - 1, Y) /\ DoEnter(s).x = 0
  <1>1. s.cells \in Picture /\ s.x \in 0..NUM_COLS /\ s.y \in 0..Y
    BY ShotParts
  <1>2. Scrolled(s.cells) \in Picture
    BY <1>1, ScrolledPicture
  <1>3. s = [cells |-> s.cells, x |-> s.x, y |-> s.y]
    BY ShotParts
  <1>4. NUM_ROWS - 1 \in 0..Y /\ 0 \in 0..NUM_COLS - 1 /\ Y \in Nat
    BY Bounds
  <1>5. CASE s.y = NUM_ROWS - 1
    BY <1>2, <1>4, <1>5 DEF DoEnter, Shots
  <1>6. CASE s.y # NUM_ROWS - 1
    <2>1. Below(s.y) \in 0..Y
      BY <1>1, <1>6, Bounds DEF Below
    <2>2. DoEnter(s) = [cells |-> s.cells, x |-> 0, y |-> Below(s.y)]
      BY <1>3, <1>6 DEF DoEnter
    <2> QED
      BY <1>1, <1>4, <2>1, <2>2 DEF Shots
  <1> QED
    BY <1>5, <1>6

\* putc() leaves the column left of the margin.
LEMMA PutcShot ==
    ASSUME NEW Y \in {NUM_ROWS - 1, MAX_Y}, NEW s \in Shots(NUM_COLS, Y),
           NEW c, NEW mark \in Marks
    PROVE  Putc(s, c, mark) \in Shots(NUM_COLS - 1, Y)
  <1> DEFINE after == [s EXCEPT !.cells = StoreAt(@, Index(s.x, s.y), mark), !.x = @ + 1]
  <1>1. /\ s.cells \in Picture /\ s.x \in 0..NUM_COLS /\ s.y \in 0..Y
        /\ s = [cells |-> s.cells, x |-> s.x, y |-> s.y]
    BY ShotParts
  <1>2. after = [cells |-> StoreAt(s.cells, Index(s.x, s.y), mark), x |-> s.x + 1, y |-> s.y]
    <2> DEFINE stored == StoreAt(s.cells, Index(s.x, s.y), mark)
    <2>1. after = [s EXCEPT !.cells = stored, !.x = s.x + 1]
      OBVIOUS
    <2> HIDE DEF after, stored
    <2>2. after = [cells |-> stored, x |-> s.x + 1, y |-> s.y]
      BY <1>1, <2>1
    <2> QED
      BY <2>2 DEF stored
  <1>3. StoreAt(s.cells, Index(s.x, s.y), mark) \in Picture
    BY <1>1, StorePicture
  <1>4. Putc(s, c, mark) = IF c = NEWLINE \/ after.x >= NUM_COLS
                           THEN DoEnter(IF c = NEWLINE THEN s ELSE after) ELSE after
    BY DEF Putc
  <1>5. after.cells \in Picture /\ after.x = s.x + 1 /\ after.y \in 0..Y
    BY <1>1, <1>2, <1>3
  <1>6. CASE c = NEWLINE
    BY <1>4, <1>6, EnterShot
  <1>7. CASE c # NEWLINE /\ after.x < NUM_COLS
    <2>1. after \in Shots(NUM_COLS - 1, Y)
      BY <1>1, <1>2, <1>3, <1>5, <1>7, Bounds DEF Shots
    <2> HIDE DEF after
    <2> QED
      BY <1>1, <1>4, <1>5, <1>7, <2>1, Bounds
  <1>8. CASE c # NEWLINE /\ after.x >= NUM_COLS
    <2> DEFINE shot == [cells |-> after.cells, x |-> 0, y |-> after.y]
    <2>1. shot \in Shots(NUM_COLS, Y)
      BY <1>5, Bounds DEF Shots
    <2>2. DoEnter(after) = DoEnter(shot)
      <3>1. after = [cells |-> after.cells, x |-> after.x, y |-> after.y]
        BY <1>2
      <3> HIDE DEF after
      <3> QED
        <4> DEFINE c0 == after.cells
                   x0 == after.x
                   y0 == after.y
        <4>0. c0 \in Picture /\ x0 \in Int /\ y0 \in Int /\ 0 \in Int
          BY <1>1, <1>5, Bounds
        <4>1. /\ after = [cells |-> c0, x |-> x0, y |-> y0]
              /\ shot = [cells |-> c0, x |-> 0, y |-> y0]
          BY <3>1
        <4> HIDE DEF c0, x0, y0, shot
        <4>2. DoEnter([cells |-> c0, x |-> x0, y |-> y0])
                = DoEnter([cells |-> c0, x |-> 0, y |-> y0])
          BY <4>0, EnterParts
        <4> QED
          BY <4>1, <4>2
    <2>3. DoEnter(shot) \in Shots(NUM_COLS - 1, Y)
      <3> HIDE DEF shot
      <3> QED
        BY <2>1, EnterShot
    <2> HIDE DEF after, shot
    <2> QED
      BY <1>4, <1>8, <2>2, <2>3
  <1> QED
    BY <1>1, <1>5, <1>6, <1>7, <1>8, Bounds

\* Fewer columns, or rows, are a part of more.
LEMMA ShotWiden ==
    /\ \A Y : Shots(NUM_COLS - 1, Y) \subseteq Shots(NUM_COLS, Y)
    /\ \A X : Shots(X, NUM_ROWS - 1) \subseteq Shots(X, MAX_Y)
  <1>1. 0..NUM_COLS - 1 \subseteq 0..NUM_COLS /\ 0..NUM_ROWS - 1 \subseteq 0..MAX_Y
    BY Bounds
  <1> QED
    BY <1>1 DEF Shots

\* printf() leaves a screen, left of the margin if it was there before.
LEMMA PutAllShot ==
    ASSUME NEW X \in {NUM_COLS - 1, NUM_COLS}, NEW Y \in {NUM_ROWS - 1, MAX_Y},
           NEW s \in Shots(X, Y), NEW text \in Seq({NEWLINE, Printable}), NEW mark \in Marks
    PROVE  PutAll(s, text, mark) \in Shots(X, Y)
  <1> DEFINE V == Shots(X, Y)
             N == Len(text)
             pred == [n \in Nat |-> n - 1]
             step == [n \in Nat |-> [v \in V |-> Putc(v, text[n], mark)]]
             base == [n \in Nat |-> s]
             Is(f) == f = [n \in 0..N |-> IF n = 0 THEN s ELSE Putc(f[n - 1], text[n], mark)]
             put == CHOOSE f : Is(f)
  <1>1. N \in Nat
    OBVIOUS
  <1>2. \A n : \A v \in V : Putc(v, text[n], mark) \in V
    <2> SUFFICES ASSUME NEW n, NEW v \in V
                 PROVE  Putc(v, text[n], mark) \in V
      OBVIOUS
    <2>1. v \in Shots(NUM_COLS, Y)
      BY ShotWiden
    <2>2. Putc(v, text[n], mark) \in Shots(NUM_COLS - 1, Y)
      BY <2>1, PutcShot
    <2> QED
      BY <2>2, ShotWiden
  <1>3. step \in [Nat -> [V -> V]] /\ base \in [Nat -> V]
    BY <1>2
  <1>4. PICK h \in [Nat -> V] : Computes(h, Nat, pred, step, base)
    <2> HIDE DEF V, step, base, pred
    <2> QED
      BY <1>3, RecursiveFunction
  <1> DEFINE g == [n \in 0..N |-> h[n]]
  <1>5. ASSUME NEW n \in 0..N
        PROVE  h[n] = IF n = 0 THEN s ELSE Putc(h[n - 1], text[n], mark)
    <2>0. n \in Nat /\ (n # 0 => n - 1 \in Nat)
      BY <1>1
    <2>1. h[n] = IF pred[n] \in 0..(n - 1) THEN step[n][h[pred[n]]] ELSE base[n]
      BY <1>4, <2>0 DEF Computes
    <2>2. CASE n = 0
      BY <2>1, <2>2
    <2>3. CASE n # 0
      <3>1. pred[n] = n - 1 /\ n - 1 \in 0..(n - 1) /\ h[n - 1] \in V
        BY <2>0, <2>3, <1>4
      <3> HIDE DEF pred
      <3>2. h[n] = step[n][h[n - 1]]
        BY <2>1, <3>1
      <3> QED
        BY <3>1, <3>2, <2>0, <2>3
    <2> QED
      BY <2>2, <2>3
  <1>6. Is(g)
    <2>1. ASSUME NEW n \in 0..N
          PROVE  g[n] = IF n = 0 THEN s ELSE Putc(g[n - 1], text[n], mark)
      <3>1. n # 0 => n - 1 \in 0..N
        BY <1>1
      <3>2. g[n] = h[n] /\ (n # 0 => g[n - 1] = h[n - 1])
        BY <3>1
      <3> HIDE DEF g
      <3> QED
        BY <3>2, <1>5
    <2> QED
      BY <2>1
  <1>7. Is(put)
    <2> HIDE DEF g, Is
    <2> QED
      BY <1>6
  <1>8. \A n \in 0..N : put[n] = IF n = 0 THEN s ELSE Putc(put[n - 1], text[n], mark)
    <2> HIDE DEF put
    <2> QED
      BY <1>7
  <1>9. \A n \in Nat : n \in 0..N => put[n] \in V
    <2> DEFINE S == {n \in Nat : n \in 0..N => put[n] \in V}
    <2> HIDE DEF put
    <2>1. 0 \in S
      BY <1>1, <1>8
    <2>2. ASSUME NEW n \in Nat, n \in S
          PROVE  n + 1 \in S
      <3>1. CASE n + 1 \in 0..N
        <4>1. n \in 0..N /\ n + 1 # 0 /\ (n + 1) - 1 = n
          BY <3>1, <1>1
        <4>2. put[n + 1] = Putc(put[n], text[n + 1], mark)
          BY <3>1, <4>1, <1>8
        <4>3. put[n] \in V
          BY <4>1, <2>2
        <4>4. put[n + 1] \in V
          <5> HIDE DEF V
          <5> QED
            BY <4>2, <4>3, <1>2
        <4> QED
          BY <4>4
      <3>2. CASE n + 1 \notin 0..N
        BY <3>2
      <3> QED
        BY <3>1, <3>2
    <2>3. Nat \subseteq S
      <3> HIDE DEF S
      <3> QED
        BY <2>1, <2>2, SetInduction
    <2> QED
      BY <2>3
  <1>10. PutAll(s, text, mark) = put[Len(text)]
    BY DEF PutAll
  <1> HIDE DEF put
  <1> QED
    BY <1>1, <1>9, <1>10

\* do_backspace() anywhere but at the top left corner.
LEMMA BackspaceShot ==
    ASSUME NEW X \in {NUM_COLS - 1, NUM_COLS}, NEW Y \in {NUM_ROWS - 1, MAX_Y},
           NEW s \in Shots(X, Y), s.x > 0 \/ s.y > 0
    PROVE  DoBackspace(s) \in Shots(X, Y)
  <1> DEFINE before == IF s.x = 0 /\ s.y > 0 THEN [s EXCEPT !.x = NUM_COLS - 2, !.y = @ - 1]
                       ELSE [s EXCEPT !.x = @ - 1]
  <1>1. /\ s.cells \in Picture /\ s.x \in 0..X /\ s.y \in 0..Y
        /\ s = [cells |-> s.cells, x |-> s.x, y |-> s.y]
    BY ShotParts
  <1>2. before = [cells |-> s.cells, x |-> before.x, y |-> before.y]
    BY <1>1
  <1>3. before.x \in 0..X /\ before.y \in 0..Y
    BY <1>1, Bounds
  <1>4. BLANK \in Marks
    BY DEF Marks
  <1> HIDE DEF before
  <1>5. DoBackspace(s) = [before EXCEPT !.cells = StoreAt(@, Index(before.x, before.y), BLANK)]
    BY DEF DoBackspace, before
  <1>6. DoBackspace(s) = [cells |-> StoreAt(s.cells, Index(before.x, before.y), BLANK),
                          x |-> before.x, y |-> before.y]
    BY <1>2, <1>5
  <1> QED
    BY <1>1, <1>3, <1>4, <1>6, StorePicture DEF Shots

\* The empty screen, the banner on it and the screen that Ctrl+L leaves.
LEMMA OpeningShots ==
    ASSUME NEW mark \in Marks
    PROVE  /\ EmptyScreen \in Shots(NUM_COLS - 1, NUM_ROWS - 1)
           /\ PutAll(EmptyScreen, Banner, mark) \in Shots(NUM_COLS - 1, NUM_ROWS - 1)
           /\ Clear(mark) \in Shots(NUM_COLS - 1, NUM_ROWS - 1)
  <1>1. EmptyScreen \in Shots(NUM_COLS - 1, NUM_ROWS - 1)
    BY BlankPicture, Bounds DEF EmptyScreen, Shots
  <1>2. Banner \in Seq({NEWLINE, Printable}) /\ Prompt \in Seq({NEWLINE, Printable})
    BY ScreenAssumption
  <1> QED
    BY <1>1, <1>2, PutAllShot DEF Clear
-----------------------------------------------------------------------------
(***************************************************************************)
(* A step of the terminal in front.  s is its screen, p its program, a its *)
(* screen had it the machine to itself, n and e the length of the line and *)
(* enter_pressed, and c the display's cursor.                              *)
(***************************************************************************)
Promise(s, p, a, n, e, c) ==
    /\ a \in Shots(NUM_COLS - 1, NUM_ROWS - 1)
    /\ Pending(s, p, a, term_cur)
    /\ Lined(s, p, n, e, term_cur)
    /\ p.pc \in {"idle", "read"} => c = Index(s.x, s.y)
    /\ e = 1 => p.pc = "read"

Sound(s, p, a, n, e, c) ==
    /\ p \in [pc : Pcs, r : Int]
    /\ n \in 0..KEY_BUFFER_SIZE
    /\ e \in {0, 1}
    /\ Placed(s, p)
    /\ user = "prompted" => Promise(s, p, a, n, e, c)

Front(s, p, a) ==
    /\ mem' = [mem EXCEPT ![VIDEO] = s.cells]
    /\ screen_x' = s.x
    /\ screen_y' = s.y
    /\ prog' = [prog EXCEPT ![term_cur] = p]
    /\ alone' = [alone EXCEPT ![term_cur] = a]
    /\ UNCHANGED <<user, termVars>>

States == Typed /\ Untouched /\ Placement /\ Prompted

\* The terminal in front is as its program expects it.
LEMMA FrontSound ==
    States => /\ InFront \in Shots(NUM_COLS, MAX_Y)
              /\ InFront.cells = mem[VIDEO] /\ InFront.x = screen_x /\ InFront.y = screen_y
              /\ Sound(InFront, prog[term_cur], alone[term_cur],
                       key_buffer_pos, enter_pressed, cursor)
  <1> SUFFICES ASSUME States
               PROVE  /\ InFront \in Shots(NUM_COLS, MAX_Y)
                      /\ InFront.cells = mem[VIDEO] /\ InFront.x = screen_x /\ InFront.y = screen_y
                      /\ Sound(InFront, prog[term_cur], alone[term_cur],
                               key_buffer_pos, enter_pressed, cursor)
    OBVIOUS
  <1>1. term_cur \in init /\ term_cur \in Terminals
    BY DEF States, Typed
  <1>2. ScreenOf(term_cur) = InFront /\ TypedIn(term_cur) = key_buffer_pos
        /\ EnterIn(term_cur) = enter_pressed
    BY DEF ScreenOf, TypedIn, EnterIn
  <1>3. InFront.cells = mem[VIDEO] /\ InFront.x = screen_x /\ InFront.y = screen_y
    BY DEF InFront
  <1>4. Placed(InFront, prog[term_cur])
    BY <1>1, <1>2 DEF States, Placement
  <1>5. InFront \in Shots(NUM_COLS, MAX_Y)
    BY <1>4 DEF Placed
  <1>6. user = "prompted" => Promise(InFront, prog[term_cur], alone[term_cur],
                                     key_buffer_pos, enter_pressed, cursor)
    BY <1>1, <1>2, <1>3 DEF States, Prompted, Promise
  <1>7. /\ prog[term_cur] \in [pc : Pcs, r : Int]
        /\ key_buffer_pos \in 0..KEY_BUFFER_SIZE /\ enter_pressed \in {0, 1}
    BY <1>1 DEF States, Typed
  <1> QED
    BY <1>3, <1>4, <1>5, <1>6, <1>7 DEF Sound

\* A step of the terminal in front changes no other, and keeps what holds of all
\* when it leaves its own as its program expects it.
LEMMA FrontStep ==
    ASSUME States, NEW s, NEW p, NEW a, Front(s, p, a),
           Sound(s, p, a, key_buffer_pos', enter_pressed', cursor')
    PROVE  States'
  <1>1. /\ user \in Users /\ init \in SUBSET Terminals /\ term_cur \in init
        /\ mem \in [Frames -> Picture]
        /\ saved \in [Terminals -> [x : 0..NUM_COLS, y : 0..MAX_Y, pos : 0..KEY_BUFFER_SIZE]]
        /\ prog \in [Terminals -> [pc : Pcs, r : Int]]
        /\ alone = [t \in Terminals |-> alone[t]]
        /\ term_cur \in Terminals
    BY DEF States, Typed
  <1>2. /\ mem' = [mem EXCEPT ![VIDEO] = s.cells]
        /\ screen_x' = s.x
        /\ screen_y' = s.y
        /\ prog' = [prog EXCEPT ![term_cur] = p]
        /\ alone' = [alone EXCEPT ![term_cur] = a]
        /\ user' = user /\ term_cur' = term_cur /\ init' = init /\ saved' = saved
    BY DEF Front, termVars
  <1>3. /\ p \in [pc : Pcs, r : Int]
        /\ key_buffer_pos' \in 0..KEY_BUFFER_SIZE
        /\ enter_pressed' \in {0, 1}
        /\ Placed(s, p)
        /\ user = "prompted" => Promise(s, p, a, key_buffer_pos', enter_pressed', cursor')
    BY DEF Sound
  <1>4. /\ s \in Shots(NUM_COLS, MAX_Y)
        /\ s.cells \in Picture /\ s.x \in 0..NUM_COLS /\ s.y \in 0..MAX_Y
        /\ s = [cells |-> s.cells, x |-> s.x, y |-> s.y]
    <2>1. s \in Shots(NUM_COLS, MAX_Y)
      BY <1>3 DEF Placed
    <2> QED
      BY <2>1, ShotParts
  <1>5. /\ mem'[VIDEO] = s.cells
        /\ \A t \in Terminals : mem'[TermFrame(t)] = mem[TermFrame(t)]
        /\ mem' \in [Frames -> Picture]
    BY <1>1, <1>2, <1>4, DistinctFrames
  <1>6. /\ prog'[term_cur] = p /\ prog' \in [Terminals -> [pc : Pcs, r : Int]]
        /\ \A t \in Terminals : t # term_cur => prog'[t] = prog[t]
    BY <1>1, <1>2, <1>3
  <1>7. /\ alone'[term_cur] = a /\ alone' = [t \in Terminals |-> alone'[t]]
        /\ \A t \in Terminals : t # term_cur => alone'[t] = alone[t]
    BY <1>1, <1>2
  <1>8. /\ InFront' = s
        /\ \A t : t = term_cur => /\ ScreenOf(t)' = s /\ TypedIn(t)' = key_buffer_pos'
                                 /\ EnterIn(t)' = enter_pressed'
    BY <1>2, <1>4, <1>5 DEF InFront, ScreenOf, TypedIn, EnterIn
  <1>9. ASSUME NEW t \in init, t # term_cur
        PROVE  /\ ScreenOf(t)' = ScreenOf(t) /\ TypedIn(t)' = TypedIn(t)
               /\ EnterIn(t)' = EnterIn(t) /\ prog'[t] = prog[t] /\ alone'[t] = alone[t]
    BY <1>1, <1>2, <1>5, <1>6, <1>7, <1>9 DEF ScreenOf, TypedIn, EnterIn
  <1>10. Typed'
    BY <1>1, <1>2, <1>3, <1>4, <1>5, <1>6, <1>7 DEF Typed
  <1>11. Untouched'
    <2> SUFFICES ASSUME NEW t \in Terminals \ init
                 PROVE  /\ mem'[TermFrame(t)] = Blanks
                        /\ saved'[t] = [x |-> 0, y |-> 0, pos |-> 0]
                        /\ prog'[t] = Idle
                        /\ alone'[t] = EmptyScreen
      BY <1>2 DEF Untouched, Blanks, Idle, EmptyScreen
    <2>1. t # term_cur
      BY <1>1
    <2> QED
      BY <2>1, <1>2, <1>5, <1>6, <1>7 DEF States, Untouched
  <1>12. Placement'
    <2> SUFFICES ASSUME NEW t \in init
                 PROVE  Placed(ScreenOf(t)', prog'[t])
      BY <1>2 DEF Placement, Placed
    <2>1. CASE t = term_cur
      BY <2>1, <1>3, <1>6, <1>8
    <2>2. CASE t # term_cur
      BY <2>2, <1>9 DEF States, Placement
    <2> QED
      BY <2>1, <2>2
  <1>13. Prompted'
    <2> SUFFICES ASSUME user = "prompted"
                 PROVE  /\ \A t \in Terminals : alone'[t] \in Shots(NUM_COLS - 1, NUM_ROWS - 1)
                        /\ \A t \in init :
                              /\ Pending(ScreenOf(t)', prog'[t], alone'[t], t)
                              /\ Lined(ScreenOf(t)', prog'[t], TypedIn(t)', EnterIn(t)', t)
                        /\ prog'[term_cur].pc \in {"idle", "read"} =>
                              cursor' = Index(screen_x', screen_y')
                        /\ enter_pressed' = 1 => prog'[term_cur].pc = "read"
      BY <1>2 DEF Prompted, Pending, Lined
    <2>1. Promise(s, p, a, key_buffer_pos', enter_pressed', cursor')
      BY <1>3
    <2>2. ASSUME NEW t \in Terminals
          PROVE  alone'[t] \in Shots(NUM_COLS - 1, NUM_ROWS - 1)
      BY <2>1, <1>7 DEF Promise, States, Prompted
    <2>3. ASSUME NEW t \in init
          PROVE  /\ Pending(ScreenOf(t)', prog'[t], alone'[t], t)
                 /\ Lined(ScreenOf(t)', prog'[t], TypedIn(t)', EnterIn(t)', t)
      <3>1. CASE t = term_cur
        BY <3>1, <2>1, <1>6, <1>7, <1>8 DEF Promise
      <3>2. CASE t # term_cur
        BY <3>2, <1>9 DEF States, Prompted
      <3> QED
        BY <3>1, <3>2
    <2> QED
      BY <2>1, <2>2, <2>3, <1>2, <1>6 DEF Promise
  <1> QED
    BY <1>10, <1>11, <1>12, <1>13 DEF States
-----------------------------------------------------------------------------
(***************************************************************************)
(* What is left of a putc(), from one of its steps to the next.            *)
(***************************************************************************)
\* A new line is do_enter() at once.
LEMMA PutcNewline ==
    ASSUME NEW s, NEW mark
    PROVE  Putc(s, NEWLINE, mark) = DoEnter(s)
  BY DEF Putc

\* Any other character is a store and what follows it.
LEMMA PutcStore ==
    ASSUME NEW X, NEW Y, NEW s \in Shots(X, Y), NEW mark, NEW s2,
           s2 = [cells |-> StoreAt(s.cells, Index(s.x, s.y), mark), x |-> s.x, y |-> s.y]
    PROVE  Putc(s, Printable, mark) = Advance(s2)
  <1> DEFINE after == [s EXCEPT !.cells = StoreAt(@, Index(s.x, s.y), mark), !.x = @ + 1]
             stored == StoreAt(s.cells, Index(s.x, s.y), mark)
             next == [s2 EXCEPT !.x = @ + 1]
  <1>1. s = [cells |-> s.cells, x |-> s.x, y |-> s.y]
    BY ShotParts
  <1>2. Printable # NEWLINE
    BY DEF Printable, NEWLINE
  <1>3. after = [cells |-> stored, x |-> s.x + 1, y |-> s.y]
    <2>1. after = [s EXCEPT !.cells = stored, !.x = s.x + 1]
      OBVIOUS
    <2> HIDE DEF after, stored
    <2> QED
      BY <1>1, <2>1
  <1>4. next = [cells |-> stored, x |-> s.x + 1, y |-> s.y]
    <2>1. s2 = [cells |-> stored, x |-> s.x, y |-> s.y]
      OBVIOUS
    <2> HIDE DEF stored
    <2> QED
      BY <2>1
  <1>5. Putc(s, Printable, mark) = IF after.x >= NUM_COLS THEN DoEnter(after) ELSE after
    BY <1>2 DEF Putc
  <1>6. Advance(s2) = IF next.x >= NUM_COLS THEN DoEnter(next) ELSE next
    BY DEF Advance, Wrap
  <1>7. after = next
    <2> HIDE DEF after, next
    <2> QED
      BY <1>3, <1>4
  <1> HIDE DEF after, next
  <1> QED
    BY <1>5, <1>6, <1>7

\* The increment of screen_x is followed by the test of the margin.
LEMMA AdvanceWraps ==
    ASSUME NEW X, NEW Y, NEW s \in Shots(X, Y), NEW s2,
           s2 = [cells |-> s.cells, x |-> s.x + 1, y |-> s.y]
    PROVE  Advance(s) = Wrap(s2)
  <1> DEFINE next == [s EXCEPT !.x = @ + 1]
  <1>1. s = [cells |-> s.cells, x |-> s.x, y |-> s.y]
    BY ShotParts
  <1>2. next = s2
    BY <1>1
  <1>3. Advance(s) = Wrap(next)
    BY DEF Advance
  <1> HIDE DEF next
  <1> QED
    BY <1>2, <1>3

\* do_enter() by its cases.
LEMMA EnterCases ==
    ASSUME NEW Y \in Nat, NEW s \in Shots(NUM_COLS, Y)
    PROVE  /\ s.y = NUM_ROWS - 1 =>
                 DoEnter(s) = [cells |-> Scrolled(s.cells), x |-> 0, y |-> NUM_ROWS - 1]
           /\ s.y # NUM_ROWS - 1 =>
                 DoEnter(s) = [cells |-> s.cells, x |-> 0, y |-> Below(s.y)]
  <1>1. /\ s = [cells |-> s.cells, x |-> s.x, y |-> s.y]
        /\ s.cells \in Picture /\ s.x \in Int /\ s.y \in Int
    BY ShotParts, Bounds
  <1> DEFINE c0 == s.cells
             x0 == s.x
             y0 == s.y
  <1>2. s = [cells |-> c0, x |-> x0, y |-> y0] /\ c0 \in Picture /\ x0 \in Int /\ y0 \in Int
    BY <1>1
  <1> HIDE DEF c0, x0, y0
  <1>3. DoEnter(s) = IF y0 = NUM_ROWS - 1
                     THEN [cells |-> Scrolled(c0), x |-> 0, y |-> NUM_ROWS - 1]
                     ELSE [cells |-> c0, x |-> 0, y |-> Below(y0)]
    BY <1>2, EnterParts
  <1> QED
    BY <1>3 DEF c0, y0

\* The cell numbers that putc() computes.
LEMMA IndexRange ==
    ASSUME NEW y \in 0..MAX_Y
    PROVE  /\ Index(0, y) \in 0..Index(0, MAX_Y)
           /\ \A r \in 0..Index(0, MAX_Y), x \in 0..NUM_COLS - 1 :
                 r + x \in 0..Index(NUM_COLS - 1, MAX_Y)
           /\ \A x \in Int : Index(0, y) + x = Index(x, y)
  <1>1. y \in Nat /\ MAX_Y \in Nat /\ y <= MAX_Y /\ NUM_COLS - 1 \in Int /\ 0 \in Int
    BY Bounds
  <1>2. Index(0, y) <= Index(0, MAX_Y) /\ Index(0, y) >= 0
    BY <1>1, RowOrder
  <1>3. /\ Index(0, y) \in Int /\ Index(0, MAX_Y) \in Int
        /\ Index(NUM_COLS - 1, MAX_Y) = Index(0, MAX_Y) + (NUM_COLS - 1)
        /\ \A x \in Int : Index(0, y) + x = Index(x, y)
    <2>1. y \in Int /\ MAX_Y \in Int
      BY <1>1
    <2> QED
      BY ONLY <1>1, <2>1, Rows
  <1> QED
    BY <1>1, <1>2, <1>3, Bounds
-----------------------------------------------------------------------------
(***************************************************************************)
(* The steps of the program in front.                                      *)
(***************************************************************************)
\* A step that only computes keeps the state when the place it goes to expects
\* what the screen shows.
LEMMA ComputeStep ==
    ASSUME States, NEW pc, NEW next, NEW r, Compute(pc, next, r),
           Sound(InFront, [pc |-> next, r |-> r], alone[term_cur],
                 key_buffer_pos, enter_pressed, cursor)
    PROVE  States'
  <1> DEFINE p == [pc |-> next, r |-> r]
  <1>1. /\ prog' = [prog EXCEPT ![term_cur] = p]
        /\ mem' = mem /\ screen_x' = screen_x /\ screen_y' = screen_y /\ cursor' = cursor
        /\ alone' = alone /\ user' = user /\ UNCHANGED termVars
        /\ key_buffer_pos' = key_buffer_pos /\ enter_pressed' = enter_pressed
    BY DEF Compute, Goto, Rest, posVars, lineVars
  <1>2. /\ term_cur \in Terminals /\ mem \in [Frames -> Picture]
        /\ alone = [t \in Terminals |-> alone[t]]
    BY DEF States, Typed
  <1>3. /\ mem' = [mem EXCEPT ![VIDEO] = InFront.cells]
        /\ alone' = [alone EXCEPT ![term_cur] = alone[term_cur]]
    BY <1>1, <1>2, FrontSound, DistinctFrames
  <1>4. Front(InFront, p, alone[term_cur])
    BY <1>1, <1>3, FrontSound DEF Front
  <1>5. Sound(InFront, p, alone[term_cur], key_buffer_pos', enter_pressed', cursor')
    BY <1>1
  <1> HIDE DEF p
  <1> QED
    BY <1>4, <1>5, FrontStep

\* What the steps of a program look at.
LEMMA FrontParts ==
    States => /\ screen_x \in 0..NUM_COLS /\ screen_y \in 0..MAX_Y
              /\ mem[VIDEO] \in Picture /\ term_cur \in Marks /\ term_cur \in Terminals
              /\ prog[term_cur] \in [pc : Pcs, r : Int]
              /\ InFront = [cells |-> mem[VIDEO], x |-> screen_x, y |-> screen_y]
  BY DistinctFrames DEF States, Typed, InFront, Marks

\* putc() computes the row, ...
LEMMA LoadRowStep == States /\ LoadRow => States'
  <1> SUFFICES ASSUME States, LoadRow
               PROVE  States'
    OBVIOUS
  <1> DEFINE q == [pc |-> "column", r |-> Index(0, screen_y)]
  <1>1. prog[term_cur].pc = "row"
    BY DEF LoadRow, Compute, At
  <1>2. Index(0, screen_y) \in 0..Index(0, MAX_Y)
    BY FrontParts, IndexRange
  <1>3. Index(0, screen_y) \in Int
    BY FrontParts, Bounds, Rows
  <1>4. q \in [pc : Pcs, r : Int] /\ q.pc = "column" /\ q.r = Index(0, screen_y)
    BY <1>3 DEF Pcs
  <1> HIDE DEF q
  <1>5. Placed(InFront, q)
    BY <1>1, <1>2, <1>4, FrontSound DEF Sound, Placed, Margins
  <1>6. user = "prompted" => Promise(InFront, q, alone[term_cur],
                                     key_buffer_pos, enter_pressed, cursor)
    BY <1>1, <1>4, FrontSound DEF Sound, Promise, Pending, Lined
  <1>7. Sound(InFront, q, alone[term_cur], key_buffer_pos, enter_pressed, cursor)
    BY <1>4, <1>5, <1>6, FrontSound DEF Sound
  <1> QED
    BY <1>7, ComputeStep DEF LoadRow, q

\* ... adds the column, ...
LEMMA LoadColumnStep == States /\ LoadColumn => States'
  <1> SUFFICES ASSUME States, LoadColumn
               PROVE  States'
    OBVIOUS
  <1> DEFINE q == [pc |-> "store", r |-> Register + screen_x]
  <1>1. prog[term_cur].pc = "column"
    BY DEF LoadColumn, Compute, At
  <1>2. Register \in 0..Index(0, MAX_Y) /\ screen_x \in 0..NUM_COLS - 1
    BY <1>1, FrontSound, FrontParts, Bounds DEF Sound, Placed, Margins, Register
  <1>3. Register + screen_x \in 0..Index(NUM_COLS - 1, MAX_Y)
    BY <1>2, FrontParts, IndexRange
  <1>4. q \in [pc : Pcs, r : Int] /\ q.pc = "store" /\ q.r = Register + screen_x
    BY <1>3 DEF Pcs
  <1>5. Register = Index(0, screen_y) => Register + screen_x = Index(screen_x, screen_y)
    BY <1>2, FrontParts, IndexRange
  <1> HIDE DEF q
  <1>6. Placed(InFront, q)
    BY <1>1, <1>3, <1>4, FrontSound DEF Sound, Placed, Margins
  <1>7. user = "prompted" => Promise(InFront, q, alone[term_cur],
                                     key_buffer_pos, enter_pressed, cursor)
    BY <1>1, <1>4, <1>5, FrontSound DEF Sound, Promise, Pending, Lined, Register
  <1>8. Sound(InFront, q, alone[term_cur], key_buffer_pos, enter_pressed, cursor)
    BY <1>4, <1>6, <1>7, FrontSound DEF Sound
  <1> QED
    BY <1>8, ComputeStep DEF LoadColumn, q

\* ... reads screen_x for its increment ...
LEMMA LoadXStep == States /\ LoadX => States'
  <1> SUFFICES ASSUME States, LoadX
               PROVE  States'
    OBVIOUS
  <1> DEFINE q == [pc |-> "x++", r |-> screen_x]
  <1>1. prog[term_cur].pc = "x"
    BY DEF LoadX, Compute, At
  <1>2. screen_x \in 0..NUM_COLS - 1
    BY <1>1, FrontSound, FrontParts, Bounds DEF Sound, Placed, Margins
  <1>3. q \in [pc : Pcs, r : Int] /\ q.pc = "x++" /\ q.r = screen_x
    BY <1>2, Bounds DEF Pcs
  <1> HIDE DEF q
  <1>4. Placed(InFront, q)
    BY <1>1, <1>2, <1>3, FrontSound DEF Sound, Placed, Margins
  <1>5. user = "prompted" => Promise(InFront, q, alone[term_cur],
                                     key_buffer_pos, enter_pressed, cursor)
    BY <1>1, <1>3, FrontSound DEF Sound, Promise, Pending, Lined
  <1>6. Sound(InFront, q, alone[term_cur], key_buffer_pos, enter_pressed, cursor)
    BY <1>3, <1>4, <1>5, FrontSound DEF Sound
  <1> QED
    BY <1>6, ComputeStep DEF LoadX, q

\* ... and tests the margin.
LEMMA TestMarginStep == States /\ TestMargin => States'
  <1> SUFFICES ASSUME States, TestMargin
               PROVE  States'
    OBVIOUS
  <1> DEFINE next == IF AtMargin THEN "enter" ELSE "cursor"
             q == [pc |-> next, r |-> 0]
  <1>1. prog[term_cur].pc = "margin"
    BY DEF TestMargin, Compute, At
  <1>2. screen_x \in Int
    BY FrontParts, Bounds
  <1>3. /\ next \in Pcs
        /\ screen_x >= NUM_COLS => next = "enter"
        /\ ~(screen_x >= NUM_COLS) => next = "cursor"
    BY DEF AtMargin, Pcs, Margins
  <1>4. q \in [pc : Pcs, r : Int] /\ q.pc = next /\ q.r = 0
    BY <1>3
  <1> HIDE DEF q, next
  <1>5. Placed(InFront, q)
    BY <1>1, <1>2, <1>3, <1>4, FrontSound, Bounds DEF Sound, Placed, Margins
  <1>6. user = "prompted" => Promise(InFront, q, alone[term_cur],
                                     key_buffer_pos, enter_pressed, cursor)
    BY <1>1, <1>3, <1>4, FrontSound DEF Sound, Promise, Pending, Lined, Wrap
  <1>7. Sound(InFront, q, alone[term_cur], key_buffer_pos, enter_pressed, cursor)
    BY <1>4, <1>5, <1>6, FrontSound DEF Sound
  <1> QED
    BY <1>7, ComputeStep DEF TestMargin, q, next

\* do_enter() tests for the last row, where scroll() is left, ...
LEMMA TestBottomStep == States /\ TestBottom => States'
  <1> SUFFICES ASSUME States, TestBottom
               PROVE  States'
    OBVIOUS
  <1> DEFINE next == IF screen_y = NUM_ROWS - 1 THEN "scroll" ELSE "y"
             q == [pc |-> next, r |-> 0]
  <1>1. prog[term_cur].pc = "enter"
    BY DEF TestBottom, Compute, At
  <1>2. /\ next \in Pcs
        /\ screen_y = NUM_ROWS - 1 => next = "scroll"
        /\ screen_y # NUM_ROWS - 1 => next = "y"
    BY DEF Pcs, Margins
  <1>3. q \in [pc : Pcs, r : Int] /\ q.pc = next /\ q.r = 0
    BY <1>2
  <1>4. screen_y = NUM_ROWS - 1 =>
          DoEnter(InFront) = [cells |-> ScrollRest(InFront.cells, 0), x |-> 0, y |-> NUM_ROWS - 1]
    BY FrontSound, FrontParts, EnterCases, ScrollEnds, Bounds
  <1> HIDE DEF q, next
  <1>5. Placed(InFront, q)
    BY <1>1, <1>2, <1>3, FrontSound, Bounds DEF Sound, Placed, Margins
  <1>6. user = "prompted" => Promise(InFront, q, alone[term_cur],
                                     key_buffer_pos, enter_pressed, cursor)
    BY <1>1, <1>2, <1>3, <1>4, FrontSound DEF Sound, Promise, Pending, Lined
  <1>7. Sound(InFront, q, alone[term_cur], key_buffer_pos, enter_pressed, cursor)
    BY <1>3, <1>5, <1>6, FrontSound DEF Sound
  <1> QED
    BY <1>7, ComputeStep DEF TestBottom, q, next

\* ... and elsewhere reads screen_y for its increment.
LEMMA LoadYStep == States /\ LoadY => States'
  <1> SUFFICES ASSUME States, LoadY
               PROVE  States'
    OBVIOUS
  <1> DEFINE q == [pc |-> "y++", r |-> screen_y]
  <1>1. prog[term_cur].pc = "y"
    BY DEF LoadY, Compute, At
  <1>2. screen_y \in 0..MAX_Y /\ screen_y \in Int
    BY FrontParts, Bounds
  <1>3. q \in [pc : Pcs, r : Int] /\ q.pc = "y++" /\ q.r = screen_y
    BY <1>2 DEF Pcs, Margins
  <1> HIDE DEF q
  <1>4. Placed(InFront, q)
    BY <1>1, <1>2, <1>3, FrontSound DEF Sound, Placed, Margins
  <1>5. user = "prompted" => Promise(InFront, q, alone[term_cur],
                                     key_buffer_pos, enter_pressed, cursor)
    BY <1>1, <1>3, FrontSound DEF Sound, Promise, Pending, Lined
  <1>6. Sound(InFront, q, alone[term_cur], key_buffer_pos, enter_pressed, cursor)
    BY <1>3, <1>4, <1>5, FrontSound DEF Sound
  <1> QED
    BY <1>6, ComputeStep DEF LoadY, q

\* terminal_read() begins with an empty line.
LEMMA StartReadStep == States /\ StartRead => States'
  <1> SUFFICES ASSUME States, StartRead
               PROVE  States'
    OBVIOUS
  <1> DEFINE q == [pc |-> "read", r |-> 0]
  <1>1. prog[term_cur].pc = "idle"
    BY DEF StartRead, Compute, At
  <1>2. q \in [pc : Pcs, r : Int] /\ q.pc = "read" /\ q.r = 0
    BY DEF Pcs
  <1> HIDE DEF q
  <1>3. Placed(InFront, q)
    BY <1>1, <1>2, FrontSound DEF Sound, Placed, Margins
  <1>4. user = "prompted" => Promise(InFront, q, alone[term_cur],
                                     key_buffer_pos, enter_pressed, cursor)
    <2> SUFFICES ASSUME user = "prompted"
                 PROVE  Promise(InFront, q, alone[term_cur],
                                key_buffer_pos, enter_pressed, cursor)
      OBVIOUS
    <2>1. key_buffer_pos = 0 /\ InFront.x >= 0
      BY <1>1, FrontSound, FrontParts, Bounds DEF Sound, Promise, Lined
    <2>2. Lined(InFront, q, key_buffer_pos, enter_pressed, term_cur)
      BY <1>2, <2>1 DEF Lined
    <2> QED
      BY <1>1, <1>2, <2>2, FrontSound DEF Sound, Promise, Pending
  <1>5. Sound(InFront, q, alone[term_cur], key_buffer_pos, enter_pressed, cursor)
    BY <1>2, <1>3, <1>4, FrontSound DEF Sound
  <1> QED
    BY <1>5, ComputeStep DEF StartRead, q

\* A program's step that stores: what it leaves of the screen and where it goes.
LEMMA StoreStep ==
    ASSUME States, NEW s, NEW p, NEW a, UNCHANGED <<user, termVars, lineVars>>,
           mem' = [mem EXCEPT ![VIDEO] = s.cells], screen_x' = s.x, screen_y' = s.y,
           prog' = [prog EXCEPT ![term_cur] = p], alone' = [alone EXCEPT ![term_cur] = a],
           Sound(s, p, a, key_buffer_pos, enter_pressed, cursor')
    PROVE  States'
  <1>1. Front(s, p, a)
    BY DEF Front
  <1>2. key_buffer_pos' = key_buffer_pos /\ enter_pressed' = enter_pressed
    BY DEF lineVars
  <1>3. Sound(s, p, a, key_buffer_pos', enter_pressed', cursor')
    BY <1>2
  <1> QED
    BY <1>1, <1>3, FrontStep

\* A memory and a history that do not change, in the form of a step that stores.
LEMMA Unchanged ==
    States => /\ mem = [mem EXCEPT ![VIDEO] = mem[VIDEO]]
              /\ alone = [alone EXCEPT ![term_cur] = alone[term_cur]]
              /\ \A c : [mem EXCEPT ![VIDEO] = c][VIDEO] = c
  BY DistinctFrames DEF States, Typed

\* The store of putc().
LEMMA StoreCellStep == States /\ StoreCell => States'
  <1> SUFFICES ASSUME States, StoreCell
               PROVE  States'
    OBVIOUS
  <1> DEFINE q == [pc |-> "x", r |-> 0]
             stored == StoreAt(mem[VIDEO], Register, term_cur)
             s == [cells |-> stored, x |-> screen_x, y |-> screen_y]
             a == alone[term_cur]
  <1>1. prog[term_cur].pc = "store"
    BY DEF StoreCell, At
  <1>2. /\ mem' = [mem EXCEPT ![VIDEO] = stored]
        /\ prog' = [prog EXCEPT ![term_cur] = q]
        /\ screen_x' = screen_x /\ screen_y' = screen_y /\ cursor' = cursor /\ alone' = alone
        /\ UNCHANGED <<user, termVars, lineVars>>
    BY DEF StoreCell, Goto, Rest, posVars
  <1>3. stored \in Picture
    BY FrontParts, StorePicture
  <1>4. q \in [pc : Pcs, r : Int] /\ q.pc = "x" /\ q.r = 0
    BY DEF Pcs
  <1>5. Register = Index(screen_x, screen_y) => Putc(InFront, Printable, term_cur) = Advance(s)
    BY FrontSound, PutcStore
  <1>6. s \in Shots(NUM_COLS, MAX_Y) /\ s.x = screen_x /\ s.cells = stored /\ s.y = screen_y
    BY <1>3, FrontParts DEF Shots
  <1> HIDE DEF q, s, stored
  <1>7. Placed(s, q)
    BY <1>1, <1>4, <1>6, FrontSound DEF Sound, Placed, Margins
  <1>8. user = "prompted" => Promise(s, q, a, key_buffer_pos, enter_pressed, cursor)
    BY <1>1, <1>4, <1>5, <1>6, FrontSound DEF Sound, Promise, Pending, Lined, Register
  <1>9. Sound(s, q, a, key_buffer_pos, enter_pressed, cursor')
    BY <1>2, <1>4, <1>7, <1>8, FrontSound DEF Sound
  <1>10. alone' = [alone EXCEPT ![term_cur] = a] /\ mem' = [mem EXCEPT ![VIDEO] = s.cells]
    BY <1>2, <1>6, Unchanged
  <1> HIDE DEF a
  <1> QED
    BY <1>2, <1>6, <1>9, <1>10, StoreStep

\* The store of screen_x + 1.
LEMMA StoreXStep == States /\ StoreX => States'
  <1> SUFFICES ASSUME States, StoreX
               PROVE  States'
    OBVIOUS
  <1> DEFINE q == [pc |-> "margin", r |-> 0]
             s == [cells |-> mem[VIDEO], x |-> Register + 1, y |-> screen_y]
             a == alone[term_cur]
  <1>1. prog[term_cur].pc = "x++"
    BY DEF StoreX, At
  <1>2. /\ screen_x' = Register + 1
        /\ prog' = [prog EXCEPT ![term_cur] = q]
        /\ mem' = mem /\ screen_y' = screen_y /\ cursor' = cursor /\ alone' = alone
        /\ UNCHANGED <<user, termVars, lineVars>>
    BY DEF StoreX, Goto, Rest
  <1>3. Register \in 0..NUM_COLS - 1
    BY <1>1, FrontSound DEF Sound, Placed, Register
  <1>4. q \in [pc : Pcs, r : Int] /\ q.pc = "margin" /\ q.r = 0
    BY DEF Pcs, Margins
  <1>5. Register = screen_x => Advance(InFront) = Wrap(s)
    BY FrontSound, AdvanceWraps
  <1>6. /\ s \in Shots(NUM_COLS, MAX_Y)
        /\ s.x = Register + 1 /\ s.cells = mem[VIDEO] /\ s.y = screen_y
    BY <1>3, FrontParts, Bounds DEF Shots
  <1> HIDE DEF q, s
  <1>7. Placed(s, q)
    BY <1>1, <1>4, <1>6, FrontSound DEF Sound, Placed, Margins
  <1>8. user = "prompted" => Promise(s, q, a, key_buffer_pos, enter_pressed, cursor)
    BY <1>1, <1>4, <1>5, <1>6, FrontSound DEF Sound, Promise, Pending, Lined, Register
  <1>9. Sound(s, q, a, key_buffer_pos, enter_pressed, cursor')
    BY <1>2, <1>4, <1>7, <1>8, FrontSound DEF Sound
  <1>10. alone' = [alone EXCEPT ![term_cur] = a] /\ mem' = [mem EXCEPT ![VIDEO] = s.cells]
    BY <1>2, <1>6, Unchanged
  <1> HIDE DEF a
  <1> QED
    BY <1>2, <1>6, <1>9, <1>10, StoreStep

\* The store of screen_y + 1.
LEMMA StoreYStep == States /\ StoreY => States'
  <1> SUFFICES ASSUME States, StoreY
               PROVE  States'
    OBVIOUS
  <1> DEFINE q == [pc |-> "home", r |-> 0]
             s == [cells |-> mem[VIDEO], x |-> screen_x, y |-> Below(Register)]
             a == alone[term_cur]
  <1>1. prog[term_cur].pc = "y++"
    BY DEF StoreY, At
  <1>2. /\ screen_y' = Below(Register)
        /\ prog' = [prog EXCEPT ![term_cur] = q]
        /\ mem' = mem /\ screen_x' = screen_x /\ cursor' = cursor /\ alone' = alone
        /\ UNCHANGED <<user, termVars, lineVars>>
    BY DEF StoreY, Goto, Rest
  <1>3. Register \in 0..MAX_Y
    BY <1>1, FrontSound DEF Sound, Placed, Register
  <1>4. Below(Register) \in 0..MAX_Y
    BY <1>3, Bounds DEF Below
  <1>5. q \in [pc : Pcs, r : Int] /\ q.pc = "home" /\ q.r = 0
    BY DEF Pcs, Margins
  <1>6. /\ s \in Shots(NUM_COLS, MAX_Y)
        /\ s.x = screen_x /\ s.cells = mem[VIDEO] /\ s.y = Below(Register)
    BY <1>4, FrontParts, Bounds DEF Shots
  <1>7. /\ Register = screen_y /\ screen_y # NUM_ROWS - 1 =>
              DoEnter(InFront) = [cells |-> mem[VIDEO], x |-> 0, y |-> Below(Register)]
        /\ [s EXCEPT !.x = 0] = [cells |-> mem[VIDEO], x |-> 0, y |-> Below(Register)]
    <2>1. Register = screen_y /\ screen_y # NUM_ROWS - 1 =>
              DoEnter(InFront) = [cells |-> mem[VIDEO], x |-> 0, y |-> Below(Register)]
      BY FrontSound, EnterCases, Bounds
    <2>2. [s EXCEPT !.x = 0] = [cells |-> mem[VIDEO], x |-> 0, y |-> Below(Register)]
      OBVIOUS
    <2> QED
      BY <2>1, <2>2
  <1> HIDE DEF q, s
  <1>8. Placed(s, q)
    BY <1>1, <1>5, <1>6, FrontSound DEF Sound, Placed, Margins
  <1>9. user = "prompted" => Promise(s, q, a, key_buffer_pos, enter_pressed, cursor)
    BY <1>1, <1>5, <1>7, <1>6, FrontSound DEF Sound, Promise, Pending, Lined, Register
  <1>10. Sound(s, q, a, key_buffer_pos, enter_pressed, cursor')
    BY <1>2, <1>5, <1>8, <1>9, FrontSound DEF Sound
  <1>11. alone' = [alone EXCEPT ![term_cur] = a] /\ mem' = [mem EXCEPT ![VIDEO] = s.cells]
    BY <1>2, <1>6, Unchanged
  <1> HIDE DEF a
  <1> QED
    BY <1>2, <1>6, <1>10, <1>11, StoreStep

\* The return to the first column.
LEMMA HomeStep == States /\ Home => States'
  <1> SUFFICES ASSUME States, Home
               PROVE  States'
    OBVIOUS
  <1> DEFINE q == [pc |-> "cursor", r |-> 0]
             s == [cells |-> mem[VIDEO], x |-> 0, y |-> screen_y]
             a == alone[term_cur]
  <1>1. prog[term_cur].pc = "home"
    BY DEF Home, At
  <1>2. /\ screen_x' = 0
        /\ prog' = [prog EXCEPT ![term_cur] = q]
        /\ mem' = mem /\ screen_y' = screen_y /\ cursor' = cursor /\ alone' = alone
        /\ UNCHANGED <<user, termVars, lineVars>>
    BY DEF Home, Goto, Rest
  <1>3. q \in [pc : Pcs, r : Int] /\ q.pc = "cursor" /\ q.r = 0
    BY DEF Pcs
  <1>4. [InFront EXCEPT !.x = 0] = s
    BY FrontParts
  <1>5. /\ s \in Shots(NUM_COLS, MAX_Y)
        /\ s.x = 0 /\ s.cells = mem[VIDEO] /\ s.y = screen_y
    BY FrontParts, Bounds DEF Shots
  <1> HIDE DEF q, s
  <1>6. Placed(s, q)
    BY <1>1, <1>3, <1>5, FrontSound, Bounds DEF Sound, Placed, Margins
  <1>7. user = "prompted" => Promise(s, q, a, key_buffer_pos, enter_pressed, cursor)
    BY <1>1, <1>3, <1>4, <1>5, FrontSound DEF Sound, Promise, Pending, Lined
  <1>8. Sound(s, q, a, key_buffer_pos, enter_pressed, cursor')
    BY <1>2, <1>3, <1>6, <1>7, FrontSound DEF Sound
  <1>9. alone' = [alone EXCEPT ![term_cur] = a] /\ mem' = [mem EXCEPT ![VIDEO] = s.cells]
    BY <1>2, <1>5, Unchanged
  <1> HIDE DEF a
  <1> QED
    BY <1>2, <1>5, <1>8, <1>9, StoreStep

\* update_cursor_loc() ends putc().
LEMMA MoveCursorStep == States /\ MoveCursor => States'
  <1> SUFFICES ASSUME States, MoveCursor
               PROVE  States'
    OBVIOUS
  <1> DEFINE q == [pc |-> "idle", r |-> 0]
             s == InFront
             a == alone[term_cur]
  <1>1. prog[term_cur].pc = "cursor"
    BY DEF MoveCursor, At
  <1>2. /\ cursor' = Index(screen_x, screen_y)
        /\ prog' = [prog EXCEPT ![term_cur] = q]
        /\ mem' = mem /\ screen_x' = screen_x /\ screen_y' = screen_y /\ alone' = alone
        /\ UNCHANGED <<user, termVars, lineVars>>
    BY DEF MoveCursor, Goto, Rest, PointTo
  <1>3. q \in [pc : Pcs, r : Int] /\ q.pc = "idle" /\ q.r = 0
    BY DEF Pcs
  <1>4. s.x = screen_x /\ s.cells = mem[VIDEO] /\ s.y = screen_y
    BY FrontSound
  <1> HIDE DEF q
  <1>5. Placed(s, q)
    BY <1>1, <1>3, FrontSound DEF Sound, Placed, Margins
  <1>6. user = "prompted" => Promise(s, q, a, key_buffer_pos, enter_pressed, cursor')
    BY <1>1, <1>2, <1>3, <1>4, FrontSound DEF Sound, Promise, Pending, Lined
  <1>7. Sound(s, q, a, key_buffer_pos, enter_pressed, cursor')
    BY <1>2, <1>3, <1>5, <1>6, FrontSound DEF Sound
  <1>8. alone' = [alone EXCEPT ![term_cur] = a] /\ mem' = [mem EXCEPT ![VIDEO] = s.cells]
    BY <1>2, <1>4, Unchanged
  <1> HIDE DEF a, s
  <1> QED
    BY <1>2, <1>4, <1>7, <1>8, StoreStep

\* A row of scroll(), and its end.
LEMMA ScrollRowStep == States /\ ScrollRow => States'
  <1> SUFFICES ASSUME States, ScrollRow
               PROVE  States'
    OBVIOUS
  <1> DEFINE a == alone[term_cur]
  <1>1. prog[term_cur].pc = "scroll"
    BY DEF ScrollRow, At
  <1>2. /\ cursor' = cursor /\ alone' = [alone EXCEPT ![term_cur] = a]
        /\ UNCHANGED <<user, termVars, lineVars>>
    BY Unchanged DEF ScrollRow, Rest
  <1>3. Register \in 0..NUM_ROWS - 1 /\ Register = prog[term_cur].r
    BY <1>1, FrontSound DEF Sound, Placed, Register
  <1>4. user = "prompted" =>
          a = [cells |-> ScrollRest(mem[VIDEO], Register), x |-> 0, y |-> NUM_ROWS - 1]
    BY <1>1, <1>3, FrontSound DEF Sound, Promise, Pending
  <1>5. CASE Register < NUM_ROWS - 1
    <2> DEFINE q == [pc |-> "scroll", r |-> Register + 1]
               up == RowUp(mem[VIDEO], Register)
               s == [cells |-> up, x |-> screen_x, y |-> screen_y]
    <2>1. /\ mem' = [mem EXCEPT ![VIDEO] = up]
          /\ prog' = [prog EXCEPT ![term_cur] = q]
          /\ screen_x' = screen_x /\ screen_y' = screen_y
      BY <1>5 DEF ScrollRow, Goto
    <2>2. Register \in 0..NUM_ROWS - 2 /\ Register + 1 \in 0..NUM_ROWS - 1
      BY <1>3, <1>5, Bounds
    <2>3. up \in Picture
      BY <2>2, FrontParts, RowUpPicture
    <2>4. ScrollRest(up, Register + 1) = ScrollRest(mem[VIDEO], Register)
      BY <2>2, FrontParts, ScrollTurn
    <2>5. q \in [pc : Pcs, r : Int] /\ q.pc = "scroll" /\ q.r = Register + 1
      BY <2>2, Bounds DEF Pcs, Margins
    <2>6. s \in Shots(NUM_COLS, MAX_Y) /\ s.x = screen_x /\ s.cells = up /\ s.y = screen_y
      BY <2>3, FrontParts DEF Shots
    <2> HIDE DEF q, s, up, a
    <2>7. Placed(s, q)
      BY <2>2, <2>5, <2>6 DEF Placed, Margins
    <2>8. user = "prompted" => Promise(s, q, a, key_buffer_pos, enter_pressed, cursor)
      BY <1>1, <1>4, <2>4, <2>5, <2>6, FrontSound DEF Sound, Promise, Pending, Lined, a
    <2>9. Sound(s, q, a, key_buffer_pos, enter_pressed, cursor')
      BY <1>2, <2>5, <2>7, <2>8, FrontSound DEF Sound
    <2> QED
      BY <1>2, <2>1, <2>6, <2>9, StoreStep
  <1>6. CASE Register = NUM_ROWS - 1
    <2> DEFINE q == [pc |-> "home", r |-> 0]
               last == LastRowBlank(mem[VIDEO])
               s == [cells |-> last, x |-> 0, y |-> NUM_ROWS - 1]
    <2>1. /\ mem' = [mem EXCEPT ![VIDEO] = last]
          /\ prog' = [prog EXCEPT ![term_cur] = q]
          /\ screen_x' = 0 /\ screen_y' = NUM_ROWS - 1
      BY <1>6, Bounds DEF ScrollRow, Goto
    <2>2. last \in Picture /\ ScrollRest(mem[VIDEO], Register) = last
      BY <1>6, FrontParts, LastRowPicture, ScrollEnds
    <2>3. q \in [pc : Pcs, r : Int] /\ q.pc = "home" /\ q.r = 0
      BY DEF Pcs, Margins
    <2> HIDE DEF last
    <2>4. s \in Shots(NUM_COLS, MAX_Y) /\ s.x = 0 /\ s.cells = last /\ s.y = NUM_ROWS - 1
      BY <2>2, Bounds DEF Shots
    <2>5. [s EXCEPT !.x = 0] = [cells |-> last, x |-> 0, y |-> NUM_ROWS - 1]
      OBVIOUS
    <2> HIDE DEF q, s, a
    <2>6. Placed(s, q)
      BY <2>3, <2>4 DEF Placed, Margins
    <2>7. user = "prompted" => Promise(s, q, a, key_buffer_pos, enter_pressed, cursor)
      BY <1>1, <1>4, <2>2, <2>3, <2>4, <2>5, FrontSound DEF Sound, Promise, Pending, Lined, a
    <2>8. Sound(s, q, a, key_buffer_pos, enter_pressed, cursor')
      BY <1>2, <2>3, <2>6, <2>7, FrontSound DEF Sound
    <2> QED
      BY <1>2, <2>1, <2>4, <2>8, StoreStep
  <1> QED
    BY <1>3, <1>5, <1>6, Bounds

\* putc() begins: the screen alone is at once what it shows in the end.
LEMMA BeginPutcStep ==
    ASSUME States, NEW c \in {NEWLINE, Printable}, BeginPutc(c)
    PROVE  States'
  <1> DEFINE next == IF c = NEWLINE THEN "enter" ELSE "row"
             q == [pc |-> next, r |-> 0]
             s == InFront
             a == Putc(alone[term_cur], c, term_cur)
  <1>1. prog[term_cur].pc = "idle"
    BY DEF BeginPutc, At
  <1>2. /\ prog' = [prog EXCEPT ![term_cur] = q]
        /\ mem' = mem /\ screen_x' = screen_x /\ screen_y' = screen_y /\ cursor' = cursor
        /\ alone' = [alone EXCEPT ![term_cur] = a]
        /\ UNCHANGED <<user, termVars, lineVars>>
    <2>1. alone' = [alone EXCEPT ![term_cur] = Putc(@, c, term_cur)]
      BY DEF BeginPutc
    <2> QED
      BY <2>1 DEF BeginPutc, Goto, Rest, posVars
  <1>3. /\ next \in Pcs
        /\ c = NEWLINE => next = "enter"
        /\ c = Printable => next = "row"
        /\ next \in {"enter", "row"}
    BY DEF Pcs, Margins, NEWLINE, Printable
  <1>4. q \in [pc : Pcs, r : Int] /\ q.pc = next /\ q.r = 0
    BY <1>3
  <1>5. s.x = screen_x /\ s.cells = mem[VIDEO] /\ s.y = screen_y
    BY FrontSound
  <1> HIDE DEF q, next
  <1>6. Placed(s, q)
    BY <1>1, <1>3, <1>4, FrontSound DEF Sound, Placed, Margins
  <1>7. user = "prompted" => Promise(s, q, a, key_buffer_pos, enter_pressed, cursor)
    <2> SUFFICES ASSUME user = "prompted"
                 PROVE  Promise(s, q, a, key_buffer_pos, enter_pressed, cursor)
      OBVIOUS
    <2>1. alone[term_cur] = s /\ alone[term_cur] \in Shots(NUM_COLS - 1, NUM_ROWS - 1)
      BY <1>1, FrontSound DEF Sound, Promise, Pending
    <2>2. alone[term_cur] \in Shots(NUM_COLS, NUM_ROWS - 1)
      BY <2>1, ShotWiden
    <2>3. a \in Shots(NUM_COLS - 1, NUM_ROWS - 1)
      BY <2>2, FrontParts, PutcShot
    <2>4. CASE c = NEWLINE
      <3>1. a = DoEnter(s)
        BY <2>1, <2>4, PutcNewline
      <3> HIDE DEF a
      <3> QED
        BY <1>1, <1>3, <1>4, <2>3, <2>4, <3>1, FrontSound DEF Sound, Promise, Pending, Lined
    <2>5. CASE c = Printable
      <3>1. a = Putc(s, Printable, term_cur)
        BY <2>1, <2>5
      <3> HIDE DEF a
      <3> QED
        BY <1>1, <1>3, <1>4, <2>3, <2>5, <3>1, FrontSound DEF Sound, Promise, Pending, Lined
    <2> QED
      BY <2>4, <2>5
  <1>8. Sound(s, q, a, key_buffer_pos, enter_pressed, cursor')
    BY <1>2, <1>4, <1>6, <1>7, FrontSound DEF Sound
  <1>9. mem' = [mem EXCEPT ![VIDEO] = s.cells]
    BY <1>2, <1>5, Unchanged
  <1> HIDE DEF a, s
  <1> QED
    BY <1>2, <1>5, <1>8, <1>9, StoreStep

\* terminal_read() ends and empties the line.
LEMMA EndReadStep == States /\ EndRead => States'
  <1> SUFFICES ASSUME States, EndRead
               PROVE  States'
    OBVIOUS
  <1> DEFINE q == [pc |-> "idle", r |-> 0]
             s == InFront
             a == alone[term_cur]
  <1>1. prog[term_cur].pc = "read"
    BY DEF EndRead, At
  <1>2. /\ enter_pressed' = 0 /\ key_buffer_pos' = 0
        /\ prog' = [prog EXCEPT ![term_cur] = q]
        /\ mem' = mem /\ screen_x' = screen_x /\ screen_y' = screen_y /\ cursor' = cursor
        /\ alone' = alone /\ UNCHANGED <<user, termVars>>
    BY DEF EndRead, Goto, posVars
  <1>3. q \in [pc : Pcs, r : Int] /\ q.pc = "idle" /\ q.r = 0
    BY DEF Pcs
  <1>4. s.x = screen_x /\ s.cells = mem[VIDEO] /\ s.y = screen_y
    BY FrontSound
  <1> HIDE DEF q
  <1>5. Placed(s, q)
    BY <1>1, <1>3, FrontSound DEF Sound, Placed, Margins
  <1>6. user = "prompted" => Promise(s, q, a, key_buffer_pos', enter_pressed', cursor')
    BY <1>1, <1>2, <1>3, FrontSound DEF Sound, Promise, Pending, Lined
  <1>7. Sound(s, q, a, key_buffer_pos', enter_pressed', cursor')
    BY <1>2, <1>3, <1>5, <1>6, FrontSound, Bounds DEF Sound
  <1>8. alone' = [alone EXCEPT ![term_cur] = a] /\ mem' = [mem EXCEPT ![VIDEO] = s.cells]
    BY <1>2, <1>4, Unchanged
  <1>9. Front(s, q, a)
    BY <1>2, <1>4, <1>8 DEF Front
  <1> HIDE DEF a, s
  <1> QED
    BY <1>7, <1>9, FrontStep

\* Where the kernel and the programs reach with these tables.
LEMMA Reaches == Tables => Mapped
  <1> SUFFICES ASSUME Tables
               PROVE  Mapped
    OBVIOUS
  <1>1. Reach("VIRTUAL_START", 0, TRUE) = ProgramFrame(term_cur)
    <2>1. pageDir["VIRTUAL_START"] = Block(ProgramFrame(term_cur), TRUE)
      BY DEF Tables
    <2> DEFINE f == ProgramFrame(term_cur)
    <2> HIDE DEF f
    <2>2. pageDir["VIRTUAL_START"] = [kind |-> "block", to |-> f, user |-> TRUE]
      BY <2>1 DEF Block, f
    <2>3. Reach("VIRTUAL_START", 0, TRUE) = f
      BY <2>2 DEF Reach
    <2> QED
      BY <2>3 DEF f
  <1>2. ASSUME NEW t \in Terminals
        PROVE  Reach("TERM_MEM", t, FALSE) = TermFrame(t)
    <2>1. t \in 1..3
      BY ScreenAssumption
    <2>2. pageDir["TERM_MEM"] = Table(UserTable, TRUE) /\ userTable[t] = Block(TermFrame(t), TRUE)
      BY <2>1 DEF Tables
    <2> DEFINE f == TermFrame(t)
               u == UserTable
    <2> HIDE DEF f, u
    <2>3. /\ pageDir["TERM_MEM"] = [kind |-> "table", to |-> u, user |-> TRUE]
          /\ userTable[t] = [kind |-> "block", to |-> f, user |-> TRUE]
      BY <2>2 DEF Table, Block, f, u
    <2>4. pageDir["TERM_MEM"].kind = "table" /\ pageDir["TERM_MEM"].to = UserTable
      BY <2>3 DEF u
    <2>5. Reach("TERM_MEM", t, FALSE) = f
      BY <2>3, <2>4 DEF Reach
    <2> QED
      BY <2>5 DEF f
  <1>3. Reach("VIRTUAL_END", 0, TRUE) \in {VIDEO, Nowhere}
    <2> DEFINE d == pageDir["VIRTUAL_END"]
               e == userTable[0]
    <2>1. CASE d = Absent
      <3>1. d.kind = "absent" /\ ~d.user
        BY <2>1 DEF Absent
      <3>2. Reach("VIRTUAL_END", 0, TRUE) = Nowhere
        BY <3>1 DEF Reach
      <3> QED
        BY <3>2
    <2>2. CASE d = Table(UserTable, TRUE)
      <3>1. d.kind = "table" /\ d.to = UserTable /\ d.user
        BY <2>2 DEF Table
      <3>2. Reach("VIRTUAL_END", 0, TRUE) = IF e.user THEN e.to ELSE Nowhere
        BY <3>1 DEF Reach
      <3>3. e = Absent \/ e = Block(VIDEO, TRUE)
        BY DEF Tables
      <3>4. e = Absent => e.to = Nowhere
        BY DEF Absent
      <3>5. e = Block(VIDEO, TRUE) => e.to = VIDEO
        BY DEF Block
      <3> HIDE DEF e
      <3> QED
        BY <3>2, <3>3, <3>4, <3>5
    <2>3. d = Absent \/ d = Table(UserTable, TRUE)
      BY DEF Tables
    <2> QED
      BY <2>1, <2>2, <2>3
  <1> QED
    BY <1>1, <1>2, <1>3 DEF Mapped

\* A drawing through the window is a store in the video memory.
LEMMA DrawStep ==
    ASSUME States, Tables, NEW i \in DrawCells, Draw(i)
    PROVE  States'
  <1> DEFINE q == prog[term_cur]
             stored == StoreAt(mem[VIDEO], i, term_cur)
             s == [cells |-> stored, x |-> screen_x, y |-> screen_y]
             a == [alone[term_cur] EXCEPT !.cells = StoreAt(@, i, term_cur)]
  <1>1. q.pc = "idle"
    BY DEF Draw, At
  <1>2. Reach("VIRTUAL_END", 0, TRUE) = VIDEO
    BY Reaches DEF Draw, Mapped
  <1>3. /\ mem' = [mem EXCEPT ![VIDEO] = stored]
        /\ screen_x' = screen_x /\ screen_y' = screen_y /\ cursor' = cursor /\ prog' = prog
        /\ UNCHANGED <<user, termVars, lineVars>>
    <2>1. mem' = [mem EXCEPT ![VIDEO] = StoreAt(@, i, term_cur)]
      BY <1>2 DEF Draw
    <2> QED
      BY <2>1 DEF Draw, Rest, posVars
  <1>4. alone' = [alone EXCEPT ![term_cur] = a]
    BY DEF Draw
  <1>5. stored \in Picture
    BY FrontParts, StorePicture
  <1>6. s \in Shots(NUM_COLS, MAX_Y) /\ s.x = screen_x /\ s.cells = stored /\ s.y = screen_y
    BY <1>5, FrontParts DEF Shots
  <1>7. Placed(s, q)
    BY <1>1, <1>6, FrontSound DEF Sound, Placed, Margins
  <1>8. user = "prompted" => Promise(s, q, a, key_buffer_pos, enter_pressed, cursor)
    <2> SUFFICES ASSUME user = "prompted"
                 PROVE  Promise(s, q, a, key_buffer_pos, enter_pressed, cursor)
      OBVIOUS
    <2>1. /\ alone[term_cur] = InFront
          /\ alone[term_cur] \in Shots(NUM_COLS - 1, NUM_ROWS - 1)
      BY <1>1, FrontSound DEF Sound, Promise, Pending
    <2>2. a = s
      <3>1. InFront = [cells |-> mem[VIDEO], x |-> screen_x, y |-> screen_y]
        BY FrontParts
      <3>2. a = [InFront EXCEPT !.cells = stored]
        BY <2>1, FrontSound
      <3> HIDE DEF stored, a
      <3> QED
        BY <3>1, <3>2
    <2>3. screen_x \in 0..NUM_COLS - 1 /\ screen_y \in 0..NUM_ROWS - 1
      BY <2>1, FrontSound, ShotParts
    <2>4. a \in Shots(NUM_COLS - 1, NUM_ROWS - 1)
      BY <2>2, <2>3, <1>5 DEF Shots
    <2> HIDE DEF s, a, stored
    <2> QED
      BY <1>1, <1>6, <2>2, <2>4, FrontSound DEF Sound, Promise, Pending, Lined
  <1>9. Sound(s, q, a, key_buffer_pos, enter_pressed, cursor')
    BY <1>3, <1>7, <1>8, FrontSound DEF Sound
  <1>10. prog' = [prog EXCEPT ![term_cur] = q] /\ mem' = [mem EXCEPT ![VIDEO] = s.cells]
    BY <1>3, <1>6 DEF States, Typed
  <1> HIDE DEF s, q, a
  <1> QED
    BY <1>3, <1>4, <1>6, <1>9, <1>10, StoreStep

-----------------------------------------------------------------------------
(***************************************************************************)
(* The keys and their echo.                                                *)
(***************************************************************************)
\* The last column the position may be at while the program is where it is.
Width == IF prog[term_cur].pc \in Margins THEN NUM_COLS ELSE NUM_COLS - 1

\* What a key of the prompted user finds: a reading program and its own screen.
AtPrompt ==
    user = "prompted" =>
        /\ prog[term_cur].pc = "read"
        /\ alone[term_cur] = InFront
        /\ InFront \in Shots(NUM_COLS - 1, NUM_ROWS - 1)
        /\ key_buffer_pos <= screen_x
        /\ \A k \in 1..key_buffer_pos : mem[VIDEO][Index(screen_x, screen_y) - k] = term_cur

\* The echo of a key finds a screen, and that of a prompted user's a prompt.
LEMMA KeyFinds ==
    /\ States => InFront \in Shots(Width, MAX_Y) /\ Width \in {NUM_COLS - 1, NUM_COLS}
    /\ States /\ MayType => AtPrompt
  <1>1. ASSUME States
        PROVE  InFront \in Shots(Width, MAX_Y) /\ Width \in {NUM_COLS - 1, NUM_COLS}
    <2>1. CASE prog[term_cur].pc \in Margins
      BY <1>1, <2>1, FrontSound DEF Width
    <2>2. CASE prog[term_cur].pc \notin Margins
      <3>1. screen_x \in 0..NUM_COLS - 1
        BY <1>1, <2>2, FrontSound, FrontParts, Bounds DEF Sound, Placed
      <3>2. Width = NUM_COLS - 1
        BY <2>2 DEF Width
      <3>3. InFront \in Shots(NUM_COLS - 1, MAX_Y)
        BY <1>1, <3>1, FrontParts DEF Shots
      <3> QED
        BY <3>2, <3>3
    <2> QED
      BY <2>1, <2>2
  <1>2. ASSUME States, MayType
        PROVE  AtPrompt
    <2> SUFFICES ASSUME user = "prompted"
                 PROVE  AtPrompt
      BY DEF AtPrompt
    <2>1. prog[term_cur].pc = "read" /\ enter_pressed = 0
      BY <1>2 DEF MayType
    <2>2. Promise(InFront, prog[term_cur], alone[term_cur],
                  key_buffer_pos, enter_pressed, cursor)
      BY <1>2, FrontSound DEF Sound
    <2>3. alone[term_cur] = InFront /\ InFront \in Shots(NUM_COLS - 1, NUM_ROWS - 1)
      BY <2>1, <2>2 DEF Promise, Pending
    <2>4. Lined(InFront, prog[term_cur], key_buffer_pos, enter_pressed, term_cur)
      BY <2>2 DEF Promise
    <2> QED
      BY <1>2, <2>1, <2>3, <2>4, FrontSound DEF Lined, AtPrompt
  <1> QED
    BY <1>1, <1>2

\* A key's echo keeps the state: s is the screen it leaves, a the one alone, and
\* n and e the line's length and enter_pressed.
LEMMA KeyStep ==
    ASSUME States, NEW s, NEW a, NEW n, NEW e,
           mem' = [mem EXCEPT ![VIDEO] = s.cells], screen_x' = s.x, screen_y' = s.y,
           cursor' = Index(s.x, s.y), alone' = [alone EXCEPT ![term_cur] = a],
           UNCHANGED <<user, termVars, prog>>,
           key_buffer_pos' = n, enter_pressed' = e,
           s \in Shots(Width, MAX_Y), n \in 0..KEY_BUFFER_SIZE, e \in {0, 1},
           user = "prompted" =>
               /\ prog[term_cur].pc = "read" /\ a = s
               /\ s \in Shots(NUM_COLS - 1, NUM_ROWS - 1)
               /\ Lined(s, prog[term_cur], n, e, term_cur)
    PROVE  States'
  <1> DEFINE q == prog[term_cur]
  <1>1. prog' = [prog EXCEPT ![term_cur] = q] /\ q \in [pc : Pcs, r : Int]
    BY FrontParts DEF States, Typed
  <1>2. Front(s, q, a)
    BY <1>1 DEF Front
  <1>3. s \in Shots(NUM_COLS, MAX_Y)
    BY ShotWiden DEF Width
  <1>4. q.pc \notin Margins => s.x < NUM_COLS
    <2>1. s.x \in 0..Width
      BY ShotParts
    <2> QED
      BY <2>1, Bounds DEF Width
  <1>5. Placed(s, q)
    BY <1>3, <1>4, FrontSound DEF Sound, Placed
  <1>6. user = "prompted" => Promise(s, q, a, n, e, cursor')
    BY DEF Promise, Pending
  <1>7. Sound(s, q, a, key_buffer_pos', enter_pressed', cursor')
    BY <1>1, <1>5, <1>6 DEF Sound
  <1> HIDE DEF q
  <1> QED
    BY <1>2, <1>7, FrontStep

\* The cells left of a position in its row.
LEMMA LeftCells ==
    ASSUME NEW x \in 0..NUM_COLS - 1, NEW y \in 0..NUM_ROWS - 1, NEW k \in 0..x
    PROVE  Index(x, y) - k \in Cells /\ Index(x, y) - k = Index(x - k, y)
  <1>1. x - k \in 0..NUM_COLS - 1 /\ x \in Int /\ k \in Int /\ y \in Int /\ x - k \in Int
    BY Bounds
  <1>2. /\ Index(x, y) = Index(0, y) + x /\ Index(x - k, y) = Index(0, y) + (x - k)
        /\ Index(0, y) \in Int
    BY ONLY <1>1, Rows, 0 \in Int
  <1>3. Index(x, y) - k = Index(x - k, y)
    BY ONLY <1>1, <1>2
  <1> QED
    BY <1>1, <1>3, OnScreenCell

\* A character.
LEMMA PressCharStep == States /\ PressChar => States'
  <1> SUFFICES ASSUME States, PressChar
               PROVE  States'
    OBVIOUS
  <1> DEFINE s == Putc(InFront, Printable, term_cur)
             a == Putc(alone[term_cur], Printable, term_cur)
             n == key_buffer_pos + 1
  <1>1. /\ MayType /\ key_buffer_pos < KEY_BUFFER_SIZE
        /\ user = "prompted" => screen_x + 1 < NUM_COLS
    BY DEF PressChar, HasRoom
  <1>2. /\ mem' = [mem EXCEPT ![VIDEO] = s.cells] /\ screen_x' = s.x /\ screen_y' = s.y
        /\ cursor' = Index(s.x, s.y)
        /\ key_buffer_pos' = n /\ enter_pressed' = enter_pressed
        /\ UNCHANGED <<user, termVars, prog>>
    BY DEF PressChar, Show, PointTo
  <1>3. alone' = [alone EXCEPT ![term_cur] = a]
    BY DEF PressChar, Show
  <1>4. s \in Shots(Width, MAX_Y)
    <2>1. s \in Shots(NUM_COLS - 1, MAX_Y)
      BY FrontSound, FrontParts, PutcShot
    <2> HIDE DEF s
    <2> QED
      BY <2>1, KeyFinds, ShotWiden
  <1>5. n \in 0..KEY_BUFFER_SIZE /\ enter_pressed \in {0, 1}
    BY <1>1, FrontSound, Bounds DEF Sound
  <1>6. ASSUME user = "prompted"
        PROVE  /\ prog[term_cur].pc = "read" /\ a = s
               /\ s \in Shots(NUM_COLS - 1, NUM_ROWS - 1)
               /\ Lined(s, prog[term_cur], n, enter_pressed, term_cur)
    <2>1. AtPrompt
      BY <1>1, KeyFinds
    <2>2. prog[term_cur].pc = "read" /\ a = s
      BY <2>1, <1>6 DEF AtPrompt
    <2>3. s \in Shots(NUM_COLS - 1, NUM_ROWS - 1)
      <3>1. InFront \in Shots(NUM_COLS, NUM_ROWS - 1)
        BY <2>1, <1>6, ShotWiden DEF AtPrompt
      <3> QED
        BY <3>1, FrontParts, PutcShot
    <2>4. screen_x \in 0..NUM_COLS - 1 /\ screen_y \in 0..NUM_ROWS - 1
      BY <2>1, <1>6, FrontSound, ShotParts DEF AtPrompt
    <2> DEFINE here == Index(screen_x, screen_y)
               stored == StoreAt(mem[VIDEO], here, term_cur)
               t0 == [cells |-> stored, x |-> screen_x, y |-> screen_y]
    <2>5. here \in Cells /\ here \in Int
      BY <2>4, OnScreenCell DEF Cells
    <2>6. s = [cells |-> stored, x |-> screen_x + 1, y |-> screen_y]
      <3>1. s = Advance(t0)
        BY FrontSound, PutcStore
      <3>2. [t0 EXCEPT !.x = @ + 1] = [cells |-> stored, x |-> screen_x + 1, y |-> screen_y]
        <4> HIDE DEF stored
        <4> QED
          OBVIOUS
      <3>3. Wrap([cells |-> stored, x |-> screen_x + 1, y |-> screen_y])
              = [cells |-> stored, x |-> screen_x + 1, y |-> screen_y]
        BY <1>1, <1>6, <2>4, Bounds DEF Wrap
      <3> HIDE DEF s, t0, stored
      <3> QED
        BY <3>1, <3>2, <3>3 DEF Advance
    <2>7. /\ stored[here] = term_cur
          /\ \A i \in Cells : i # here => stored[i] = mem[VIDEO][i]
      BY <2>5, FrontParts DEF StoreAt, Picture
    <2>8. Index(s.x, s.y) = here + 1 /\ s.x = screen_x + 1 /\ s.cells = stored
      <3>1. s.x = screen_x + 1 /\ s.y = screen_y /\ s.cells = stored
        <4> HIDE DEF s, stored
        <4> QED
          BY <2>6
      <3>2. screen_x \in Int /\ screen_x + 1 \in Int /\ screen_y \in Int
        BY <2>4, Bounds
      <3>3. /\ Index(screen_x + 1, screen_y) = Index(0, screen_y) + (screen_x + 1)
            /\ Index(screen_x, screen_y) = Index(0, screen_y) + screen_x
            /\ Index(0, screen_y) \in Int
        BY ONLY <3>2, Rows, 0 \in Int
      <3>4. Index(screen_x + 1, screen_y) = here + 1
        BY ONLY <3>2, <3>3
      <3> QED
        BY <3>1, <3>4
    <2>9. n <= s.x
      BY <2>1, <2>4, <2>8, <1>6, <1>5, FrontSound, Bounds DEF AtPrompt, Sound
    <2>10. ASSUME NEW k \in 1..n
           PROVE  s.cells[Index(s.x, s.y) - k] = term_cur
      <3>0. key_buffer_pos \in Nat
        BY FrontSound, Bounds DEF Sound
      <3>1. CASE k = 1
        BY <3>1, <2>5, <2>7, <2>8
      <3>2. CASE k # 1
        <4>1. k - 1 \in 1..key_buffer_pos /\ (here + 1) - k = here - (k - 1) /\ here - (k - 1) # here
          BY <3>0, <3>2, <2>5
        <4>2. mem[VIDEO][here - (k - 1)] = term_cur
          BY <4>1, <2>1, <1>6 DEF AtPrompt
        <4>3. k - 1 \in 0..screen_x
          BY <4>1, <3>0, <2>1, <2>4, <1>6, Bounds DEF AtPrompt
        <4>4. here - (k - 1) \in Cells
          BY <4>3, <2>4, LeftCells
        <4>5. stored[here - (k - 1)] = term_cur
          BY <4>1, <4>2, <4>4, <2>7
        <4> QED
          BY <4>1, <4>5, <2>8
      <3> QED
        BY <3>1, <3>2
    <2> HIDE DEF s, a
    <2> QED
      BY <2>2, <2>3, <2>9, <2>10 DEF Lined
  <1> HIDE DEF s, a, n
  <1> QED
    BY <1>2, <1>3, <1>4, <1>5, <1>6, KeyStep

\* Ctrl+L.
LEMMA PressCtrlLStep == States /\ PressCtrlL => States'
  <1> SUFFICES ASSUME States, PressCtrlL
               PROVE  States'
    OBVIOUS
  <1> DEFINE s == Clear(term_cur)
  <1>1. MayType
    BY DEF PressCtrlL
  <1>2. /\ mem' = [mem EXCEPT ![VIDEO] = s.cells] /\ screen_x' = s.x /\ screen_y' = s.y
        /\ cursor' = Index(s.x, s.y) /\ alone' = [alone EXCEPT ![term_cur] = s]
        /\ key_buffer_pos' = 0 /\ enter_pressed' = enter_pressed
        /\ UNCHANGED <<user, termVars, prog>>
    BY DEF PressCtrlL, Show, PointTo
  <1>3. s \in Shots(NUM_COLS - 1, NUM_ROWS - 1)
    BY FrontParts, OpeningShots
  <1> HIDE DEF s
  <1>4. s \in Shots(Width, MAX_Y)
    BY <1>3, KeyFinds, ShotWiden
  <1>5. 0 \in 0..KEY_BUFFER_SIZE /\ enter_pressed \in {0, 1} /\ 0 <= s.x
    BY <1>3, FrontSound, ShotParts, Bounds DEF Sound
  <1>6. Lined(s, prog[term_cur], 0, enter_pressed, term_cur)
    BY <1>5 DEF Lined
  <1>7. user = "prompted" => prog[term_cur].pc = "read"
    BY <1>1 DEF MayType
  <1> QED
    BY <1>2, <1>3, <1>4, <1>5, <1>6, <1>7, KeyStep

\* Enter.
LEMMA PressEnterStep == States /\ PressEnter => States'
  <1> SUFFICES ASSUME States, PressEnter
               PROVE  States'
    OBVIOUS
  <1> DEFINE s == DoEnter(InFront)
             a == DoEnter(alone[term_cur])
  <1>1. AtPrompt
    BY KeyFinds DEF PressEnter
  <1>2. /\ mem' = [mem EXCEPT ![VIDEO] = s.cells] /\ screen_x' = s.x /\ screen_y' = s.y
        /\ cursor' = Index(s.x, s.y)
        /\ key_buffer_pos' = key_buffer_pos /\ enter_pressed' = 1
        /\ UNCHANGED <<user, termVars, prog>>
    BY DEF PressEnter, Show, PointTo
  <1>3. alone' = [alone EXCEPT ![term_cur] = a]
    BY DEF PressEnter, Show
  <1>4. s \in Shots(Width, MAX_Y)
    <2>1. s \in Shots(NUM_COLS - 1, MAX_Y)
      BY FrontSound, EnterShot
    <2> HIDE DEF s
    <2> QED
      BY <2>1, KeyFinds, ShotWiden
  <1>5. key_buffer_pos \in 0..KEY_BUFFER_SIZE
    BY FrontSound DEF Sound
  <1>6. ASSUME user = "prompted"
        PROVE  /\ prog[term_cur].pc = "read" /\ a = s
               /\ s \in Shots(NUM_COLS - 1, NUM_ROWS - 1)
               /\ Lined(s, prog[term_cur], key_buffer_pos, 1, term_cur)
    <2>1. prog[term_cur].pc = "read" /\ a = s
      BY <1>1, <1>6 DEF AtPrompt
    <2>2. InFront \in Shots(NUM_COLS, NUM_ROWS - 1)
      BY <1>1, <1>6, ShotWiden DEF AtPrompt
    <2>3. s \in Shots(NUM_COLS - 1, NUM_ROWS - 1)
      BY <2>2, EnterShot
    <2>4. Lined(s, prog[term_cur], key_buffer_pos, 1, term_cur)
      BY <2>1 DEF Lined
    <2> QED
      BY <2>1, <2>3, <2>4
  <1> HIDE DEF s, a
  <1> QED
    BY <1>2, <1>3, <1>4, <1>5, <1>6, KeyStep

\* Backspace.
LEMMA PressBackspaceStep == States /\ PressBackspace => States'
  <1> SUFFICES ASSUME States, PressBackspace
               PROVE  States'
    OBVIOUS
  <1> DEFINE s == DoBackspace(InFront)
             a == DoBackspace(alone[term_cur])
             n == key_buffer_pos - 1
  <1>1. /\ AtPrompt /\ key_buffer_pos > 0
        /\ InFront.x > 0 \/ InFront.y > 0
    BY KeyFinds DEF PressBackspace
  <1>2. /\ mem' = [mem EXCEPT ![VIDEO] = s.cells] /\ screen_x' = s.x /\ screen_y' = s.y
        /\ cursor' = Index(s.x, s.y)
        /\ key_buffer_pos' = n /\ enter_pressed' = enter_pressed
        /\ UNCHANGED <<user, termVars, prog>>
    BY DEF PressBackspace, Show, PointTo
  <1>3. alone' = [alone EXCEPT ![term_cur] = a]
    BY DEF PressBackspace, Show
  <1>4. s \in Shots(Width, MAX_Y)
    BY <1>1, KeyFinds, BackspaceShot
  <1>5. n \in 0..KEY_BUFFER_SIZE /\ enter_pressed \in {0, 1}
    BY <1>1, FrontSound, Bounds DEF Sound
  <1>6. ASSUME user = "prompted"
        PROVE  /\ prog[term_cur].pc = "read" /\ a = s
               /\ s \in Shots(NUM_COLS - 1, NUM_ROWS - 1)
               /\ Lined(s, prog[term_cur], n, enter_pressed, term_cur)
    <2>1. prog[term_cur].pc = "read" /\ a = s
      BY <1>1, <1>6 DEF AtPrompt
    <2>2. s \in Shots(NUM_COLS - 1, NUM_ROWS - 1)
      BY <1>1, <1>6, BackspaceShot DEF AtPrompt
    <2>3. /\ screen_x \in 0..NUM_COLS - 1 /\ screen_y \in 0..NUM_ROWS - 1
          /\ key_buffer_pos \in Nat /\ key_buffer_pos <= screen_x
      <3>1. key_buffer_pos \in Nat
        BY FrontSound, Bounds DEF Sound
      <3> QED
        BY <3>1, <1>1, <1>6, FrontSound, ShotParts DEF AtPrompt
    <2> DEFINE x1 == screen_x - 1
               here == Index(x1, screen_y)
               stored == StoreAt(mem[VIDEO], here, BLANK)
    <2>4. x1 \in 0..NUM_COLS - 1 /\ screen_x # 0
      BY <1>1, <2>3, Bounds
    <2>5. s = [cells |-> stored, x |-> x1, y |-> screen_y]
      <3>1. InFront.x # 0 /\ InFront.x = screen_x
        BY <2>4, FrontSound
      <3> DEFINE before == [InFront EXCEPT !.x = @ - 1]
      <3>2. s = [before EXCEPT !.cells = StoreAt(@, Index(before.x, before.y), BLANK)]
        BY <3>1 DEF DoBackspace
      <3>3. before = [cells |-> mem[VIDEO], x |-> x1, y |-> screen_y]
        BY FrontParts
      <3> HIDE DEF before, s, x1
      <3>4. before.x = x1 /\ before.y = screen_y /\ before.cells = mem[VIDEO]
        BY <3>3
      <3>5. s = [before EXCEPT !.cells = stored]
        BY <3>2, <3>4
      <3> HIDE DEF stored
      <3> QED
        BY <3>3, <3>5
    <2>6. \A i \in Cells : i # here => stored[i] = mem[VIDEO][i]
      BY FrontParts DEF StoreAt, Picture
    <2>7. /\ here \in Int /\ Index(screen_x, screen_y) \in Int
          /\ here = Index(screen_x, screen_y) - 1
      <3>1. 1 \in 0..screen_x
        BY <2>3, <2>4, Bounds
      <3>2. Index(screen_x, screen_y) - 1 \in Cells /\ here = Index(screen_x, screen_y) - 1
        BY <2>3, <3>1, LeftCells
      <3>3. Index(screen_x, screen_y) \in Cells
        BY <2>3, OnScreenCell
      <3> HIDE DEF here
      <3> QED
        BY <3>2, <3>3 DEF Cells
    <2>8. s.x = x1 /\ Index(s.x, s.y) = here /\ s.cells = stored
      <3> HIDE DEF s, x1, stored
      <3> QED
        BY <2>5
    <2>9. n <= s.x
      BY <2>3, <2>4, <2>8, Bounds
    <2>10. ASSUME NEW k \in 1..n
           PROVE  s.cells[Index(s.x, s.y) - k] = term_cur
      <3> HIDE DEF here
      <3>1. /\ k + 1 \in 1..key_buffer_pos /\ k + 1 \in 0..screen_x
            /\ here - k = Index(screen_x, screen_y) - (k + 1) /\ here - k # here
        BY <2>3, <2>7, Bounds
      <3>2. mem[VIDEO][here - k] = term_cur
        BY <3>1, <1>1, <1>6 DEF AtPrompt
      <3>3. here - k \in Cells
        BY <3>1, <2>3, LeftCells
      <3> QED
        BY <3>1, <3>2, <3>3, <2>6, <2>8
    <2> HIDE DEF s, a
    <2> QED
      BY <2>1, <2>2, <2>9, <2>10 DEF Lined
  <1> HIDE DEF s, a, n
  <1> QED
    BY <1>2, <1>3, <1>4, <1>5, <1>6, KeyStep

\* The message that no process is left.
LEMMA RefuseOpenStep ==
    ASSUME States, NEW t \in Terminals, RefuseOpen(t)
    PROVE  States'
  <1> DEFINE s == PutAll(InFront, Message, term_cur)
             a == PutAll(alone[term_cur], Message, term_cur)
  <1>1. AtPrompt /\ (user = "prompted" => key_buffer_pos = 0)
    BY KeyFinds DEF RefuseOpen
  <1>2. /\ mem' = [mem EXCEPT ![VIDEO] = s.cells] /\ screen_x' = s.x /\ screen_y' = s.y
        /\ cursor' = Index(s.x, s.y)
        /\ key_buffer_pos' = key_buffer_pos /\ enter_pressed' = enter_pressed
        /\ UNCHANGED <<user, termVars, prog>>
    BY DEF RefuseOpen, Show, PointTo, lineVars
  <1>3. alone' = [alone EXCEPT ![term_cur] = a]
    BY DEF RefuseOpen, Show
  <1>4. Message \in Seq({NEWLINE, Printable})
    BY ScreenAssumption
  <1>5. s \in Shots(Width, MAX_Y)
    BY <1>4, KeyFinds, FrontParts, PutAllShot
  <1>6. key_buffer_pos \in 0..KEY_BUFFER_SIZE /\ enter_pressed \in {0, 1}
    BY FrontSound DEF Sound
  <1>7. ASSUME user = "prompted"
        PROVE  /\ prog[term_cur].pc = "read" /\ a = s
               /\ s \in Shots(NUM_COLS - 1, NUM_ROWS - 1)
               /\ Lined(s, prog[term_cur], key_buffer_pos, enter_pressed, term_cur)
    <2>1. prog[term_cur].pc = "read" /\ a = s
      BY <1>1, <1>7 DEF AtPrompt
    <2>2. s \in Shots(NUM_COLS - 1, NUM_ROWS - 1)
      BY <1>1, <1>4, <1>7, FrontParts, PutAllShot DEF AtPrompt
    <2> HIDE DEF s
    <2>3. 0 <= s.x
      BY <2>2, ShotParts, Bounds
    <2>4. Lined(s, prog[term_cur], key_buffer_pos, enter_pressed, term_cur)
      BY <1>1, <1>7, <2>1, <2>3 DEF Lined
    <2> QED
      BY <2>1, <2>2, <2>4
  <1> HIDE DEF s, a
  <1> QED
    BY <1>2, <1>3, <1>5, <1>6, <1>7, KeyStep
-----------------------------------------------------------------------------
(***************************************************************************)
(* The terminal switches.                                                  *)
(***************************************************************************)
\* terminal_save puts the screen in front away in its terminal's frame, and
\* terminal_load brings another terminal's, in the tables of the kernel.
LEMMA Exchanged ==
    ASSUME States, Tables, NEW t \in Terminals, t # term_cur,
           NEW frames, frames = LoadFrame(t, SaveFrame(term_cur, mem))
    PROVE  /\ frames \in [Frames -> Picture]
           /\ frames[VIDEO] = mem[TermFrame(t)]
           /\ frames[TermFrame(term_cur)] = mem[VIDEO]
           /\ \A u \in Terminals : u # term_cur => frames[TermFrame(u)] = mem[TermFrame(u)]
  <1> DEFINE f == TermFrame(term_cur)
             g == TermFrame(t)
             kept == [mem EXCEPT ![f] = mem[VIDEO]]
  <1>1. term_cur \in Terminals /\ mem \in [Frames -> Picture]
    BY DEF States, Typed
  <1>2. Reach("TERM_MEM", term_cur, FALSE) = f /\ Reach("TERM_MEM", t, FALSE) = g
    BY <1>1, Reaches DEF Mapped
  <1>3. frames = [kept EXCEPT ![VIDEO] = kept[g]]
    BY <1>2 DEF LoadFrame, SaveFrame
  <1>4. f \in Frames /\ g \in Frames /\ VIDEO \in Frames /\ f # VIDEO /\ g # VIDEO /\ f # g
    BY <1>1, DistinctFrames
  <1>5. \A u \in Terminals : /\ TermFrame(u) \in Frames /\ TermFrame(u) # VIDEO
                             /\ u # term_cur => TermFrame(u) # f
    BY <1>1, DistinctFrames
  <1>6. /\ kept \in [Frames -> Picture] /\ kept[f] = mem[VIDEO]
        /\ \A h \in Frames : h # f => kept[h] = mem[h]
    <2> HIDE DEF f, g
    <2> QED
      BY <1>1, <1>4
  <1>7. /\ frames \in [Frames -> Picture] /\ frames[VIDEO] = kept[g]
        /\ \A h \in Frames : h # VIDEO => frames[h] = kept[h]
    <2> HIDE DEF f, g, kept
    <2> QED
      BY <1>3, <1>4, <1>6
  <1> HIDE DEF kept
  <1> QED
    BY <1>4, <1>5, <1>6, <1>7

\* The terminals that are not brought to the front show, or have put away, what
\* they did before.
LEMMA PutAway ==
    ASSUME States, NEW t \in Terminals, t # term_cur, terminal_save, term_cur' = t,
           mem'[TermFrame(term_cur)] = mem[VIDEO],
           \A u \in Terminals : u # term_cur => mem'[TermFrame(u)] = mem[TermFrame(u)]
    PROVE  /\ \A u \in Terminals : u # t => ScreenOf(u)' = ScreenOf(u) /\ TypedIn(u)' = TypedIn(u)
           /\ \A u \in Terminals : u # term_cur => saved'[u] = saved[u]
           /\ saved' \in [Terminals -> [x : 0..NUM_COLS, y : 0..MAX_Y, pos : 0..KEY_BUFFER_SIZE]]
  <1>1. /\ term_cur \in Terminals
        /\ saved \in [Terminals -> [x : 0..NUM_COLS, y : 0..MAX_Y, pos : 0..KEY_BUFFER_SIZE]]
        /\ key_buffer_pos \in 0..KEY_BUFFER_SIZE
    BY DEF States, Typed
  <1>2. saved' = [saved EXCEPT ![term_cur] = SavedHere]
    BY DEF terminal_save
  <1>3. /\ SavedHere \in [x : 0..NUM_COLS, y : 0..MAX_Y, pos : 0..KEY_BUFFER_SIZE]
        /\ SavedHere.x = screen_x /\ SavedHere.y = screen_y /\ SavedHere.pos = key_buffer_pos
    BY <1>1, FrontParts DEF SavedHere
  <1>4. /\ saved'[term_cur] = SavedHere
        /\ \A u \in Terminals : u # term_cur => saved'[u] = saved[u]
        /\ saved' \in [Terminals -> [x : 0..NUM_COLS, y : 0..MAX_Y, pos : 0..KEY_BUFFER_SIZE]]
    BY <1>1, <1>2, <1>3
  <1>5. ASSUME NEW u \in Terminals, u # t
        PROVE  ScreenOf(u)' = ScreenOf(u) /\ TypedIn(u)' = TypedIn(u)
    <2>1. CASE u = term_cur
      <3>1. ScreenOf(u)' = [cells |-> mem[VIDEO], x |-> screen_x, y |-> screen_y]
        BY <2>1, <1>3, <1>4, <1>5 DEF ScreenOf
      <3>2. ScreenOf(u) = [cells |-> mem[VIDEO], x |-> screen_x, y |-> screen_y]
        BY <2>1 DEF ScreenOf, InFront
      <3>3. TypedIn(u)' = TypedIn(u)
        BY <2>1, <1>3, <1>4, <1>5 DEF TypedIn
      <3> QED
        BY <3>1, <3>2, <3>3
    <2>2. CASE u # term_cur
      BY <2>2, <1>4, <1>5 DEF ScreenOf, TypedIn
    <2> QED
      BY <2>1, <2>2
  <1> QED
    BY <1>4, <1>5

\* A switch to a terminal that is open.
LEMMA SwitchStep ==
    ASSUME States, Tables, NEW t \in Terminals, Switch(t)
    PROVE  States'
  <1>1. /\ MaySwitch /\ t # term_cur /\ t \in init /\ terminal_save
        /\ term_cur' = t /\ mem' = LoadFrame(t, SaveFrame(term_cur, mem))
        /\ screen_x' = saved[t].x /\ screen_y' = saved[t].y
        /\ cursor' = Index(saved[t].x, saved[t].y)
        /\ key_buffer_pos' = saved[t].pos
        /\ user' = user /\ init' = init /\ enter_pressed' = enter_pressed
        /\ prog' = prog /\ alone' = alone
    BY DEF Switch, PointTo
  <1>2. /\ mem' \in [Frames -> Picture]
        /\ mem'[VIDEO] = mem[TermFrame(t)]
        /\ mem'[TermFrame(term_cur)] = mem[VIDEO]
        /\ \A u \in Terminals : u # term_cur => mem'[TermFrame(u)] = mem[TermFrame(u)]
    BY <1>1, Exchanged
  <1>3. /\ \A u \in Terminals : u # t => ScreenOf(u)' = ScreenOf(u) /\ TypedIn(u)' = TypedIn(u)
        /\ \A u \in Terminals : u # term_cur => saved'[u] = saved[u]
        /\ saved' \in [Terminals -> [x : 0..NUM_COLS, y : 0..MAX_Y, pos : 0..KEY_BUFFER_SIZE]]
    BY <1>1, <1>2, PutAway
  <1>4. ASSUME NEW u \in Terminals
        PROVE  ScreenOf(u)' = ScreenOf(u) /\ TypedIn(u)' = TypedIn(u)
    <2>1. CASE u = t
      <3>1. ScreenOf(u)' = [cells |-> mem[TermFrame(t)], x |-> saved[t].x, y |-> saved[t].y]
        BY <2>1, <1>1, <1>2 DEF ScreenOf, InFront
      <3>2. ScreenOf(u) = [cells |-> mem[TermFrame(t)], x |-> saved[t].x, y |-> saved[t].y]
        BY <2>1, <1>1 DEF ScreenOf
      <3>3. TypedIn(u)' = TypedIn(u)
        BY <2>1, <1>1 DEF TypedIn
      <3> QED
        BY <3>1, <3>2, <3>3
    <2>2. CASE u # t
      BY <2>2, <1>3
    <2> QED
      BY <2>1, <2>2
  <1>5. /\ user \in Users /\ init \in SUBSET Terminals /\ term_cur \in init
        /\ saved[t] \in [x : 0..NUM_COLS, y : 0..MAX_Y, pos : 0..KEY_BUFFER_SIZE]
        /\ enter_pressed \in {0, 1}
        /\ prog \in [Terminals -> [pc : Pcs, r : Int]]
        /\ alone = [u \in Terminals |-> alone[u]]
    BY DEF States, Typed
  <1>6. Typed'
    BY <1>1, <1>2, <1>3, <1>5 DEF Typed
  <1>7. Untouched'
    <2> SUFFICES ASSUME NEW u \in Terminals \ init
                 PROVE  /\ mem'[TermFrame(u)] = Blanks
                        /\ saved'[u] = [x |-> 0, y |-> 0, pos |-> 0]
                        /\ prog'[u] = Idle
                        /\ alone'[u] = EmptyScreen
      BY <1>1 DEF Untouched, Blanks, Idle, EmptyScreen
    <2>1. u # term_cur
      BY <1>5
    <2> QED
      BY <2>1, <1>1, <1>2, <1>3 DEF States, Untouched
  <1>8. Placement'
    <2> SUFFICES ASSUME NEW u \in init
                 PROVE  Placed(ScreenOf(u)', prog'[u])
      BY <1>1 DEF Placement, Placed
    <2>1. ScreenOf(u)' = ScreenOf(u) /\ prog'[u] = prog[u]
      BY <1>1, <1>4, <1>5
    <2> QED
      BY <2>1 DEF States, Placement
  <1>9. Prompted'
    <2> SUFFICES ASSUME user = "prompted"
                 PROVE  /\ \A u \in Terminals : alone'[u] \in Shots(NUM_COLS - 1, NUM_ROWS - 1)
                        /\ \A u \in init :
                              /\ Pending(ScreenOf(u)', prog'[u], alone'[u], u)
                              /\ Lined(ScreenOf(u)', prog'[u], TypedIn(u)', EnterIn(u)', u)
                        /\ cursor' = Index(screen_x', screen_y')
                        /\ enter_pressed' # 1
      BY <1>1 DEF Prompted, Pending, Lined
    <2>1. enter_pressed = 0
      BY <1>1 DEF MaySwitch
    <2>2. ASSUME NEW u \in init
          PROVE  /\ Pending(ScreenOf(u)', prog'[u], alone'[u], u)
                 /\ Lined(ScreenOf(u)', prog'[u], TypedIn(u)', EnterIn(u)', u)
      <3>1. EnterIn(u)' = 0 /\ EnterIn(u) = 0
        BY <2>1, <1>1 DEF EnterIn
      <3>2. ScreenOf(u)' = ScreenOf(u) /\ TypedIn(u)' = TypedIn(u)
            /\ prog'[u] = prog[u] /\ alone'[u] = alone[u]
        BY <1>1, <1>4, <1>5
      <3>3. Pending(ScreenOf(u), prog[u], alone[u], u) /\ Lined(ScreenOf(u), prog[u], TypedIn(u), 0, u)
        BY <3>1 DEF States, Prompted
      <3> QED
        BY <3>1, <3>2, <3>3
    <2> QED
      BY <1>1, <2>1, <2>2 DEF States, Prompted
  <1> QED
    BY <1>6, <1>7, <1>8, <1>9 DEF States

\* A switch to a terminal that is not: its screen shows the banner, and nothing
\* of the terminal that was in front.
LEMMA OpenTerminalStep ==
    ASSUME States, Tables, NEW t \in Terminals, OpenTerminal(t)
    PROVE  States'
  <1> DEFINE loaded == LoadFrame(t, SaveFrame(term_cur, mem))
             s == PutAll(EmptyScreen, Banner, t)
  <1>1. /\ MaySwitch /\ t \notin init /\ terminal_save
        /\ term_cur' = t /\ init' = init \cup {t}
        /\ user' = user /\ enter_pressed' = enter_pressed /\ prog' = prog
        /\ key_buffer_pos' = saved[t].pos
    BY DEF OpenTerminal
  <1>2. /\ user \in Users /\ init \in SUBSET Terminals /\ term_cur \in init /\ term_cur \in Terminals
        /\ enter_pressed \in {0, 1}
        /\ prog \in [Terminals -> [pc : Pcs, r : Int]]
        /\ alone = [u \in Terminals |-> alone[u]]
        /\ t # term_cur
    BY <1>1 DEF States, Typed
  <1>3. /\ mem[TermFrame(t)] = Blanks /\ saved[t] = [x |-> 0, y |-> 0, pos |-> 0]
        /\ prog[t] = Idle /\ alone[t] = EmptyScreen
    BY <1>1 DEF States, Untouched
  <1>4. /\ loaded \in [Frames -> Picture]
        /\ loaded[VIDEO] = Blanks
        /\ loaded[TermFrame(term_cur)] = mem[VIDEO]
        /\ \A u \in Terminals : u # term_cur => loaded[TermFrame(u)] = mem[TermFrame(u)]
    <2> HIDE DEF loaded
    <2>1. loaded = LoadFrame(t, SaveFrame(term_cur, mem))
      BY DEF loaded
    <2> QED
      BY <2>1, <1>2, <1>3, Exchanged
  <1>5. PutAll([cells |-> loaded[VIDEO], x |-> saved[t].x, y |-> saved[t].y], Banner, t) = s
    <2>1. saved[t].x = 0 /\ saved[t].y = 0
      BY <1>3
    <2> HIDE DEF loaded
    <2>2. [cells |-> loaded[VIDEO], x |-> saved[t].x, y |-> saved[t].y] = EmptyScreen
      BY <2>1, <1>4 DEF EmptyScreen
    <2> QED
      BY <2>2
  <1>6. /\ mem' = [loaded EXCEPT ![VIDEO] = s.cells]
        /\ screen_x' = s.x /\ screen_y' = s.y /\ cursor' = Index(s.x, s.y)
        /\ alone' = [alone EXCEPT ![t] = s]
    <2>1. /\ mem' = [loaded EXCEPT ![VIDEO] = s.cells]
          /\ screen_x' = s.x /\ screen_y' = s.y /\ cursor' = Index(s.x, s.y)
      <3> DEFINE shown == PutAll([cells |-> loaded[VIDEO], x |-> saved[t].x, y |-> saved[t].y],
                                 Banner, t)
      <3>1. /\ mem' = [loaded EXCEPT ![VIDEO] = shown.cells]
            /\ screen_x' = shown.x /\ screen_y' = shown.y /\ cursor' = Index(shown.x, shown.y)
        BY DEF OpenTerminal, PointTo
      <3>2. shown = s
        BY <1>5
      <3> HIDE DEF shown, s, loaded
      <3> QED
        BY <3>1, <3>2
    <2>2. alone' = [alone EXCEPT ![t] = PutAll(alone[t], Banner, t)]
      BY DEF OpenTerminal
    <2> QED
      BY <2>1, <2>2, <1>3
  <1>7. s \in Shots(NUM_COLS - 1, NUM_ROWS - 1)
    BY OpeningShots DEF Marks
  <1> HIDE DEF loaded, s
  <1>8. /\ s \in Shots(NUM_COLS, MAX_Y) /\ s \in Shots(NUM_COLS - 1, MAX_Y)
        /\ s.cells \in Picture /\ s.x \in 0..NUM_COLS /\ s.y \in 0..MAX_Y /\ s.x < NUM_COLS
        /\ s = [cells |-> s.cells, x |-> s.x, y |-> s.y]
    <2>1. s \in Shots(NUM_COLS, MAX_Y) /\ s \in Shots(NUM_COLS - 1, MAX_Y)
      BY <1>7, ShotWiden
    <2>2. s.x \in 0..NUM_COLS - 1
      BY <1>7, ShotParts
    <2> QED
      BY <2>1, <2>2, ShotParts, Bounds
  <1>9. /\ mem' \in [Frames -> Picture]
        /\ mem'[VIDEO] = s.cells
        /\ mem'[TermFrame(term_cur)] = mem[VIDEO]
        /\ \A u \in Terminals : u # term_cur => mem'[TermFrame(u)] = mem[TermFrame(u)]
    BY <1>2, <1>4, <1>6, <1>8, DistinctFrames
  <1>10. /\ \A u \in Terminals : u # t => ScreenOf(u)' = ScreenOf(u) /\ TypedIn(u)' = TypedIn(u)
         /\ \A u \in Terminals : u # term_cur => saved'[u] = saved[u]
         /\ saved' \in [Terminals -> [x : 0..NUM_COLS, y : 0..MAX_Y, pos : 0..KEY_BUFFER_SIZE]]
    BY <1>1, <1>2, <1>9, PutAway
  <1>11. \A u : u = t => ScreenOf(u)' = s /\ TypedIn(u)' = 0
    <2>1. saved[t].pos = 0
      BY <1>3
    <2> QED
      BY <2>1, <1>1, <1>6, <1>8, <1>9 DEF ScreenOf, InFront, TypedIn
  <1>12. /\ alone'[t] = s /\ alone' = [u \in Terminals |-> alone'[u]]
         /\ \A u \in Terminals : u # t => alone'[u] = alone[u]
    BY <1>2, <1>6
  <1>13. Idle \in [pc : Pcs, r : Int] /\ Idle.pc = "idle" /\ Idle.r = 0
    BY DEF Idle, Pcs
  <1>14. Typed'
    <2>1. key_buffer_pos' \in 0..KEY_BUFFER_SIZE
      BY <1>1, <1>3, Bounds
    <2>2. init' \in SUBSET Terminals /\ term_cur' \in init'
      BY <1>1, <1>2
    <2> QED
      BY <2>1, <2>2, <1>1, <1>2, <1>6, <1>8, <1>9, <1>10, <1>12 DEF Typed
  <1>15. Untouched'
    <2> SUFFICES ASSUME NEW u \in Terminals \ init'
                 PROVE  /\ mem'[TermFrame(u)] = Blanks
                        /\ saved'[u] = [x |-> 0, y |-> 0, pos |-> 0]
                        /\ prog'[u] = Idle
                        /\ alone'[u] = EmptyScreen
      BY DEF Untouched, Blanks, Idle, EmptyScreen
    <2>1. u # term_cur /\ u # t /\ u \in Terminals \ init
      BY <1>1, <1>2
    <2> QED
      BY <2>1, <1>1, <1>9, <1>10, <1>12 DEF States, Untouched
  <1>16. Placement'
    <2> SUFFICES ASSUME NEW u \in init'
                 PROVE  Placed(ScreenOf(u)', prog'[u])
      BY DEF Placement, Placed
    <2>1. CASE u = t
      <3>1. Placed(s, Idle)
        BY <1>8, <1>13 DEF Placed
      <3> QED
        BY <2>1, <3>1, <1>1, <1>3, <1>11
    <2>2. CASE u # t
      <3>1. u \in init /\ u \in Terminals
        BY <2>2, <1>1, <1>2
      <3>2. ScreenOf(u)' = ScreenOf(u) /\ prog'[u] = prog[u]
        BY <2>2, <3>1, <1>1, <1>10
      <3> QED
        BY <3>1, <3>2 DEF States, Placement
    <2> QED
      BY <2>1, <2>2
  <1>17. Prompted'
    <2> SUFFICES ASSUME user = "prompted"
                 PROVE  /\ \A u \in Terminals : alone'[u] \in Shots(NUM_COLS - 1, NUM_ROWS - 1)
                        /\ \A u \in init' :
                              /\ Pending(ScreenOf(u)', prog'[u], alone'[u], u)
                              /\ Lined(ScreenOf(u)', prog'[u], TypedIn(u)', EnterIn(u)', u)
                        /\ cursor' = Index(screen_x', screen_y')
                        /\ enter_pressed' # 1
      BY <1>1 DEF Prompted, Pending, Lined
    <2>1. enter_pressed = 0
      BY <1>1 DEF MaySwitch
    <2>2. ASSUME NEW u \in init'
          PROVE  /\ Pending(ScreenOf(u)', prog'[u], alone'[u], u)
                 /\ Lined(ScreenOf(u)', prog'[u], TypedIn(u)', EnterIn(u)', u)
      <3>1. CASE u = t
        <4>1. Pending(s, Idle, s, t)
          BY <1>13 DEF Pending
        <4>2. \A e : Lined(s, Idle, 0, e, t)
          BY <1>13 DEF Lined
        <4>3. ScreenOf(u)' = s /\ TypedIn(u)' = 0 /\ prog'[u] = Idle /\ alone'[u] = s
          BY <3>1, <1>1, <1>3, <1>11, <1>12
        <4> QED
          BY <3>1, <4>1, <4>2, <4>3
      <3>2. CASE u # t
        <4>1. u \in init /\ u \in Terminals
          BY <3>2, <1>1, <1>2
        <4>2. EnterIn(u)' = 0 /\ EnterIn(u) = 0
          BY <2>1, <1>1 DEF EnterIn
        <4>3. ScreenOf(u)' = ScreenOf(u) /\ TypedIn(u)' = TypedIn(u)
              /\ prog'[u] = prog[u] /\ alone'[u] = alone[u]
          BY <3>2, <4>1, <1>1, <1>10, <1>12
        <4>4. /\ Pending(ScreenOf(u), prog[u], alone[u], u)
              /\ Lined(ScreenOf(u), prog[u], TypedIn(u), 0, u)
          BY <4>1, <4>2 DEF States, Prompted
        <4> QED
          BY <4>2, <4>3, <4>4
      <3> QED
        BY <3>1, <3>2
    <2>3. ASSUME NEW u \in Terminals
          PROVE  alone'[u] \in Shots(NUM_COLS - 1, NUM_ROWS - 1)
      BY <1>7, <1>12 DEF States, Prompted
    <2> QED
      BY <1>1, <1>6, <2>1, <2>2, <2>3
  <1> QED
    BY <1>14, <1>15, <1>16, <1>17 DEF States
-----------------------------------------------------------------------------
(***************************************************************************)
(* The invariant and the theorems.                                         *)
(***************************************************************************)
\* The start: the banner of terminal 1, and the tables of init_terminals().
LEMMA StartInv == Init => ScreenInv
  <1> SUFFICES ASSUME Init
               PROVE  ScreenInv
    OBVIOUS
  <1>1. Opened \in Shots(NUM_COLS - 1, NUM_ROWS - 1)
    BY Bounds, OpeningShots DEF Opened, Marks
  <1>2. /\ Opened \in Shots(NUM_COLS, MAX_Y) /\ Opened.x < NUM_COLS
        /\ Opened.cells \in Picture /\ Opened.x \in 0..NUM_COLS /\ Opened.y \in 0..MAX_Y
        /\ Opened = [cells |-> Opened.cells, x |-> Opened.x, y |-> Opened.y]
    <2>1. Opened \in Shots(NUM_COLS, MAX_Y)
      BY <1>1, ShotWiden
    <2>2. Opened.x \in 0..NUM_COLS - 1
      BY <1>1, ShotParts
    <2> QED
      BY <2>1, <2>2, ShotParts, Bounds
  <1>3. /\ user \in Users /\ mem = [f \in Frames |-> IF f = VIDEO THEN Opened.cells ELSE Blanks]
        /\ screen_x = Opened.x /\ screen_y = Opened.y /\ cursor = Index(Opened.x, Opened.y)
        /\ term_cur = 1 /\ init = {1}
        /\ saved = [t \in Terminals |-> [x |-> 0, y |-> 0, pos |-> 0]]
        /\ key_buffer_pos = 0 /\ enter_pressed = 0 /\ prog = [t \in Terminals |-> Idle]
        /\ alone = [t \in Terminals |-> IF t = 1 THEN Opened ELSE EmptyScreen]
    BY DEF Init
  <1>4. Idle \in [pc : Pcs, r : Int] /\ Idle.pc = "idle" /\ Idle.r = 0
    BY DEF Idle, Pcs
  <1>5. /\ mem[VIDEO] = Opened.cells /\ mem \in [Frames -> Picture]
        /\ \A t \in Terminals : mem[TermFrame(t)] = Blanks
    BY <1>2, <1>3, DistinctFrames, BlankPicture
  <1>6. Typed
    <2>1. saved \in [Terminals -> [x : 0..NUM_COLS, y : 0..MAX_Y, pos : 0..KEY_BUFFER_SIZE]]
      BY <1>3, Bounds
    <2>2. alone = [t \in Terminals |-> alone[t]]
      BY <1>3
    <2>3. prog \in [Terminals -> [pc : Pcs, r : Int]]
      BY <1>3, <1>4
    <2> QED
      BY <2>1, <2>2, <2>3, <1>2, <1>3, <1>5, Bounds DEF Typed
  <1>7. Tables
    <2>1. pageDir = [e \in Entries |->
                     CASE e = "low"           -> Table(PageTable, FALSE)
                       [] e = "kernel"        -> Block(KernelFrame, FALSE)
                       [] e = "TERM_MEM"      -> Table(UserTable, TRUE)
                       [] e = "VIRTUAL_START" -> Block(ProgramFrame(1), TRUE)
                       [] OTHER               -> Absent]
      BY DEF Init
    <2>2. /\ pageDir["VIRTUAL_START"] = Block(ProgramFrame(1), TRUE)
          /\ pageDir["TERM_MEM"] = Table(UserTable, TRUE)
          /\ pageDir["VIRTUAL_END"] = Absent
      BY <2>1 DEF Entries
    <2>3. /\ userTable[0] = Absent
          /\ \A t \in 1..3 : userTable[t] = Block(TermFrame(t), TRUE)
      BY DEF Init
    <2>4. pageDir = [e \in Entries |-> pageDir[e]]
      BY <2>1
    <2> QED
      BY <2>2, <2>3, <2>4, <1>3 DEF Tables
  <1>8. Untouched
    BY <1>3, <1>5 DEF Untouched
  <1>9. ScreenOf(1) = Opened /\ TypedIn(1) = 0 /\ EnterIn(1) = 0 /\ prog[1] = Idle
        /\ alone[1] = Opened
    BY <1>2, <1>3, <1>5, Bounds DEF ScreenOf, InFront, TypedIn, EnterIn
  <1>10. Placement
    <2>1. Placed(Opened, Idle)
      BY <1>2, <1>4 DEF Placed
    <2> QED
      BY <2>1, <1>3, <1>9 DEF Placement
  <1>11. Prompted
    <2>1. Pending(Opened, Idle, Opened, 1) /\ Lined(Opened, Idle, 0, 0, 1)
      BY <1>4 DEF Pending, Lined
    <2>2. \A t \in Terminals : alone[t] \in Shots(NUM_COLS - 1, NUM_ROWS - 1)
      <3>1. EmptyScreen \in Shots(NUM_COLS - 1, NUM_ROWS - 1)
        BY Bounds, OpeningShots DEF Marks
      <3> QED
        BY <3>1, <1>1, <1>3
    <2> QED
      BY <2>1, <2>2, <1>3, <1>9 DEF Prompted
  <1> QED
    BY <1>6, <1>7, <1>8, <1>10, <1>11 DEF ScreenInv

\* A step that does not touch the page tables keeps them for the same terminal.
LEMMA TablesKept ==
    Tables /\ UNCHANGED <<pageVars, term_cur>> => Tables'
  BY DEF Tables, pageVars, Block, Table, Absent, TermFrame, ProgramFrame, UserTable,
         VIDEO, Nowhere, Entries

\* The remap of a switch changes the program's block only.
LEMMA RemapTables ==
    ASSUME Tables, NEW t, term_cur' = t, remap("VIRTUAL_START", ProgramFrame(t))
    PROVE  Tables'
  <1> DEFINE new == Block(ProgramFrame(t), TRUE)
  <1>1. /\ pageDir = [e \in Entries |-> pageDir[e]] /\ userTable' = userTable
        /\ pageDir' = [pageDir EXCEPT !["VIRTUAL_START"] = new]
    BY DEF Tables, remap
  <1> HIDE DEF new
  <1>2. /\ pageDir' = [e \in Entries |-> pageDir'[e]]
        /\ pageDir'["VIRTUAL_START"] = new
        /\ pageDir'["TERM_MEM"] = pageDir["TERM_MEM"]
        /\ pageDir'["VIRTUAL_END"] = pageDir["VIRTUAL_END"]
    BY <1>1 DEF Entries
  <1>3. /\ pageDir'["VIRTUAL_START"] = Block(ProgramFrame(term_cur'), TRUE)
        /\ pageDir'["TERM_MEM"] = Table(UserTable, TRUE)
        /\ \A u \in 1..3 : userTable'[u] = Block(TermFrame(u), TRUE)
        /\ pageDir'["VIRTUAL_END"] \in {Absent, Table(UserTable, TRUE)}
        /\ userTable'[0] \in {Absent, Block(VIDEO, TRUE)}
        /\ pageDir' = [e \in Entries |-> pageDir'[e]]
    BY <1>1, <1>2 DEF Tables, new
  <1> QED
    BY <1>3 DEF Tables, Block, Table, Absent, TermFrame, ProgramFrame, UserTable, VIDEO,
                Nowhere, Entries

\* vidmap() takes page 0 and no terminal's.
LEMMA VidmapTables == Tables /\ vidmap => Tables'
  <1> SUFFICES ASSUME Tables, vidmap
               PROVE  Tables'
    OBVIOUS
  <1> DEFINE tab == Table(UserTable, TRUE)
  <1>1. /\ pageDir = [e \in Entries |-> pageDir[e]] /\ term_cur' = term_cur
        /\ pageDir' = [pageDir EXCEPT !["VIRTUAL_END"] = tab]
        /\ userTable' = [p \in 0..3 |-> IF p = 0 THEN Block(VIDEO, TRUE) ELSE userTable[p]]
    <2>1. remapToPages("VIRTUAL_END", [p \in {0} |-> VIDEO]) /\ term_cur' = term_cur
      BY DEF vidmap, remapWithPageTable, termVars
    <2>2. /\ pageDir' = [pageDir EXCEPT !["VIRTUAL_END"] = tab]
          /\ userTable' = [p \in 0..3 |-> IF p \in DOMAIN [q \in {0} |-> VIDEO]
                                          THEN Block([q \in {0} |-> VIDEO][p], TRUE)
                                          ELSE userTable[p]]
      BY <2>1 DEF remapToPages
    <2>3. \A p \in 0..3 : /\ p \in DOMAIN [q \in {0} |-> VIDEO] <=> p = 0
                          /\ p = 0 => [q \in {0} |-> VIDEO][p] = VIDEO
      OBVIOUS
    <2> QED
      BY <2>1, <2>2, <2>3 DEF Tables
  <1> HIDE DEF tab
  <1>2. /\ pageDir' = [e \in Entries |-> pageDir'[e]]
        /\ pageDir'["VIRTUAL_START"] = pageDir["VIRTUAL_START"]
        /\ pageDir'["TERM_MEM"] = pageDir["TERM_MEM"]
        /\ pageDir'["VIRTUAL_END"] = tab
    BY <1>1 DEF Entries
  <1>3. userTable'[0] = Block(VIDEO, TRUE) /\ \A u \in 1..3 : userTable'[u] = userTable[u]
    BY <1>1
  <1>4. /\ pageDir'["VIRTUAL_START"] = Block(ProgramFrame(term_cur'), TRUE)
        /\ pageDir'["TERM_MEM"] = Table(UserTable, TRUE)
        /\ \A u \in 1..3 : userTable'[u] = Block(TermFrame(u), TRUE)
        /\ pageDir'["VIRTUAL_END"] \in {Absent, Table(UserTable, TRUE)}
        /\ userTable'[0] \in {Absent, Block(VIDEO, TRUE)}
        /\ pageDir' = [e \in Entries |-> pageDir'[e]]
    BY <1>1, <1>2, <1>3 DEF Tables, tab
  <1> QED
    BY <1>4 DEF Tables, Block, Table, Absent, TermFrame, ProgramFrame, UserTable, VIDEO,
                Nowhere, Entries

\* A step that changes nothing but the page tables keeps the rest.
LEMMA StatesKept ==
    States /\ UNCHANGED <<user, mem, posVars, termVars, lineVars, prog, alone>> => States'
  <1> SUFFICES ASSUME States, UNCHANGED <<user, mem, posVars, termVars, lineVars, prog, alone>>
               PROVE  States'
    OBVIOUS
  <1>1. /\ mem' = mem /\ screen_x' = screen_x /\ screen_y' = screen_y /\ cursor' = cursor
        /\ prog' = prog /\ alone' = alone
        /\ UNCHANGED <<user, termVars, lineVars>>
    BY DEF posVars
  <1>2. /\ mem' = [mem EXCEPT ![VIDEO] = InFront.cells]
        /\ alone' = [alone EXCEPT ![term_cur] = alone[term_cur]]
        /\ prog' = [prog EXCEPT ![term_cur] = prog[term_cur]]
        /\ screen_x' = InFront.x /\ screen_y' = InFront.y
    BY <1>1, Unchanged, FrontSound DEF States, Typed
  <1>3. Sound(InFront, prog[term_cur], alone[term_cur], key_buffer_pos, enter_pressed, cursor')
    BY <1>1, FrontSound
  <1> QED
    BY <1>1, <1>2, <1>3, StoreStep

\* A key keeps the invariant.
LEMMA PressInv == ScreenInv /\ Press => ScreenInv'
  <1> SUFFICES ASSUME ScreenInv, Press
               PROVE  ScreenInv'
    OBVIOUS
  <1>1. States /\ Tables
    BY DEF ScreenInv, States
  <1>2. CASE PressChar
    <2>1. UNCHANGED <<pageVars, term_cur>>
      BY <1>2 DEF PressChar, termVars
    <2> QED
      BY <1>1, <1>2, <2>1, PressCharStep, TablesKept DEF ScreenInv, States
  <1>3. CASE PressCtrlL
    <2>1. UNCHANGED <<pageVars, term_cur>>
      BY <1>3 DEF PressCtrlL, termVars
    <2> QED
      BY <1>1, <1>3, <2>1, PressCtrlLStep, TablesKept DEF ScreenInv, States
  <1>4. CASE PressEnter
    <2>1. UNCHANGED <<pageVars, term_cur>>
      BY <1>4 DEF PressEnter, termVars
    <2> QED
      BY <1>1, <1>4, <2>1, PressEnterStep, TablesKept DEF ScreenInv, States
  <1>5. CASE PressBackspace
    <2>1. UNCHANGED <<pageVars, term_cur>>
      BY <1>5 DEF PressBackspace, termVars
    <2> QED
      BY <1>1, <1>5, <2>1, PressBackspaceStep, TablesKept DEF ScreenInv, States
  <1>6. ASSUME NEW t \in Terminals, Switch(t)
        PROVE  ScreenInv'
    <2>1. Tables'
      BY <1>1, <1>6, RemapTables DEF Switch
    <2> QED
      BY <1>1, <1>6, <2>1, SwitchStep DEF ScreenInv, States
  <1>7. ASSUME NEW t \in Terminals, OpenTerminal(t)
        PROVE  ScreenInv'
    <2>1. Tables'
      BY <1>1, <1>7, RemapTables DEF OpenTerminal
    <2> QED
      BY <1>1, <1>7, <2>1, OpenTerminalStep DEF ScreenInv, States
  <1>8. ASSUME NEW t \in Terminals, RefuseOpen(t)
        PROVE  ScreenInv'
    <2>1. UNCHANGED <<pageVars, term_cur>>
      BY <1>8 DEF RefuseOpen, termVars
    <2> QED
      BY <1>1, <1>8, <2>1, RefuseOpenStep, TablesKept DEF ScreenInv, States
  <1> QED
    BY <1>2, <1>3, <1>4, <1>5, <1>6, <1>7, <1>8 DEF Press

\* A step of a program keeps the invariant.
LEMMA RunInv == ScreenInv /\ Run => ScreenInv'
  <1> SUFFICES ASSUME ScreenInv, Run
               PROVE  ScreenInv'
    OBVIOUS
  <1>1. States /\ Tables
    BY DEF ScreenInv, States
  <1>2. CASE putc
    <2>1. States'
      BY <1>1, <1>2, LoadRowStep, LoadColumnStep, StoreCellStep, LoadXStep, StoreXStep,
         TestMarginStep, TestBottomStep, LoadYStep, StoreYStep, ScrollRowStep, HomeStep,
         MoveCursorStep DEF putc
    <2>2. UNCHANGED <<pageVars, term_cur>>
      BY <1>2 DEF putc, LoadRow, LoadColumn, StoreCell, LoadX, StoreX, TestMargin, TestBottom,
                  LoadY, StoreY, ScrollRow, Home, MoveCursor, Compute, Rest, termVars
    <2> QED
      BY <1>1, <2>1, <2>2, TablesKept DEF ScreenInv, States
  <1>3. ASSUME NEW c \in {NEWLINE, Printable}, BeginPutc(c)
        PROVE  ScreenInv'
    <2>1. UNCHANGED <<pageVars, term_cur>>
      BY <1>3 DEF BeginPutc, Rest, termVars
    <2> QED
      BY <1>1, <1>3, <2>1, BeginPutcStep, TablesKept DEF ScreenInv, States
  <1>4. CASE StartRead
    <2>1. UNCHANGED <<pageVars, term_cur>>
      BY <1>4 DEF StartRead, Compute, Rest, termVars
    <2> QED
      BY <1>1, <1>4, <2>1, StartReadStep, TablesKept DEF ScreenInv, States
  <1>5. CASE EndRead
    <2>1. UNCHANGED <<pageVars, term_cur>>
      BY <1>5 DEF EndRead, termVars
    <2> QED
      BY <1>1, <1>5, <2>1, EndReadStep, TablesKept DEF ScreenInv, States
  <1>6. CASE vidmap
    <2>1. UNCHANGED <<user, mem, posVars, termVars, lineVars, prog, alone>>
      BY <1>6 DEF vidmap
    <2> QED
      BY <1>1, <1>6, <2>1, StatesKept, VidmapTables DEF ScreenInv, States
  <1>7. ASSUME NEW i \in DrawCells, Draw(i)
        PROVE  ScreenInv'
    <2>1. UNCHANGED <<pageVars, term_cur>>
      BY <1>7 DEF Draw, Rest, termVars
    <2> QED
      BY <1>1, <1>7, <2>1, DrawStep, TablesKept DEF ScreenInv, States
  <1> QED
    BY <1>2, <1>3, <1>4, <1>5, <1>6, <1>7 DEF Run

\* The invariant holds in every state: between any two instructions of a putc or
\* a scroll, and after any switch, every terminal's screen is the one it would
\* have alone up to what is left of its own program's putc.
THEOREM Invariant == Spec => []ScreenInv
  <1>1. ScreenInv /\ [Next]_vars => ScreenInv'
    <2> SUFFICES ASSUME ScreenInv, [Next]_vars
                 PROVE  ScreenInv'
      OBVIOUS
    <2>1. CASE Next
      BY <2>1, PressInv, RunInv DEF Next
    <2>2. CASE UNCHANGED vars
      <3>1. States /\ Tables
        BY DEF ScreenInv, States
      <3>2. /\ UNCHANGED <<user, mem, posVars, termVars, lineVars, prog, alone>>
            /\ UNCHANGED <<pageVars, term_cur>>
        BY <2>2 DEF vars, termVars
      <3> QED
        BY <3>1, <3>2, StatesKept, TablesKept DEF ScreenInv, States
    <2> QED
      BY <2>1, <2>2
  <1> QED
    BY <1>1, StartInv, PTL DEF Spec

\* Every variable holds a value of its kind, whoever types and whenever: the
\* position never leaves the columns of the screen by more than the margin, and
\* no register of a putc leaves the cells below it.
THEOREM TypeCorrect == Spec => []TypeOK
  <1>1. ScreenInv => TypeOK
    <2> SUFFICES ASSUME ScreenInv
                 PROVE  TypeOK
      OBVIOUS
    <2>1. States
      BY DEF ScreenInv, States
    <2>2. 0..NUM_COLS \subseteq -1..NUM_COLS+1 /\ 0..NUM_COLS - 1 \subseteq -1..NUM_COLS+1
          /\ 0..NUM_ROWS - 1 \subseteq 0..MAX_Y
      BY Bounds
    <2>3. InFront \in Screens
      <3>1. InFront \in Shots(NUM_COLS, MAX_Y)
        BY <2>1, FrontSound
      <3> QED
        BY <3>1, <2>2 DEF Shots, Screens, Picture, Marks
    <2>4. ASSUME NEW t \in Terminals
          PROVE  /\ mem[TermFrame(t)] \in [Cells -> {BLANK} \cup Terminals]
                 /\ user = "prompted" => alone[t] \in Screens
                 /\ saved[t].pos \in 0..KEY_BUFFER_SIZE
                 /\ prog[t].r \in -1..Index(NUM_COLS + 1, MAX_Y)
      <3>1. mem[TermFrame(t)] \in [Cells -> {BLANK} \cup Terminals]
        BY <2>1, DistinctFrames DEF States, Typed, Picture, Marks
      <3>2. user = "prompted" => alone[t] \in Screens
        <4>1. user = "prompted" => alone[t] \in Shots(NUM_COLS - 1, NUM_ROWS - 1)
          BY <2>1 DEF States, Prompted
        <4> QED
          BY <4>1, <2>2 DEF Shots, Screens, Picture, Marks
      <3>3. saved[t].pos \in 0..KEY_BUFFER_SIZE
        BY <2>1 DEF States, Typed
      <3>4. prog[t].r \in -1..Index(NUM_COLS + 1, MAX_Y)
        <4>1. prog[t] \in [pc : Pcs, r : Int]
          BY <2>1 DEF States, Typed
        <4>2. /\ MAX_Y \in Int /\ NUM_COLS + 1 \in Int /\ NUM_COLS - 1 \in Int /\ 0 \in Int
          BY Bounds
        <4>3. /\ Index(NUM_COLS + 1, MAX_Y) = Index(0, MAX_Y) + (NUM_COLS + 1)
              /\ Index(NUM_COLS - 1, MAX_Y) = Index(0, MAX_Y) + (NUM_COLS - 1)
              /\ Index(0, MAX_Y) \in Int
          BY ONLY <4>2, Rows
        <4>4. Index(0, MAX_Y) >= MAX_Y /\ Index(0, MAX_Y) >= 0
          <5>1. NUM_COLS * MAX_Y >= MAX_Y
            BY Bounds
          <5> QED
            BY <5>1, Bounds DEF Index
        <4>5. CASE t \in init
          <5>1. Placed(ScreenOf(t), prog[t])
            BY <4>5, <2>1 DEF States, Placement
          <5>2. \/ prog[t].r \in 0..NUM_COLS - 1 \/ prog[t].r \in 0..NUM_ROWS - 1
                \/ prog[t].r \in 0..MAX_Y \/ prog[t].r = 0
                \/ prog[t].r \in 0..Index(0, MAX_Y) \/ prog[t].r \in 0..Index(NUM_COLS - 1, MAX_Y)
            BY <5>1, <4>1 DEF Placed, Pcs, Margins
          <5> QED
            BY <5>2, <4>1, <4>3, <4>4, Bounds
        <4>6. CASE t \notin init
          <5>1. prog[t].r = 0
            BY <4>6, <2>1 DEF States, Untouched, Idle
          <5> QED
            BY <5>1, <4>3, <4>4, Bounds
        <4> QED
          BY <4>5, <4>6
      <3> QED
        BY <3>1, <3>2, <3>3, <3>4
    <2>5. /\ user \in Users /\ term_cur \in init /\ init \subseteq Terminals
          /\ key_buffer_pos \in 0..KEY_BUFFER_SIZE /\ enter_pressed \in {0, 1}
      BY <2>1 DEF States, Typed
    <2> QED
      BY <2>3, <2>4, <2>5 DEF TypeOK
  <1> QED
    BY <1>1, Invariant, PTL

\* A user who types only at prompts and switches terminals between any two
\* instructions finds each terminal, whenever its program is between two
\* characters, exactly as it would be alone on the machine, with the cursor at
\* the next character's place: putc, do_enter, scroll, terminal_save and
\* terminal_load lose and mix nothing.
THEOREM Alone == Spec => []AsAlone
  <1>1. ScreenInv => AsAlone
    <2> SUFFICES ASSUME ScreenInv, user = "prompted", NEW t \in init,
                        prog[t].pc \in {"idle", "read"}
                 PROVE  /\ ScreenOf(t) = alone[t]
                        /\ t = term_cur => cursor = Index(screen_x, screen_y)
      BY DEF AsAlone
    <2> QED
      BY DEF ScreenInv, Prompted, Pending
  <1> QED
    BY <1>1, Invariant, PTL

\* While a program reads, the characters in the line buffer of its terminal are
\* the ones left of the cursor, through edits, clears and switches.
THEOREM Line == Spec => []LineShown
  <1>1. ScreenInv => LineShown
    <2> SUFFICES ASSUME ScreenInv, user = "prompted", NEW t \in init,
                        prog[t].pc = "read", ~(t = term_cur /\ enter_pressed = 1)
                 PROVE  /\ TypedIn(t) <= ScreenOf(t).x
                        /\ \A k \in 1..TypedIn(t) :
                              ScreenOf(t).cells[Index(ScreenOf(t).x, ScreenOf(t).y) - k] = t
      BY DEF LineShown, TypedIn
    <2>1. EnterIn(t) = 0
      BY DEF EnterIn, ScreenInv, Typed
    <2>2. Lined(ScreenOf(t), prog[t], TypedIn(t), EnterIn(t), t)
      BY DEF ScreenInv, Prompted
    <2> QED
      BY <2>1, <2>2 DEF Lined
  <1> QED
    BY <1>1, Invariant, PTL

\* The program in front and the terminals' frames stay mapped where
\* terminal_save and terminal_load look for them, whatever vidmap has done to
\* the page table they share, and the window shows the video memory or faults.
THEOREM Mapping == Spec => []Mapped
  <1>1. ScreenInv => Mapped
    BY Reaches DEF ScreenInv
  <1> QED
    BY <1>1, Invariant, PTL
=============================================================================
