------------------------------- MODULE Screen -------------------------------
(***************************************************************************)
(* The screen: what programs print, what the keyboard handler echoes, and  *)
(* the terminals that take turns in the one video memory (lib.c,           *)
(* terminal.c, keyboard.c, vidmap of syscalls.c).                          *)
(*                                                                         *)
(* The handler runs behind an interrupt gate: a key, with its echo or its  *)
(* terminal switch, is one action.  A program prints with interrupts       *)
(* enabled: every access of its putc(), do_enter() and scroll() to the     *)
(* shared screen_x, screen_y and video memory is an action (scroll() a row *)
(* at a time), and a key may come between any two.  Only the program of    *)
(* the terminal in front runs; a terminal has one program here, and        *)
(* TerminalStacks and Processes say which.  A cell holds the terminal its  *)
(* character was printed or typed in, or BLANK, a blank or a null.         *)
(*                                                                         *)
(* alone is history: each terminal's screen had it the machine to itself.  *)
(***************************************************************************)
EXTENDS Paging, Sequences

CONSTANTS
    Terminals,
    NUM_ROWS, NUM_COLS,
    KEY_BUFFER_SIZE,
    Banner, Prompt, Message,  \* what terminal_start, clear and switch_terminal print
    DrawCells,                \* the cells programs draw through the window
    MAX_Y,                    \* bound: how far below the screen screen_y is followed
    Users                     \* "hasty" types at any time, "prompted" while the
                              \* program in front reads, and within the row

NEWLINE == "newline"
Printable == "printable"
BLANK == 0

ASSUME ScreenAssumption ==
    /\ Terminals \subseteq 1..3 /\ 1 \in Terminals
    /\ NUM_ROWS \in Nat /\ NUM_ROWS > 1
    /\ NUM_COLS \in Nat /\ NUM_COLS > 1
    /\ KEY_BUFFER_SIZE \in Nat \ {0}
    /\ {Banner, Prompt, Message} \subseteq Seq({NEWLINE, Printable})
    /\ DrawCells \subseteq 0..NUM_ROWS * NUM_COLS - 1
    /\ MAX_Y \in Nat /\ MAX_Y >= NUM_ROWS
    /\ Users \subseteq {"hasty", "prompted"}

VARIABLES
    user,
    mem,              \* the video memory and the frames of the terminals
    screen_x, screen_y,
    cursor,           \* the cursor registers of the display
    term_cur,
    init,             \* the terminals with init = 1
    saved,            \* terminal[]: pos_x, pos_y and key_buffer_pos
    key_buffer_pos,
    enter_pressed,
    prog,             \* the program of each terminal: its place in putc() or read()
    alone

posVars == <<screen_x, screen_y, cursor>>
lineVars == <<key_buffer_pos, enter_pressed>>
termVars == <<term_cur, init, saved>>
vars == <<user, mem, posVars, termVars, lineVars, prog, alone, pageVars>>

Cells == 0..NUM_ROWS * NUM_COLS - 1
Blanks == [i \in Cells |-> BLANK]
Index(x, y) == NUM_COLS * y + x
-----------------------------------------------------------------------------
(***************************************************************************)
(* The routines of lib.c on a screen s = [cells, x, y], run to completion. *)
(***************************************************************************)
\* A store outside the 80 x 25 cells is not seen.
StoreAt(cells, i, mark) == IF i \in Cells THEN [cells EXCEPT ![i] = mark] ELSE cells

\* One turn of scroll()'s outer loop.
RowUp(cells, row) ==
    [i \in Cells |-> IF i \in Index(0, row)..Index(NUM_COLS - 1, row)
                     THEN cells[i + NUM_COLS] ELSE cells[i]]

\* Mutant: the last line is not cleared.
LastRowKept(cells) == cells

LastRowBlank(cells) ==
    [i \in Cells |-> IF i >= Index(0, NUM_ROWS - 1) THEN BLANK ELSE cells[i]]

Scrolled(cells) ==
    [i \in Cells |-> IF i < Index(0, NUM_ROWS - 1) THEN cells[i + NUM_COLS] ELSE BLANK]

Below(y) == IF y < MAX_Y THEN y + 1 ELSE y

DoEnter(s) ==
    IF s.y = NUM_ROWS - 1
    THEN [cells |-> Scrolled(s.cells), x |-> 0, y |-> NUM_ROWS - 1]
    ELSE [s EXCEPT !.x = 0, !.y = Below(@)]

Putc(s, c, mark) ==
    LET after == [s EXCEPT !.cells = StoreAt(@, Index(s.x, s.y), mark), !.x = @ + 1]
    IN  IF c = NEWLINE \/ after.x >= NUM_COLS
        THEN DoEnter(IF c = NEWLINE THEN s ELSE after)
        ELSE after

\* printf() of a text
PutAll(s, text, mark) ==
    LET put[n \in 0..Len(text)] == IF n = 0 THEN s ELSE Putc(put[n - 1], text[n], mark)
    IN  put[Len(text)]

DoBackspace(s) ==
    LET before == IF s.x = 0 /\ s.y > 0 THEN [s EXCEPT !.x = NUM_COLS - 2, !.y = @ - 1]
                  ELSE [s EXCEPT !.x = @ - 1]
    IN  [before EXCEPT !.cells = StoreAt(@, Index(before.x, before.y), BLANK)]

EmptyScreen == [cells |-> Blanks, x |-> 0, y |-> 0]

Clear(mark) == PutAll(EmptyScreen, Prompt, mark)
-----------------------------------------------------------------------------
Idle == [pc |-> "idle", r |-> 0]

Frames == {VIDEO} \cup {TermFrame(t) : t \in Terminals}

Opened == PutAll(EmptyScreen, Banner, 1)

\* init_terminals() has mapped and blanked the frames, and started terminal 1.
Init ==
    /\ user \in Users
    /\ mem = [f \in Frames |-> IF f = VIDEO THEN Opened.cells ELSE Blanks]
    /\ screen_x = Opened.x
    /\ screen_y = Opened.y
    /\ cursor = Index(Opened.x, Opened.y)
    /\ term_cur = 1
    /\ init = {1}
    /\ saved = [t \in Terminals |-> [x |-> 0, y |-> 0, pos |-> 0]]
    /\ key_buffer_pos = 0
    /\ enter_pressed = 0
    /\ prog = [t \in Terminals |-> Idle]
    /\ alone = [t \in Terminals |-> IF t = 1 THEN Opened ELSE EmptyScreen]
    /\ pageDir = [e \in Entries |->
                     CASE e = "low"           -> Table(PageTable, FALSE)
                       [] e = "kernel"        -> Block(KernelFrame, FALSE)
                       [] e = "TERM_MEM"      -> Table(UserTable, TRUE)
                       [] e = "VIRTUAL_START" -> Block(ProgramFrame(1), TRUE)
                       [] OTHER               -> Absent]
    /\ pageTable = [p \in {VID_MEM_LOC} |-> Block(VIDEO, FALSE)]
    /\ userTable = [p \in 0..3 |-> IF p = 0 THEN Absent ELSE Block(TermFrame(p), TRUE)]

InFront == [cells |-> mem[VIDEO], x |-> screen_x, y |-> screen_y]

\* update_cursor_loc()
PointTo(x, y) == cursor' = Index(x, y)

\* A routine of lib.c, run by the interrupt handler to its end.
Show(Routine(_)) ==
    LET s == Routine(InFront) IN
    /\ mem' = [mem EXCEPT ![VIDEO] = s.cells]
    /\ screen_x' = s.x
    /\ screen_y' = s.y
    /\ PointTo(s.x, s.y)
    /\ alone' = [alone EXCEPT ![term_cur] = Routine(@)]
-----------------------------------------------------------------------------
(***************************************************************************)
(* Keys and their echo.  The arrow keys are in Keyboard.                   *)
(***************************************************************************)
MayType == user = "prompted" => prog[term_cur].pc = "read" /\ enter_pressed = 0

\* Mutant: the size is tested with <=.
HasRoomLate == key_buffer_pos <= KEY_BUFFER_SIZE

HasRoom == key_buffer_pos < KEY_BUFFER_SIZE

\* key_pressed_handler() for a character
PressChar ==
    /\ MayType
    /\ user = "prompted" => screen_x + 1 < NUM_COLS
    /\ HasRoom
    /\ key_buffer_pos' = key_buffer_pos + 1
    /\ Show(LAMBDA s : Putc(s, Printable, term_cur))
    /\ UNCHANGED <<user, termVars, enter_pressed, prog, pageVars>>

\* key_pressed_handler() for Ctrl+L
PressCtrlL ==
    /\ MayType
    /\ key_buffer_pos' = 0
    /\ Show(LAMBDA s : Clear(term_cur))
    /\ UNCHANGED <<user, termVars, enter_pressed, prog, pageVars>>

\* handle_enter()
PressEnter ==
    /\ MayType
    /\ enter_pressed' = 1
    /\ Show(DoEnter)
    /\ UNCHANGED <<user, termVars, key_buffer_pos, prog, pageVars>>

\* handle_backpace(); left of the top left corner it is not followed.
PressBackspace ==
    /\ MayType
    /\ key_buffer_pos > 0
    /\ InFront.x > 0 \/ InFront.y > 0
    /\ key_buffer_pos' = key_buffer_pos - 1
    /\ Show(DoBackspace)
    /\ UNCHANGED <<user, termVars, enter_pressed, prog, pageVars>>

SaveFrame(t, frames) ==
    [frames EXCEPT ![Reach("TERM_MEM", t, FALSE)] = frames[VIDEO]]

LoadFrame(t, frames) ==
    [frames EXCEPT ![VIDEO] = frames[Reach("TERM_MEM", t, FALSE)]]

\* Mutant: the cursor's place is not saved.
SavedCorner == [x |-> 0, y |-> 0, pos |-> key_buffer_pos]

SavedHere == [x |-> screen_x, y |-> screen_y, pos |-> key_buffer_pos]

\* terminal_save() of the terminal in front.
terminal_save == saved' = [saved EXCEPT ![term_cur] = SavedHere]

MaySwitch == user = "prompted" => enter_pressed = 0

\* switch_terminal() to a terminal that is open: terminal_save, terminal_load.
Switch(t) ==
    /\ MaySwitch
    /\ t # term_cur /\ t \in init
    /\ terminal_save
    /\ term_cur' = t
    /\ mem' = LoadFrame(t, SaveFrame(term_cur, mem))
    /\ screen_x' = saved[t].x
    /\ screen_y' = saved[t].y
    /\ PointTo(saved[t].x, saved[t].y)
    /\ key_buffer_pos' = saved[t].pos
    /\ remap("VIRTUAL_START", ProgramFrame(t))
    /\ UNCHANGED <<user, init, enter_pressed, prog, alone>>

\* switch_terminal() to one that is not: terminal_save, and terminal_start, which
\* loads the blank frame, prints the banner and executes the shell.
OpenTerminal(t) ==
    LET loaded == LoadFrame(t, SaveFrame(term_cur, mem))
        shown == PutAll([cells |-> loaded[VIDEO], x |-> saved[t].x, y |-> saved[t].y],
                        Banner, t)
    IN
    /\ MaySwitch
    /\ t \notin init
    /\ terminal_save
    /\ term_cur' = t
    /\ init' = init \cup {t}
    /\ mem' = [loaded EXCEPT ![VIDEO] = shown.cells]
    /\ screen_x' = shown.x
    /\ screen_y' = shown.y
    /\ PointTo(shown.x, shown.y)
    /\ key_buffer_pos' = saved[t].pos
    /\ alone' = [alone EXCEPT ![t] = PutAll(@, Banner, t)]
    /\ remap("VIRTUAL_START", ProgramFrame(t))
    /\ UNCHANGED <<user, enter_pressed, prog>>

\* switch_terminal() when no process is left for another shell: a message, on the
\* terminal in front.  The prompted user tries it at an empty prompt.
RefuseOpen(t) ==
    /\ MayType
    /\ user = "prompted" => key_buffer_pos = 0
    /\ t \notin init
    /\ Show(LAMBDA s : PutAll(s, Message, term_cur))
    /\ UNCHANGED <<user, termVars, lineVars, prog, pageVars>>

Press ==
    \/ PressChar
    \/ PressCtrlL
    \/ PressEnter
    \/ PressBackspace
    \/ \E t \in Terminals : Switch(t) \/ OpenTerminal(t) \/ RefuseOpen(t)
-----------------------------------------------------------------------------
(***************************************************************************)
(* The program in front: terminal_write(), a character at a time.  r is    *)
(* the register an expression is computed in, or scroll()'s row.           *)
(***************************************************************************)
At(pc) == prog[term_cur].pc = pc
Register == prog[term_cur].r

Goto(pc, r) == prog' = [prog EXCEPT ![term_cur] = [pc |-> pc, r |-> r]]

Rest == UNCHANGED <<user, termVars, lineVars, pageVars>>

Compute(pc, next, r) ==
    /\ At(pc)
    /\ Goto(next, r)
    /\ UNCHANGED <<mem, posVars, alone>> /\ Rest

\* putc(c) begins.
BeginPutc(c) ==
    /\ At("idle")
    /\ Goto(IF c = NEWLINE THEN "enter" ELSE "row", 0)
    /\ alone' = [alone EXCEPT ![term_cur] = Putc(@, c, term_cur)]
    /\ UNCHANGED <<mem, posVars>> /\ Rest

\* video_mem + ((NUM_COLS * screen_y + screen_x) << 1)
LoadRow == Compute("row", "column", Index(0, screen_y))

LoadColumn == Compute("column", "store", Register + screen_x)

StoreCell ==
    /\ At("store")
    /\ mem' = [mem EXCEPT ![VIDEO] = StoreAt(@, Register, term_cur)]
    /\ Goto("x", 0)
    /\ UNCHANGED <<posVars, alone>> /\ Rest

\* screen_x++
LoadX == Compute("x", "x++", screen_x)

StoreX ==
    /\ At("x++")
    /\ screen_x' = Register + 1
    /\ Goto("margin", 0)
    /\ UNCHANGED <<mem, screen_y, cursor, alone>> /\ Rest

AtMargin == screen_x >= NUM_COLS

TestMargin == Compute("margin", IF AtMargin THEN "enter" ELSE "cursor", 0)

\* do_enter()
TestBottom == Compute("enter", IF screen_y = NUM_ROWS - 1 THEN "scroll" ELSE "y", 0)

LoadY == Compute("y", "y++", screen_y)

StoreY ==
    /\ At("y++")
    /\ screen_y' = Below(Register)
    /\ Goto("home", 0)
    /\ UNCHANGED <<mem, screen_x, cursor, alone>> /\ Rest

\* scroll(): a row, or the last one, which ends it.
ScrollRow ==
    /\ At("scroll")
    /\ IF Register < NUM_ROWS - 1
       THEN /\ mem' = [mem EXCEPT ![VIDEO] = RowUp(@, Register)]
            /\ Goto("scroll", Register + 1)
            /\ UNCHANGED <<screen_x, screen_y>>
       ELSE /\ mem' = [mem EXCEPT ![VIDEO] = LastRowBlank(@)]
            /\ screen_x' = 0
            /\ screen_y' = NUM_ROWS - 1
            /\ Goto("home", 0)
    /\ UNCHANGED <<cursor, alone>> /\ Rest

Home ==
    /\ At("home")
    /\ screen_x' = 0
    /\ Goto("cursor", 0)
    /\ UNCHANGED <<mem, screen_y, cursor, alone>> /\ Rest

MoveCursor ==
    /\ At("cursor")
    /\ PointTo(screen_x, screen_y)
    /\ Goto("idle", 0)
    /\ UNCHANGED <<mem, screen_x, screen_y, alone>> /\ Rest

putc ==
    \/ LoadRow \/ LoadColumn \/ StoreCell \/ LoadX \/ StoreX \/ TestMargin
    \/ TestBottom \/ LoadY \/ StoreY \/ ScrollRow \/ Home \/ MoveCursor

\* terminal_read() waits; its end, which Keyboard has in detail.
StartRead == Compute("idle", "read", 0)

EndRead ==
    /\ At("read")
    /\ enter_pressed = 1
    /\ enter_pressed' = 0
    /\ key_buffer_pos' = 0
    /\ Goto("idle", 0)
    /\ UNCHANGED <<user, mem, posVars, termVars, alone, pageVars>>

\* vidmap(), which leaves the mapping there for every later program.
vidmap ==
    /\ At("idle")
    /\ remapWithPageTable("VIRTUAL_END", VIDEO)
    /\ UNCHANGED <<user, mem, posVars, termVars, lineVars, prog, alone>>

\* The program stores a character through the window; without it, it faults.
Draw(i) ==
    LET frame == Reach("VIRTUAL_END", 0, TRUE) IN
    /\ At("idle")
    /\ frame # Nowhere
    /\ mem' = [mem EXCEPT ![frame] = StoreAt(@, i, term_cur)]
    /\ alone' = [alone EXCEPT ![term_cur].cells = StoreAt(@, i, term_cur)]
    /\ UNCHANGED <<posVars, prog>> /\ Rest

Run ==
    \/ \E c \in {NEWLINE, Printable} : BeginPutc(c)
    \/ putc
    \/ StartRead
    \/ EndRead
    \/ vidmap
    \/ \E i \in DrawCells : Draw(i)

Next == Press \/ Run

Spec == Init /\ [][Next]_vars
-----------------------------------------------------------------------------
(***************************************************************************)
(* Properties                                                              *)
(***************************************************************************)
Screens == [cells : [Cells -> {BLANK} \cup Terminals], x : -1..NUM_COLS+1, y : 0..MAX_Y]

\* Every variable holds a value of its kind.
TypeOK ==
    /\ user \in Users
    /\ term_cur \in init /\ init \subseteq Terminals
    /\ InFront \in Screens
    /\ \A t \in Terminals :
          /\ mem[TermFrame(t)] \in [Cells -> {BLANK} \cup Terminals]
          /\ user = "prompted" => alone[t] \in Screens
          /\ saved[t].pos \in 0..KEY_BUFFER_SIZE
          /\ prog[t].r \in -1..Index(NUM_COLS + 1, MAX_Y)
    /\ key_buffer_pos \in 0..KEY_BUFFER_SIZE
    /\ enter_pressed \in {0, 1}

\* What terminal t shows, in front or put away by terminal_save.
ScreenOf(t) ==
    IF t = term_cur THEN InFront
    ELSE [cells |-> mem[TermFrame(t)], x |-> saved[t].x, y |-> saved[t].y]

\* A user who types only at prompts may switch terminals between any two
\* instructions of a putc or in the middle of a scroll, and at all times but those
\* between an Enter and the end of the read: whenever a program is between two
\* characters its terminal shows, or has put away, exactly what the same prints,
\* keys and drawings show on a machine with that terminal only, and the display's
\* cursor is where the next character goes.
AsAlone ==
    user = "prompted" =>
        \A t \in init :
            prog[t].pc \in {"idle", "read"} =>
                /\ ScreenOf(t) = alone[t]
                /\ t = term_cur => cursor = Index(screen_x, screen_y)

\* While a program reads, the line typed so far is what stands left of the
\* cursor, through edits, clears and switches, as long as it stays in its row.
LineShown ==
    user = "prompted" =>
        \A t \in init :
            LET s == ScreenOf(t)
                typed == IF t = term_cur THEN key_buffer_pos ELSE saved[t].pos
            IN  (prog[t].pc = "read" /\ ~(t = term_cur /\ enter_pressed = 1)) =>
                    /\ typed <= s.x
                    /\ \A k \in 1..typed : s.cells[Index(s.x, s.y) - k] = t

\* The running program's block and the frames of the terminals stay mapped where
\* terminal_load and terminal_save look for them, though vidmap's window shares
\* their page table; the window shows the video memory or nothing.
Mapped ==
    /\ Reach("VIRTUAL_START", 0, TRUE) = ProgramFrame(term_cur)
    /\ \A t \in Terminals : Reach("TERM_MEM", t, FALSE) = TermFrame(t)
    /\ Reach("VIRTUAL_END", 0, TRUE) \in {VIDEO, Nowhere}

\* terminal_write has its "data displayed to screen immediately": the next
\* character never goes below the last row.
OnScreen == screen_y < NUM_ROWS
=============================================================================
