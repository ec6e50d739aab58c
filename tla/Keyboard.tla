------------------------------ MODULE Keyboard ------------------------------
(***************************************************************************)
(* Line input: the keyboard interrupt handler (student-distrib/keyboard.c) *)
(* against terminal_read() (terminal.c) on several terminals.              *)
(*                                                                         *)
(* The handler runs behind an interrupt gate, so each key is one action.   *)
(* terminal_read() runs with interrupts enabled: each of its accesses to   *)
(* the shared variables is an action, and any key, terminal switches too,  *)
(* may come between two of them.  Only the reader of the terminal in front *)
(* runs.  enter_pressed, right_bound and key_buffer_pos are one variable   *)
(* each for all the terminals; terminal_save and terminal_load exchange    *)
(* key_buffer_pos and the cursor with the terminal's own copy, and         *)
(* key_buffer points to the buffer of the terminal in front.               *)
(***************************************************************************)
EXTENDS Integers, Sequences

CONSTANTS
    Terminals,        \* the open terminals
    Letters,          \* what the character keys produce
    NUL,              \* the byte '\0'
    KEY_BUFFER_SIZE,
    NUM_COLS,
    UINT,             \* 2^32 in the code: key_buffer_pos is a uint32_t
    ReadSizes,        \* the nbytes programs pass to read
    PromptColumns,    \* where programs leave the cursor before they read
    MAX_LINES,        \* bound: lines entered in a terminal and not yet read
    MIN_BOUND,        \* bounds: how far right_bound is followed for who uses the
    MAX_BOUND,        \*   arrow keys
    MIN_X,            \* bound: how far left of column 0 the arrow is followed
    Users             \* the users looked at: see Behaviours

\* What a user does.  types: "hasty" at any time, "patient" not between Enter and
\* the end of the read, "prompted" only while the program in front waits for a
\* line; hops: leaves a terminal between Enter and the read's reaction to it;
\* keys and letters: the special keys and the character keys used.
Arrows == {"left", "right"}
Behaviours ==
    [types : {"hasty", "patient", "prompted"}, hops : BOOLEAN,
     keys : SUBSET ({"ctrl-l"} \cup Arrows), letters : SUBSET Letters]

\* A character carries, for the properties only, the terminal it was typed in.
Chars == Terminals \X Letters

ASSUME KeyboardAssumption ==
    /\ Terminals \subseteq 1..3 /\ 1 \in Terminals
    /\ NUL \notin Chars
    /\ KEY_BUFFER_SIZE \in Nat \ {0}
    /\ NUM_COLS \in Nat /\ NUM_COLS > 7
    /\ UINT \in Nat /\ UINT > KEY_BUFFER_SIZE
    /\ ReadSizes \subseteq Nat
    /\ PromptColumns \subseteq 0..NUM_COLS-1
    /\ MAX_LINES \in Nat \ {0}
    /\ MIN_BOUND \in Int /\ MAX_BOUND \in Nat
    /\ MIN_X \in Int
    /\ Users \subseteq Behaviours /\ Users # {}

VARIABLES
    user,            \* who is at the keyboard
    term_cur,        \* the terminal in front
    buffer,          \* terminal[].key_buffer
    key_buffer_pos,
    saved_pos,       \* terminal[].key_buffer_pos
    screen_x,
    saved_x,         \* terminal[].pos_x
    enter_pressed,
    right_bound,
    reader,          \* terminal_read() in each terminal's top process
    line,            \* history: the line being typed in each terminal
    entered,         \* history: lines ended with Enter and not yet read
    wrapped          \* history: terminals whose line has passed the right margin

editVars == <<buffer, key_buffer_pos, screen_x, right_bound>>
vars == <<user, term_cur, editVars, saved_pos, saved_x, enter_pressed, reader, line,
          entered, wrapped>>

Slots == 0..KEY_BUFFER_SIZE-1
NoBytes == <<>>
Idle == [pc |-> "idle", i |-> 0, nbytes |-> 0, bytes |-> NoBytes]

\* key_buffer[i]; the byte after the buffer is padding, which is zero.
Byte(i) == IF i \in Slots THEN buffer[term_cur][i] ELSE NUL

\* Mutant: key_buffer is not pointed to the buffer of the terminal in front.
StoreInFirst(i, c) == IF i \in Slots THEN [buffer EXCEPT ![1][i] = c] ELSE buffer

\* A store to key_buffer[i]; one outside the buffer is not followed further.
Store(i, c) == IF i \in Slots THEN [buffer EXCEPT ![term_cur][i] = c] ELSE buffer

Init ==
    /\ user \in Users
    /\ term_cur = 1
    /\ buffer = [t \in Terminals |-> [i \in Slots |-> NUL]]
    /\ key_buffer_pos = 0
    /\ saved_pos = [t \in Terminals |-> 0]
    /\ screen_x = 0
    /\ saved_x = [t \in Terminals |-> 0]
    /\ enter_pressed = 0
    /\ right_bound = 7
    /\ reader = [t \in Terminals |-> Idle]
    /\ line = [t \in Terminals |-> NoBytes]
    /\ entered = [t \in Terminals |-> <<>>]
    /\ wrapped = {}
-----------------------------------------------------------------------------
(***************************************************************************)
(* The keyboard handler.                                                   *)
(***************************************************************************)
\* Whether the user presses a key now.
MayType ==
    user.types # "hasty" =>
        /\ enter_pressed = 0
        /\ reader[term_cur].pc \in
              IF user.types = "patient" THEN {"idle", "wait", "done"} ELSE {"wait"}

UsesArrows == user.keys \cap Arrows # {}

\* putc(c) of a printable character: do_enter() at the right margin.
AtMargin(x) == x + 1 >= NUM_COLS
ColumnAfter(x) == IF AtMargin(x) THEN 0 ELSE x + 1

\* Mutant: the size is tested with <=.
HasRoomLate == key_buffer_pos <= KEY_BUFFER_SIZE

HasRoom == key_buffer_pos < KEY_BUFFER_SIZE

\* key_pressed_handler for a character; a full buffer ignores the key.
PressChar(c) ==
    /\ MayType
    /\ HasRoom
    /\ UsesArrows => right_bound < MAX_BOUND
    /\ buffer' = Store(key_buffer_pos, c)
    /\ key_buffer_pos' = key_buffer_pos + 1
    /\ right_bound' = right_bound + 1
    /\ screen_x' = ColumnAfter(screen_x)
    /\ wrapped' = wrapped \cup IF AtMargin(screen_x) THEN {term_cur} ELSE {}
    /\ line' = [line EXCEPT ![term_cur] = Append(@, c)]
    /\ UNCHANGED <<user, term_cur, saved_pos, saved_x, enter_pressed, reader,
                   entered>>

\* key_pressed_handler for Ctrl+L: clear() prints the prompt at the top.
PressCtrlL ==
    /\ MayType
    /\ "ctrl-l" \in user.keys
    /\ key_buffer_pos' = 0
    /\ screen_x' = 7
    /\ wrapped' = wrapped \ {term_cur}
    /\ line' = [line EXCEPT ![term_cur] = NoBytes]
    /\ UNCHANGED <<user, term_cur, buffer, right_bound, saved_pos, saved_x,
                   enter_pressed, reader, entered>>

\* handle_enter()
PressEnter ==
    /\ MayType
    /\ Len(entered[term_cur]) < MAX_LINES
    /\ enter_pressed' = 1
    /\ right_bound' = 7
    /\ screen_x' = 0
    /\ entered' = [entered EXCEPT ![term_cur] = Append(@, line[term_cur])]
    /\ line' = [line EXCEPT ![term_cur] = NoBytes]
    /\ UNCHANGED <<user, term_cur, buffer, key_buffer_pos, saved_pos, saved_x, reader,
                   wrapped>>

\* do_backspace(), below the top row: over the left margin to the row above.
ColumnBefore(x) == IF x = 0 THEN NUM_COLS - 2 ELSE x - 1

\* Mutant: the test for an empty buffer is missing.
ErasesAlways == TRUE

Erases == key_buffer_pos > 0

\* handle_backpace()
PressBackspace ==
    /\ MayType
    /\ Erases
    /\ UsesArrows => right_bound > MIN_BOUND
    /\ key_buffer_pos' = key_buffer_pos - 1
    /\ buffer' = Store(key_buffer_pos - 1, NUL)
    /\ right_bound' = right_bound - 1
    /\ screen_x' = ColumnBefore(screen_x)
    /\ line' = [line EXCEPT ![term_cur] =
                   IF @ = NoBytes THEN @ ELSE SubSeq(@, 1, Len(@) - 1)]
    /\ UNCHANGED <<user, term_cur, saved_pos, saved_x, enter_pressed, reader, entered,
                   wrapped>>

\* move_cursor_left()
PressLeft ==
    /\ MayType
    /\ "left" \in user.keys
    /\ screen_x # 7
    /\ screen_x > MIN_X
    /\ screen_x' = screen_x - 1
    /\ key_buffer_pos' = (key_buffer_pos - 1) % UINT
    /\ UNCHANGED <<user, term_cur, buffer, right_bound, saved_pos, saved_x,
                   enter_pressed, reader, line, entered, wrapped>>

\* move_cursor_right()
PressRight ==
    /\ MayType
    /\ "right" \in user.keys
    /\ screen_x < right_bound
    /\ screen_x' = screen_x + 1
    /\ key_buffer_pos' = (key_buffer_pos + 1) % UINT
    /\ UNCHANGED <<user, term_cur, buffer, right_bound, saved_pos, saved_x,
                   enter_pressed, reader, line, entered, wrapped>>

\* Mutant: terminal_load does not restore key_buffer_pos.
KeptPosition(t) == key_buffer_pos

LoadedPosition(t) == saved_pos[t]

\* Alt+Fn: what terminal_save and terminal_load do to the line being typed.
Switch(t) ==
    /\ t # term_cur
    /\ user.hops \/ enter_pressed = 0
    /\ term_cur' = t
    /\ saved_pos' = [saved_pos EXCEPT ![term_cur] = key_buffer_pos]
    /\ key_buffer_pos' = LoadedPosition(t)
    /\ saved_x' = [saved_x EXCEPT ![term_cur] = screen_x]
    /\ screen_x' = saved_x[t]
    /\ UNCHANGED <<user, buffer, enter_pressed, right_bound, reader, line, entered,
                   wrapped>>

Press ==
    \/ \E c \in user.letters : PressChar(<<term_cur, c>>)
    \/ PressCtrlL
    \/ PressEnter
    \/ PressBackspace
    \/ PressLeft
    \/ PressRight
    \/ \E t \in Terminals : Switch(t)
-----------------------------------------------------------------------------
(***************************************************************************)
(* terminal_read() in the terminal in front.                               *)
(***************************************************************************)
At(pc) == reader[term_cur].pc = pc

Goto(pc) == reader' = [reader EXCEPT ![term_cur].pc = pc]

\* The program prints its prompt and calls read(0, buf, nbytes).
StartRead ==
    \E n \in ReadSizes, x \in PromptColumns :
        /\ At("idle")
        /\ reader' = [reader EXCEPT ![term_cur] =
                         [pc |-> "wait", i |-> 0, nbytes |-> n, bytes |-> NoBytes]]
        /\ screen_x' = x
        /\ wrapped' = wrapped \ {term_cur}
        /\ UNCHANGED <<user, term_cur, buffer, key_buffer_pos, right_bound, saved_pos,
                       saved_x, enter_pressed, line, entered>>

\* Mutant: the flag is tested the wrong way round.
NoEnterSeen == enter_pressed = 0

EnterSeen == enter_pressed = 1

\* while (!enter_pressed) ends.
SeeEnter ==
    /\ At("wait")
    /\ EnterSeen
    /\ Goto("take")
    /\ UNCHANGED <<user, term_cur, editVars, saved_pos, saved_x, enter_pressed, line,
                   entered, wrapped>>

\* enter_pressed = 0
TakeEnter ==
    /\ At("take")
    /\ enter_pressed' = 0
    /\ Goto("copy")
    /\ UNCHANGED <<user, term_cur, editVars, saved_pos, saved_x, line, entered,
                   wrapped>>

\* One turn of the copy loop.
CopyByte ==
    LET r == reader[term_cur]
        more == Byte(r.i) # NUL /\ r.i < r.nbytes
    IN
    /\ At("copy")
    /\ reader' = [reader EXCEPT ![term_cur] =
                     IF more
                     THEN [r EXCEPT !.i = @ + 1, !.bytes = Append(@, Byte(r.i))]
                     ELSE [r EXCEPT !.pc = "rewind"]]
    /\ UNCHANGED <<user, term_cur, editVars, saved_pos, saved_x, enter_pressed, line,
                   entered, wrapped>>

\* clear_buffer(): key_buffer_pos = 0
Rewind ==
    /\ At("rewind")
    /\ key_buffer_pos' = 0
    /\ Goto("bound")
    /\ UNCHANGED <<user, term_cur, buffer, screen_x, right_bound, saved_pos, saved_x,
                   enter_pressed, line, entered, wrapped>>

\* clear_buffer(): right_bound = 7
ResetBound ==
    /\ At("bound")
    /\ right_bound' = 7
    /\ reader' = [reader EXCEPT ![term_cur].pc = "zero", ![term_cur].i = 0]
    /\ UNCHANGED <<user, term_cur, buffer, key_buffer_pos, screen_x, saved_pos,
                   saved_x, enter_pressed, line, entered, wrapped>>

\* Mutant: the last byte is not cleared.
MoreToZeroButOne(i) == i < KEY_BUFFER_SIZE - 1

MoreToZero(i) == i < KEY_BUFFER_SIZE

\* clear_buffer(): one turn of the loop, and the return of the read after it.
ZeroByte ==
    LET r == reader[term_cur] IN
    /\ At("zero")
    /\ IF MoreToZero(r.i)
       THEN /\ buffer' = Store(r.i, NUL)
            /\ reader' = [reader EXCEPT ![term_cur].i = @ + 1]
       ELSE /\ Goto("done")
            /\ UNCHANGED buffer
    /\ UNCHANGED <<user, term_cur, key_buffer_pos, screen_x, right_bound, saved_pos,
                   saved_x, enter_pressed, line, entered, wrapped>>

\* The program has its line and goes on.
Consume ==
    /\ At("done")
    /\ reader' = [reader EXCEPT ![term_cur] = Idle]
    /\ entered' = [entered EXCEPT ![term_cur] = IF @ = <<>> THEN @ ELSE Tail(@)]
    /\ UNCHANGED <<user, term_cur, editVars, saved_pos, saved_x, enter_pressed, line,
                   wrapped>>

terminal_read ==
    SeeEnter \/ TakeEnter \/ CopyByte \/ Rewind \/ ResetBound \/ ZeroByte

Next == Press \/ StartRead \/ terminal_read \/ Consume

\* The processor keeps running the program in front.
Fairness == WF_vars(terminal_read)

Spec == Init /\ [][Next]_vars /\ Fairness
-----------------------------------------------------------------------------
(***************************************************************************)
(* Properties                                                              *)
(***************************************************************************)
\* Every variable holds a value of its kind.
TypeOK ==
    /\ user \in Users
    /\ term_cur \in Terminals
    /\ buffer \in [Terminals -> [Slots -> Chars \cup {NUL}]]
    /\ key_buffer_pos \in 0..UINT-1
    /\ saved_pos \in [Terminals -> 0..UINT-1]
    /\ screen_x \in Int
    /\ saved_x \in [Terminals -> Int]
    /\ enter_pressed \in {0, 1}
    /\ right_bound \in Int
    /\ \A t \in Terminals :
          /\ reader[t].pc \in {"idle", "wait", "take", "copy", "rewind", "bound",
                               "zero", "done"}
          /\ reader[t].i \in Nat /\ reader[t].nbytes \in Nat
          /\ reader[t].bytes \in Seq(Chars)
          /\ line[t] \in Seq(Chars)
          /\ entered[t] \in Seq(Seq(Chars))
    /\ wrapped \subseteq Terminals

\* Backspace removes a character "by putting null key at that index": the
\* position is never past the end of the buffer, in front or saved, so the stores
\* of key_pressed_handler and handle_backpace stay inside it.
InBounds ==
    /\ key_buffer_pos <= KEY_BUFFER_SIZE
    /\ \A t \in Terminals : saved_pos[t] <= KEY_BUFFER_SIZE

\* Whoever does not use the arrow keys stays inside the buffer, however he types
\* and switches while terminal_read clears it.
KeysInBounds == ~UsesArrows => InBounds

\* While a program waits at a prompt of 7 columns, and until the line passes the
\* right margin, the cursor column and the buffer position move together through
\* every edit, arrow key and switch: Backspace deletes the character left of the
\* cursor.  The user types at prompts only and does not leave between Enter and
\* the read.
CursorAligned ==
    user.types = "prompted" /\ ~user.hops =>
        \A t \in Terminals :
            (reader[t].pc = "wait" /\ enter_pressed = 0 /\ t \notin wrapped) =>
                IF t = term_cur THEN screen_x = 7 + key_buffer_pos
                ELSE saved_x[t] = 7 + saved_pos[t]

\* The first n bytes of a line.
Cut(l, n) == SubSeq(l, 1, IF Len(l) < n THEN Len(l) ELSE n)

\* terminal_read "returns data from one line that has been terminated by
\* pressing enter or as much fits": what a read is about to return is the oldest
\* line entered in its own terminal, cut to nbytes.
OneLine ==
    \A t \in Terminals :
        reader[t].pc = "done" =>
            /\ entered[t] # <<>>
            /\ reader[t].bytes = Cut(Head(entered[t]), reader[t].nbytes)

\* It holds for a user who waits for the program after Enter and uses no special
\* key, whatever he types and erases, before the read starts too, and in
\* whichever order he fills the lines of the terminals.
PatientOneLine ==
    (user.types = "patient" /\ ~user.hops /\ user.keys = {}) => OneLine

OwnKeys(t) == {t} \X Letters

\* A key pressed in one terminal never ends up in another one's buffer or read,
\* wherever terminal_read was interrupted by the switches.
NoCrossTalk ==
    \A t \in Terminals :
        /\ \A i \in Slots : buffer[t][i] \in OwnKeys(t) \cup {NUL}
        /\ \A i \in 1..Len(reader[t].bytes) : reader[t].bytes[i] \in OwnKeys(t)

\* When the program in front waits and Enter has been pressed its read returns,
\* unless the user leaves the terminal.
EnterEndsRead ==
    \A t \in Terminals :
        (term_cur = t /\ At("wait") /\ enter_pressed = 1)
            ~> (reader[t].pc = "done" \/ term_cur # t)
=============================================================================
