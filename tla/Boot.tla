-------------------------------- MODULE Boot --------------------------------
(***************************************************************************)
(* From the boot loader to the first shell (entry of kernel.c,             *)
(* init_terminals and terminal_start of terminal.c), and the keyboard      *)
(* handler's modifier keys (keyboard.c), which are looked at from the      *)
(* moment init_keyboard enables their interrupt: entry goes on with        *)
(* interrupts enabled, so a key comes between any two of its steps, while  *)
(* key_buffer is NULL and term_cur is 0.                                   *)
(*                                                                         *)
(* A page fault in the kernel, and an access to terminal[-1], run halt()   *)
(* on a PCB nobody has filled in: this is the stage "faulted", which is    *)
(* not followed.  "away" is a switch to another terminal before the first  *)
(* shell runs: that terminal's shell gets pid 0, whose kernel stack is the *)
(* one entry runs on.  Keyboard, Screen and Processes go on from "shell".  *)
(*                                                                         *)
(* held is the state of the keys themselves; mixed and line are history.   *)
(***************************************************************************)
EXTENDS Paging, Sequences

CONSTANTS
    Letters,          \* the character keys used
    KEY_BUFFER_SIZE,
    UINT,             \* 2^32 in the code: key_buffer_pos is a uint32_t
    Users             \* see Behaviours

\* Some columns of key_scancodes: without and with shift, with caps lock, with
\* both.
key_scancodes ==
    [l         |-> <<"l", "L", "L", "l">>,
     one       |-> <<"1", "!", "1", "!">>,
     backslash |-> <<"\\", "|", "\\", "\\">>]

NUL == "NUL"
Shifts == {"SHIFT_L", "SHIFT_R"}
Modifiers == Shifts \cup {"CTRL", "ALT_L", "CAPSLOCK"}

\* Who is at the keyboard, and the keys he uses: "waits" leaves character keys
\* alone until terminal 1 has its buffer and the function keys until the shell
\* runs, "early" does not wait, "arrows" uses the arrow keys as well.
Behaviours ==
    [types : {"waits", "early", "arrows"}, modifiers : SUBSET Modifiers,
     letters : SUBSET Letters]

ASSUME BootAssumption ==
    /\ Letters \subseteq DOMAIN key_scancodes
    /\ KEY_BUFFER_SIZE \in Nat \ {0}
    /\ UINT \in Nat /\ UINT > KEY_BUFFER_SIZE
    /\ Users \subseteq Behaviours

VARIABLES
    user,
    loader,           \* what the boot loader hands over
    stage,            \* the step entry is at, or how it ended
    interrupts,       \* the interrupt flag
    pic,              \* the first vectors of the two controllers, the lines enabled
    gdt,              \* the descriptors loaded
    boot_block,       \* whether init_rofs has set the file system's pointers
    paging,           \* the paging bit of cr0
    term_cur,
    init,             \* the terminals with init = 1
    key_buffer,       \* the terminal whose buffer it points to, 0 for NULL
    buffer,           \* terminal[0].key_buffer
    key_buffer_pos,
    enter_pressed,
    held,             \* the modifier keys held down
    shift_pressed, capslock_state, ctrl_pressed, alt_pressed, keys_state,
    mixed,            \* a shift is held that was not the only key of its kind
    line              \* typed since terminal 1 has its buffer

loadVars == <<user, loader>>
machine == <<interrupts, pic, gdt, boot_block, paging>>
terms == <<term_cur, init, key_buffer>>
lineVars == <<buffer, key_buffer_pos, enter_pressed, line>>
modVars == <<held, shift_pressed, capslock_state, ctrl_pressed, alt_pressed, keys_state,
             mixed>>
vars == <<loadVars, stage, machine, pageVars, terms, lineVars, modVars>>

Slots == 0..KEY_BUFFER_SIZE - 1
Ended == {"returned", "spin", "shell", "faulted", "away"}
Bit(b) == IF b THEN 1 ELSE 0
-----------------------------------------------------------------------------
(***************************************************************************)
(* The interrupt descriptors and the controllers.                          *)
(***************************************************************************)
SLAVE_IRQ_LINE == 2
KEYBOARD_IRQ_LINE == 1
RTC_IRQ_LINE == 8

\* init_idt(), which runs before entry: the handler of a vector.
Handler(vector) ==
    CASE vector < 32       -> "exception"
      [] vector = 33       -> "handle_keyboard"
      [] vector = 40       -> "handle_rtc"
      [] vector = 128      -> "handle_syscall"
      [] OTHER             -> "EX_GENERIC"

\* Where an interrupt line arrives.
VectorOf(irq) == IF irq < 8 THEN pic.master + irq ELSE pic.slave + irq - 8

Enabled(lines, irq) == IF irq \in 0..15 THEN lines \cup {irq} ELSE lines

enable_irq(irq) == pic' = [pic EXCEPT !.lines = Enabled(@, irq)]

i8259_init == pic' = [master |-> 32, slave |-> 40, lines |-> Enabled(pic.lines, SLAVE_IRQ_LINE)]
-----------------------------------------------------------------------------
Loaders == [magic : BOOLEAN, modules : BOOLEAN, bits45 : BOOLEAN, shell : BOOLEAN]

Init ==
    /\ user \in Users
    /\ loader \in Loaders
    /\ stage = "clear"
    /\ interrupts = FALSE
    /\ pic = [master |-> 8, slave |-> 112, lines |-> {}]
    /\ gdt = {}
    /\ boot_block = FALSE
    /\ paging = FALSE
    /\ PagingOff
    /\ term_cur = 0
    /\ init = {}
    /\ key_buffer = 0
    /\ buffer = [i \in Slots |-> NUL]
    /\ key_buffer_pos = 0
    /\ enter_pressed = 0
    /\ held \in SUBSET user.modifiers
    /\ shift_pressed = 0 /\ capslock_state = 0
    /\ ctrl_pressed = 0 /\ alt_pressed = 0
    /\ keys_state = 0
    /\ mixed = (held \cap Shifts # {})
    /\ line = <<>>

At(s) == stage = s
Then(s) == stage' = s
KeepKeys == UNCHANGED <<loadVars, modVars>>
KeepTerms == UNCHANGED <<terms, lineVars>>

\* A step of entry that only touches the machine.
Setup(from, to) == At(from) /\ Then(to) /\ KeepTerms /\ KeepKeys

\* clear(), and the test of the magic number.
CheckMagic ==
    /\ Setup("clear", IF loader.magic THEN "modules" ELSE "returned")
    /\ UNCHANGED <<machine, pageVars>>

\* The modules: the first one is the file system's image.
LoadModules ==
    /\ Setup("modules", "bits")
    /\ boot_block' = (boot_block \/ loader.modules)
    /\ UNCHANGED <<interrupts, pic, gdt, paging, pageVars>>

\* Bits 4 and 5 of the flags exclude each other.
CheckBits ==
    /\ Setup("bits", IF loader.bits45 THEN "returned" ELSE "descriptors")
    /\ UNCHANGED <<machine, pageVars>>

LoadDescriptors ==
    /\ Setup("descriptors", "pic")
    /\ gdt' = {"ldt", "tss"}
    /\ UNCHANGED <<interrupts, pic, boot_block, paging, pageVars>>

InitPic ==
    /\ Setup("pic", "keyboard")
    /\ i8259_init
    /\ UNCHANGED <<interrupts, gdt, boot_block, paging, pageVars>>

\* init_keyboard(): cli, enable_irq, key_buffer_pos = 0, sti; entry's sti().
InitKeyboard ==
    /\ At("keyboard") /\ Then("paging")
    /\ enable_irq(KEYBOARD_IRQ_LINE)
    /\ key_buffer_pos' = 0
    /\ interrupts' = TRUE
    /\ KeepKeys
    /\ UNCHANGED <<gdt, boot_block, paging, pageVars, terms, buffer, enter_pressed, line>>

InitPaging ==
    /\ Setup("paging", "terminals")
    /\ init_paging
    /\ paging' = TRUE
    /\ UNCHANGED <<interrupts, pic, gdt, boot_block>>

\* init_terminals(): the loop over terminal[]
ZeroTerminals ==
    /\ At("terminals") /\ Then("map")
    /\ init' = {}
    /\ buffer' = [i \in Slots |-> NUL]
    /\ KeepKeys
    /\ UNCHANGED <<machine, pageVars, term_cur, key_buffer, key_buffer_pos, enter_pressed,
                   line>>

\* Mutant: the third terminal is forgotten.
TwoTerminalFrames == [p \in 1..2 |-> TermFrame(p)]

TerminalFrames == [p \in 1..3 |-> TermFrame(p)]

\* remapToPage(TERM_MEM, TERM_n_MEM, n) for the three terminals
MapTerminals ==
    /\ Setup("map", "blank")
    /\ remapToPages("TERM_MEM", TerminalFrames)
    /\ UNCHANGED machine

\* The three frames are filled with blanks, through the mapping.
BlankFrames ==
    /\ Setup("blank", IF \A p \in 1..3 : Reach("TERM_MEM", p, FALSE) = TermFrame(p)
                      THEN "front" ELSE "faulted")
    /\ UNCHANGED <<machine, pageVars>>

\* term_cur = 1
BringToFront ==
    /\ At("front") /\ Then("init")
    /\ term_cur' = 1
    /\ KeepKeys
    /\ UNCHANGED <<machine, pageVars, init, key_buffer, lineVars>>

\* terminal_start(1)
SetInit ==
    /\ At("init") /\ Then("buffer")
    /\ init' = init \cup {term_cur}
    /\ KeepKeys
    /\ UNCHANGED <<machine, pageVars, term_cur, key_buffer, lineVars>>

SetBuffer ==
    /\ At("buffer") /\ Then("position")
    /\ key_buffer' = term_cur
    /\ KeepKeys
    /\ UNCHANGED <<machine, pageVars, term_cur, init, lineVars>>

\* Mutant: the position is left as it is.
KeepPosition == key_buffer_pos

StartPosition == 0

SetPosition ==
    /\ At("position") /\ Then("banner")
    /\ key_buffer_pos' = StartPosition
    /\ line' = <<>>
    /\ KeepKeys
    /\ UNCHANGED <<machine, pageVars, terms, buffer, enter_pressed>>

\* terminal_start(1): the frame is copied to the screen, and the banner printed.
PrintBanner ==
    /\ Setup("banner", IF Reach("low", VID_MEM_LOC, FALSE) = VIDEO THEN "execute"
                       ELSE "faulted")
    /\ UNCHANGED <<machine, pageVars>>

\* execute("shell"): without a file system it reads through a NULL pointer, and
\* without a shell in it it returns to entry, which halts the processor.
ExecuteShell ==
    /\ Setup("execute", CASE ~boot_block   -> "faulted"
                          [] ~loader.shell -> "spin"
                          [] OTHER         -> "shell")
    /\ IF boot_block /\ loader.shell THEN remap("VIRTUAL_START", ProgramFrame(0))
       ELSE UNCHANGED pageVars
    /\ UNCHANGED machine

entry ==
    \/ CheckMagic \/ LoadModules \/ CheckBits \/ LoadDescriptors \/ InitPic
    \/ InitKeyboard \/ InitPaging \/ ZeroTerminals \/ MapTerminals \/ BlankFrames
    \/ BringToFront \/ SetInit \/ SetBuffer \/ SetPosition \/ PrintBanner \/ ExecuteShell
-----------------------------------------------------------------------------
(***************************************************************************)
(* keyboard_handler(), behind an interrupt gate: a key is one action.      *)
(***************************************************************************)
Interrupt ==
    /\ interrupts /\ KEYBOARD_IRQ_LINE \in pic.lines
    /\ Handler(VectorOf(KEYBOARD_IRQ_LINE)) = "handle_keyboard"
    /\ stage \notin {"faulted", "away"}

KeepRest == UNCHANGED <<loadVars, machine, pageVars, terms>>
KeepMods == UNCHANGED modVars

Down(k) == Interrupt /\ k \in user.modifiers /\ held' = held \cup {k}
Up(k) == Interrupt /\ k \in held /\ held' = held \ {k}
KeepLine == UNCHANGED <<stage, lineVars>>

\* A shift is pressed, or repeats.
ShiftDown(k) ==
    /\ Down(k)
    /\ shift_pressed' = 1
    /\ keys_state' = IF capslock_state = 1 THEN 3 ELSE 1
    /\ UNCHANGED <<capslock_state, ctrl_pressed, alt_pressed, mixed>>
    /\ KeepRest /\ KeepLine

\* Mutant: a released shift forgets caps lock.
UnshiftedPlain == 0

Unshifted == IF capslock_state = 1 THEN 2 ELSE 0

ShiftUp(k) ==
    /\ Up(k)
    /\ shift_pressed' = 0
    /\ keys_state' = Unshifted
    /\ mixed' = (held' \cap Shifts # {})
    /\ UNCHANGED <<capslock_state, ctrl_pressed, alt_pressed>>
    /\ KeepRest /\ KeepLine

\* Caps lock is pressed, or repeats.
CapsDown ==
    /\ Down("CAPSLOCK")
    /\ capslock_state' = 1 - capslock_state
    /\ keys_state' = IF capslock_state = 0 THEN 2 ELSE 0
    /\ mixed' = (held \cap Shifts # {})
    /\ UNCHANGED <<shift_pressed, ctrl_pressed, alt_pressed>>
    /\ KeepRest /\ KeepLine

\* The release codes of caps lock and of the character keys are not in the table.
CapsUp ==
    /\ Up("CAPSLOCK")
    /\ UNCHANGED <<shift_pressed, capslock_state, ctrl_pressed, alt_pressed, keys_state,
                   mixed>>
    /\ KeepRest /\ KeepLine

Ctrl(pressed) ==
    /\ IF pressed = 1 THEN Down("CTRL") ELSE Up("CTRL")
    /\ ctrl_pressed' = pressed
    /\ UNCHANGED <<shift_pressed, capslock_state, alt_pressed, keys_state, mixed>>
    /\ KeepRest /\ KeepLine

Alt(pressed) ==
    /\ IF pressed = 1 THEN Down("ALT_L") ELSE Up("ALT_L")
    /\ alt_pressed' = pressed
    /\ UNCHANGED <<shift_pressed, capslock_state, ctrl_pressed, keys_state, mixed>>
    /\ KeepRest /\ KeepLine

\* Whether the user presses a character or editing key now.
MayType == Interrupt /\ (user.types = "waits" => stage \in {"banner", "execute", "shell"})

\* F1 to F3: switch_terminal(t), as far as the boot is concerned.
PressFunction(t) ==
    /\ Interrupt /\ user.types # "waits" /\ stage \notin Ended
    /\ alt_pressed = 1
    /\ t # term_cur
    /\ stage' = IF term_cur = 0 THEN "faulted" ELSE "away"
    /\ KeepRest /\ KeepMods /\ UNCHANGED lineVars

\* A store through key_buffer.  NULL is memory nobody uses before paging is on,
\* and not mapped after.
StoreFaults == paging /\ key_buffer = 0

Stored(i, c) == IF key_buffer = 1 /\ i \in Slots THEN [buffer EXCEPT ![i] = c] ELSE buffer

Faults == stage' = "faulted" /\ UNCHANGED lineVars

\* key_pressed_handler() with ctrl: only a small l does anything.
PressWithCtrl(k) ==
    /\ MayType
    /\ ctrl_pressed = 1
    /\ key_scancodes[k][keys_state + 1] = "l"
    /\ key_buffer_pos' = 0
    /\ line' = <<>>
    /\ UNCHANGED <<stage, buffer, enter_pressed>>
    /\ KeepRest /\ KeepMods

\* key_pressed_handler() for a character
PressChar(k) ==
    LET c == key_scancodes[k][keys_state + 1] IN
    /\ MayType
    /\ ctrl_pressed = 0
    /\ key_buffer_pos < KEY_BUFFER_SIZE
    /\ IF StoreFaults THEN Faults
       ELSE /\ buffer' = Stored(key_buffer_pos, c)
            /\ key_buffer_pos' = key_buffer_pos + 1
            /\ line' = IF user.types = "arrows" THEN line ELSE Append(line, c)
            /\ UNCHANGED <<stage, enter_pressed>>
    /\ KeepRest /\ KeepMods

\* handle_enter()
PressEnter ==
    /\ MayType
    /\ enter_pressed' = 1
    /\ UNCHANGED <<stage, buffer, key_buffer_pos, line>>
    /\ KeepRest /\ KeepMods

\* Mutant: the test for an empty buffer is missing.
ErasesAlways == TRUE

Erases == key_buffer_pos > 0

\* handle_backpace()
PressBackspace ==
    /\ MayType
    /\ Erases
    /\ IF StoreFaults THEN Faults
       ELSE /\ buffer' = Stored(key_buffer_pos - 1, NUL)
            /\ key_buffer_pos' = key_buffer_pos - 1
            /\ line' = IF line = <<>> THEN line ELSE SubSeq(line, 1, Len(line) - 1)
            /\ UNCHANGED <<stage, enter_pressed>>
    /\ KeepRest /\ KeepMods

\* move_cursor_left() and move_cursor_right(), where the column allows them.
PressArrow(step) ==
    /\ MayType /\ user.types = "arrows"
    /\ key_buffer_pos' = (key_buffer_pos + step) % UINT
    /\ UNCHANGED <<stage, buffer, enter_pressed, line>>
    /\ KeepRest /\ KeepMods

keyboard_handler ==
    \/ \E k \in Shifts : ShiftDown(k) \/ ShiftUp(k)
    \/ CapsDown \/ CapsUp
    \/ \E pressed \in {0, 1} : Ctrl(pressed) \/ Alt(pressed)
    \/ \E t \in 1..3 : PressFunction(t)
    \/ \E k \in user.letters : PressWithCtrl(k) \/ PressChar(k)
    \/ PressEnter
    \/ PressBackspace
    \/ \E step \in {-1, 1} : PressArrow(step)

Next == entry \/ keyboard_handler

\* Nothing keeps the processor from going on with entry.
Spec == Init /\ [][Next]_vars /\ WF_vars(entry)
-----------------------------------------------------------------------------
(***************************************************************************)
(* Properties                                                              *)
(***************************************************************************)
Characters == {key_scancodes[k][i] : k \in Letters, i \in 1..4}

\* Every variable holds a value of its kind.
TypeOK ==
    /\ stage \in Ended \cup {"clear", "modules", "bits", "descriptors", "pic", "keyboard",
                             "paging", "terminals", "map", "blank", "front", "init",
                             "buffer", "position", "banner", "execute"}
    /\ term_cur \in 0..1 /\ init \subseteq {term_cur} /\ key_buffer \in 0..term_cur
    /\ buffer \in [Slots -> Characters \cup {NUL}]
    /\ key_buffer_pos \in 0..UINT - 1
    /\ line \in Seq(Characters)
    /\ held \subseteq Modifiers
    /\ {shift_pressed, capslock_state, ctrl_pressed, alt_pressed, enter_pressed}
          \subseteq {0, 1}
    /\ keys_state \in 0..3

\* keys_state is what its comment says, "1 = shift pressed", "2 = capslock pressed",
\* 3 both, and no modifier sticks once its keys are up, in whatever order they were
\* pressed, repeated and released, from before the boot on.  It may be wrong only
\* while a shift is held that caps lock or the other shift has interfered with.
KeysState ==
    /\ ~mixed => keys_state = Bit(held \cap Shifts # {}) + 2 * capslock_state
    /\ held \cap Shifts = {} => shift_pressed = 0 /\ ~mixed
    /\ "CTRL" \notin held => ctrl_pressed = 0
    /\ "ALT_L" \notin held => alt_pressed = 0

\* When the first shell runs the terminal is ready for it, whatever was typed
\* during the boot: its buffer holds, up to the position, the characters typed
\* since it is in front and no earlier one, and for whoever waited nothing else,
\* the lines of the keyboard and of the clock reach their handlers, the kernel
\* sees the screen and the frames, and the program only its own block.
FirstShell ==
    stage = "shell" =>
        /\ term_cur = 1 /\ init = {1} /\ key_buffer = 1
        /\ user.types # "arrows" =>
              /\ key_buffer_pos = Len(line)
              /\ \A i \in Slots : i < Len(line) => buffer[i] = line[i + 1]
        /\ user.types = "waits" /\ "CTRL" \notin user.modifiers =>
              \A i \in Slots : i >= Len(line) => buffer[i] = NUL
        /\ Handler(VectorOf(KEYBOARD_IRQ_LINE)) = "handle_keyboard"
        /\ Handler(VectorOf(RTC_IRQ_LINE)) = "handle_rtc"
        /\ "tss" \in gdt
        /\ Reach("low", VID_MEM_LOC, FALSE) = VIDEO
        /\ \A p \in 1..3 : Reach("TERM_MEM", p, FALSE) = TermFrame(p)
        /\ Reach("VIRTUAL_START", 0, TRUE) = ProgramFrame(0)
        /\ {Reach("low", VID_MEM_LOC, TRUE), Reach("kernel", 0, TRUE)} = {Nowhere}

\* The boot ends in a shell when the loader hands over an image with one, for
\* whoever waits; modifier keys may be pressed at any time.
BootEnds ==
    (user.types = "waits" /\ loader = [magic |-> TRUE, modules |-> TRUE, bits45 |-> FALSE,
                                 shell |-> TRUE])
        ~> stage = "shell"
=============================================================================
