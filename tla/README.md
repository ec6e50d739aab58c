# A TLA+ model of ApollOS

ApollOS is a small 32-bit x86 kernel: one processor, no scheduler, three text
terminals, at most six processes, a read-only file system, a keyboard and a
real-time clock driver. This directory models the parts of it that keep state
across calls, from the boot loader to the user programs, checks them with TLC and
proves the invariants of every part with TLAPS.
Paths below are relative to `src/student-distrib/` unless they start with `src/`.

## The system

| Component | State | Operations | Interacts with |
|---|---|---|---|
| Process life cycle (`syscalls.c`, `idt.c`, `interrupt_handlers.S`) | `processes_flags`, the PCBs (`parent_pid`, `parent_esp`, `files`), `tss.esp0`, the 4 MB mapping, program images | `execute`, `halt`, the exception handlers, system call entry and exit | terminals (counts, top pid), paging, file system |
| Terminals (`terminal.c`) | `terminal[]`: `num_processes`, `term_pid`, `init`, saved `esp`, key buffer, position, cursor; `term_cur` | `switch_terminal`, `terminal_start`, `terminal_save`, `terminal_load` | called by the keyboard interrupt; starts shells with `execute` |
| Line input (`keyboard.c`, `terminal_read`) | `key_buffer`, `key_buffer_pos`, `right_bound`, `enter_pressed`, the cursor column | one handler per key; `terminal_read`, `clear_buffer` | the handler interrupts `terminal_read` anywhere |
| Clock (`rtc.c`, `i8259.c`) | `int_occur`, `slave_mask`, the registers of the chip and of the PIC | `rtc_open/read/write/close`, `rtc_handler` | `open`, `close`, `halt`; interrupts `rtc_read` and `rtc_close` |
| File system (`rofs.c`) | the image (constant) | `read_dentry_by_name`, `read_data`, `dir_read` | `open`, `read`, `execute` |
| Descriptors (`syscalls.c`) | `pcb->files[]` | `open`, `close`, `read`, `write`, `create_pcb`, `halt`'s closing | file system, clock, terminal |
| Screen (`lib.c`, `terminal_write`) | `screen_x`, `screen_y`, video memory | `putc`, `scroll`, `do_enter`, `do_backspace`, `clear` | programs and the key handlers both print |
| Paging (`paging.c`), `vidmap` | page directory, `userTable` | `remap`, `remapWithPageTable`, `remapToPage` | `execute`, `halt`, `terminal_load` |
| Boot (`kernel.c`, `init_terminals`) | descriptors, PIC, paging and terminals as far as they are set up | `entry`, step by step | keys interrupt it from `init_keyboard` on |
| Modifier keys (`keyboard.c`) | `shift_pressed`, `capslock_state`, `ctrl_pressed`, `alt_pressed`, `keys_state` | their press and release | choose the character of a key |
| User programs (`src/syscalls`, `src/fish`) | their locals, `pcb->args` | sequences of system calls | `execute`, `halt`, `getargs`, descriptors |

What is hard here:

* **Interrupts instead of threads.** `execute`, `halt`, `switch_terminal`,
  `rtc_open` and `rtc_write` start with `cli()`; `terminal_read`, `rtc_read`,
  `rtc_close`, `terminal_write` and everything else in a system call run with
  interrupts enabled (`handle_syscall` does `sti`, and exceptions and system calls
  are trap gates). A key may come between any two of their instructions, and
  Alt+Fn makes the processor leave the call altogether and come back later.
* **Globals that are per terminal in spirit**: `enter_pressed`, `right_bound`,
  `int_occur`, the clock's rate and mask.
* **Three bookkeepings of the same fact**: the process counts of the terminals,
  the bits of `processes_flags` and the parent links in the PCBs.
* **Stack switches by hand** in `halt`, `terminal_load` and `execute`.
* **One video memory** for three terminals, written by programs, by the echo of keys,
  by switches and, through `vidmap`, by programs directly.
* **Interrupts before the terminals exist**: `entry` enables the keyboard before
  `key_buffer` points anywhere.
* **Limits**: six processes, eight descriptors, a key buffer of 128 bytes, 32-byte
  names without terminator, 32-bit offset arithmetic.

`PROJECT.json` lists each of these hazards at its line.

## Modules

| Module | Models | Notes |
|---|---|---|
| `Processes` | process life cycle and terminal switching | action per operation; `Launch` is the common part of `execute` |
| `TerminalStacks` | the promise: three stacks of programs, the front top runs | abstract, implemented by `Processes` |
| `Keyboard` | key handlers against the steps of `terminal_read` | |
| `Rtc` | clock driver, its interrupt line, the chip | |
| `Rofs` | lookup and reads on a constant image, with a reference definition of a file's bytes | operators only |
| `Files` | descriptors, on top of `Rofs` | |
| `Paging` | page directory and page tables, the five functions that change them, what an access reaches | part of `Screen` and `Boot` |
| `Screen` | `putc`, `do_enter`, `scroll` of the running program instruction by instruction, against keys and switches; `vidmap` | extends `Paging` |
| `Boot` | `entry` up to the first shell, against the keyboard handler with its modifier keys | extends `Paging` |
| `Programs` | shell, cat, ls, grep, fish, counter, hello, syserr; command line and arguments | composes with `Files` and `Rofs` (EXTENDS) |
| `Induction` | induction over the naturals and recursive functions, stated with sets and functions | lemmas only |
| `ProcessesProofs`, `KeyboardProofs`, `RtcProofs`, `FilesProofs`, `ScreenProofs`, `BootProofs`, `ProgramsProofs` | TLAPS proofs about the module of the name | `ProcessesProofs` also has the refinement of `TerminalStacks`; `ProgramsProofs` extends `FilesProofs` |
| `MC...` | values for the constants, views | |

Definitions named as "Mutant" in comments are variants of the definition that
follows them with a typical mistake in them; nothing uses them except the
mutation runs of `PROJECT.json`, which show that each property can fail.

### Processes

A step is one call with interrupts disabled. `cpu` is what the processor runs:
the pid whose kernel stack is in use, how many frames of `execute` are left on it,
and whether it is in the program (`user`), in a system call before its effect
(`syscall`) or in an exception handler (`fault`). Keys, so terminal switches,
can come in all three. `get_current_pcb()` masks the stack pointer, which is why
`halt` works on `cpu.pid` and not on `term_pid`; that they agree is
`RunningContext`. A kernel stack position is `[pid, depth]`, `depth` counting the
dead and live frames of `execute` above it.

`page` is the pid whose block is mapped at `VIRTUAL_START`, `mem[p]` the program
image in block `p`, `term_esp` the stack saved by `terminal_save` with what the
context on it does when it is resumed. `execute` is four actions by outcome
(`ExecuteFail`, `ExecuteRefuse`, `ExecuteExit`, `ExecuteLaunch`); a command string
is abstracted to the outcome. `Init` is the state when the first shell runs.

### Keyboard

Each key is one action (interrupt gate), each access of `terminal_read` and
`clear_buffer` to a shared variable is one. Only the reader of the terminal in front runs.
`line` and `entered` are history: what was typed and entered in each terminal; so is
`wrapped`, the terminals whose line has passed the right margin since it was begun.
Characters carry the terminal they were typed in. A *user* is chosen at the
start: who types at any time (`hasty`), who waits after Enter (`patient`), who
types only at a prompt and uses the arrow keys (`prompted`); the properties say
which users can rely on what. Of the cursor the column is modelled;
`ColumnAfter` and `ColumnBefore` are `putc` and `do_backspace` without the row, the wrap at the
margin included. A line of the code's 128 characters passes the margin of its 80 columns, and so do lines
of the run. `MIN_X`, `MIN_BOUND` and `MAX_BOUND` bound how far the arrow keys, Backspace
and characters take the column and `right_bound`. A store outside the buffer, which only the arrow keys lead to, is
dropped (`Store`): in the code it changes the neighbouring fields of `terminal_t`.

### Rtc

The kernel is built without optimisation (`Makefile`: `CFLAGS` has no `-O`), so the
loop of `rtc_read` loads `int_occur` every time although it is not `volatile`.
`index` is the register the chip's port selects, shared by the handler and
`rtc_close`. `disable_irq` is three steps there, since it runs with interrupts enabled: the bit is set in
`slave_mask` (`CloseMask`), `slave_mask` is loaded again (`CloseLoad`, into the process's `loaded`), and what was
loaded is written to the PIC (`CloseOutMask`). The chip (`Tick`) is external: it raises a tick while register B
enables it, the divider runs and the rate is not 0, and no other one before register C
is read; its rates 1 and 2 are 256 and 128 Hz (`HardwareFreq`). `Running(where)` restricts system calls to the
process in front. `closed` is history: the process has closed a descriptor since it last opened one.

### Rofs and Files

The image is a constant. Names and bytes are sequences of characters, short
because `FILE_NAME_LENGTH` and `BLOCK_SIZE` are. `read_length` is the 32-bit
arithmetic of `read_data`, with `UINT` for 2^32. A read whose count wraps runs
off the program's page and ends in the page fault handler (`ReadFaults`). The
processes of one terminal are a stack; tables of other terminals are disjoint.
Reads of the keyboard do not touch the table and are in `Keyboard`; reads and writes of
the clock are a call that returns 0 here (`UseRtc`), and in detail in `Rtc`, with the write that is refused (`WriteRefused`).

### Paging and Screen

`Paging` keeps the five entries of the page directory the kernel uses. `TERM_MEM` and
`vidmap`'s window share `userTable`, so they are two names of the same pages; `Reach` is
the processor's translation, with the user bits, and every access of `Screen` and
`Boot` to a terminal's frame or through the window goes through it.

In `Screen` a key with its echo or its switch is one action; a program's `putc` is
one action per access to `screen_x`, `screen_y` and the video memory, and a row of
`scroll` at a time. The operators `Putc`, `DoEnter`, `Scrolled`, ... are the same routines run to
their end, as the handler does. A cell holds the number of the terminal its
character belongs to. `alone` is history: the screen each terminal would have if it
had the machine to itself; it uses the operators, so it is a reference for the interleaved
steps. A *prompted* user types while a program reads and within a row, and switches at any moment except between
Enter and the end of the read; a
*hasty* one types any time. For the hasty one the screen does get mixed up, which is
the finding `screen_below`.

### Boot

One action per step of `entry`, `init_terminals` and `terminal_start` that a key
could come before or after. Errors end in a stage that is not followed further: `returned`
(loader), `spin` (no shell in the image), `faulted` (a page fault, or `terminal[-1]`, with no process to
halt), `away` (Alt+Fn in the middle of the boot). The keyboard handler is here with all
modifier keys and some columns of `key_scancodes`; `held` is the state of the keys themselves, which
may be down before the machine starts. `mixed` is history: a shift is held that
caps lock or the other shift has interfered with.

### Programs

A program is a chain of system calls, one action each with the computation up to
the next call. The calls are the actions of `Files`. Words are single
characters (`"cat"`, `"text"`), so that a name of `FILE_NAME_LENGTH` 3 can be cut and a
command split. A byte of an uninitialised local is any member of `Garbage`: `grep` looks
at the byte behind its data, `syserr` at a buffer that may not have been written.
Processes of one terminal only; that other terminals do not interfere with
descriptors is `Files`, with the rest `Processes`.

## Runs

| Run | Checks | Bounds |
|---|---|---|
| `processes` | type, `ProcessAccounting`, `RunningContext`, `FamilyTree`, `Generations`, `LastIsRoot`, `SavedFrames`, `RootsAreShells`, `ImageStable`, `NoSuchCommand`, `ImplementsStacks` | 4 processes, 3 terminals, 2 programs, 2 frames lost per stack: 157 thousand states |
| `keyboard` | type, `PatientOneLine`, `KeysInBounds`, `NoCrossTalk`, `CursorAligned`, `EnterEndsRead` | 2 terminals, buffer of 2, 9 columns with a prompt of 7, positions modulo 4, reads of 1 and 3 bytes, three users: 1.26 million states |
| `rtc` | type, `FreshTick`, `MaskedWhenClosed`, `FrequencySet`, `AloneDividerKept`, `ReadReturns` | 2 terminals, 1 or 2 clients with up to 2 descriptors each, frequencies 0, 2, 3, 16383: 144 thousand states |
| `files` | type, `OwnDescriptors`, `RtcBalance`, `Stream` | 2 PCBs, 4 descriptors each, 5 entries, files of 3 and 2 bytes in blocks of 2: 103 thousand states |
| `screen` | type, `AsAlone`, `LineShown`, `Mapped` | 2 terminals, 2 rows of 4, buffer of 2, a prompted user: 585 thousand states |
| `boot` | type, `KeysState`, `FirstShell`, `BootEnds` | every loader, buffer of 2, positions modulo 4, three users: 87 thousand states |
| `programs` | type, `ArgsDelivered`, `RightOutput`, `TestsPass`, `ProgramsEnd` | 3 processes, 5 descriptors, 13 directory entries, 19 commands, buffers of 4 and 5 bytes: 8 thousand states |

Four processes are the fewest with which three terminals are open and one of
them has a parent and a child while the limit is reached; `MAX_FRAMES` bounds the
kernel stack that `halt` loses (see the findings) and lets a shell run two
commands in a row between switches. A buffer of 2 has an empty, a partly full and
a full state; reads of 1 and 3 are shorter and longer than it. A buffer of 2 behind a prompt of 7 in
9 columns fills the row: its second character takes the cursor over the margin. Two clients are
enough for every race of the clock since the actors share single variables; two descriptors are the fewest
of which one can be closed and the other used.
Two rows of four columns are the smallest screen with a margin, a row that is not
the last, a line that does not end at the margin, and a scroll of more than one step;
three rows of three (4.2 million states) pass too, and take too long to keep.
The image of `programs` has a text that `grep`'s buffer cuts inside a line, at its end and
behind it, and two frames whose rows and lengths differ both ways; `RADIX` 2 makes
`counter` print numbers of three digits.

The views leave out what is written before it is read again: PCBs and images of
free pids, the saved state of the terminal in front, closed descriptors, the
result registers, the cursor where no arrow key is used, and history variables for
the users whose properties do not read them. Invariants and action
properties never read what a view leaves out, except in the step that has just
written it. `EnterEndsRead` is checked under the view of `keyboard` too: two states
with the same view have the same steps up to the view, each step of `terminal_read` changes the
view, and the property reads nothing else, so no fair behaviour is lost or added. The same holds of `ReadReturns` and the
view of `rtc`, which keeps the frequency and `closed` for a program alone with the clock, the only one these are
read for.
`boot` and `programs` have no view. `boot` does not check deadlock, because a boot may end.

Five runs end in a counterexample; each states what a comment or a program of
the repository says:

| Run | What happens |
|---|---|
| `parent_stack` | after a command the parent's `tss.esp0` points below a dead frame of `execute`; its kernel stack shrinks with every command until the next terminal switch |
| `enter_hops` | Enter, then Alt+Fn, ends the read of the other terminal's program |
| `rtc_wait` | another terminal's program closes the clock; the waiting one never returns |
| `rtc_divider` | a tick inside `rtc_close` makes it write another register's bits to register A |
| `screen_below` | Enter between `do_enter`'s test and its increment: `screen_y` is `NUM_ROWS` and nothing scrolls any more |

Met while modelling, and followed by the modules without a run of their own:

* `halt(-1)` of an exception handler reaches the parent as 255; the shell looks for 256
  (`src/syscalls/ece391shell.c:30`).
* After typing in the middle of a full line, the right arrow takes `key_buffer_pos` past
  the buffer (`keyboard.c:319`); the left one stops by the column only.
* `do_backspace` at column 0 goes to column `NUM_COLS - 2` (`lib.c:646`) although the row's last character is in
  column `NUM_COLS - 1`: the wrong cell is blanked, and the cursor stays one column off.
* A program that closes one of its two descriptors of the clock, sets a frequency on the other and reads it
  waits for ever: the close has masked the line (`rtc.c:82`). `ReadReturns` is therefore about programs that have
  closed none since their last open.
* `disable_irq` in `rtc_close`, left after another terminal's open has unmasked `slave_mask` and it has been loaded, writes
  that mask to the PIC when it goes on (`i8259.c:144`), even if the other program has closed the clock meanwhile:
  IRQ 8 is unmasked with no descriptor open. `MaskedWhenClosed` is therefore about `slave_mask`, and about
  the PIC for a program alone.
* `dir_read` returns the length of a name even if `nbytes` was smaller (`rofs.c:237`).
* Caps lock pressed while shift is held makes `keys_state` forget the shift (`keyboard.c:111`), and
  so does releasing one of two held shifts; `KeysState` says that these are the only cases.
* With shift and caps lock the backslash key gives a backslash, not a bar (`keyboard.c:28`).
* Ctrl+L is compared with a small l after the modifiers have been applied, so it does nothing under
  caps lock (`keyboard.c:192`); it leaves the old characters in the buffer behind the position.
* A character key between `init_paging` and `terminal_start` stores through a NULL
  `key_buffer` and faults; Alt+Fn before `term_cur` is set reads `terminal[-1]`; an early Enter
  leaves `enter_pressed` set for the first read.
* `grep` reads the byte behind its data; where that uninitialised byte is a newline at the end of a
  full buffer, the line is searched in two halves (`src/syscalls/ece391grep.c:33`).

**Fairness.** `WF(terminal_read)`: the program in front has the processor and its
loop is polling. `WF(rtc_read)`, `WF(rtc_close)` likewise; `WF(Handler)`: an unmasked interrupt
is taken; `WF(Tick)`: a running chip ticks. `WF(entry)` in `Boot`: the processor returns from
each interrupt to `entry`. `WF(Run)` in `Programs`: a program that has been started keeps
running; this includes that the user answers the prompts of `counter`, `hello` and `syserr`, which have no
other way to end. Otherwise nothing is assumed of the user, nor, in `Rtc` and `Keyboard`,
that a program makes another call.

## Proofs

Every invariant and action property that a passing run checks is also a theorem, for every value of
the constants that the modules' `ASSUME`s allow. `PROJECT.json` lists the theorems with the property each of them
states. The assumptions beyond types and sizes are these; TLC evaluates the `ASSUME`s in the runs:

* `ImageAssumption` (`Rofs`): the image is one the file system's tool makes; the entries of files name
  inodes, and an inode has a block for each of its bytes.
* `KeyboardAssumption`: the null that `clear_buffer` stores is no character of a key, the row is wider than the shell's
  prompt of 7 columns, and the buffer is shorter than the range of its unsigned position. The width of the row and
  the size of the buffer are otherwise independent, as the code's 80 and 128 are.
* `Freqs \subseteq Settable` (in `DividerAlone` and `Frequency`): the programs write
  frequencies other than 1 and below 16384, those `rtc_write` finds a rate of `rtc.h` for; at 1 Hz the rate is
  16, which is a divider bit, from 16384 Hz on it is 2 and 1, which the chip runs at 128 and 256 Hz, and from
  65536 Hz up it is zero or negative.
* `ProgramsAssumption`: the buffers of `cat` and `ls` have room for a name and their sizes are below 2^32,
  there are at least three descriptors beside the standard ones (fish needs them), `NEG` and `BIG`, which
  `syserr` takes for no descriptor, are none, and the radix is one `lookup` has digits for.
* `DirectoryAssumption` (`Programs`): names are unique and fit their field; the directory, and
  nothing else, begins with a dot; the frames of `fish` are there, and the names `syserr` makes up are
  not. `grep` skips what begins with a dot without looking at its type, and `fish` and `syserr` come
  with such an image. No file is named like a place of a program in the model (`Places`): the name of a
  program is where it starts.
* `PromptColumns = {7}` and `MAX_BOUND < UINT + 7` (in `CursorMoves`): the prompt is the
  shell's, whose seven columns `handle_left` compares with, and `right_bound` stays small enough that
  `key_buffer_pos` does not wrap.

### Processes

`Inductive`: `IInv` is an invariant. `IInv` is `TypeOK`, `ProcessAccounting`,
`RunningContext`, `FamilyTree`, `Generations`, `SavedFrames` and `RootsAreShells`
together. None is inductive alone: that `halt` returns to a live parent on its own stack
(`RunningContext`) needs the saved frames; that the parent becomes no second
terminal's top needs `FamilyTree`; that the restart test by the count is right
needs `Generations`, which ties the counts to the length of the parent chains by
a function `gen` from pids to positions in their chain. Its preservation is the
core: a launch gives the new pid the count of its terminal, a halt of a top
leaves `gen` as it is for the others. `TypeCorrect`, `Accounting`, `Running`, `Chaining`, `Depth`,
`Frames`, `Roots` and `Restarting` follow from it; `Isolation` and `TruthfulShell` are action properties,
proved from `IInv` and `NextStep`.

The layout: lemmas about the counts (`Room`, `TotalUp`, `TotalDown`, `TotalBound`),
about `Launch` from the states in which it is called (`LaunchStep` from
`Launchable`), one step lemma per kind of action (`QuietStep`, `HaltStep`,
`OpenStep`, `LoadStep`, `ExecuteStep`), and `NextStep`, which splits on the disjuncts of
`Next`.

The last part of `ProcessesProofs` is `Refinement`, that `Processes` implements `TerminalStacks`. The mapping reads a terminal's
stack off the parent links with a recursive function; what it computes, and that a step of one
terminal leaves the chain of another alone, is proved by induction on the links
(`Chain...`), and each action maps to `Push`, `Pop`, a switch or a stutter.

### Keyboard

`KeysInBounds` and `NoCrossTalk` are inductive on top of the types. `PatientOneLine` needs `LinesInv`:
for each terminal, in front or saved, and each place in `terminal_read` and `clear_buffer`, what the
buffer, the position, `right_bound`, the pending Enter and the bytes copied so far have to do with the
lines typed and entered. `CursorAligned` needs `CursorInv`, the same for the column. Both are stated on one
terminal's values, so a step of one terminal is nothing to another.

`CursorAligned` ends for a terminal when its line passes the margin (`wrapped`), until Ctrl+L or the next prompt; what
happens beyond is among what was met while modelling. It is about the user who does not press Enter and then Alt+Fn (`~user.hops`): for the one who does, a
read of another terminal ends with the first one's line, which is the finding `enter_hops`.

### Rtc

`TypeOK`, `FreshTick` and `MaskedWhenClosed` follow from one invariant on the masks, the
descriptors held and the ticks seen, for any clients (`Held`: `slave_mask`), with a part for a program alone with the
clock (`AloneHeld`: the mask loaded and the PIC's); `AloneDividerKept` and `FrequencySet` from a
second one on the registers of the chip, for a program that has the clock to itself. The loop
of `rtc_write` is a recursive function (`Halvings`); that it gives the largest power of two not
above the frequency is proved by induction.

### Files

`FilesInv` is the four properties and that a process is on the stack once and that one which is not
has nothing open. All calls that succeed are instances of one step, a descriptor written; `execute`
and `halt` write whole tables. `Stream` rests on the file system: `FileBytes`, the blocks of a file put
one after the other and cut, is byte for byte what `read_data` finds through the block numbers
(`Division`, `Flatten`, `FlattenBlocks`, `FileAt`), and a read appends exactly the next bytes (`MoreTold`).

### Screen

`ScreenInv` has the types, the page tables, the terminals not opened yet, and for each open one two
predicates. `Placed` bounds the column and the register at each instruction of `putc`, for
the hasty user too. `Pending`, for the prompted one, says what the program still has to do: at each
instruction the screen had the terminal the machine to itself is the rest of `putc`, `do_enter` or `scroll`
applied to the screen as it is. A step of the program does a part of the rest (`StoreStep`; a row of `scroll`
is `ScrollTurn`), an echo at the prompt does the same to both screens (`KeyStep`), and a switch moves the
screens and changes none (`Exchanged`, `PutAway`), because the page tables lead `terminal_save` and
`terminal_load` to the frames (`Reaches`, which is `Mapped`). `Lined` is `LineShown` with the end of a read. `printf` of a
text is a recursive function, and `PutAllShot` an induction on it. The theorems hold for every size of the screen.

`TypeOK` says nothing of `alone` for the hasty user: his backspaces, applied to a screen that is
no longer like the one in front, may leave its corner. Nothing reads `alone` for him.

### Boot

`BootInv` says for each stage of `entry` what is set up by then, and what the flags of the handler have to do with the
keys held; `TypeOK`, `KeysState` and `FirstShell` follow.

### Programs

`ProgramsInv` is `Kept /\ Inside`. `Kept` holds of every process: `FilesInv`, the types, `ArgsDelivered`, and
`Placed`, that a process is at a place of the program it was executed as, that those below the one that
runs are shells that wait, and that a free PCB has left nothing. `Inside` says, for each place of the program that runs, how far its
output has come, in terms of what `FilesInv` says of its descriptors:

* `cat`, `ls`: what is written is what was read (`CatReading`, `LsReading`); that `read` returns 0 only at the end is
  `ReadOutcome`.
* `grep` (`GrepReading`): of what has been read of the file, the lines before the last are reported and the
  last is in the buffer, or all are reported and the file is at its end. That one read keeps this is
  `GrepTurn`, from `LinesBehind`: text behind a text changes only its last line.
* `fish` (`FishReading0`, `FishReading1`, ...): which row and column the next character of each frame has, also behind the end of
  a row or a file (`InFrame`, `CharStep`); the cells shown are those before that place, each once. At
  the end of both files nothing is left below (`BelowEmpty`).
* `counter`: the line of a number reads as the number (`Counted`); `ece391_itoa` is a recursive function and its
  inverse `NumberOf` a loop.
* `syserr` (`Testing`): how many of the calls have failed and what is open. Seven tests consist of
  calls that fail for a process with nothing open (`BadFails`); `err_open_lots` fills the table, whatever its size, and empties it.

The calls come in as outcomes (`OpenOutcome`, `ReadOutcome`, `CloseOutcome`), proved once from the steps of `FilesProofs`;
then there is one step lemma per action (`...Step`). The theorems `ProgramsTyped`, `ArgumentsDelivered`,
`SyserrPasses` and `OutputRight` follow from `ProgramsInv`. `OutputRight` is about every text of every file: its lines may be
empty, longer than the buffer, or end without a newline. Of `grep` it says nothing when any file of the image has a line that
does not fit in the buffer (`LinesFit`), since its output for all files is one text.

### Induction over data

The library's induction theorems take predicates, which the provers do not instantiate. `Induction` has the
same facts for sets and functions: a set of naturals with 0 and closed under successor is all of them
(`SetInduction`), and a recursive definition whose argument decreases defines a function that satisfies its
equation (`RecursiveFunction`). The proofs about `Halvings`, `FlattenSeq`, the parent chains, `PutAll`, `Lines`, `NumberOf` and
`ece391_itoa` use them.

### Only model-checked

* Liveness: `EnterEndsRead`, `ReadReturns`, `BootEnds` and `ProgramsEnd`. The provers handle neither
  fairness nor `ENABLED`.
* The five violations, which are about reachable states of an instance.

## Not modelled

* The colours of the screen (attribute bytes), the conversions of `printf`, the memory routines:
  no property is about them.
* The fields of descriptors and the words written to the PIC, beyond the vectors and lines
  they result in; `boot.S` and `x86_desc.S`, which precede `entry`.
* `set_handler` and `sigreturn`, which return -1; `list_all_files`, `read_dentry_by_index`,
  `remapVideo` and `test_interrupts`, which nothing calls.
* `pingpong` (an endless loop of writes and clock reads), `testprint` (one write),
  `sigtest` (the signal stubs), `emulate` (runs on a host in place of the kernel), the assembler of `fish`'s blinking.
* The byte `execute` stores behind `com_buf` when a command of 128 characters has no blank (`syscalls.c:124`); such a
  command can be typed, and what stands there is the compiler's choice.
* What happens after a fault or a terminal switch inside the boot, and the contents of
  kernel stacks.
* The image tools, which are binaries.
