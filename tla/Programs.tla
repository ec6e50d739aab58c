------------------------------ MODULE Programs ------------------------------
(***************************************************************************)
(* The shell and the user programs (syscalls/ece391*.c, fish/fish.c) on    *)
(* the system calls of Files, with execute()'s command line, getargs() and *)
(* the status halt() hands to the shell.                                   *)
(*                                                                         *)
(* A program is a sequence of system calls: one action each, with the      *)
(* computation that follows it up to the next call.  A name or a line is a *)
(* sequence of characters, and a word of interest is one character.        *)
(***************************************************************************)
EXTENDS Files

CONSTANTS
    Commands,      \* the lines a user types at the shell's prompt
    Replies,       \* the lines typed at the prompts of counter and syserr
    CounterMax,    \* what counter counts to, for each of its choices
    RADIX,         \* 10 in the code
    CAT_BUFSIZE, GREP_BUFSIZE,
    SBUFSIZE,      \* 33 in the code
    WAIT,          \* how many ticks fish waits for: 2600 in the code
    BadNames,      \* names syserr opens: too long, too short and empty
    Garbage        \* what an uninitialized byte may hold

NL == "\n"
BLANK == " "
ELF == "elf"       \* the four bytes of MAGIC0 to MAGIC3
NUL == "nul"

\* Numbers of syserr that are no descriptor and no system call.
NEG == -1073741823
BIG == 1073741823

\* Where a program is between its first call and its end.
Places ==
    {"execute", "report", "wait", "halt", "cat read", "ls read", "grep dir", "grep open",
     "grep read", "grep close", "fish clock", "fish open0", "fish open1", "fish read0",
     "fish read1", "fish close0", "fish close1", "fish rate", "fish wait", "fish close",
     "count", "test"}

\* Characters are strings; the buffers have room for a name, and their sizes are
\* far below 2^32.
ASSUME ProgramsAssumption ==
    /\ RADIX \in 2..10 /\ WAIT \in Nat /\ FILE_NAME_LENGTH \in Nat
    /\ {4, CAT_BUFSIZE, GREP_BUFSIZE, SBUFSIZE - 1} \subseteq 1..UINT-1
    /\ FILE_NAME_LENGTH <= CAT_BUFSIZE /\ FILE_NAME_LENGTH <= SBUFSIZE - 1
    /\ MAX_FILES > 4 /\ MAX_FILES <= BIG
    /\ Commands \cup Replies \subseteq Seq(STRING)
    /\ Visible \cup Garbage \subseteq STRING
    /\ \A c \in DOMAIN CounterMax : CounterMax[c] \in Nat

\* The directory is one that the image tool makes of the programs and their files:
\* names of at most FILE_NAME_LENGTH characters, each once; the directory itself,
\* and nothing else, begins with a dot; fish has its frames, and the names syserr
\* makes up are no file's.
ASSUME DirectoryAssumption ==
    /\ dentries \in Seq([file_name : Seq(STRING), file_type : Types, inode_num : Nat])
    /\ \A k \in DOMAIN dentries :
          LET d == dentries[k] IN
          /\ Len(d.file_name) \in 1..FILE_NAME_LENGTH
          /\ d.file_name[1] = "." <=> d.file_type = "dir"
          /\ d.file_name[1] \notin Places
          /\ \A j \in DOMAIN dentries : dentries[j].file_name = d.file_name => j = k
    /\ \E k \in DOMAIN dentries : dentries[k].file_name = <<".">>
    /\ \A name \in {<<"frame0">>, <<"frame1">>} : \E k \in DOMAIN dentries :
          dentries[k].file_name = name /\ dentries[k].file_type = "file"
    /\ BadNames \in Seq(Seq(STRING))
    /\ \A k \in DOMAIN BadNames : read_dentry_by_name(BadNames[k]) = 0

VARIABLES
    args,    \* pcb->args
    proc,    \* each process: where it is, and its locals
    out,     \* history: what it has written
    cmd      \* history: the command it was executed with

programVars == <<args, proc, out, cmd>>
allVars == <<vars, programVars>>

\* The locals of all the programs: descriptors, a buffer, a file name, a counter,
\* the status of the last child or of the program itself, and do_one_file's last
\* byte of data.
Fresh(pc) ==
    [pc |-> pc, fd |-> 0, fd0 |-> 0, fd1 |-> 0, buf |-> <<>>, name |-> <<>>, i |-> 0,
     status |-> 0, c0 |-> "0", c1 |-> "0", eof |-> {}, row |-> 0, cnt |-> 0,
     junk |-> NUL, unlucky |-> FALSE, chosen |-> 0]

Now == proc[Current]
At(pc) == Now.pc = pc

Become(p) == proc' = [proc EXCEPT ![Current] = p]
Goto(pc) == Become([Now EXCEPT !.pc = pc])
Exit(status) == Become([Now EXCEPT !.pc = "halt", !.status = status])

\* ece391_write(1, ...) and ece391_fdputs(1, ...)
Write(text) == out' = [out EXCEPT ![Current] = @ \o text]
Silent == UNCHANGED out

\* The system calls, with every outcome they have.
open(name) == Open(name) \/ OpenFails(name)

read(fd, n) ==
    \/ CallFails("read", fd)
    \/ fd \in Fds /\ (ReadFile(fd, n) \/ ReadDir(fd, n) \/ UseRtc(fd))

close(fd) == CallFails("close", fd) \/ (fd \in Fds /\ Close(fd))

\* A call that leaves the descriptors alone.
Answers(value) ==
    /\ result' = Returns(value, <<>>)
    /\ UNCHANGED <<stack, files, rtc_opens, opened, seen>>

\* write() of one character, or of a rate to the clock.
write(fd) ==
    \/ CallFails("write", fd)
    \/ fd \in Fds /\ UseRtc(fd)
    \/ fd \in Fds /\ IsOpen(Current, fd) /\ files[Current][fd].ops = "stdout" /\ Answers(1)

VIRTUAL_START == 134217728
VIRTUAL_END == 138412032

\* vidmap() takes the address of a variable of the program.  Screen has the mapping.
vidmap(address) ==
    Answers(IF address = 0 \/ address < VIRTUAL_START \/ address > VIRTUAL_END THEN -1
            ELSE 0)

Failed == result'.value = -1

\* getargs(): -1 without arguments.
NoArgs == args[Current] = <<>>
-----------------------------------------------------------------------------
(***************************************************************************)
(* execute() and halt() as the shell sees them.                            *)
(***************************************************************************)
FirstBlank(command) == SelectInSeq(command, LAMBDA c : c = BLANK)

CommandName(command) ==
    IF FirstBlank(command) = 0 THEN command
    ELSE SubSeq(command, 1, FirstBlank(command) - 1)

\* Mutant: without arguments, the last ones of the PCB stay.
StaleArgs(q, command) ==
    IF FirstBlank(command) = 0 THEN args[q]
    ELSE SubSeq(command, FirstBlank(command) + 1, Len(command))

\* What execute() leaves in the args of its new PCB.
CommandArgs(q, command) ==
    IF FirstBlank(command) = 0 THEN <<>>
    ELSE SubSeq(command, FirstBlank(command) + 1, Len(command))

Executable(name) ==
    /\ read_dentry_by_name(name) # 0
    /\ read_data(dentries[read_dentry_by_name(name)].inode_num, 0, 1) = <<ELF>>

InitPrograms ==
    /\ Init
    /\ args = [p \in Pids |-> <<>>]
    /\ proc = [p \in Pids |-> Fresh("shell")]
    /\ out = [p \in Pids |-> <<>>]
    /\ cmd = [p \in Pids |-> <<"shell">>]

\* The shell reads a line.
ShellRead(line) ==
    /\ At("shell")
    /\ CASE line = <<"exit">> -> Exit(0)
         [] line = <<>>       -> Goto("shell")
         [] OTHER             -> Become([Now EXCEPT !.pc = "execute", !.buf = line])
    /\ out' = [out EXCEPT ![Current] = <<>>]
    /\ Answers(0)
    /\ UNCHANGED <<args, cmd>>

IsExit == CommandName(Now.buf) # <<>> /\ CommandName(Now.buf)[1] = "exit"

\* execute() of "exit" and of whatever begins with it halts the shell itself.
ExecuteExit ==
    /\ At("execute") /\ IsExit
    /\ Exit(0)
    /\ Answers(0)
    /\ UNCHANGED <<args, out, cmd>>

\* execute() returns to the shell without a child: -1 for what is no program, 0
\* when all the processes are taken.
ExecuteFails ==
    LET name == CommandName(Now.buf) IN
    /\ At("execute") /\ ~IsExit
    /\ ~Executable(name) \/ Live = Pids
    /\ Become([Now EXCEPT !.pc = "report", !.status = IF Executable(name) THEN 0 ELSE -1])
    /\ Answers(0)
    /\ UNCHANGED <<args, out, cmd>>

ExecuteProgram(q) ==
    LET name == CommandName(Now.buf) IN
    /\ At("execute") /\ ~IsExit
    /\ Executable(name)
    /\ \A r \in Pids \ Live : q <= r
    /\ Execute(q)
    /\ proc' = [proc EXCEPT ![Current].pc = "wait", ![q] = Fresh(name[1])]
    /\ args' = [args EXCEPT ![q] = CommandArgs(q, Now.buf)]
    /\ UNCHANGED out
    /\ cmd' = [cmd EXCEPT ![q] = Now.buf]

\* What the shell prints for the value execute() returned.
Message(status) ==
    CASE status = -1  -> <<"no_such_command">>
      [] status = 256 -> <<"program_terminated_by_exception">>
      [] status = 0   -> <<>>
      [] OTHER        -> <<"program_terminated_abnormally">>

ShellReport ==
    /\ At("report")
    /\ Write(Message(Now.status))
    /\ Become(Fresh("shell"))
    /\ Answers(0)
    /\ UNCHANGED <<args, cmd>>

\* halt(): the status, a byte, goes to the shell that waits; a terminal's last
\* process is followed by a new shell.
HaltProgram ==
    /\ At("halt")
    /\ Halt
    /\ \A r \in Pids : Len(stack) = 1 => stack'[1] <= r
    /\ out' = [out EXCEPT ![Current] = <<>>]
    /\ cmd' = [cmd EXCEPT ![Current] = <<"shell">>]
    /\ LET q == stack'[Len(stack')]
           without == [proc EXCEPT ![Current] = Fresh("shell")]
       IN
       IF Len(stack) > 1
       THEN /\ proc' = [without EXCEPT ![q].pc = "report", ![q].status = Now.status % 256]
            /\ UNCHANGED args
       ELSE /\ proc' = without
            /\ args' = [args EXCEPT ![q] = <<>>]

Shell ==
    \/ \E line \in Commands : ShellRead(line)
    \/ ExecuteExit \/ ExecuteFails \/ ShellReport
    \/ \E q \in Pids : ExecuteProgram(q)
-----------------------------------------------------------------------------
(***************************************************************************)
(* cat and ls                                                              *)
(***************************************************************************)
CatOpen ==
    /\ At("cat")
    /\ IF NoArgs
       THEN Answers(0) /\ Exit(3) /\ Write(<<"could_not_read_arguments">>)
       ELSE /\ open(args[Current])
            /\ IF Failed THEN Exit(2) /\ Write(<<"file_not_found">>)
               ELSE Become([Now EXCEPT !.pc = "cat read", !.fd = result'.value]) /\ Silent
    /\ UNCHANGED <<args, cmd>>

CatRead ==
    /\ At("cat read")
    /\ read(Now.fd, CAT_BUFSIZE)
    /\ CASE result'.value = 0 -> Exit(0) /\ Silent
         [] Failed            -> Exit(3) /\ Write(<<"file_read_failed">>)
         [] OTHER             -> Goto("cat read") /\ Write(result'.data)
    /\ UNCHANGED <<args, cmd>>

LsOpen ==
    /\ At("ls")
    /\ open(<<".">>)
    /\ IF Failed THEN Exit(2) /\ Write(<<"directory_open_failed">>)
       ELSE Become([Now EXCEPT !.pc = "ls read", !.fd = result'.value]) /\ Silent
    /\ UNCHANGED <<args, cmd>>

LsRead ==
    /\ At("ls read")
    /\ read(Now.fd, SBUFSIZE - 1)
    /\ CASE result'.value = 0 -> Exit(0) /\ Silent
         [] Failed            -> Exit(3) /\ Write(<<"directory_entry_read_failed">>)
         [] OTHER             -> Goto("ls read") /\ Write(Append(result'.data, NL))
    /\ UNCHANGED <<args, cmd>>
-----------------------------------------------------------------------------
(***************************************************************************)
(* grep: main() and do_one_file().  fd is the directory, fd0 the file, buf *)
(* the first bytes of data.                                                *)
(***************************************************************************)
\* The pieces of a text between its newlines, the one behind the last included.
Lines(text) ==
    LET upto[n \in 0..Len(text)] ==
            IF n = 0 THEN << <<>> >>
            ELSE LET lines == upto[n - 1] IN
                 IF text[n] = NL THEN Append(lines, <<>>)
                 ELSE [lines EXCEPT ![Len(lines)] = Append(@, text[n])]
    IN  upto[Len(text)]

Matches(line, s) ==
    \E i \in 1..Len(line) : Cut(SubSeq(line, i, Len(line)), Len(s)) = s

\* The output for the lines that contain the argument.
Report(name, lines, s) ==
    FlattenSeq([k \in DOMAIN lines |->
        IF Matches(lines[k], s) THEN name \o <<":">> \o lines[k] \o <<NL>> ELSE <<>>])

GrepStart ==
    /\ At("grep")
    /\ IF NoArgs
       THEN Answers(0) /\ Exit(3) /\ Write(<<"could_not_read_argument">>)
       ELSE /\ open(<<".">>)
            /\ IF Failed THEN Exit(2) /\ Write(<<"directory_open_failed">>)
               ELSE Become([Now EXCEPT !.pc = "grep dir", !.fd = result'.value]) /\ Silent
    /\ UNCHANGED <<args, cmd>>

GrepDir ==
    /\ At("grep dir")
    /\ read(Now.fd, SBUFSIZE - 1)
    /\ CASE result'.value = 0 -> Exit(0) /\ Silent
         [] Failed            -> Exit(3) /\ Write(<<"directory_entry_read_failed">>)
         [] OTHER             ->
              /\ Silent
              /\ IF result'.data[1] = "." THEN Goto("grep dir")
                 ELSE Become([Now EXCEPT !.pc = "grep open", !.name = result'.data])
    /\ UNCHANGED <<args, cmd>>

\* do_one_file() begins: data is uninitialized.
GrepOpen ==
    /\ At("grep open")
    /\ open(Now.name)
    /\ IF Failed THEN Exit(3) /\ Write(<<"file_open_failed">>)
       ELSE /\ \E byte \in Garbage :
                  Become([Now EXCEPT !.pc = "grep read", !.fd0 = result'.value, !.buf = <<>>,
                                     !.junk = byte])
            /\ Silent
    /\ UNCHANGED <<args, cmd>>

\* Mutant: the unfinished line at the end of data is searched, not kept.
KeepsNothing(lines, cnt, behind) == FALSE

\* Whether the line that reaches the end of data is copied to its start, to be
\* completed by the next read: behind is the byte of data that follows.
KeepsLast(lines, cnt, behind) == behind # NL /\ cnt # 0 /\ Len(lines) > 1

\* Mutant: the end of the file is not noticed.
GrepReadsOn(cnt) == "grep read"

GrepNext(cnt) == IF cnt = 0 THEN "grep close" ELSE "grep read"

\* One read, and the search of the lines it completes.  The byte behind a full
\* buffer is uninitialized until a line that ends there has put a null in it;
\* behind fewer bytes, which only the end of a file gives, anything may be.
GrepRead ==
    /\ At("grep read")
    /\ read(Now.fd0, GREP_BUFSIZE - Len(Now.buf))
    /\ IF Failed THEN Exit(3) /\ Write(<<"file_read_failed">>)
       ELSE \E behind \in IF Len(Now.buf \o result'.data) = GREP_BUFSIZE THEN {Now.junk}
                          ELSE Garbage :
            LET text == Now.buf \o result'.data
                cnt == result'.value
                lines == Lines(text)
                keep == KeepsLast(lines, cnt, behind)
                last == lines[Len(lines)]
                behindFull == Len(text) = GREP_BUFSIZE /\ last # <<>>
            IN
            /\ Write(Report(Now.name, IF keep THEN Front(lines) ELSE lines, args[Current]))
            /\ Become([Now EXCEPT
                  !.pc = GrepNext(cnt),
                  !.buf = IF keep THEN last ELSE <<>>,
                  !.junk = IF behindFull THEN NUL ELSE @,
                  !.unlucky = @ \/ (behindFull /\ behind = NL /\ Len(lines) > 1)])
    /\ UNCHANGED <<args, cmd>>

GrepClose ==
    /\ At("grep close")
    /\ close(Now.fd0)
    /\ IF Failed THEN Exit(3) /\ Write(<<"file_close_failed">>)
       ELSE Become([Now EXCEPT !.pc = "grep dir", !.buf = <<>>, !.junk = NUL]) /\ Silent
    /\ UNCHANGED <<args, cmd>>
-----------------------------------------------------------------------------
(***************************************************************************)
(* fish: main() and add_frames().  fd is the clock, fd0 and fd1 the files  *)
(* of the two frames, i the column.  The blinking itself is in assembler.  *)
(***************************************************************************)
\* mp1_set_video_mode(): the window on the screen is at an address of its own.
FishVideo ==
    /\ At("fish")
    /\ vidmap(VIRTUAL_START)
    /\ IF Failed THEN Exit(-1) ELSE Goto("fish clock")
    /\ UNCHANGED <<args, out, cmd>>

FishOpenClock ==
    /\ At("fish clock")
    /\ open(<<"rtc">>)
    /\ Become([Now EXCEPT !.pc = "fish open0", !.fd = result'.value])
    /\ UNCHANGED <<args, out, cmd>>

FishOpen0 ==
    /\ At("fish open0")
    /\ open(<<"frame0">>)
    /\ IF Failed THEN Exit(-1)
       ELSE Become([Now EXCEPT !.pc = "fish open1", !.fd0 = result'.value])
    /\ UNCHANGED <<args, out, cmd>>

FishOpen1 ==
    /\ At("fish open1")
    /\ open(<<"frame1">>)
    /\ IF Failed THEN Exit(-1)
       ELSE Become([Now EXCEPT !.pc = "fish read0", !.fd1 = result'.value])
    /\ UNCHANGED <<args, out, cmd>>

\* A character of one frame, unless its row has ended; the end of the file ends
\* the row too.
NextChar(fd, c) == IF c = NL THEN Answers(1) ELSE read(fd, 1)

CharRead(c) ==
    CASE c = NL            -> NL
      [] result'.value = 0 -> NL
      [] Failed            -> c
      [] OTHER             -> result'.data[1]

EofAfter(k, c) == IF c # NL /\ result'.value = 0 THEN Now.eof \cup {k} ELSE Now.eof

FishRead0 ==
    /\ At("fish read0")
    /\ NextChar(Now.fd0, Now.c0)
    /\ Become([Now EXCEPT !.pc = "fish read1", !.c0 = CharRead(@),
                          !.eof = EofAfter(0, Now.c0)])
    /\ UNCHANGED <<args, out, cmd>>

\* The second character, and the blinking cell of the two.
FishRead1 ==
    /\ At("fish read1")
    /\ NextChar(Now.fd1, Now.c1)
    /\ LET c0 == Now.c0
           c1 == CharRead(Now.c1)
           Cell(c) == IF c = NL THEN BLANK ELSE c
           rowEnds == c0 = NL /\ c1 = NL
       IN  /\ Become([Now EXCEPT !.pc = IF rowEnds THEN "fish close0" ELSE "fish read0",
                                 !.c1 = c1, !.eof = EofAfter(1, Now.c1),
                                 !.i = IF rowEnds THEN 0 ELSE @ + 1])
           /\ IF {c0, c1} \subseteq {BLANK, NL} THEN Silent
              ELSE Write(<< <<Now.row, Now.i, Cell(c0), Cell(c1)>> >>)
    /\ UNCHANGED <<args, cmd>>

CloseAtEof(k, fd) == IF k \in Now.eof THEN close(fd) ELSE Answers(0)
RowStart(k) == IF k \in Now.eof THEN NL ELSE "0"

FishClose0 ==
    /\ At("fish close0")
    /\ CloseAtEof(0, Now.fd0)
    /\ Become([Now EXCEPT !.pc = "fish close1", !.c0 = RowStart(0)])
    /\ UNCHANGED <<args, out, cmd>>

FramesEnd == Now.eof = {0, 1}

FishClose1 ==
    /\ At("fish close1")
    /\ CloseAtEof(1, Now.fd1)
    /\ Become([Now EXCEPT !.pc = IF FramesEnd THEN "fish rate" ELSE "fish read0",
                          !.c1 = RowStart(1), !.row = @ + 1])
    /\ UNCHANGED <<args, out, cmd>>

\* The clock's rate, and the waits for its ticks.
FishRate ==
    /\ At("fish rate")
    /\ write(Now.fd)
    /\ Goto("fish wait")
    /\ UNCHANGED <<args, out, cmd>>

FishWait ==
    /\ At("fish wait")
    /\ read(Now.fd, 4)
    /\ Become([Now EXCEPT !.cnt = @ + 1,
                          !.pc = IF Now.cnt + 1 < WAIT THEN "fish wait" ELSE "fish close"])
    /\ UNCHANGED <<args, out, cmd>>

FishEnd ==
    /\ At("fish close")
    /\ close(Now.fd)
    /\ Exit(0)
    /\ UNCHANGED <<args, out, cmd>>
-----------------------------------------------------------------------------
(***************************************************************************)
(* counter and hello                                                       *)
(***************************************************************************)
lookup == <<"0", "1", "2", "3", "4", "5", "6", "7", "8", "9">>

\* The digits as ece391_itoa finds them, the lowest first.
DigitsUp[n \in Nat] ==
    IF n = 0 THEN <<>> ELSE <<lookup[1 + (n % RADIX)]>> \o DigitsUp[n \div RADIX]

itoa(n) == IF n = 0 THEN <<"0">> ELSE Reverse(DigitsUp[n])

\* The choice: one of the characters there is a maximum for, or nothing at all.
CounterRead(line) ==
    /\ At("counter")
    /\ IF Len(line) > 1 \/ (Len(line) = 1 /\ line[1] \notin DOMAIN CounterMax)
       THEN Exit(0) /\ Write(<<"Wrong_Choice">>)
       ELSE /\ Become([Now EXCEPT !.pc = "count",
                          !.chosen = IF line = <<>> THEN 0 ELSE CounterMax[line[1]]])
            /\ Silent
    /\ Answers(Len(line))
    /\ UNCHANGED <<args, cmd>>

Count ==
    /\ At("count")
    /\ IF Now.i < Now.chosen
       THEN Become([Now EXCEPT !.i = @ + 1]) /\ Write(itoa(Now.i + 1) \o <<NL>>)
       ELSE Exit(0) /\ Silent
    /\ Answers(0)
    /\ UNCHANGED <<args, cmd>>

HelloRead(line) ==
    /\ At("hello")
    /\ Exit(0)
    /\ Write(<<"Hello">> \o line)
    /\ Answers(Len(line))
    /\ UNCHANGED <<args, cmd>>
-----------------------------------------------------------------------------
(***************************************************************************)
(* syserr: eight tests of calls that must fail.  A test has its calls, how *)
(* many of them it looks at, and how many of those have to return -1.      *)
(***************************************************************************)
Each(call, numbers) ==
    [k \in DOMAIN numbers |-> [call |-> call, arg |-> numbers[k], name |-> <<>>]]
Opens(names) ==
    [k \in DOMAIN names |-> [call |-> "open", arg |-> 0, name |-> names[k]]]
Test(calls) == [calls |-> calls, counted |-> Len(calls), wanted |-> Len(calls)]

FdsFrom(a) == [k \in 1..MAX_FILES-a |-> a + k - 1]

err_fd(fd) ==
    Test(Each("read", <<fd>>) \o Each("write", <<fd>>) \o Each("close", <<fd>>))
err_open_lots ==
    [calls |-> Opens([k \in 1..MAX_FILES-1 |-> <<".">>]) \o Each("close", FdsFrom(2)),
     counted |-> MAX_FILES - 1, wanted |-> 1]
err_open == Test(Opens(BadNames))
err_unopened ==
    Test(Each("close", FdsFrom(0)) \o Each("read", FdsFrom(2))
         \o Each("write", FdsFrom(2)))
err_vidmap == Test(Each("vidmap", <<0, 4194304>>))
err_stdin_out == Test(Each("write", <<0>>) \o Each("read", <<1>>))
err_syscall_num == Test(Each("int80", <<BIG, NEG, 0>>))

Tests == <<err_fd(NEG), err_fd(BIG), err_open_lots, err_open, err_unopened, err_vidmap,
           err_stdin_out, err_syscall_num>>

\* handle_syscall refuses the numbers that are no system call's.
int80(number) == number \notin 1..10 /\ Answers(-1)

Do(c) ==
    CASE c.call = "open"   -> open(c.name)
      [] c.call = "read"   -> read(c.arg, 1)
      [] c.call = "write"  -> write(c.arg)
      [] c.call = "close"  -> close(c.arg)
      [] c.call = "vidmap" -> vidmap(c.arg)
      [] c.call = "int80"  -> int80(c.arg)

Select(k) ==
    IF k \in 0..Len(Tests)
    THEN Become([Now EXCEPT !.pc = "test", !.chosen = k, !.row = IF k = 0 THEN 1 ELSE k])
    ELSE Exit(0)

\* The choice is the first byte of the buffer, uninitialized for an empty line.
SyserrRead(line) ==
    /\ At("syserr")
    /\ \E k \in IF line = <<>> THEN 1..Len(lookup)
             ELSE {SelectInSeq(lookup, LAMBDA c : c = line[1])} : Select(k - 1)
    /\ Answers(Len(line))
    /\ UNCHANGED <<args, out, cmd>>

TestCall ==
    LET test == Tests[Now.row] IN
    /\ At("test")
    /\ Now.i < Len(test.calls)
    /\ Do(test.calls[Now.i + 1])
    /\ Become([Now EXCEPT !.i = @ + 1,
                          !.cnt = @ + (IF Failed /\ Now.i < test.counted THEN 1 ELSE 0)])
    /\ UNCHANGED <<args, out, cmd>>

TestEnd ==
    LET test == Tests[Now.row]
        pass == Now.cnt = test.wanted
        status == Now.status + (IF pass THEN 0 ELSE 2)
    IN
    /\ At("test")
    /\ Now.i = Len(test.calls)
    /\ Write(IF pass THEN <<"PASS">> ELSE <<"FAIL">>)
    /\ IF Now.chosen = 0 /\ Now.row < Len(Tests)
       THEN Become([Now EXCEPT !.row = @ + 1, !.i = 0, !.cnt = 0, !.status = status])
       ELSE Exit(status)
    /\ Answers(0)
    /\ UNCHANGED <<args, cmd>>
-----------------------------------------------------------------------------
Run ==
    \/ CatOpen \/ CatRead
    \/ LsOpen \/ LsRead
    \/ GrepStart \/ GrepDir \/ GrepOpen \/ GrepRead \/ GrepClose
    \/ FishVideo \/ FishOpenClock \/ FishOpen0 \/ FishOpen1 \/ FishRead0 \/ FishRead1
    \/ FishClose0 \/ FishClose1 \/ FishRate \/ FishWait \/ FishEnd
    \/ \E line \in Replies : CounterRead(line) \/ HelloRead(line) \/ SyserrRead(line)
    \/ Count
    \/ TestCall \/ TestEnd
    \/ HaltProgram

NextPrograms == Shell \/ Run

\* A program that has been started keeps running, and its prompts are answered.
SpecPrograms == InitPrograms /\ [][NextPrograms]_allVars /\ WF_allVars(Run)
-----------------------------------------------------------------------------
(***************************************************************************)
(* Properties                                                              *)
(***************************************************************************)
\* Every variable holds a value of its kind, and the shells below the program
\* that runs wait for it.
TypeOKPrograms ==
    /\ TypeOK
    /\ \A p \in Pids : proc[p].status \in -1..255 /\ proc[p].fd \in -1..MAX_FILES-1
    /\ \A i \in 1..Len(stack)-1 : proc[stack[i]].pc = "wait"

\* What getargs gives a program is what followed the first blank of the command
\* it was executed with, and nothing when there was none: never what an earlier
\* program was given in the same PCB, or one executed in the meantime.
ArgsDelivered ==
    \A p \in Live :
        \/ BLANK \notin Range(cmd[p]) /\ args[p] = <<>>
        \/ \E i \in DOMAIN cmd[p] :
              /\ BLANK \notin Range(SubSeq(cmd[p], 1, i - 1))
              /\ SubSeq(cmd[p], 1, i - 1) \o <<BLANK>> \o args[p] = cmd[p]

Dentries == {dentries[k] : k \in DOMAIN dentries}
Bytes(d) == IF d.file_type = "file" THEN ShowAll(FileBytes(d.inode_num)) ELSE <<>>
BytesOf(name) == Bytes(CHOOSE d \in Dentries : d.file_name = name)
AllOf(F(_)) == FlattenSeq([k \in DOMAIN dentries |-> F(dentries[k])])

\* The lines of the files all fit in grep's buffer.  This is about the whole
\* image: grep searches every file, and what it prints of them is one text.
LinesFit ==
    \A d \in Dentries : \A k \in DOMAIN Lines(Bytes(d)) :
        Len(Lines(Bytes(d))[k]) < GREP_BUFSIZE

\* The character at a place of a frame, a blank outside its rows.
CharAt(text, row, col) ==
    LET rows == Lines(text) IN
    IF row < Len(rows) /\ col < Len(rows[row + 1]) THEN rows[row + 1][col + 1] ELSE BLANK

FishCells ==
    LET f0 == BytesOf(<<"frame0">>)
        f1 == BytesOf(<<"frame1">>)
        size == 0..Len(f0) + Len(f1)
    IN  {<<row, col, CharAt(f0, row, col), CharAt(f1, row, col)>> : row \in size, col \in size}
            \ {<<row, col, BLANK, BLANK>> : row \in size, col \in size}

NumberOf(digits) ==
    LET value[n \in 0..Len(digits)] ==
            IF n = 0 THEN 0
            ELSE RADIX * value[n - 1] + SelectInSeq(lookup, LAMBDA d : d = digits[n]) - 1
    IN  value[Len(digits)]

\* What a program has written when it returns, computed from the image and its
\* command alone: cat the file, whole and in order; ls the directory; grep every
\* line with the argument once, wherever the reads cut it, unless an
\* uninitialized byte was taken for the end of a line or a file of the image has a
\* line longer than the buffer, of which runs nothing is said; fish every cell where one
\* of the frames has a character, however long their rows and files are; counter
\* the numbers up to its maximum.
RightOutput ==
    \A p \in Live :
        LET is(name) == proc[p].pc = "halt" /\ CommandName(cmd[p]) = <<name>>
            found == read_dentry_by_name(args[p])
        IN
        /\ is("cat") /\ args[p] # <<>> =>
              IF found = 0 THEN proc[p].status = 2
              ELSE /\ proc[p].status = 0
                   /\ out[p] = IF dentries[found].file_type = "dir"
                               THEN AllOf(LAMBDA d : d.file_name) ELSE Bytes(dentries[found])
        /\ is("ls") => out[p] = AllOf(LAMBDA d : Append(d.file_name, NL))
        /\ is("grep") /\ args[p] # <<>> /\ LinesFit /\ ~proc[p].unlucky =>
              out[p] = AllOf(LAMBDA d : Report(d.file_name, Lines(Bytes(d)), args[p]))
        /\ is("fish") =>
              Range(out[p]) = FishCells /\ Len(out[p]) = Cardinality(FishCells)
        /\ is("counter") /\ proc[p].i > 0 =>
              /\ Len(Lines(out[p])) = proc[p].chosen + 1
              /\ \A k \in 1..proc[p].chosen : NumberOf(Lines(out[p])[k]) = k

\* Every test of syserr prints PASS, alone or after the others: the calls that
\* have to fail do, and the sixth free descriptor is the last.
TestsPass ==
    \A p \in Live : CommandName(cmd[p]) = <<"syserr">> => "FAIL" \notin Range(out[p])

\* Every program but the shell ends, whatever it reads: no loop of cat, ls, grep
\* and fish misses the end of a file.
ProgramsEnd ==
    \A p \in Pids :
        (p \in Live /\ CommandName(cmd[p]) # <<"shell">>) ~> (p \notin Live)
=============================================================================
