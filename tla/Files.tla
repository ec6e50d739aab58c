------------------------------- MODULE Files -------------------------------
(***************************************************************************)
(* File descriptors: open, close, read and write of syscalls.c with the    *)
(* operation tables of each file type, the table create_pcb() gives a new  *)
(* process and what halt() does with it.                                   *)
(*                                                                         *)
(* A table is used by its own process only, and a process does one call at *)
(* a time, so a call is one action.  The processes of one terminal are a   *)
(* stack: the top one calls.  PCBs are reused, with what the last process  *)
(* left in them.                                                           *)
(***************************************************************************)
EXTENDS Rofs, FiniteSets

CONSTANTS
    Pids,
    MAX_FILES,
    FileNames,     \* what programs pass to open
    ReadSizes      \* the nbytes programs pass to read

ASSUME FilesAssumption ==
    /\ MAX_FILES \in Nat /\ MAX_FILES > 2
    /\ ReadSizes \subseteq Int
    /\ 0 \in Pids

VARIABLES
    stack,      \* the live processes, the one that runs last
    files,      \* pcb->files of every PCB
    rtc_opens,  \* rtc_open calls not yet undone by an rtc_close
    result,     \* the last call: the value returned and the data copied
    opened,     \* history: what each process has opened and not closed
    seen        \* history: what the reads of each descriptor returned

vars == <<stack, files, rtc_opens, result, opened, seen>>

Fds == 0..MAX_FILES-1
Returns(value, data) == [value |-> value, data |-> data]
Nothing == Returns(0, <<>>)
Failure == Returns(-1, <<>>)

NothingSeen == [fd \in Fds |-> <<>>]

Entry(flags, ops) == [flags |-> flags, ops |-> ops, inode |-> 0, pos |-> 0]

\* The operation tables: the calls for which a table does not have fail().
Calls == {"close", "read", "write"}
Supported(ops) ==
    CASE ops = "stdin" -> {"read"}
      [] ops = "stdout" -> {"write"}
      [] ops = "rtc" -> Calls
      [] ops \in {"dir", "file"} -> {"close", "read"}
      [] OTHER -> {}

\* create_pcb(): standard input and output, the rest closed.
NewTable ==
    [fd \in Fds |-> CASE fd = 0 -> Entry(1, "stdin")
                      [] fd = 1 -> Entry(1, "stdout")
                      [] OTHER -> Entry(0, "fail")]

Current == stack[Len(stack)]

\* Mutant: a closed descriptor is told by its operation table.
HasTable(p, fd) == files[p][fd].ops # "fail"

IsOpen(p, fd) == files[p][fd].flags = 1

Init ==
    /\ stack = <<0>>
    /\ files = [p \in Pids |-> NewTable]
    /\ rtc_opens = 0
    /\ result = Nothing
    /\ opened = [p \in Pids |-> {}]
    /\ seen = [p \in Pids |-> NothingSeen]
-----------------------------------------------------------------------------
\* The lowest closed descriptor from 2 on.
FirstFree(p, fd) ==
    /\ fd \in 2..MAX_FILES-1
    /\ ~IsOpen(p, fd)
    /\ \A g \in 2..fd-1 : IsOpen(p, g)

\* The table a file type selects; file_open and dir_open look the name up again
\* and agree, rtc_open starts the clock.  An unknown type gives the slot back.
Types == {"rtc", "dir", "file"}

Open(name) ==
    LET p == Current
        d == dentries[read_dentry_by_name(name)]
    IN
    /\ read_dentry_by_name(name) # 0
    /\ \E fd \in Fds :
          /\ FirstFree(p, fd)
          /\ IF d.file_type \in Types
             THEN /\ files' = [files EXCEPT ![p][fd] =
                                 [flags |-> 1, ops |-> d.file_type,
                                  inode |-> d.inode_num, pos |-> 0]]
                  /\ opened' = [opened EXCEPT ![p] = @ \cup {fd}]
                  /\ seen' = [seen EXCEPT ![p][fd] = <<>>]
                  /\ rtc_opens' = rtc_opens + (IF d.file_type = "rtc" THEN 1 ELSE 0)
                  /\ result' = Returns(fd, <<>>)
             ELSE /\ files' = [files EXCEPT ![p][fd].pos = 0]
                  /\ result' = Failure
                  /\ UNCHANGED <<opened, seen, rtc_opens>>
    /\ UNCHANGED stack

Close(fd) ==
    LET p == Current IN
    /\ IsOpen(p, fd)
    /\ "close" \in Supported(files[p][fd].ops)
    /\ files' = [files EXCEPT ![p][fd].flags = 0]
    /\ rtc_opens' = rtc_opens - (IF files[p][fd].ops = "rtc" THEN 1 ELSE 0)
    /\ opened' = [opened EXCEPT ![p] = @ \ {fd}]
    /\ seen' = [seen EXCEPT ![p][fd] = <<>>]
    /\ result' = Nothing
    /\ UNCHANGED stack

\* A copy loop of read_data or strncpy that a negative nbytes makes 2^32 bytes
\* long, less a few: it leaves the program's page.
RunsOff(f, n) ==
    \/ f.ops = "file" /\ f.pos + read_length(f.inode, f.pos, n) > inodes[f.inode].length
    \/ f.ops = "dir" /\ f.pos < num_dir_entries /\ n < 0

\* file_read: the bytes from pos on.
ReadFile(fd, n) ==
    LET p == Current
        f == files[p][fd]
        bytes == ShowAll(read_data(f.inode, f.pos, n))
    IN
    /\ IsOpen(p, fd) /\ f.ops = "file"
    /\ ~RunsOff(f, n)
    /\ result' = Returns(Len(bytes), bytes)
    /\ files' = [files EXCEPT ![p][fd].pos = @ + Len(bytes)]
    /\ seen' = [seen EXCEPT ![p][fd] = @ \o bytes]
    /\ UNCHANGED <<stack, rtc_opens, opened>>

\* dir_read: the name of the next entry, cut to nbytes.
ReadDir(fd, n) ==
    LET p == Current
        f == files[p][fd]
        name == dentries[f.pos + 1].file_name
    IN
    /\ IsOpen(p, fd) /\ f.ops = "dir"
    /\ ~RunsOff(f, n)
    /\ IF f.pos >= num_dir_entries
       THEN result' = Nothing /\ UNCHANGED <<files, seen>>
       ELSE /\ result' = Returns(dir_count(f.pos + 1), Cut(name, n))
            /\ files' = [files EXCEPT ![p][fd].pos = @ + 1]
            /\ seen' = [seen EXCEPT ![p][fd] = Append(@, name)]
    /\ UNCHANGED <<stack, rtc_opens, opened>>

\* rtc_read, and rtc_write of a frequency it accepts: their work is in Rtc.
UseRtc(fd) ==
    /\ IsOpen(Current, fd) /\ files[Current][fd].ops = "rtc"
    /\ result' = Nothing
    /\ UNCHANGED <<stack, files, rtc_opens, opened, seen>>

\* open() of a name that is not found, or with every slot taken.
OpenFails(name) ==
    /\ \/ read_dentry_by_name(name) = 0
       \/ \A fd \in 2..MAX_FILES-1 : IsOpen(Current, fd)
    /\ result' = Failure
    /\ UNCHANGED <<stack, files, rtc_opens, opened, seen>>

\* close(), read() or write() of a descriptor that is out of range or closed, or
\* whose table has fail() for the call.
CallFails(call, fd) ==
    /\ (fd \in Fds /\ IsOpen(Current, fd)) => call \notin Supported(files[Current][fd].ops)
    /\ result' = Failure
    /\ UNCHANGED <<stack, files, rtc_opens, opened, seen>>

\* Mutant: create_pcb() leaves the descriptors from 2 on as they are.
ExecuteStaleTable(q) ==
    /\ q \notin {stack[i] : i \in 1..Len(stack)}
    /\ stack' = Append(stack, q)
    /\ result' = Nothing
    /\ UNCHANGED <<files, rtc_opens, opened, seen>>

\* execute(): create_pcb() for a free pid.
Execute(q) ==
    /\ q \notin {stack[i] : i \in 1..Len(stack)}
    /\ stack' = Append(stack, q)
    /\ files' = [files EXCEPT ![q] = NewTable]
    /\ result' = Nothing
    /\ UNCHANGED <<rtc_opens, opened, seen>>

\* Mutants: every open descriptor is closed as the clock's; none is.
EveryOpen(p) == {fd \in 2..MAX_FILES-1 : IsOpen(p, fd)}
NoRtc(p) == {}

\* The rtc descriptors halt() calls rtc_close for.
OpenRtcs(p) == {fd \in 2..MAX_FILES-1 : IsOpen(p, fd) /\ files[p][fd].ops = "rtc"}

\* halt(): the close operation of every open descriptor from 2 on; the flags
\* stay.  The last process of the terminal is replaced by a new shell.
Halt ==
    /\ rtc_opens' = rtc_opens - Cardinality(OpenRtcs(Current))
    /\ result' = Nothing
    /\ IF Len(stack) > 1
       THEN /\ stack' = Front(stack)
            /\ opened' = [opened EXCEPT ![Current] = {}]
            /\ seen' = [seen EXCEPT ![Current] = NothingSeen]
            /\ UNCHANGED files
       ELSE \E q \in Pids :
               /\ stack' = <<q>>
               /\ files' = [files EXCEPT ![q] = NewTable]
               /\ opened' = [opened EXCEPT ![Current] = {}]
               /\ seen' = [seen EXCEPT ![Current] = NothingSeen]

\* The page fault of a copy that runs off is an exception, which halts.
ReadFaults(fd, n) ==
    /\ IsOpen(Current, fd)
    /\ RunsOff(files[Current][fd], n)
    /\ Halt

Next ==
    \/ \E name \in FileNames : Open(name)
    \/ \E fd \in Fds : Close(fd)
    \/ \E fd \in Fds, n \in ReadSizes : ReadFile(fd, n)
    \/ \E fd \in Fds, n \in ReadSizes : ReadDir(fd, n)
    \/ \E fd \in Fds, n \in ReadSizes : ReadFaults(fd, n)
    \/ \E fd \in Fds : UseRtc(fd)
    \/ \E name \in FileNames : OpenFails(name)
    \/ \E call \in Calls, fd \in Fds \cup {-1, MAX_FILES} : CallFails(call, fd)
    \/ \E q \in Pids : Execute(q)
    \/ Halt

Spec == Init /\ [][Next]_vars
-----------------------------------------------------------------------------
(***************************************************************************)
(* Properties                                                              *)
(***************************************************************************)
Live == {stack[i] : i \in 1..Len(stack)}

\* Every variable holds a value of its kind.
TypeOK ==
    /\ Live \subseteq Pids
    /\ \A p \in Pids, fd \in Fds :
          /\ files[p][fd].flags \in {0, 1}
          /\ files[p][fd].ops \in Types \cup {"stdin", "stdout", "fail"}
          /\ files[p][fd].pos \in Nat
    /\ rtc_opens \in Nat
    /\ \A p \in Pids : opened[p] \subseteq Fds

\* No sequence of calls takes standard input or output from a process, and a
\* process has open exactly what it opened itself: nothing of its parent's and
\* nothing of the process that had its PCB before.
OwnDescriptors ==
    \A p \in Live :
        /\ files[p][0] = Entry(1, "stdin") /\ files[p][1] = Entry(1, "stdout")
        /\ {fd \in Fds : IsOpen(p, fd)} = {0, 1} \cup opened[p]

\* Every rtc_open is undone by exactly one rtc_close, by close or by halt: the
\* balance is the number of rtc descriptors of live processes.
RtcBalance ==
    rtc_opens = Cardinality({d \in Live \X Fds :
                                IsOpen(d[1], d[2]) /\ files[d[1]][d[2]].ops = "rtc"})

\* What the reads of a descriptor returned, put together, is what the file holds
\* up to pos, shown: no byte is skipped or repeated at a block or call boundary,
\* whatever was opened, executed and closed in between.  A directory's reads list
\* its entries in order.
Stream ==
    \A p \in Live : \A fd \in opened[p] :
        LET f == files[p][fd] IN
        /\ f.ops = "file" =>
              /\ f.pos <= inodes[f.inode].length
              /\ seen[p][fd] = ShowAll(SubSeq(FileBytes(f.inode), 1, f.pos))
        /\ f.ops = "dir" =>
              seen[p][fd] = [i \in 1..f.pos |-> dentries[i].file_name]
=============================================================================
