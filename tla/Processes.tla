----------------------------- MODULE Processes -----------------------------
(***************************************************************************)
(* Process life cycle and terminal switching of the kernel                 *)
(* (student-distrib/syscalls.c, terminal.c, paging.c, idt.c,               *)
(* interrupt_handlers.S).                                                  *)
(*                                                                         *)
(* The machine has one processor and no scheduler: the process on top of   *)
(* the terminal in front runs, until it executes a child, halts, faults,   *)
(* or the keyboard handler switches the terminal.  execute(), halt() and   *)
(* switch_terminal() run from their cli() to their last assignment with    *)
(* interrupts disabled, so each is one action here.                        *)
(*                                                                         *)
(* A kernel stack position is a pair [pid, depth]: the kernel stack of pid *)
(* with depth frames of execute() left on it (depth 0: its first word).    *)
(***************************************************************************)
EXTENDS Integers, FiniteSets, Sequences

CONSTANTS
    MAX_PROCESSES,  \* number of PCBs, kernel stacks and program blocks
    Programs,       \* the executables in the file system
    shell,          \* the program the kernel starts by itself
    Statuses,       \* the 32-bit values programs pass to halt
    NoValue,        \* eax when it does not hold a result of execute
    MAX_FRAMES      \* bound: execute frames followed on one kernel stack

ASSUME ConstantsAssumption ==
    /\ MAX_PROCESSES \in Nat \ {0}
    /\ shell \in Programs
    /\ Statuses \subseteq Int
    /\ NoValue \notin Int
    /\ MAX_FRAMES \in Nat

VARIABLES
    processes_flags,  \* the pids whose bit is set
    parent_pid,       \* pcb->parent_pid
    parent_esp,       \* pcb->parent_esp, saved with parent_ebp
    num_processes,    \* terminal[].num_processes
    term_pid,         \* terminal[].term_pid
    init,             \* terminal[].init
    term_esp,         \* terminal[].esp and what the context saved there does
    term_cur,         \* the terminal in front
    page,             \* the pid whose block is mapped at VIRTUAL_START
    mem,              \* the program image in each pid's physical block
    esp0,             \* tss.esp0
    cpu,              \* what the processor is running
    eax               \* the result execute has just returned, or NoValue

vars == <<processes_flags, parent_pid, parent_esp, num_processes, term_pid,
          init, term_esp, term_cur, page, mem, esp0, cpu, eax>>

procVars == <<processes_flags, parent_pid, parent_esp, mem>>
termVars == <<num_processes, term_pid, init, term_esp, term_cur>>

Terminals == 1..3
Pids == 0..MAX_PROCESSES-1

\* "user": in the program; "syscall": in a system call, before it has taken
\* effect; "fault": in an exception handler, before its halt(-1).
Modes == {"user", "syscall", "fault"}

Position == [pid : Pids, depth : Nat]
Context == [pid : Pids, depth : Nat, mode : Modes]

StackTop(p) == [pid |-> p, depth |-> 0]
UserContext(p) == [pid |-> p, depth |-> 0, mode |-> "user"]
KernelContext(pos, m) == [pid |-> pos.pid, depth |-> pos.depth, mode |-> m]

\* Where an interrupt taken now pushes its frame: a trap from user mode loads
\* tss.esp0, one taken in the kernel stays on the stack in use.
KernelStack ==
    IF cpu.mode = "user" THEN esp0
    ELSE [pid |-> cpu.pid, depth |-> cpu.depth]

\* One frame of execute() further down.
Below(pos) == [pos EXCEPT !.depth = @ + 1]
-----------------------------------------------------------------------------
Total(num) == num[1] + num[2] + num[3]

\* Mutant: one process more than there are PCBs.
can_execute_one_more(num) == Total(num) <= MAX_PROCESSES

can_execute(num) == Total(num) < MAX_PROCESSES

FreePids(flags) == Pids \ flags

\* Mutant: the pid is counted instead of searched.
count_new_pid(flags, p) == p \in Pids /\ p = Cardinality(flags)

\* get_new_pid() takes the lowest clear bit.
get_new_pid(flags, p) ==
    /\ p \in FreePids(flags)
    /\ \A q \in FreePids(flags) : p <= q

\* Mutant: the image is copied before remap().
CopyBeforeRemap(prog) == mem' = [mem EXCEPT ![page] = prog]

\* read_data() copies the image to VIRTUAL_START, through the new mapping.
CopyImage(prog) == mem' = [mem EXCEPT ![page'] = prog]

\* The launching part of execute(), for the flags and process counts it finds:
\* create_pcb(), the new top of terminal t, remap(), the image copied through
\* the new mapping, tss.esp0 and the iret into the program.
Launch(prog, flags, num, t) ==
    \E p \in Pids :
        /\ get_new_pid(flags, p)
        /\ processes_flags' = flags \cup {p}
        /\ parent_pid' = [parent_pid EXCEPT
                             ![p] = IF num[t] = 0 THEN p ELSE term_pid[t]]
        /\ parent_esp' = [parent_esp EXCEPT ![p] = Below(KernelStack)]
        /\ num_processes' = [num EXCEPT ![t] = @ + 1]
        /\ term_pid' = [term_pid EXCEPT ![t] = p]
        /\ page' = p
        /\ CopyImage(prog)
        /\ esp0' = StackTop(p)
        /\ cpu' = UserContext(p)
        /\ eax' = NoValue
-----------------------------------------------------------------------------
\* init_terminals() has started terminal 1, whose shell is process 0; blocks
\* and PCBs never used hold arbitrary contents, here those of process 0.
Init ==
    /\ processes_flags = {0}
    /\ parent_pid = [p \in Pids |-> 0]
    /\ parent_esp = [p \in Pids |-> StackTop(0)]
    /\ num_processes = [t \in Terminals |-> IF t = 1 THEN 1 ELSE 0]
    /\ term_pid = [t \in Terminals |-> 0]
    /\ init = [t \in Terminals |-> IF t = 1 THEN 1 ELSE 0]
    /\ term_esp = [t \in Terminals |-> UserContext(0)]
    /\ term_cur = 1
    /\ page = 0
    /\ mem = [p \in Pids |-> shell]
    /\ esp0 = StackTop(0)
    /\ cpu = UserContext(0)
    /\ eax = NoValue
-----------------------------------------------------------------------------
\* int 0x80 from the program.
IntSyscall ==
    /\ cpu.mode = "user"
    /\ cpu' = KernelContext(esp0, "syscall")
    /\ eax' = NoValue
    /\ UNCHANGED <<procVars, termVars, page, esp0>>

\* handle_syscall returns to the program from a call that is none of this
\* module's, or with -1 because there is no such call.
SyscallReturn ==
    /\ cpu.mode = "syscall"
    /\ cpu' = UserContext(cpu.pid)
    /\ eax' = NoValue
    /\ UNCHANGED <<procVars, termVars, page, esp0>>

\* An exception, in the program or in a system call that follows a pointer of
\* the program's: the handler prints and then calls halt(-1).
IntException ==
    /\ cpu.mode \in {"user", "syscall"}
    /\ cpu' = KernelContext(KernelStack, "fault")
    /\ eax' = NoValue
    /\ UNCHANGED <<procVars, termVars, page, esp0>>

\* execute() returns -1: no command, no such file, not an ELF file, or (were
\* the counts and the flags to disagree) no PCB.
ExecuteFail(found) ==
    /\ cpu.mode = "syscall"
    /\ found => can_execute(num_processes) /\ FreePids(processes_flags) = {}
    /\ eax' = -1
    /\ cpu' = UserContext(cpu.pid)
    /\ UNCHANGED <<procVars, termVars, page, esp0>>

\* execute() of an executable when MAX_PROCESSES are running returns 0.
ExecuteRefuse ==
    /\ cpu.mode = "syscall"
    /\ ~can_execute(num_processes)
    /\ eax' = 0
    /\ cpu' = UserContext(cpu.pid)
    /\ UNCHANGED <<procVars, termVars, page, esp0>>

\* execute() of an executable when there is room.
ExecuteLaunch(prog) ==
    /\ cpu.mode = "syscall"
    /\ cpu.depth < MAX_FRAMES
    /\ can_execute(num_processes)
    /\ Launch(prog, processes_flags, num_processes, term_cur)
    /\ UNCHANGED <<init, term_esp, term_cur>>
-----------------------------------------------------------------------------
\* Mutant: the end of a terminal's last process is not noticed.
NeverRestarts(flags, num) == FALSE

\* Mutant: it is noticed one process too early.
RestartsEarly(flags, num) ==
    num[term_cur] <= 1 /\ can_execute(num) /\ FreePids(flags) # {}

\* halt() once the counts are down: the terminal, or the machine, has nothing
\* left to run and execute("shell") succeeds.  It does not return then.
Restarts(flags, num) ==
    /\ num[term_cur] = 0 \/ flags = {}
    /\ can_execute(num)
    /\ FreePids(flags) # {}

\* The rest of halt(): the jump into the parent's execute() frame, which returns
\* the status; handle_syscall's iret follows with nothing in between.
ReturnToParent(flags, num, status) ==
    LET p == cpu.pid IN
    /\ processes_flags' = flags
    /\ num_processes' = num
    /\ term_pid' = [term_pid EXCEPT ![term_cur] = parent_pid[p]]
    /\ page' = parent_pid[p]
    /\ esp0' = parent_esp[p]
    /\ cpu' = UserContext(parent_esp[p].pid)
    /\ eax' = status
    /\ UNCHANGED <<parent_pid, parent_esp, mem>>

\* Mutant: the count of the terminal is not taken down.
HaltUncounted(status) ==
    /\ ReturnToParent(processes_flags \ {cpu.pid}, num_processes, status)
    /\ UNCHANGED <<init, term_esp, term_cur>>

\* halt(status).  get_current_pcb() finds the PCB from the stack in use.
halt(status) ==
    LET num == [num_processes EXCEPT ![term_cur] = @ - 1]
        flags == processes_flags \ {cpu.pid}
    IN
    /\ \/ /\ Restarts(flags, num)
          /\ Launch(shell, flags, num, term_cur)
       \/ /\ ~Restarts(flags, num)
          /\ ReturnToParent(flags, num, status)
    /\ UNCHANGED <<init, term_esp, term_cur>>

\* Mutant: the status is passed on as an int.
HaltWide(s) == cpu.mode = "syscall" /\ halt(s)

\* The halt system call; its uint8_t parameter keeps the low byte.
Halt(s) == cpu.mode = "syscall" /\ halt(s % 256)

\* execute("exit...") halts the caller.
ExecuteExit == cpu.mode = "syscall" /\ halt(0)

\* The exception handler's halt(-1).
FaultHalt == cpu.mode = "fault" /\ halt((-1) % 256)
-----------------------------------------------------------------------------
\* Mutant: the context of the terminal that is left is not saved.
SaveNothing == UNCHANGED term_esp

\* terminal_save(): the keyboard interrupt's frame is on KernelStack.
SaveTerminal ==
    term_esp' = [term_esp EXCEPT
                    ![term_cur] = KernelContext(KernelStack, cpu.mode)]

\* Alt+Fn for a terminal never opened: terminal_start() executes its shell.
OpenTerminal(t) ==
    /\ t # term_cur
    /\ init[t] = 0
    /\ can_execute(num_processes)
    /\ SaveTerminal
    /\ term_cur' = t
    /\ init' = [init EXCEPT ![t] = 1]
    /\ Launch(shell, processes_flags, num_processes, t)

\* Mutant: terminal_load() without remap().
KeepPage(t) == page' = page

\* terminal_load() maps the block of the terminal's top process.
LoadPage(t) == page' = term_pid[t]

\* Alt+Fn for a terminal opened before: terminal_load() restores tss.esp0 and
\* the mapping for its top process and continues the context saved there.
LoadTerminal(t) ==
    /\ t # term_cur
    /\ init[t] = 1
    /\ SaveTerminal
    /\ term_cur' = t
    /\ esp0' = StackTop(term_pid[t])
    /\ LoadPage(t)
    /\ cpu' = IF term_esp[t].mode = "user" THEN UserContext(term_esp[t].pid)
              ELSE term_esp[t]
    /\ eax' = NoValue
    /\ UNCHANGED <<procVars, num_processes, term_pid, init>>
-----------------------------------------------------------------------------
Next ==
    \/ IntSyscall
    \/ SyscallReturn
    \/ IntException
    \/ \E found \in BOOLEAN : ExecuteFail(found)
    \/ ExecuteRefuse
    \/ \E prog \in Programs : ExecuteLaunch(prog)
    \/ \E s \in Statuses : Halt(s)
    \/ ExecuteExit
    \/ FaultHalt
    \/ \E t \in Terminals : OpenTerminal(t)
    \/ \E t \in Terminals : LoadTerminal(t)

Spec == Init /\ [][Next]_vars
-----------------------------------------------------------------------------
(***************************************************************************)
(* Properties                                                              *)
(***************************************************************************)
Open == {t \in Terminals : init[t] = 1}

\* Every variable holds a value of its kind.
TypeOK ==
    /\ processes_flags \subseteq Pids
    /\ parent_pid \in [Pids -> Pids]
    /\ parent_esp \in [Pids -> Position]
    /\ num_processes \in [Terminals -> Nat]
    /\ term_pid \in [Terminals -> Pids]
    /\ init \in [Terminals -> {0, 1}]
    /\ term_esp \in [Terminals -> Context]
    /\ term_cur \in Terminals
    /\ page \in Pids
    /\ mem \in [Pids -> Programs]
    /\ esp0 \in Position
    /\ cpu \in Context
    /\ eax \in Int \cup {NoValue}

\* The counts can_execute() adds up and the bits get_new_pid() searches are
\* kept by different functions (execute, halt, switch_terminal) and agree: a
\* terminal has processes exactly when it has been opened, and when
\* can_execute() says there is room there is a free PCB.
ProcessAccounting ==
    /\ Cardinality(processes_flags) = Total(num_processes)
    /\ \A t \in Terminals : t \in Open <=> num_processes[t] > 0
    /\ can_execute(num_processes) <=> FreePids(processes_flags) # {}

\* The processor runs the top process of the terminal in front; the block
\* mapped at VIRTUAL_START and the kernel stack in tss.esp0 are that process's.
\* execute, halt and terminal_load each have to set all of them.
RunningContext ==
    /\ term_cur \in Open
    /\ cpu.pid = term_pid[term_cur]
    /\ page = cpu.pid
    /\ esp0.pid = cpu.pid

\* The live processes form one chain per open terminal: tops are live and not
\* shared, a parent is live, waits for one child only and is no terminal's top.
\* So halt never frees a process another one will return to.
FamilyTree ==
    /\ \A t \in Open : term_pid[t] \in processes_flags
    /\ \A t, u \in Open : term_pid[t] = term_pid[u] => t = u
    /\ \A p \in processes_flags : parent_pid[p] \in processes_flags
    /\ \A p \in processes_flags : parent_pid[p] # p =>
          \A t \in Open : parent_pid[p] # term_pid[t]
    /\ \A p, q \in processes_flags :
          (parent_pid[p] # p /\ parent_pid[q] # q /\ parent_pid[p] = parent_pid[q])
             => p = q

\* A terminal's process count is the length of the parent chain under its top:
\* gen[p] counts the processes from p down to its root.
Generations ==
    \E gen \in [Pids -> 1..MAX_PROCESSES] :
        /\ \A p \in processes_flags :
              gen[p] = IF parent_pid[p] = p THEN 1 ELSE gen[parent_pid[p]] + 1
        /\ \A t \in Open : num_processes[t] = gen[term_pid[t]]

\* halt's test for "last process of this terminal" (the count reaches 0) fires
\* exactly when the process that ends has no parent to return to.
LastIsRoot ==
    \A t \in Open :
        num_processes[t] = 1 <=> parent_pid[term_pid[t]] = term_pid[t]

\* The frame a suspended process will continue on is on its own kernel stack:
\* the one terminal_load switches to, and the one a child's halt returns to.
SavedFrames ==
    /\ \A t \in Open \ {term_cur} : term_esp[t].pid = term_pid[t]
    /\ \A p \in processes_flags :
          parent_pid[p] # p => parent_esp[p].pid = parent_pid[p]

\* At the bottom of every terminal there is a shell.
RootsAreShells ==
    \A p \in processes_flags : parent_pid[p] = p => mem[p] = shell

\* No step overwrites the image of a process that is live before and after it:
\* execute copies the new image through a mapping it has just changed.
ImageStable ==
    [][\A p \in processes_flags \cap processes_flags' : mem'[p] = mem[p]]_vars

\* What the shell prints for -1, "no such command", is true: execute returns -1
\* only when it started nothing, never as the status of a child that ran.
NoSuchCommand ==
    [][eax' = -1 => processes_flags' = processes_flags /\ term_pid' = term_pid]_vars

\* The inductive invariant behind the safety properties.
IInv ==
    /\ TypeOK
    /\ ProcessAccounting
    /\ RunningContext
    /\ FamilyTree
    /\ Generations
    /\ SavedFrames
    /\ RootsAreShells
-----------------------------------------------------------------------------
(***************************************************************************)
(* Statements of the sources that the code does not meet.                  *)
(***************************************************************************)
\* halt "restores values of parent process": with the program running, its
\* kernel stack is empty, so tss.esp0 is the top of that stack.
ParentRestored == cpu.mode = "user" => esp0.depth = 0
-----------------------------------------------------------------------------
(***************************************************************************)
(* Refinement: the stacks of programs the parent links describe.           *)
(***************************************************************************)
\* The process k steps below the top of terminal t.
Ancestor(t) ==
    LET up[k \in Nat] == IF k = 0 THEN term_pid[t] ELSE parent_pid[up[k - 1]]
    IN up

jobs ==
    [t \in Terminals |->
        [k \in 1..num_processes[t] |-> mem[Ancestor(t)[num_processes[t] - k]]]]

Stacks == INSTANCE TerminalStacks WITH front <- term_cur, running <- mem[page]

\* Followed from the top of each terminal, the PCBs, the counters and the mapped
\* block are three stacks of programs of which the front top runs.
ImplementsStacks == Stacks!Spec
=============================================================================
