--------------------------- MODULE TerminalStacks ---------------------------
(***************************************************************************)
(* What the process and terminal code promises its user: three terminals,  *)
(* each a stack of programs whose bottom is a shell; one terminal is in    *)
(* front and the program on top of its stack is the one that runs; a       *)
(* program that ends uncovers the one that executed it; the last program   *)
(* of a terminal that ends is replaced by a new shell.                     *)
(***************************************************************************)
EXTENDS Integers, Sequences

CONSTANTS MAX_PROCESSES, Programs, shell

VARIABLES
    jobs,     \* the stack of programs of each terminal, <<>> if not opened
    front,    \* the terminal shown
    running   \* the program the processor runs

Terminals == 1..3

Load == Len(jobs[1]) + Len(jobs[2]) + Len(jobs[3])

Top(stack) == stack[Len(stack)]

Init ==
    /\ jobs = [t \in Terminals |-> IF t = 1 THEN <<shell>> ELSE <<>>]
    /\ front = 1
    /\ running = shell

\* The running program starts another one.
Run(prog) ==
    /\ Load < MAX_PROCESSES
    /\ jobs' = [jobs EXCEPT ![front] = Append(@, prog)]
    /\ running' = prog
    /\ UNCHANGED front

\* The running program ends.
End ==
    /\ jobs' = [jobs EXCEPT ![front] =
                   IF Len(@) = 1 THEN <<shell>> ELSE SubSeq(@, 1, Len(@) - 1)]
    /\ running' = Top(jobs'[front])
    /\ UNCHANGED front

\* The user brings another terminal to the front.
Focus(t) ==
    /\ t # front
    /\ jobs[t] = <<>> => Load < MAX_PROCESSES
    /\ front' = t
    /\ jobs' = IF jobs[t] = <<>> THEN [jobs EXCEPT ![t] = <<shell>>] ELSE jobs
    /\ running' = Top(jobs'[t])

Next ==
    \/ \E prog \in Programs : Run(prog)
    \/ End
    \/ \E t \in Terminals : Focus(t)

Spec == Init /\ [][Next]_<<jobs, front, running>>
=============================================================================
