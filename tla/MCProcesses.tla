---------------------------- MODULE MCProcesses ----------------------------
(***************************************************************************)
(* Processes for TLC.                                                      *)
(***************************************************************************)
EXTENDS Processes

\* A status whose low byte is the one of -1, and one that needs no truncation.
MCStatuses == {-1, 7}

\* What a state's future depends on: the PCB and the block of a free pid, the
\* parent_esp of a root and the saved context of the terminal in front are
\* written before they are read again, and eax only describes the last step.
LiveState ==
    LET Suspended == Open \ {term_cur}
        Children == {p \in processes_flags : parent_pid[p] # p}
    IN <<processes_flags, num_processes, term_pid, init, term_cur, page, esp0, cpu,
         [p \in processes_flags |-> <<parent_pid[p], mem[p]>>],
         [p \in Children |-> parent_esp[p]],
         [t \in Suspended |-> term_esp[t]]>>
=============================================================================
