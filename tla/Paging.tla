------------------------------- MODULE Paging -------------------------------
(***************************************************************************)
(* The page directory and the page tables (student-distrib/paging.c).      *)
(*                                                                         *)
(* Only the entries the kernel ever uses are kept: the first 4 MB, the     *)
(* kernel's block, TERM_MEM, where the frames of the terminals are mapped, *)
(* VIRTUAL_START, where the running program is, and VIRTUAL_END, the       *)
(* window on the video memory that vidmap gives.  Of the pages of a table, *)
(* the kernel uses number 0 (and VID_MEM_LOC of pageTable) for the video   *)
(* memory, and 1 to 3 for the terminals: TERM_MEM and VIRTUAL_END share    *)
(* userTable.                                                              *)
(***************************************************************************)
EXTENDS Integers

VARIABLES
    pageDir,      \* absent, a 4 MB block, or a page table
    pageTable,    \* the pages of the first 4 MB
    userTable     \* the pages of TERM_MEM and of VIRTUAL_END

pageVars == <<pageDir, pageTable, userTable>>

Entries == {"low", "kernel", "TERM_MEM", "VIRTUAL_START", "VIRTUAL_END"}
VID_MEM_LOC == 184
VIDEO == <<"video", 0>>
TermFrame(t) == <<"terminal", t>>
ProgramFrame(pid) == <<"program", pid>>
KernelFrame == <<"kernel", 0>>
Nowhere == <<"nowhere", 0>>

\* An entry: what its flags say it is, where it points to, and the user flag.
Absent == [kind |-> "absent", to |-> Nowhere, user |-> FALSE]
Block(frame, user) == [kind |-> "block", to |-> frame, user |-> user]
Table(table, user) == [kind |-> "table", to |-> table, user |-> user]
PageTable == <<"pageTable", 0>>
UserTable == <<"userTable", 0>>

\* The static arrays before init_paging: zero, nothing is present.
PagingOff ==
    /\ pageDir = [e \in Entries |-> Absent]
    /\ pageTable = [p \in {VID_MEM_LOC} |-> Absent]
    /\ userTable = [p \in 0..3 |-> Absent]

\* init_paging(): the video memory for the kernel, and the kernel's own block.
init_paging ==
    /\ pageDir' = [e \in Entries |->
                      CASE e = "low"    -> Table(PageTable, FALSE)
                        [] e = "kernel" -> Block(KernelFrame, FALSE)
                        [] OTHER        -> Absent]
    /\ pageTable' = [p \in {VID_MEM_LOC} |-> Block(VIDEO, FALSE)]
    /\ UNCHANGED userTable

\* remap(vAddr, pAddr): a 4 MB block for the user.
remap(entry, frame) ==
    /\ pageDir' = [pageDir EXCEPT ![entry] = Block(frame, TRUE)]
    /\ UNCHANGED <<pageTable, userTable>>

\* remapToPage(vAddr, pAddr, page) for every page of a function from pages to
\* frames.
remapToPages(entry, frames) ==
    /\ pageDir' = [pageDir EXCEPT ![entry] = Table(UserTable, TRUE)]
    /\ userTable' = [p \in 0..3 |-> IF p \in DOMAIN frames THEN Block(frames[p], TRUE)
                                    ELSE userTable[p]]
    /\ UNCHANGED pageTable

\* Mutant: the video memory takes the page of the first terminal.
remapFirstPage(entry, frame) == remapToPages(entry, [p \in {1} |-> frame])

\* remapWithPageTable(vAddr, pAddr): page 0 of userTable.
remapWithPageTable(entry, frame) == remapToPages(entry, [p \in {0} |-> frame])

\* What the processor finds at a page of an entry's 4 MB, for a user or for the
\* kernel; Nowhere is a page fault.
Reach(entry, page, user) ==
    LET dir == pageDir[entry]
        leaf == IF dir.kind # "table" THEN dir
                ELSE IF dir.to = UserTable THEN userTable[page] ELSE pageTable[page]
    IN  IF user => dir.user /\ leaf.user THEN leaf.to ELSE Nowhere
=============================================================================
