-------------------------- MODULE ProcessesProofs --------------------------
(***************************************************************************)
(* Proofs about Processes, for any number of PCBs, any programs and any    *)
(* statuses.  The argument: IInv is inductive.  Steps that launch a        *)
(* process (execute, the restart in halt, the first switch to a terminal)  *)
(* share one lemma, LaunchStep, stated for the flags F, the counts N and   *)
(* the open terminals S that the launching code finds.                     *)
(*                                                                         *)
(* The last part proves that Processes implements TerminalStacks.          *)
(***************************************************************************)
EXTENDS Processes, Induction, FiniteSetTheorems

\* FamilyTree, for the processes F and the terminals S.
Tree(F, S) ==
    /\ \A t \in S : term_pid[t] \in F
    /\ \A t, u \in S : term_pid[t] = term_pid[u] => t = u
    /\ \A p \in F : parent_pid[p] \in F
    /\ \A p \in F : parent_pid[p] # p => \A t \in S : parent_pid[p] # term_pid[t]
    /\ \A p, q \in F :
          (parent_pid[p] # p /\ parent_pid[q] # q /\ parent_pid[p] = parent_pid[q])
             => p = q

\* Generations, for the processes F, the terminals S and their counts N.
Chains(F, S, N) ==
    \E gen \in [Pids -> 1..MAX_PROCESSES] :
        /\ \A p \in F :
              gen[p] = IF parent_pid[p] = p THEN 1 ELSE gen[parent_pid[p]] + 1
        /\ \A t \in S : N[t] = gen[term_pid[t]]

\* What a launch relies on.
Launchable(F, N, S) ==
    /\ F \subseteq Pids
    /\ N \in [Terminals -> Nat]
    /\ S \subseteq Terminals
    /\ \A t \in Terminals : t \in S <=> N[t] > 0
    /\ Cardinality(F) = Total(N)
    /\ Tree(F, S)
    /\ Chains(F, S, N)
    /\ \A p \in F : parent_pid[p] # p => parent_esp[p].pid = parent_pid[p]
    /\ \A p \in F : parent_pid[p] = p => mem[p] = shell
-----------------------------------------------------------------------------
(***************************************************************************)
(* Counting.                                                               *)
(***************************************************************************)
\* Pids has MAX_PROCESSES elements, so a set of pids (processes_flags) has a
\* free one exactly when it has fewer.
LEMMA Room ==
    ASSUME NEW F, F \subseteq Pids
    PROVE  /\ IsFiniteSet(F)
           /\ Cardinality(F) \in Nat
           /\ Cardinality(F) <= MAX_PROCESSES
           /\ Cardinality(F) < MAX_PROCESSES <=> FreePids(F) # {}
<1>1. IsFiniteSet(Pids) /\ Cardinality(Pids) = MAX_PROCESSES
  <2>1. 0 \in Int /\ MAX_PROCESSES - 1 \in Int /\ MAX_PROCESSES \in Nat \ {0}
    BY ConstantsAssumption
  <2>2. IsFiniteSet(0..(MAX_PROCESSES - 1))
        /\ Cardinality(0..(MAX_PROCESSES - 1)) =
              IF 0 > MAX_PROCESSES - 1 THEN 0 ELSE MAX_PROCESSES - 1 - 0 + 1
    BY <2>1, FS_Interval
  <2> QED BY <2>1, <2>2 DEF Pids
<1>2. /\ IsFiniteSet(F)
      /\ Cardinality(F) <= Cardinality(Pids)
      /\ Cardinality(F) = Cardinality(Pids) => F = Pids
  BY <1>1, FS_Subset
<1>3. Cardinality(F) \in Nat
  BY <1>2, FS_CardinalityType
<1>4. CASE F = Pids
  BY <1>1, <1>2, <1>3, <1>4, ConstantsAssumption DEF FreePids
<1>5. CASE F # Pids
  <2>1. FreePids(F) # {}
    BY <1>5 DEF FreePids
  <2>2. Cardinality(F) # Cardinality(Pids)
    BY <1>2, <1>5
  <2> QED BY <1>1, <1>2, <1>3, <2>1, <2>2, ConstantsAssumption
<1> QED BY <1>4, <1>5

\* Raising one terminal's count (execute) raises the total by one.
LEMMA TotalUp ==
    ASSUME NEW N \in [Terminals -> Nat], NEW t \in Terminals
    PROVE  /\ [N EXCEPT ![t] = @ + 1] \in [Terminals -> Nat]
           /\ Total([N EXCEPT ![t] = @ + 1]) = Total(N) + 1
           /\ Total(N) \in Nat
<1>1. t = 1 \/ t = 2 \/ t = 3
  BY DEF Terminals
<1>2. N[1] \in Nat /\ N[2] \in Nat /\ N[3] \in Nat
  BY DEF Terminals
<1> QED BY <1>1, <1>2 DEF Total, Terminals

\* Lowering a positive count (halt) lowers the total by one.
LEMMA TotalDown ==
    ASSUME NEW N \in [Terminals -> Nat], NEW t \in Terminals, N[t] > 0
    PROVE  /\ [N EXCEPT ![t] = @ - 1] \in [Terminals -> Nat]
           /\ Total([N EXCEPT ![t] = @ - 1]) = Total(N) - 1
<1>1. t = 1 \/ t = 2 \/ t = 3
  BY DEF Terminals
<1>2. N[1] \in Nat /\ N[2] \in Nat /\ N[3] \in Nat
  BY DEF Terminals
<1> QED BY <1>1, <1>2 DEF Total, Terminals

\* One terminal's count is at most the total.
LEMMA TotalBound ==
    ASSUME NEW N \in [Terminals -> Nat], NEW t \in Terminals
    PROVE  N[t] <= Total(N)
<1>1. t = 1 \/ t = 2 \/ t = 3
  BY DEF Terminals
<1>2. N[1] \in Nat /\ N[2] \in Nat /\ N[3] \in Nat
  BY DEF Terminals
<1> QED BY <1>1, <1>2 DEF Total
-----------------------------------------------------------------------------
(***************************************************************************)
(* Launching a process.                                                    *)
(***************************************************************************)
\* After execute() has launched prog on terminal t every part of IInv that does
\* not concern suspended terminals holds.
LEMMA LaunchStep ==
    ASSUME TypeOK, NEW prog \in Programs, NEW t \in Terminals,
           NEW F, NEW N, NEW S, Launchable(F, N, S), can_execute(N),
           N[t] = 0 => prog = shell,
           N[t] > 0 => KernelStack.pid = term_pid[t],
           Launch(prog, F, N, t),
           term_cur' = t, init' \in [Terminals -> {0, 1}], Open' = S \cup {t},
           term_esp' \in [Terminals -> Context]
    PROVE  /\ TypeOK'
           /\ ProcessAccounting'
           /\ RunningContext'
           /\ FamilyTree'
           /\ Generations'
           /\ \A p \in processes_flags' :
                 parent_pid'[p] # p => parent_esp'[p].pid = parent_pid'[p]
           /\ RootsAreShells'
           /\ \A p \in F : mem'[p] = mem[p]
           /\ \A u \in Terminals \ {t} : term_pid'[u] = term_pid[u]
<1>1. PICK p \in Pids :
        /\ p \notin F
        /\ processes_flags' = F \cup {p}
        /\ parent_pid' = [parent_pid EXCEPT
                             ![p] = IF N[t] = 0 THEN p ELSE term_pid[t]]
        /\ parent_esp' = [parent_esp EXCEPT ![p] = Below(KernelStack)]
        /\ num_processes' = [N EXCEPT ![t] = @ + 1]
        /\ term_pid' = [term_pid EXCEPT ![t] = p]
        /\ page' = p
        /\ mem' = [mem EXCEPT ![p] = prog]
        /\ esp0' = StackTop(p)
        /\ cpu' = UserContext(p)
        /\ eax' = NoValue
  BY DEF Launch, CopyImage, get_new_pid, FreePids
<1> DEFINE root == N[t] = 0
<1>2. /\ F \subseteq Pids
      /\ N \in [Terminals -> Nat]
      /\ \A u \in Terminals : u \in S <=> N[u] > 0
      /\ Cardinality(F) = Total(N)
      /\ Tree(F, S)
      /\ Chains(F, S, N)
      /\ \A q \in F : parent_pid[q] # q => parent_esp[q].pid = parent_pid[q]
      /\ \A q \in F : parent_pid[q] = q => mem[q] = shell
      /\ S \subseteq Terminals
  BY DEF Launchable
<1>3. parent_pid'[p] = (IF root THEN p ELSE term_pid[t])
      /\ \A q \in F : parent_pid'[q] = parent_pid[q]
  BY <1>1, <1>2 DEF TypeOK
<1>4. ~root => t \in S /\ term_pid[t] \in F /\ term_pid[t] # p
  BY <1>1, <1>2 DEF Tree
<1>5. KernelStack \in Position
  BY DEF TypeOK, KernelStack, Position, Context
<1>6. TypeOK'
  <2>1. parent_pid' \in [Pids -> Pids]
    BY <1>1 DEF TypeOK
  <2>2. parent_esp' \in [Pids -> Position]
    <3>1. Below(KernelStack) \in Position
      BY <1>5 DEF Below, Position
    <3> QED BY <1>1, <3>1 DEF TypeOK
  <2>3. num_processes' \in [Terminals -> Nat]
    BY <1>1, <1>2, TotalUp
  <2>4. esp0' \in Position /\ cpu' \in Context
    BY <1>1 DEF StackTop, UserContext, Position, Context, Modes
  <2>5. processes_flags' \subseteq Pids
    BY <1>1, <1>2
  <2>6. term_pid' \in [Terminals -> Pids] /\ mem' \in [Pids -> Programs]
    BY <1>1 DEF TypeOK
  <2> QED BY <1>1, <2>1, <2>2, <2>3, <2>4, <2>5, <2>6 DEF TypeOK
<1>7. ProcessAccounting'
  <2>1. IsFiniteSet(F)
    BY <1>2, Room
  <2>2. Cardinality(F \cup {p}) = Cardinality(F) + 1
    BY <1>1, <2>1, FS_AddElement
  <2>3. Total(num_processes') = Total(N) + 1
    BY <1>1, <1>2, TotalUp
  <2>4. Cardinality(processes_flags') = Total(num_processes')
    BY <1>1, <1>2, <2>2, <2>3
  <2>5. \A u \in Terminals : u \in Open' <=> num_processes'[u] > 0
    BY <1>1, <1>2
  <2>6. Cardinality(processes_flags') < MAX_PROCESSES <=> FreePids(processes_flags') # {}
    BY <1>6, Room DEF TypeOK
  <2>7. can_execute(num_processes)' <=> FreePids(processes_flags)' # {}
    BY <2>4, <2>6 DEF can_execute, Total, FreePids
  <2> QED BY <2>4, <2>5, <2>7 DEF ProcessAccounting, Total
<1>8. RunningContext'
  BY <1>1 DEF RunningContext, TypeOK, StackTop, UserContext
<1>9. FamilyTree'
  <2>1. \A u \in Open' : term_pid'[u] = (IF u = t THEN p ELSE term_pid[u])
    BY <1>1, <1>2 DEF TypeOK
  <2>2. \A u \in S : term_pid[u] \in F
    BY <1>2 DEF Tree
  <2>3. \A u \in Open' : term_pid'[u] \in processes_flags'
    BY <1>1, <2>1, <2>2
  <2>4. \A u, v \in Open' : term_pid'[u] = term_pid'[v] => u = v
    BY <1>1, <1>2, <2>1, <2>2 DEF Tree
  <2>5. \A q \in processes_flags' : parent_pid'[q] \in processes_flags'
    BY <1>1, <1>2, <1>3, <1>4 DEF Tree
  <2>6. \A q \in processes_flags' : parent_pid'[q] # q =>
           \A u \in Open' : parent_pid'[q] # term_pid'[u]
    <3>1. SUFFICES ASSUME NEW q \in processes_flags', parent_pid'[q] # q,
                          NEW u \in Open'
                   PROVE  parent_pid'[q] # term_pid'[u]
      OBVIOUS
    <3>2. CASE q = p
      BY <1>1, <1>2, <1>3, <1>4, <2>1, <3>1, <3>2 DEF Tree
    <3>3. CASE q # p
      BY <1>1, <1>2, <1>3, <2>1, <3>1, <3>3 DEF Tree
    <3> QED BY <3>2, <3>3
  <2>7. \A q, r \in processes_flags' :
           (parent_pid'[q] # q /\ parent_pid'[r] # r /\ parent_pid'[q] = parent_pid'[r])
              => q = r
    BY <1>1, <1>2, <1>3, <1>4 DEF Tree
  <2> QED BY <2>3, <2>4, <2>5, <2>6, <2>7 DEF FamilyTree
<1>10. Generations'
  <2>1. PICK gen \in [Pids -> 1..MAX_PROCESSES] :
          /\ \A q \in F :
                gen[q] = IF parent_pid[q] = q THEN 1 ELSE gen[parent_pid[q]] + 1
          /\ \A u \in S : N[u] = gen[term_pid[u]]
    BY <1>2 DEF Chains
  <2> DEFINE g == [gen EXCEPT ![p] = N[t] + 1]
  <2>2. N[t] \in Nat /\ N[t] + 1 \in 1..MAX_PROCESSES
    <3>1. N[t] \in Nat /\ Total(N) \in Nat /\ N[t] <= Total(N)
      BY <1>2, TotalBound, TotalUp
    <3>2. Total(N) < MAX_PROCESSES /\ MAX_PROCESSES \in Nat
      BY ConstantsAssumption DEF can_execute
    <3> QED BY <3>1, <3>2
  <2>3. g \in [Pids -> 1..MAX_PROCESSES] /\ g[p] = N[t] + 1
        /\ \A q \in F : g[q] = gen[q]
    BY <1>1, <1>2, <2>2
  <2>4. \A q \in processes_flags' :
           g[q] = IF parent_pid'[q] = q THEN 1 ELSE g[parent_pid'[q]] + 1
    <3>1. SUFFICES ASSUME NEW q \in processes_flags'
                   PROVE  g[q] = IF parent_pid'[q] = q THEN 1 ELSE g[parent_pid'[q]] + 1
      OBVIOUS
    <3>2. CASE q = p /\ root
      BY <1>3, <2>3, <3>2
    <3>3. CASE q = p /\ ~root
      <4>1. g[term_pid[t]] = N[t]
        BY <1>4, <2>1, <2>3, <3>3
      <4> QED BY <1>3, <1>4, <2>3, <3>3, <4>1
    <3>4. CASE q # p
      <4>1. q \in F /\ parent_pid'[q] = parent_pid[q] /\ parent_pid[q] \in F
        BY <1>1, <1>2, <1>3, <3>1, <3>4 DEF Tree
      <4> QED BY <2>1, <2>3, <4>1
    <3> QED BY <3>2, <3>3, <3>4
  <2>5. \A u \in Open' : num_processes'[u] = g[term_pid'[u]]
    <3>1. SUFFICES ASSUME NEW u \in Open' PROVE num_processes'[u] = g[term_pid'[u]]
      OBVIOUS
    <3>2. CASE u = t
      BY <1>1, <1>2, <2>3, <3>2 DEF TypeOK
    <3>3. CASE u # t
      <4>1. u \in S /\ term_pid'[u] = term_pid[u] /\ num_processes'[u] = N[u]
        BY <1>1, <1>2, <3>1, <3>3 DEF TypeOK
      <4>2. term_pid[u] \in F
        BY <1>2, <4>1 DEF Tree
      <4> QED BY <2>1, <2>3, <4>1, <4>2
    <3> QED BY <3>2, <3>3
  <2>6. \E h \in [Pids -> 1..MAX_PROCESSES] :
          /\ \A q \in processes_flags' :
                h[q] = IF parent_pid'[q] = q THEN 1 ELSE h[parent_pid'[q]] + 1
          /\ \A u \in Open' : num_processes'[u] = h[term_pid'[u]]
    <3> HIDE DEF g
    <3> QED BY <2>3, <2>4, <2>5
  <2> QED BY <2>6 DEF Generations
<1>11. \A q \in processes_flags' :
          parent_pid'[q] # q => parent_esp'[q].pid = parent_pid'[q]
  <2>1. SUFFICES ASSUME NEW q \in processes_flags', parent_pid'[q] # q
                 PROVE  parent_esp'[q].pid = parent_pid'[q]
    OBVIOUS
  <2>2. CASE q = p
    <3>1. Below(KernelStack).pid = KernelStack.pid
      BY <1>5 DEF Below, Position
    <3>2. ~root /\ N[t] > 0
      BY <1>2, <1>3, <2>1, <2>2
    <3> QED BY <1>1, <1>3, <2>2, <3>1, <3>2 DEF TypeOK
  <2>3. CASE q # p
    <3>1. q \in F /\ parent_esp'[q] = parent_esp[q]
      BY <1>1, <1>2, <2>1, <2>3 DEF TypeOK
    <3> QED BY <1>2, <1>3, <2>1, <3>1
  <2> QED BY <2>2, <2>3
<1>12. \A q \in F : mem'[q] = mem[q]
  BY <1>1, <1>2 DEF TypeOK
<1>13. RootsAreShells'
  <2>1. SUFFICES ASSUME NEW q \in processes_flags', parent_pid'[q] = q
                 PROVE  mem'[q] = shell
    BY DEF RootsAreShells
  <2>2. CASE q = p
    BY <1>1, <1>3, <1>4, <2>1, <2>2 DEF TypeOK
  <2>3. CASE q # p
    BY <1>1, <1>2, <1>3, <1>12, <2>1, <2>3
  <2> QED BY <2>2, <2>3
<1>14. \A u \in Terminals \ {t} : term_pid'[u] = term_pid[u]
  BY <1>1 DEF TypeOK
<1> QED BY <1>6, <1>7, <1>8, <1>9, <1>10, <1>11, <1>12, <1>13, <1>14
-----------------------------------------------------------------------------
(***************************************************************************)
(* The steps.                                                              *)
(***************************************************************************)
\* Kernel entry and exit, and the executes that fail, leave everything but the
\* processor's mode alone.
LEMMA QuietStep ==
    ASSUME IInv, cpu' \in Context, cpu'.pid = cpu.pid,
           eax' \in Int \cup {NoValue},
           UNCHANGED <<procVars, termVars, page, esp0>>
    PROVE  IInv'
<1> USE DEF IInv, procVars, termVars
<1>1. TypeOK'
  BY DEF TypeOK
<1>2. Open' = Open
  BY DEF Open
<1>3. ProcessAccounting'
  BY <1>2 DEF ProcessAccounting, can_execute, Total, FreePids
<1>4. RunningContext'
  BY <1>2 DEF RunningContext
<1>5. FamilyTree'
  BY <1>2 DEF FamilyTree
<1>6. Generations'
  BY <1>2 DEF Generations
<1>7. SavedFrames' /\ RootsAreShells'
  BY <1>2 DEF SavedFrames, RootsAreShells
<1> QED BY <1>1, <1>3, <1>4, <1>5, <1>6, <1>7

\* Interrupts taken now go to the kernel stack of the running process.
LEMMA OnOwnStack ==
    ASSUME IInv
    PROVE  /\ KernelStack \in Position
           /\ KernelStack.pid = cpu.pid
           /\ KernelContext(KernelStack, cpu.mode) \in Context
           /\ KernelContext(KernelStack, cpu.mode).pid = cpu.pid
           /\ KernelContext(KernelStack, "fault") \in Context
           /\ KernelContext(KernelStack, "fault").pid = cpu.pid
           /\ KernelContext(esp0, "syscall") \in Context
           /\ KernelContext(esp0, "syscall").pid = cpu.pid
           /\ UserContext(cpu.pid) \in Context
           /\ UserContext(cpu.pid).pid = cpu.pid
<1>1. cpu \in Context /\ esp0 \in Position /\ esp0.pid = cpu.pid
  BY DEF IInv, TypeOK, RunningContext
<1>2. KernelStack \in Position /\ KernelStack.pid = cpu.pid
  BY <1>1 DEF KernelStack, Position, Context
<1> QED BY <1>1, <1>2 DEF KernelContext, UserContext, Position, Context, Modes

\* IInv is what execute() relies on when it launches.
LEMMA ReadyToLaunch ==
    ASSUME IInv
    PROVE  Launchable(processes_flags, num_processes, Open)
<1>1. Tree(processes_flags, Open)
  BY DEF IInv, FamilyTree, Tree
<1>2. Chains(processes_flags, Open, num_processes)
  BY DEF IInv, Generations, Chains
<1>3. Open \subseteq Terminals
  BY DEF Open
<1> QED BY <1>1, <1>2, <1>3
    DEF IInv, TypeOK, ProcessAccounting, SavedFrames, RootsAreShells, Launchable

\* What halt() leaves when it has taken the running process off: the process
\* was a root exactly if its terminal has none left, and the rest is in order.
LEMMA AfterRemoval ==
    ASSUME IInv,
           NEW F, F = processes_flags \ {cpu.pid},
           NEW N, N = [num_processes EXCEPT ![term_cur] = @ - 1]
    PROVE  /\ cpu.pid \in processes_flags
           /\ num_processes[term_cur] > 0
           /\ N \in [Terminals -> Nat]
           /\ N[term_cur] = num_processes[term_cur] - 1
           /\ Total(N) = Total(num_processes) - 1
           /\ Cardinality(F) = Total(N)
           /\ can_execute(N)
           /\ FreePids(F) # {}
           /\ N[term_cur] = 0 <=> parent_pid[cpu.pid] = cpu.pid
           /\ Tree(F, Open \ {term_cur})
           /\ Chains(F, Open \ {term_cur}, N)
<1>1. /\ term_cur \in Open
      /\ cpu.pid = term_pid[term_cur]
      /\ cpu.pid \in processes_flags
      /\ term_cur \in Terminals
      /\ num_processes \in [Terminals -> Nat]
      /\ processes_flags \subseteq Pids
      /\ Open \subseteq Terminals
  BY DEF IInv, RunningContext, FamilyTree, Open, TypeOK
<1>2. num_processes[term_cur] > 0
  BY <1>1 DEF IInv, ProcessAccounting
<1>3. /\ N \in [Terminals -> Nat]
      /\ Total(N) = Total(num_processes) - 1
      /\ Total(num_processes) \in Nat
  BY <1>1, <1>2, TotalDown, TotalUp
<1>4. N[term_cur] = num_processes[term_cur] - 1
      /\ \A t \in Terminals \ {term_cur} : N[t] = num_processes[t]
  BY <1>1
<1>5. Cardinality(F) = Cardinality(processes_flags) - 1
  <2>1. IsFiniteSet(processes_flags)
    BY <1>1, Room
  <2> QED BY <1>1, <2>1, FS_RemoveElement
<1>6. Cardinality(F) = Total(N)
  BY <1>3, <1>5 DEF IInv, ProcessAccounting
<1>7. Cardinality(processes_flags) <= MAX_PROCESSES
      /\ Cardinality(processes_flags) \in Nat
      /\ Cardinality(processes_flags) = Total(num_processes)
  BY <1>1, Room DEF IInv, ProcessAccounting
<1>8. can_execute(N)
  BY <1>3, <1>7, ConstantsAssumption DEF can_execute
<1>9. FreePids(F) # {}
  BY <1>1 DEF FreePids
<1>10. PICK gen \in [Pids -> 1..MAX_PROCESSES] :
         /\ \A p \in processes_flags :
               gen[p] = IF parent_pid[p] = p THEN 1 ELSE gen[parent_pid[p]] + 1
         /\ \A t \in Open : num_processes[t] = gen[term_pid[t]]
  BY DEF IInv, Generations
<1>11. N[term_cur] = 0 <=> parent_pid[cpu.pid] = cpu.pid
  <2>1. num_processes[term_cur] = gen[cpu.pid]
    BY <1>1, <1>10
  <2>2. parent_pid[cpu.pid] \in Pids
    BY <1>1 DEF IInv, TypeOK
  <2>3. gen[parent_pid[cpu.pid]] \in Nat \ {0} /\ gen[cpu.pid] \in Nat
    BY <1>1, <1>10, <2>2, ConstantsAssumption
  <2>4. gen[cpu.pid] = 1 <=> parent_pid[cpu.pid] = cpu.pid
    BY <1>1, <1>10, <2>3
  <2> QED BY <1>4, <2>1, <2>3, <2>4
<1>12. \A p \in F : p \in processes_flags /\ parent_pid[p] \in F
  <2>1. SUFFICES ASSUME NEW p \in F PROVE parent_pid[p] # cpu.pid
    BY DEF IInv, FamilyTree
  <2>2. p \in processes_flags /\ p # cpu.pid
    OBVIOUS
  <2> QED BY <1>1, <2>2 DEF IInv, FamilyTree
<1>13. Tree(F, Open \ {term_cur})
  BY <1>1, <1>12 DEF IInv, FamilyTree, Tree
<1>14. Chains(F, Open \ {term_cur}, N)
  <2>1. \A t \in Open \ {term_cur} : N[t] = gen[term_pid[t]]
    BY <1>1, <1>4, <1>10
  <2>2. \A p \in F :
           gen[p] = IF parent_pid[p] = p THEN 1 ELSE gen[parent_pid[p]] + 1
    BY <1>10, <1>12
  <2> QED BY <2>1, <2>2 DEF Chains
<1> QED BY <1>1, <1>2, <1>3, <1>4, <1>6, <1>8, <1>9, <1>11, <1>13, <1>14

\* halt() keeps IInv and every surviving image, whether it starts a new shell or
\* returns to the parent.
LEMMA HaltStep ==
    ASSUME IInv, NEW status \in Nat, halt(status)
    PROVE  /\ IInv'
           /\ \A p \in processes_flags \cap processes_flags' : mem'[p] = mem[p]
           /\ eax' = NoValue \/ eax' = status
<1> DEFINE F == processes_flags \ {cpu.pid}
           N == [num_processes EXCEPT ![term_cur] = @ - 1]
           S == Open \ {term_cur}
<1>1. /\ cpu.pid \in processes_flags
      /\ num_processes[term_cur] > 0
      /\ N \in [Terminals -> Nat]
      /\ N[term_cur] = num_processes[term_cur] - 1
      /\ Total(N) = Total(num_processes) - 1
      /\ Cardinality(F) = Total(N)
      /\ can_execute(N)
      /\ FreePids(F) # {}
      /\ N[term_cur] = 0 <=> parent_pid[cpu.pid] = cpu.pid
      /\ Tree(F, S)
      /\ Chains(F, S, N)
  BY AfterRemoval
<1>2. /\ TypeOK
      /\ term_cur \in Open
      /\ cpu.pid = term_pid[term_cur]
      /\ term_cur \in Terminals
      /\ Open \subseteq Terminals
      /\ num_processes \in [Terminals -> Nat]
      /\ \A t \in Terminals : t \in Open <=> num_processes[t] > 0
  BY DEF IInv, TypeOK, RunningContext, ProcessAccounting, Open
<1>3. \A t \in Terminals \ {term_cur} : N[t] = num_processes[t]
  BY <1>2
<1>4. UNCHANGED <<init, term_esp, term_cur>>
  BY DEF halt
<1>5. Open' = Open
  BY <1>4 DEF Open
<1>6. CASE Restarts(F, N) /\ Launch(shell, F, N, term_cur)
  <2>1. N[term_cur] = 0
    <3> HIDE DEF F, N
    <3>1. CASE F = {}
      <4>1. Cardinality(F) = 0
        BY <3>1, FS_EmptySet
      <4>2. N[term_cur] <= Total(N) /\ N[term_cur] \in Nat
        BY <1>1, <1>2, TotalBound
      <4>3. Total(N) = 0
        BY <1>1, <4>1
      <4> QED BY <4>2, <4>3
    <3> QED BY <1>6, <3>1 DEF Restarts
  <2>2. Launchable(F, N, S)
    <3>1. F \subseteq Pids /\ S \subseteq Terminals
      BY <1>2 DEF TypeOK
    <3>2. \A t \in Terminals : t \in S <=> N[t] > 0
      BY <1>2, <1>3, <2>1
    <3>3. /\ \A p \in F : parent_pid[p] # p => parent_esp[p].pid = parent_pid[p]
          /\ \A p \in F : parent_pid[p] = p => mem[p] = shell
      BY DEF IInv, SavedFrames, RootsAreShells
    <3> QED BY <1>1, <3>1, <3>2, <3>3 DEF Launchable
  <2>3. /\ Open' = S \cup {term_cur}
        /\ term_cur' = term_cur
        /\ init' \in [Terminals -> {0, 1}]
        /\ term_esp' \in [Terminals -> Context]
    BY <1>2, <1>4, <1>5 DEF TypeOK
  <2> HIDE DEF F, N, S
  <2>4. /\ TypeOK'
        /\ ProcessAccounting'
        /\ RunningContext'
        /\ FamilyTree'
        /\ Generations'
        /\ \A p \in processes_flags' :
              parent_pid'[p] # p => parent_esp'[p].pid = parent_pid'[p]
        /\ RootsAreShells'
        /\ \A p \in F : mem'[p] = mem[p]
        /\ \A u \in Terminals \ {term_cur} : term_pid'[u] = term_pid[u]
    BY <1>1, <1>2, <1>6, <2>1, <2>2, <2>3, LaunchStep, ConstantsAssumption
  <2> USE DEF F, N, S
  <2>5. SavedFrames'
    BY <1>2, <1>4, <1>5, <2>4 DEF IInv, SavedFrames
  <2>6. \A p \in processes_flags \cap processes_flags' : mem'[p] = mem[p]
    <3>1. SUFFICES ASSUME cpu.pid \in processes_flags'
                   PROVE  mem'[cpu.pid] = mem[cpu.pid]
      BY <2>4
    <3>2. mem[cpu.pid] = shell
      BY <1>1, <2>1 DEF IInv, RootsAreShells
    <3>3. PICK p \in Pids : processes_flags' = F \cup {p} /\ page' = p
                            /\ mem' = [mem EXCEPT ![p] = shell]
      BY <1>6 DEF Launch, CopyImage
    <3>4. cpu.pid = p
      BY <3>1, <3>3
    <3> QED BY <1>2, <3>2, <3>3, <3>4 DEF TypeOK
  <2>7. eax' = NoValue
    BY <1>6 DEF Launch
  <2> QED BY <2>4, <2>5, <2>6, <2>7 DEF IInv
<1>7. CASE ~Restarts(F, N) /\ ReturnToParent(F, N, status)
  <2> DEFINE par == parent_pid[cpu.pid]
  <2>1. /\ processes_flags' = F
        /\ num_processes' = N
        /\ term_pid' = [term_pid EXCEPT ![term_cur] = par]
        /\ page' = par
        /\ esp0' = parent_esp[cpu.pid]
        /\ cpu' = UserContext(parent_esp[cpu.pid].pid)
        /\ eax' = status
        /\ UNCHANGED <<parent_pid, parent_esp, mem>>
    BY <1>7 DEF ReturnToParent
  <2>2. N[term_cur] # 0
    BY <1>1, <1>7 DEF Restarts
  <2>3. par # cpu.pid /\ par \in F /\ par \in Pids
    BY <1>1, <1>2, <2>2 DEF IInv, FamilyTree, TypeOK
  <2>4. parent_esp[cpu.pid] \in Position /\ parent_esp[cpu.pid].pid = par
    BY <1>1, <1>2, <2>3 DEF IInv, SavedFrames, TypeOK
  <2>5. cpu' \in Context /\ cpu'.pid = par
    BY <2>1, <2>3, <2>4 DEF UserContext, Context, Modes
  <2>6. TypeOK'
    BY <1>1, <1>2, <1>4, <2>1, <2>3, <2>4, <2>5 DEF TypeOK
  <2>7. \A t \in Terminals : term_pid'[t] = (IF t = term_cur THEN par ELSE term_pid[t])
    BY <1>2, <2>1 DEF TypeOK
  <2>8. ProcessAccounting'
    <3>1. \A t \in Terminals : t \in Open' <=> num_processes'[t] > 0
      BY <1>1, <1>2, <1>3, <1>5, <2>1, <2>2
    <3>2. can_execute(num_processes)' <=> FreePids(processes_flags)' # {}
      BY <1>1, <2>1 DEF can_execute, Total, FreePids
    <3>3. Cardinality(processes_flags)' = Total(num_processes)'
      BY <1>1, <2>1 DEF Total
    <3> QED BY <3>1, <3>2, <3>3 DEF ProcessAccounting
  <2>9. RunningContext'
    BY <1>2, <1>4, <1>5, <2>1, <2>4, <2>5, <2>7 DEF RunningContext
  <2>10. FamilyTree'
    <3>1. \A t \in Open : term_pid'[t] \in F
      BY <1>1, <1>2, <2>3, <2>7 DEF Tree
    <3>2. \A t \in Open : t # term_cur => term_pid[t] # par
      BY <1>1, <1>2, <2>3 DEF IInv, FamilyTree
    <3>3. \A t, u \in Open : term_pid'[t] = term_pid'[u] => t = u
      BY <1>2, <2>7, <3>2 DEF IInv, FamilyTree
    <3>4. \A p \in F : parent_pid[p] # p => parent_pid[p] # par
      BY <1>1, <2>3 DEF IInv, FamilyTree
    <3>5. \A p \in F : parent_pid[p] # p =>
             \A t \in Open : parent_pid[p] # term_pid'[t]
      BY <1>1, <1>2, <2>7, <3>4 DEF Tree
    <3> QED BY <1>1, <1>5, <2>1, <3>1, <3>3, <3>5 DEF Tree, FamilyTree
  <2>11. Generations'
    <3>1. PICK gen \in [Pids -> 1..MAX_PROCESSES] :
            /\ \A p \in processes_flags :
                  gen[p] = IF parent_pid[p] = p THEN 1 ELSE gen[parent_pid[p]] + 1
            /\ \A t \in Open : num_processes[t] = gen[term_pid[t]]
      BY DEF IInv, Generations
    <3>2. gen[cpu.pid] = gen[par] + 1 /\ gen[par] \in Nat
          /\ num_processes[term_cur] = gen[cpu.pid]
      BY <1>1, <1>2, <2>3, <3>1, ConstantsAssumption
    <3>3. \A t \in Open : N[t] = gen[term_pid'[t]]
      BY <1>1, <1>2, <1>3, <2>7, <3>1, <3>2
    <3>4. \A p \in F :
             gen[p] = IF parent_pid[p] = p THEN 1 ELSE gen[parent_pid[p]] + 1
      BY <3>1
    <3> HIDE DEF F, N
    <3> QED BY <1>5, <2>1, <3>3, <3>4 DEF Generations
  <2>12. SavedFrames'
    BY <1>2, <1>4, <1>5, <2>1, <2>7 DEF IInv, SavedFrames
  <2>13. RootsAreShells'
    BY <2>1 DEF IInv, RootsAreShells
  <2> QED BY <2>1, <2>6, <2>8, <2>9, <2>10, <2>11, <2>12, <2>13 DEF IInv
<1> QED BY <1>6, <1>7 DEF halt

\* Opening a terminal keeps IInv: the shell goes on top of nothing, and the
\* terminal left has its context on its own top's kernel stack.
LEMMA OpenStep ==
    ASSUME IInv, NEW t \in Terminals, OpenTerminal(t)
    PROVE  /\ IInv'
           /\ \A p \in processes_flags \cap processes_flags' : mem'[p] = mem[p]
           /\ eax' = NoValue
<1>1. /\ t # term_cur
      /\ init[t] = 0
      /\ can_execute(num_processes)
      /\ term_esp' = [term_esp EXCEPT
                         ![term_cur] = KernelContext(KernelStack, cpu.mode)]
      /\ term_cur' = t
      /\ init' = [init EXCEPT ![t] = 1]
      /\ Launch(shell, processes_flags, num_processes, t)
  BY DEF OpenTerminal, SaveTerminal
<1>2. TypeOK /\ Launchable(processes_flags, num_processes, Open)
  BY ReadyToLaunch DEF IInv
<1>3. t \notin Open /\ num_processes[t] = 0
  BY <1>1 DEF IInv, ProcessAccounting, TypeOK, Open
<1>4. Open' = Open \cup {t} /\ init' \in [Terminals -> {0, 1}]
  BY <1>1, <1>2 DEF TypeOK, Open
<1>5. term_esp' \in [Terminals -> Context] /\ term_esp'[term_cur].pid = term_pid[term_cur]
      /\ \A u \in Terminals \ {term_cur} : term_esp'[u] = term_esp[u]
  BY <1>1, <1>2, OnOwnStack DEF IInv, RunningContext, TypeOK
<1>6. /\ TypeOK'
      /\ ProcessAccounting'
      /\ RunningContext'
      /\ FamilyTree'
      /\ Generations'
      /\ \A p \in processes_flags' :
            parent_pid'[p] # p => parent_esp'[p].pid = parent_pid'[p]
      /\ RootsAreShells'
      /\ \A p \in processes_flags : mem'[p] = mem[p]
      /\ \A u \in Terminals \ {t} : term_pid'[u] = term_pid[u]
  BY <1>1, <1>2, <1>3, <1>4, <1>5, LaunchStep, ConstantsAssumption
<1>7. SavedFrames'
  <2>1. \A u \in Open' \ {term_cur'} : term_esp'[u].pid = term_pid'[u]
    BY <1>1, <1>3, <1>4, <1>5, <1>6 DEF IInv, SavedFrames, Open
  <2> QED BY <1>6, <2>1 DEF SavedFrames
<1>8. eax' = NoValue
  BY <1>1 DEF Launch
<1> QED BY <1>6, <1>7, <1>8 DEF IInv

\* Returning to an open terminal keeps IInv.
LEMMA LoadStep ==
    ASSUME IInv, NEW t \in Terminals, LoadTerminal(t)
    PROVE  IInv' /\ mem' = mem /\ eax' = NoValue
<1>1. /\ t # term_cur
      /\ t \in Open
      /\ term_esp' = [term_esp EXCEPT
                         ![term_cur] = KernelContext(KernelStack, cpu.mode)]
      /\ term_cur' = t
      /\ esp0' = StackTop(term_pid[t])
      /\ page' = term_pid[t]
      /\ cpu' = (IF term_esp[t].mode = "user" THEN UserContext(term_esp[t].pid)
                 ELSE term_esp[t])
      /\ eax' = NoValue
      /\ UNCHANGED <<processes_flags, parent_pid, parent_esp, mem,
                     num_processes, term_pid, init>>
  BY DEF LoadTerminal, LoadPage, SaveTerminal, procVars, Open
<1>2. Open' = Open
  BY <1>1 DEF Open
<1>3. term_esp[t] \in Context /\ term_esp[t].pid = term_pid[t] /\ term_pid[t] \in Pids
  BY <1>1 DEF IInv, TypeOK, SavedFrames
<1>4. cpu' \in Context /\ cpu'.pid = term_pid[t]
  BY <1>1, <1>3 DEF UserContext, Context, Modes
<1>5. esp0' \in Position /\ esp0'.pid = term_pid[t]
  BY <1>1, <1>3 DEF StackTop, Position
<1>6. term_esp' \in [Terminals -> Context] /\ term_esp'[term_cur].pid = term_pid[term_cur]
      /\ \A u \in Terminals \ {term_cur} : term_esp'[u] = term_esp[u]
  BY <1>1, OnOwnStack DEF IInv, RunningContext, TypeOK
<1>7. TypeOK'
  BY <1>1, <1>3, <1>4, <1>5, <1>6 DEF IInv, TypeOK
<1>8. ProcessAccounting'
  BY <1>1, <1>2 DEF IInv, ProcessAccounting, can_execute, Total, FreePids
<1>9. RunningContext'
  BY <1>1, <1>2, <1>4, <1>5 DEF RunningContext
<1>10. FamilyTree' /\ RootsAreShells'
  BY <1>1, <1>2 DEF IInv, FamilyTree, RootsAreShells
<1>11. Generations'
  BY <1>1, <1>2 DEF IInv, Generations
<1>12. SavedFrames'
  BY <1>1, <1>2, <1>6 DEF IInv, SavedFrames, Open
<1> QED BY <1>1, <1>7, <1>8, <1>9, <1>10, <1>11, <1>12 DEF IInv

\* An execute that finds room keeps IInv.
LEMMA ExecuteStep ==
    ASSUME IInv, NEW prog \in Programs, ExecuteLaunch(prog)
    PROVE  /\ IInv'
           /\ \A p \in processes_flags \cap processes_flags' : mem'[p] = mem[p]
           /\ eax' = NoValue
<1>1. /\ can_execute(num_processes)
      /\ Launch(prog, processes_flags, num_processes, term_cur)
      /\ UNCHANGED <<init, term_esp, term_cur>>
  BY DEF ExecuteLaunch
<1>2. TypeOK /\ Launchable(processes_flags, num_processes, Open)
  BY ReadyToLaunch DEF IInv
<1>3. term_cur \in Terminals /\ num_processes[term_cur] > 0 /\ term_cur \in Open
      /\ num_processes \in [Terminals -> Nat]
  BY DEF IInv, TypeOK, RunningContext, ProcessAccounting
<1>4. Open' = Open \cup {term_cur} /\ init' \in [Terminals -> {0, 1}]
      /\ term_esp' \in [Terminals -> Context]
  BY <1>1, <1>2, <1>3 DEF TypeOK, Open
<1>5. KernelStack.pid = term_pid[term_cur]
  BY OnOwnStack DEF IInv, RunningContext
<1>6. /\ TypeOK'
      /\ ProcessAccounting'
      /\ RunningContext'
      /\ FamilyTree'
      /\ Generations'
      /\ \A p \in processes_flags' :
            parent_pid'[p] # p => parent_esp'[p].pid = parent_pid'[p]
      /\ RootsAreShells'
      /\ \A p \in processes_flags : mem'[p] = mem[p]
      /\ \A u \in Terminals \ {term_cur} : term_pid'[u] = term_pid[u]
  BY <1>1, <1>2, <1>3, <1>4, <1>5, LaunchStep
<1>7. SavedFrames'
  BY <1>1, <1>3, <1>4, <1>6 DEF IInv, SavedFrames, Open
<1>8. eax' = NoValue
  BY <1>1 DEF Launch
<1> QED BY <1>6, <1>7, <1>8 DEF IInv
-----------------------------------------------------------------------------
(***************************************************************************)
(* The theorems.                                                           *)
(***************************************************************************)
\* The state init_terminals() leaves satisfies the inductive invariant.
LEMMA InitIInv == Init => IInv
<1> SUFFICES ASSUME Init PROVE IInv
  OBVIOUS
<1>1. 0 \in Pids /\ MAX_PROCESSES \in Nat \ {0} /\ 1 \in 1..MAX_PROCESSES
  BY ConstantsAssumption DEF Pids
<1>2. Open = {1}
  BY DEF Init, Open, Terminals
<1>3. TypeOK
  BY <1>1, ConstantsAssumption
     DEF Init, TypeOK, Terminals, StackTop, UserContext, Position, Context, Modes
<1>4. ProcessAccounting
  <2>1. Cardinality({0}) = 1
    BY FS_Singleton
  <2>2. Total(num_processes) = 1
    BY DEF Init, Total, Terminals
  <2>3. \A t \in Terminals : t \in Open <=> num_processes[t] > 0
    BY <1>2 DEF Init
  <2>4. Cardinality({0}) < MAX_PROCESSES <=> FreePids({0}) # {}
    BY <1>1, Room
  <2>5. processes_flags = {0}
    BY DEF Init
  <2> QED BY <2>1, <2>2, <2>3, <2>4, <2>5 DEF ProcessAccounting, can_execute
<1>5. RunningContext
  BY <1>2 DEF Init, RunningContext, StackTop, UserContext, Terminals
<1>6. FamilyTree
  BY <1>1, <1>2 DEF Init, FamilyTree, Terminals
<1>7. Generations
  <2> DEFINE gen == [p \in Pids |-> 1]
  <2>1. gen \in [Pids -> 1..MAX_PROCESSES]
    BY <1>1
  <2>2. \A p \in processes_flags :
           gen[p] = IF parent_pid[p] = p THEN 1 ELSE gen[parent_pid[p]] + 1
    BY <1>1 DEF Init
  <2>3. \A t \in Open : num_processes[t] = gen[term_pid[t]]
    BY <1>1, <1>2 DEF Init, Terminals
  <2> QED BY <2>1, <2>2, <2>3 DEF Generations
<1>8. SavedFrames /\ RootsAreShells
  BY <1>1, <1>2 DEF Init, SavedFrames, RootsAreShells
<1> QED BY <1>3, <1>4, <1>5, <1>6, <1>7, <1>8 DEF IInv

\* halt()'s uint8_t parameter is never negative.
LEMMA LowByte == ASSUME NEW x \in Int PROVE x % 256 \in Nat
OBVIOUS

\* One step from a state of IInv: IInv holds again, no surviving image changes,
\* and eax becomes -1 only if execute started nothing.
LEMMA NextStep ==
    ASSUME IInv, [Next]_vars
    PROVE  /\ IInv'
           /\ \A p \in processes_flags \cap processes_flags' : mem'[p] = mem[p]
           /\ \/ UNCHANGED vars
              \/ eax' = NoValue
              \/ UNCHANGED <<processes_flags, term_pid>>
              \/ eax' \in Nat
<1> USE DEF procVars, termVars
<1>1. CASE IntSyscall
  BY <1>1, QuietStep, OnOwnStack DEF IntSyscall
<1>2. CASE SyscallReturn
  BY <1>2, QuietStep, OnOwnStack DEF SyscallReturn
<1>3. CASE IntException
  BY <1>3, QuietStep, OnOwnStack DEF IntException
<1>4. ASSUME NEW found \in BOOLEAN, ExecuteFail(found)
      PROVE  /\ IInv'
             /\ mem' = mem
             /\ UNCHANGED <<processes_flags, term_pid>>
  BY <1>4, QuietStep, OnOwnStack DEF ExecuteFail
<1>5. CASE ExecuteRefuse
  BY <1>5, QuietStep, OnOwnStack DEF ExecuteRefuse
<1>6. ASSUME NEW prog \in Programs, ExecuteLaunch(prog)
      PROVE  /\ IInv'
             /\ \A p \in processes_flags \cap processes_flags' : mem'[p] = mem[p]
             /\ eax' = NoValue
  BY <1>6, ExecuteStep
<1>7. ASSUME NEW s \in Statuses, Halt(s)
      PROVE  /\ IInv'
             /\ \A p \in processes_flags \cap processes_flags' : mem'[p] = mem[p]
             /\ eax' = NoValue \/ eax' \in Nat
  <2>1. s \in Int /\ s % 256 \in Nat
    BY ConstantsAssumption
  <2> QED BY <1>7, <2>1, HaltStep DEF Halt
<1>8. CASE ExecuteExit
  BY <1>8, HaltStep DEF ExecuteExit
<1>9. CASE FaultHalt
  <2>1. -1 \in Int
    OBVIOUS
  <2>2. (-1) % 256 \in Nat
    BY <2>1, LowByte
  <2> QED BY <1>9, <2>2, HaltStep DEF FaultHalt
<1>10. ASSUME NEW t \in Terminals, OpenTerminal(t)
       PROVE  /\ IInv'
              /\ \A p \in processes_flags \cap processes_flags' : mem'[p] = mem[p]
              /\ eax' = NoValue
  BY <1>10, OpenStep
<1>11. ASSUME NEW t \in Terminals, LoadTerminal(t)
       PROVE  IInv' /\ mem' = mem /\ eax' = NoValue
  BY <1>11, LoadStep
<1>12. CASE UNCHANGED vars
  <2>1. IInv'
    <3>1. cpu' \in Context /\ cpu'.pid = cpu.pid /\ eax' \in Int \cup {NoValue}
      BY <1>12 DEF vars, IInv, TypeOK
    <3> QED BY <1>12, <3>1, QuietStep DEF vars
  <2> QED BY <1>12, <2>1 DEF vars
<1> QED BY <1>1, <1>2, <1>3, <1>4, <1>5, <1>6, <1>7, <1>8, <1>9, <1>10, <1>11, <1>12
    DEF Next

\* The inductive invariant holds in every state of every instance.
THEOREM Inductive == Spec => []IInv
<1>1. IInv /\ [Next]_vars => IInv'
  BY NextStep
<1> QED BY InitIInv, <1>1, PTL DEF Spec

\* Every variable keeps its kind.
THEOREM TypeCorrect == Spec => []TypeOK
<1>1. IInv => TypeOK
  BY DEF IInv
<1> QED BY Inductive, <1>1, PTL

\* The counts and the flags agree: can_execute() promises exactly the free PCB
\* that get_new_pid() then finds.
THEOREM Accounting == Spec => []ProcessAccounting
<1>1. IInv => ProcessAccounting
  BY DEF IInv
<1> QED BY Inductive, <1>1, PTL

\* The processor, the mapping and tss.esp0 always belong to the top process of
\* the terminal in front.
THEOREM Running == Spec => []RunningContext
<1>1. IInv => RunningContext
  BY DEF IInv
<1> QED BY Inductive, <1>1, PTL

\* The live processes always form one chain per open terminal.
THEOREM Chaining == Spec => []FamilyTree
<1>1. IInv => FamilyTree
  BY DEF IInv
<1> QED BY Inductive, <1>1, PTL

\* num_processes of a terminal is the number of processes chained under its top.
THEOREM Depth == Spec => []Generations
<1>1. IInv => Generations
  BY DEF IInv
<1> QED BY Inductive, <1>1, PTL

\* Every saved stack pointer, of a terminal in the background or of a parent that
\* waits, is on the kernel stack of the process that will run from it.
THEOREM Frames == Spec => []SavedFrames
<1>1. IInv => SavedFrames
  BY DEF IInv
<1> QED BY Inductive, <1>1, PTL

\* A process without a parent always runs the shell.
THEOREM Roots == Spec => []RootsAreShells
<1>1. IInv => RootsAreShells
  BY DEF IInv
<1> QED BY Inductive, <1>1, PTL

\* halt() starts a new shell exactly when the process that ends is a root.
THEOREM Restarting == Spec => []LastIsRoot
<1>1. IInv => LastIsRoot
  <2> SUFFICES ASSUME IInv, NEW t \in Open
               PROVE  num_processes[t] = 1 <=> parent_pid[term_pid[t]] = term_pid[t]
    BY DEF LastIsRoot
  <2>1. PICK gen \in [Pids -> 1..MAX_PROCESSES] :
          /\ \A p \in processes_flags :
                gen[p] = IF parent_pid[p] = p THEN 1 ELSE gen[parent_pid[p]] + 1
          /\ \A u \in Open : num_processes[u] = gen[term_pid[u]]
    BY DEF IInv, Generations
  <2>2. term_pid[t] \in processes_flags /\ parent_pid[term_pid[t]] \in Pids
    BY DEF IInv, FamilyTree, TypeOK
  <2>3. gen[parent_pid[term_pid[t]]] \in Nat \ {0}
    BY <2>1, <2>2, ConstantsAssumption
  <2> QED BY <2>1, <2>2, <2>3
<1> QED BY Inductive, <1>1, PTL

\* No step changes the image of a process that stays alive.
THEOREM Isolation == Spec => ImageStable
<1>1. IInv /\ [Next]_vars =>
         [\A p \in processes_flags \cap processes_flags' : mem'[p] = mem[p]]_vars
  BY NextStep
<1> QED BY Inductive, <1>1, PTL DEF Spec, ImageStable

\* execute() returns -1 only when it started nothing.
THEOREM TruthfulShell == Spec => NoSuchCommand
<1>1. IInv /\ [Next]_vars =>
         [eax' = -1 => processes_flags' = processes_flags /\ term_pid' = term_pid]_vars
  <2> SUFFICES ASSUME IInv, [Next]_vars, eax' = -1
               PROVE  UNCHANGED vars \/ UNCHANGED <<processes_flags, term_pid>>
    OBVIOUS
  <2>1. eax' # NoValue /\ eax' \notin Nat
    BY ConstantsAssumption
  <2> QED BY <2>1, NextStep
<1> QED BY Inductive, <1>1, PTL DEF Spec, NoSuchCommand
-----------------------------------------------------------------------------
(***************************************************************************)
(* Processes implements TerminalStacks, for any number of PCBs.            *)
(*                                                                         *)
(* The mapping reads a terminal's stack off the parent links: a recursive  *)
(* function, whose value and whose independence of the other processes are *)
(* proved by induction on the links followed (Chain...).  From that, what  *)
(* a launch, a return to the parent and a switch do to the stacks, and the *)
(* step simulation.                                                        *)
(***************************************************************************)
\* The processes from top upwards, by the parent links par.
Chain(par, top) ==
    LET up[k \in Nat] == IF k = 0 THEN top ELSE par[up[k - 1]]
    IN up

\* The recursive definition means what its equation says.
LEMMA ChainDef ==
    ASSUME NEW par \in [Pids -> Pids], NEW top \in Pids
    PROVE  /\ Chain(par, top) \in [Nat -> Pids]
           /\ Chain(par, top)[0] = top
           /\ \A k \in Nat : Chain(par, top)[k + 1] = par[Chain(par, top)[k]]
<1> DEFINE pred == [k \in Nat |-> k - 1]
           step == [k \in Nat |-> par]
           base == [k \in Nat |-> top]
<1>1. step \in [Nat -> [Pids -> Pids]] /\ base \in [Nat -> Pids]
  OBVIOUS
<1>2. PICK h \in [Nat -> Pids] : Computes(h, Nat, pred, step, base)
  <2> HIDE DEF pred, step, base
  <2> QED
    BY <1>1, RecursiveFunction
<1>3. \A k \in Nat : h[k] = IF k = 0 THEN top ELSE par[h[k - 1]]
  BY <1>2 DEF Computes
<1>4. h = [k \in Nat |-> IF k = 0 THEN top ELSE par[h[k - 1]]]
  BY <1>3
<1> DEFINE c == Chain(par, top)
<1>5. c = [k \in Nat |-> IF k = 0 THEN top ELSE par[c[k - 1]]]
  BY <1>4 DEF Chain
<1> HIDE DEF c
<1>6. c[0] = top /\ \A k \in Nat : c[k + 1] = par[c[k]]
  BY <1>5
<1>7. \A k \in Nat : c[k] \in Pids
  <2> DEFINE S == {k \in Nat : c[k] \in Pids}
  <2>1. 0 \in S /\ \A k \in Nat : k \in S => k + 1 \in S
    BY <1>6
  <2>2. Nat \subseteq S
    <3> HIDE DEF S
    <3> QED
      BY <2>1, SetInduction
  <2> QED
    BY <2>2
<1>8. c \in [Nat -> Pids]
  BY <1>5, <1>7
<1> QED
  BY <1>6, <1>8 DEF c

\* The model's Ancestor(t) is such a chain.
LEMMA AncestorChain ==
    ASSUME NEW t
    PROVE  /\ Ancestor(t) = Chain(parent_pid, term_pid[t])
           /\ Ancestor(t)' = Chain(parent_pid', term_pid'[t])
  BY DEF Ancestor, Chain

\* One link further up from a process is the chain of its parent.
LEMMA ChainUp ==
    ASSUME NEW par \in [Pids -> Pids], NEW top \in Pids
    PROVE  \A k \in Nat : Chain(par, top)[k + 1] = Chain(par, par[top])[k]
<1> DEFINE c == Chain(par, top)
           d == Chain(par, par[top])
           S == {k \in Nat : c[k + 1] = d[k]}
<1>1. c[0] = top /\ \A k \in Nat : c[k + 1] = par[c[k]]
  BY ChainDef
<1>2. par[top] \in Pids
  OBVIOUS
<1>3. d[0] = par[top] /\ \A k \in Nat : d[k + 1] = par[d[k]]
  BY <1>2, ChainDef
<1> HIDE DEF c, d
<1>4. 0 \in S
  BY <1>1, <1>3
<1>5. ASSUME NEW k \in Nat, k \in S
      PROVE  k + 1 \in S
  BY <1>1, <1>3, <1>5
<1>6. Nat \subseteq S
  <2> HIDE DEF S
  <2> QED
    BY <1>4, <1>5, SetInduction
<1> QED
  BY <1>6 DEF c, d

\* Links outside the closed set F do not matter to a chain that starts in it.
LEMMA ChainWithin ==
    ASSUME NEW par \in [Pids -> Pids], NEW q \in [Pids -> Pids], NEW F \in SUBSET Pids,
           \A p \in F : par[p] \in F /\ q[p] = par[p], NEW top \in F
    PROVE  \A k \in Nat : Chain(par, top)[k] \in F /\ Chain(q, top)[k] = Chain(par, top)[k]
<1> DEFINE c == Chain(par, top)
           d == Chain(q, top)
           S == {k \in Nat : c[k] \in F /\ d[k] = c[k]}
<1>0. top \in Pids
  OBVIOUS
<1>1. c[0] = top /\ \A k \in Nat : c[k + 1] = par[c[k]]
  BY <1>0, ChainDef
<1>2. d[0] = top /\ \A k \in Nat : d[k + 1] = q[d[k]]
  BY <1>0, ChainDef
<1> HIDE DEF c, d
<1>3. 0 \in S
  BY <1>1, <1>2
<1>4. ASSUME NEW k \in Nat, k \in S
      PROVE  k + 1 \in S
  BY <1>1, <1>2, <1>4
<1>5. Nat \subseteq S
  <2> HIDE DEF S
  <2> QED
    BY <1>3, <1>4, SetInduction
<1> QED
  BY <1>5 DEF c, d
-----------------------------------------------------------------------------
(***************************************************************************)
(* A terminal's stack of programs.                                         *)
(***************************************************************************)
\* The stack of n programs that the links par, the top and the images m describe.
Stack(par, top, m, n) == [k \in 1..n |-> m[Chain(par, top)[n - k]]]

\* It is a sequence of programs with the top's image at its end.
LEMMA StackShape ==
    ASSUME NEW par \in [Pids -> Pids], NEW top \in Pids, NEW m \in [Pids -> Programs],
           NEW n \in Nat
    PROVE  /\ Stack(par, top, m, n) \in Seq(Programs)
           /\ Len(Stack(par, top, m, n)) = n
           /\ n > 0 => Stack(par, top, m, n)[n] = m[top]
           /\ n = 0 => Stack(par, top, m, n) = <<>>
<1> DEFINE c == Chain(par, top)
           s == Stack(par, top, m, n)
<1>1. c \in [Nat -> Pids] /\ c[0] = top
  BY ChainDef
<1>2. s = [k \in 1..n |-> m[c[n - k]]]
  BY DEF Stack
<1> HIDE DEF c, s
<1>3. \A k \in 1..n : m[c[n - k]] \in Programs
  BY <1>1
<1>4. s \in Seq(Programs) /\ Len(s) = n
  BY <1>2, <1>3
<1>5. n > 0 => s[n] = m[top]
  BY <1>1, <1>2
<1>6. n = 0 => s = <<>>
  BY <1>4
<1> QED
  BY <1>4, <1>5, <1>6 DEF s

\* F is closed under the links par, and the links q and images w are par and m there.
Agree(F, par, q, m, w) ==
    /\ F \subseteq Pids
    /\ \A p \in F : par[p] \in F /\ q[p] = par[p] /\ w[p] = m[p]

\* A process that does not touch the chain's processes leaves the stack alone.
LEMMA StackWithin ==
    ASSUME NEW par \in [Pids -> Pids], NEW q \in [Pids -> Pids], NEW m \in [Pids -> Programs],
           NEW w, NEW F, Agree(F, par, q, m, w), NEW top \in F, NEW n \in Nat
    PROVE  Stack(q, top, w, n) = Stack(par, top, m, n)
<1> DEFINE c == Chain(par, top)
           d == Chain(q, top)
<1>1. \A k \in Nat : c[k] \in F /\ d[k] = c[k]
  BY ChainWithin DEF Agree
<1>a. \A p \in F : w[p] = m[p]
  BY DEF Agree
<1> HIDE DEF c, d
<1>2. \A k \in 1..n : w[d[n - k]] = m[c[n - k]]
  <2> SUFFICES ASSUME NEW k \in 1..n
               PROVE  w[d[n - k]] = m[c[n - k]]
    OBVIOUS
  <2>1. n - k \in Nat
    OBVIOUS
  <2> QED
    BY <1>1, <1>a, <2>1
<1> QED
  BY <1>2 DEF Stack, c, d

\* A new process over the top, with its image, is pushed on the stack.
LEMMA StackPush ==
    ASSUME NEW par \in [Pids -> Pids], NEW q \in [Pids -> Pids], NEW m \in [Pids -> Programs],
           NEW w, NEW F, Agree(F, par, q, m, w), NEW top \in F, NEW n \in Nat,
           NEW new \in Pids, q[new] = top
    PROVE  Stack(q, new, w, n + 1) = Append(Stack(par, top, m, n), w[new])
<1> DEFINE c == Chain(par, top)
           d == Chain(q, new)
           s == Stack(par, top, m, n)
<1>1. \A k \in Nat : c[k] \in F /\ Chain(q, top)[k] = c[k]
  BY ChainWithin DEF Agree
<1>a. top \in Pids /\ \A p \in F : w[p] = m[p]
  BY DEF Agree
<1>2. d[0] = new /\ \A k \in Nat : d[k + 1] = Chain(q, top)[k]
  <2>1. d[0] = new
    BY ChainDef
  <2>2. \A k \in Nat : d[k + 1] = Chain(q, q[new])[k]
    BY ChainUp
  <2> QED
    BY <2>1, <2>2
<1>3. s \in Seq(Programs) /\ Len(s) = n
  BY <1>a, StackShape
<1>4. \A k \in 1..n : s[k] = m[c[n - k]]
  BY DEF Stack
<1>5. \A k \in Nat : d[k + 1] = c[k] /\ c[k] \in F
  BY <1>1, <1>2
<1>6. Stack(q, new, w, n + 1) = [k \in 1..(n + 1) |-> w[d[n + 1 - k]]]
  BY DEF Stack
<1>7. d[0] = new
  BY <1>2
<1> HIDE DEF c, d, s
<1>8. ASSUME NEW k \in 1..(n + 1)
      PROVE  w[d[n + 1 - k]] = Append(s, w[new])[k]
  <2>1. CASE k = n + 1
    BY <1>3, <1>7, <2>1
  <2>2. CASE k # n + 1
    <3>1. n - k \in Nat /\ k \in 1..n /\ n + 1 - k = (n - k) + 1
      BY <2>2
    <3>2. w[d[n + 1 - k]] = m[c[n - k]]
      BY <1>5, <1>a, <3>1
    <3> QED
      BY <1>3, <1>4, <3>1, <3>2
  <2> QED
    BY <2>1, <2>2
<1>9. DOMAIN Append(s, w[new]) = 1..(n + 1) /\ Append(s, w[new]) = [k \in 1..(n + 1) |-> Append(s, w[new])[k]]
  BY <1>3
<1>10. [k \in 1..(n + 1) |-> w[d[n + 1 - k]]] = [k \in 1..(n + 1) |-> Append(s, w[new])[k]]
  BY <1>8
<1> QED
  BY <1>6, <1>9, <1>10 DEF s

\* The parent's stack is the top's without its last program.
LEMMA StackPop ==
    ASSUME NEW par \in [Pids -> Pids], NEW top \in Pids, NEW m \in [Pids -> Programs],
           NEW n \in Nat, n > 0
    PROVE  Stack(par, par[top], m, n - 1) = SubSeq(Stack(par, top, m, n), 1, n - 1)
<1> DEFINE c == Chain(par, top)
           d == Chain(par, par[top])
           s == Stack(par, top, m, n)
<1>1. \A k \in Nat : d[k] = c[k + 1]
  BY ChainUp
<1>2. s \in Seq(Programs) /\ Len(s) = n
  BY StackShape
<1>3. \A k \in 1..n : s[k] = m[c[n - k]]
  BY DEF Stack
<1>4. Stack(par, par[top], m, n - 1) = [k \in 1..(n - 1) |-> m[d[n - 1 - k]]]
  BY DEF Stack
<1> HIDE DEF c, d, s
<1>5. SubSeq(s, 1, n - 1) = [k \in 1..(n - 1) |-> s[k]]
  BY <1>2
<1>6. ASSUME NEW k \in 1..(n - 1)
      PROVE  m[d[n - 1 - k]] = s[k]
  <2>1. n - 1 - k \in Nat /\ k \in 1..n /\ (n - 1 - k) + 1 = n - k
    OBVIOUS
  <2> QED
    BY <1>1, <1>3, <2>1
<1> QED
  BY <1>4, <1>5, <1>6 DEF s
-----------------------------------------------------------------------------
(***************************************************************************)
(* The steps of the code are steps of the stacks.                          *)
(***************************************************************************)
\* The refinement mapping, before and after a step.
LEMMA JobsStack ==
    /\ jobs = [t \in Terminals |->
                  Stack(parent_pid, term_pid[t], mem, num_processes[t])]
    /\ jobs' = [t \in Terminals |->
                  Stack(parent_pid', term_pid'[t], mem', num_processes'[t])]
<1>1. jobs = [t \in Terminals |->
                  Stack(parent_pid, term_pid[t], mem, num_processes[t])]
  BY AncestorChain DEF jobs, Stack
<1>2. jobs' = [t \in Terminals |->
                  Stack(parent_pid', term_pid'[t], mem', num_processes'[t])]
  BY AncestorChain DEF jobs, Stack
<1> QED
  BY <1>1, <1>2

\* What a state of IInv says of the stacks: the counts are their lengths, an open
\* terminal's has its top process's program at the end, and the program that runs
\* is the last of the front one.
LEMMA StacksOf ==
    ASSUME IInv
    PROVE  /\ \A t \in Terminals : /\ jobs[t] \in Seq(Programs)
                                   /\ Len(jobs[t]) = num_processes[t]
                                   /\ num_processes[t] > 0 =>
                                        jobs[t][num_processes[t]] = mem[term_pid[t]]
                                   /\ t \in Open <=> jobs[t] # <<>>
           /\ Stacks!Load = Total(num_processes)
           /\ term_cur \in Open
           /\ page = term_pid[term_cur]
<1>1. TypeOK
  BY DEF IInv
<1>2. ASSUME NEW t \in Terminals
      PROVE  /\ jobs[t] \in Seq(Programs)
             /\ Len(jobs[t]) = num_processes[t]
             /\ num_processes[t] > 0 => jobs[t][num_processes[t]] = mem[term_pid[t]]
             /\ t \in Open <=> jobs[t] # <<>>
  <2>1. jobs[t] = Stack(parent_pid, term_pid[t], mem, num_processes[t])
    BY JobsStack
  <2>2. /\ parent_pid \in [Pids -> Pids] /\ term_pid[t] \in Pids
        /\ mem \in [Pids -> Programs] /\ num_processes[t] \in Nat
    BY <1>1 DEF TypeOK
  <2>3. /\ jobs[t] \in Seq(Programs)
        /\ Len(jobs[t]) = num_processes[t]
        /\ num_processes[t] > 0 => jobs[t][num_processes[t]] = mem[term_pid[t]]
    BY <2>1, <2>2, StackShape
  <2>4. t \in Open <=> num_processes[t] > 0
    BY DEF IInv, ProcessAccounting
  <2> QED
    BY <2>2, <2>3, <2>4
<1>3. Stacks!Load = Total(num_processes)
  <2>1. /\ Len(jobs[1]) = num_processes[1] /\ Len(jobs[2]) = num_processes[2]
        /\ Len(jobs[3]) = num_processes[3]
    BY <1>2 DEF Terminals
  <2> QED
    BY <2>1 DEF Stacks!Load, Total
<1> QED
  BY <1>2, <1>3 DEF IInv, RunningContext

\* A launch puts one program on the stack of terminal t, of which S is the rest:
\* on top of the processes there, or alone when there are none.
LEMMA LaunchPushes ==
    ASSUME TypeOK, NEW prog \in Programs, NEW t \in Terminals,
           NEW F, NEW N, NEW S, Launchable(F, N, S), Launch(prog, F, N, t),
           t \in S \/ N[t] = 0
    PROVE  /\ jobs'[t] = Append(Stack(parent_pid, term_pid[t], mem, N[t]), prog)
           /\ \A u \in Terminals \ {t} :
                 jobs'[u] = Stack(parent_pid, term_pid[u], mem, N[u])
           /\ mem'[page'] = prog
<1>1. PICK p \in Pids :
        /\ p \notin F
        /\ parent_pid' = [parent_pid EXCEPT
                             ![p] = IF N[t] = 0 THEN p ELSE term_pid[t]]
        /\ num_processes' = [N EXCEPT ![t] = @ + 1]
        /\ term_pid' = [term_pid EXCEPT ![t] = p]
        /\ page' = p
        /\ mem' = [mem EXCEPT ![p] = prog]
  BY DEF Launch, CopyImage, get_new_pid, FreePids
<1>2. /\ F \in SUBSET Pids /\ N \in [Terminals -> Nat] /\ S \subseteq Terminals
      /\ \A u \in Terminals : u \in S <=> N[u] > 0
      /\ \A u \in S : term_pid[u] \in F
      /\ \A q \in F : parent_pid[q] \in F
  BY DEF Launchable, Tree
<1>3. /\ parent_pid \in [Pids -> Pids] /\ mem \in [Pids -> Programs]
      /\ term_pid \in [Terminals -> Pids]
  BY DEF TypeOK
<1>4. /\ parent_pid' \in [Pids -> Pids] /\ mem' \in [Pids -> Programs]
      /\ Agree(F, parent_pid, parent_pid', mem, mem')
      /\ mem'[p] = prog
      /\ parent_pid'[p] = IF N[t] = 0 THEN p ELSE term_pid[t]
  BY <1>1, <1>2, <1>3 DEF Agree
<1>5. /\ term_pid'[t] = p /\ num_processes'[t] = N[t] + 1
      /\ \A u \in Terminals \ {t} : term_pid'[u] = term_pid[u] /\ num_processes'[u] = N[u]
  BY <1>1, <1>2, <1>3
<1>6. jobs'[t] = Append(Stack(parent_pid, term_pid[t], mem, N[t]), prog)
  <2>1. jobs'[t] = Stack(parent_pid', p, mem', N[t] + 1)
    BY <1>5, JobsStack
  <2>2. CASE N[t] = 0
    <3>1. Stack(parent_pid, term_pid[t], mem, N[t]) = <<>>
      <4>1. term_pid[t] \in Pids /\ N[t] \in Nat
        BY <1>2, <1>3
      <4> QED
        BY <1>3, <2>2, <4>1, StackShape
    <3>2. /\ jobs'[t] \in Seq(Programs) /\ Len(jobs'[t]) = 1 /\ jobs'[t][1] = prog
      <4>1. 1 \in Nat /\ N[t] + 1 = 1 /\ 1 > 0
        BY <2>2
      <4>2. jobs'[t] = Stack(parent_pid', p, mem', 1)
        BY <2>1, <4>1
      <4>3. parent_pid' \in [Pids -> Pids] /\ mem' \in [Pids -> Programs] /\ mem'[p] = prog
        BY <1>4
      <4>4. /\ Stack(parent_pid', p, mem', 1) \in Seq(Programs)
            /\ Len(Stack(parent_pid', p, mem', 1)) = 1
            /\ Stack(parent_pid', p, mem', 1)[1] = mem'[p]
        <5> DEFINE a == parent_pid'
                   w == mem'
        <5>1. a \in [Pids -> Pids] /\ w \in [Pids -> Programs] /\ p \in Pids
          BY <4>3
        <5> HIDE DEF a, w
        <5>2. /\ Stack(a, p, w, 1) \in Seq(Programs) /\ Len(Stack(a, p, w, 1)) = 1
              /\ Stack(a, p, w, 1)[1] = w[p]
          BY ONLY <4>1, <5>1, StackShape, ZenonT(40)
        <5> QED
          BY <5>2 DEF a, w
      <4> QED
        BY <4>2, <4>3, <4>4
    <3>3. jobs'[t] = <<prog>>
      <4> HIDE DEF jobs
      <4> QED
        BY <3>2
    <3> QED
      BY <3>1, <3>3
  <2>3. CASE N[t] # 0
    <3>1. parent_pid'[p] = term_pid[t] /\ term_pid[t] \in F /\ N[t] \in Nat
      BY <1>2, <1>4, <2>3
    <3>2. Stack(parent_pid', p, mem', N[t] + 1) =
             Append(Stack(parent_pid, term_pid[t], mem, N[t]), mem'[p])
      BY <1>3, <1>4, <3>1, StackPush
    <3> QED
      BY <1>4, <2>1, <3>2
  <2> QED
    BY <2>2, <2>3
<1>7. ASSUME NEW u \in Terminals \ {t}
      PROVE  jobs'[u] = Stack(parent_pid, term_pid[u], mem, N[u])
  <2>1. jobs'[u] = Stack(parent_pid', term_pid[u], mem', N[u])
    BY <1>5, JobsStack
  <2>2. N[u] \in Nat /\ term_pid[u] \in Pids
    BY <1>2, <1>3
  <2>3. CASE N[u] = 0
    <3>1. /\ Stack(parent_pid, term_pid[u], mem, N[u]) = <<>>
          /\ Stack(parent_pid', term_pid[u], mem', N[u]) = <<>>
      BY <1>3, <1>4, <2>2, <2>3, StackShape
    <3> QED
      BY <2>1, <3>1
  <2>4. CASE N[u] # 0
    <3>1. term_pid[u] \in F
      BY <1>2, <2>2, <2>4
    <3>2. Stack(parent_pid', term_pid[u], mem', N[u]) = Stack(parent_pid, term_pid[u], mem, N[u])
      BY <1>3, <1>4, <2>2, <3>1, StackWithin
    <3> QED
      BY <2>1, <3>2
  <2> QED
    BY <2>3, <2>4
<1> QED
  BY <1>1, <1>4, <1>6, <1>7

\* An execute that launches is Run.
LEMMA RunStep ==
    ASSUME IInv, NEW prog \in Programs, ExecuteLaunch(prog)
    PROVE  Stacks!Run(prog)
<1>1. /\ can_execute(num_processes)
      /\ Launch(prog, processes_flags, num_processes, term_cur)
      /\ UNCHANGED term_cur
  BY DEF ExecuteLaunch
<1>2. /\ TypeOK /\ Launchable(processes_flags, num_processes, Open)
      /\ term_cur \in Terminals /\ term_cur \in Open
  BY ReadyToLaunch DEF IInv, TypeOK, RunningContext
<1>3. /\ jobs'[term_cur] =
            Append(Stack(parent_pid, term_pid[term_cur], mem, num_processes[term_cur]), prog)
      /\ \A u \in Terminals \ {term_cur} :
            jobs'[u] = Stack(parent_pid, term_pid[u], mem, num_processes[u])
      /\ mem'[page'] = prog
  BY <1>1, <1>2, LaunchPushes
<1>4. /\ jobs'[term_cur] = Append(jobs[term_cur], prog)
      /\ \A u \in Terminals \ {term_cur} : jobs'[u] = jobs[u]
      /\ \E f : jobs = [t \in Terminals |-> f[t]]
      /\ \E f : jobs' = [t \in Terminals |-> f[t]]
  BY <1>2, <1>3, JobsStack
<1>5. jobs' = [jobs EXCEPT ![term_cur] = Append(@, prog)]
  <2> HIDE DEF jobs
  <2> QED
    BY <1>2, <1>4
<1>6. Stacks!Load < MAX_PROCESSES
  BY <1>1, StacksOf DEF can_execute
<1> QED
  BY <1>1, <1>3, <1>5, <1>6 DEF Stacks!Run

\* A halt is End: the terminal's last program is replaced by a new shell, any
\* other one uncovers the program below it.
LEMMA EndStep ==
    ASSUME IInv, NEW status, halt(status)
    PROVE  Stacks!End
<1> DEFINE F == processes_flags \ {cpu.pid}
           N == [num_processes EXCEPT ![term_cur] = @ - 1]
           S == Open \ {term_cur}
<1>1. /\ N \in [Terminals -> Nat]
      /\ N[term_cur] = num_processes[term_cur] - 1
      /\ num_processes[term_cur] > 0
      /\ Cardinality(F) = Total(N)
      /\ can_execute(N)
      /\ FreePids(F) # {}
      /\ Tree(F, S)
      /\ Chains(F, S, N)
  BY AfterRemoval
<1>2. /\ TypeOK /\ term_cur \in Terminals /\ S \subseteq Terminals /\ term_cur \notin S
      /\ cpu.pid = term_pid[term_cur]
      /\ num_processes \in [Terminals -> Nat]
      /\ term_pid \in [Terminals -> Pids]
      /\ F \subseteq Pids
  BY DEF IInv, TypeOK, RunningContext, Open
<1>3. \A u \in Terminals \ {term_cur} : N[u] = num_processes[u]
  BY <1>2
<1>4. term_cur' = term_cur
  BY DEF halt
<1>5. Len(jobs[term_cur]) = num_processes[term_cur]
  BY <1>2, StacksOf
<1>6. CASE Restarts(F, N) /\ Launch(shell, F, N, term_cur)
  <2>1. N[term_cur] = 0
    <3>1. CASE F = {}
      <4>1. Cardinality({}) = 0
        BY FS_EmptySet
      <4>2. N[term_cur] <= Total(N) /\ N[term_cur] \in Nat
        <5> HIDE DEF N
        <5> QED
          BY <1>1, <1>2, TotalBound
      <4>3. Total(N) = 0
        <5> HIDE DEF F, N
        <5> QED
          BY <1>1, <3>1, <4>1, Zenon
      <4> HIDE DEF N
      <4> QED
        BY <4>2, <4>3
    <3> QED
      BY <1>6, <3>1 DEF Restarts
  <2>2. Launchable(F, N, S)
    <3>1. \A u \in Terminals : u \in S <=> N[u] > 0
      <4> SUFFICES ASSUME NEW u \in Terminals
                   PROVE  u \in S <=> N[u] > 0
        OBVIOUS
      <4>1. CASE u = term_cur
        BY <1>2, <2>1, <4>1
      <4>2. CASE u # term_cur
        BY <1>3, <4>2 DEF IInv, ProcessAccounting
      <4> QED
        BY <4>1, <4>2
    <3>2. /\ \A p \in F : parent_pid[p] # p => parent_esp[p].pid = parent_pid[p]
          /\ \A p \in F : parent_pid[p] = p => mem[p] = shell
      BY DEF IInv, SavedFrames, RootsAreShells
    <3> QED
      BY <1>1, <1>2, <3>1, <3>2 DEF Launchable
  <2>3. /\ jobs'[term_cur] =
             Append(Stack(parent_pid, term_pid[term_cur], mem, N[term_cur]), shell)
        /\ \A u \in Terminals \ {term_cur} :
              jobs'[u] = Stack(parent_pid, term_pid[u], mem, N[u])
        /\ mem'[page'] = shell
    <3> HIDE DEF F, N, S
    <3> QED
      BY <1>2, <1>6, <2>1, <2>2, LaunchPushes, ConstantsAssumption
  <2>4. Stack(parent_pid, term_pid[term_cur], mem, N[term_cur]) = <<>>
    <3>1. /\ parent_pid \in [Pids -> Pids] /\ mem \in [Pids -> Programs]
          /\ term_pid[term_cur] \in Pids /\ N[term_cur] \in Nat
      BY <1>1, <1>2 DEF TypeOK
    <3> HIDE DEF N
    <3> QED
      BY <2>1, <3>1, StackShape
  <2>5. /\ jobs'[term_cur] = <<shell>>
        /\ \A u \in Terminals \ {term_cur} : jobs'[u] = jobs[u]
    <3>1. jobs'[term_cur] = <<shell>>
      <4> HIDE DEF N
      <4>1. jobs'[term_cur] = Append(<<>>, shell)
        BY <2>3, <2>4, Zenon
      <4> QED
        BY <4>1
    <3>2. \A u \in Terminals : jobs[u] = Stack(parent_pid, term_pid[u], mem, num_processes[u])
      BY JobsStack
    <3> QED
      BY <1>3, <2>3, <3>1, <3>2
  <2>6. /\ \E f : jobs = [t \in Terminals |-> f[t]]
        /\ \E f : jobs' = [t \in Terminals |-> f[t]]
    BY JobsStack
  <2>7. num_processes[term_cur] = 1
    BY <1>1, <1>2, <2>1
  <2>8. jobs' = [jobs EXCEPT ![term_cur] =
                    IF Len(@) = 1 THEN <<shell>> ELSE SubSeq(@, 1, Len(@) - 1)]
    BY <1>2, <1>5, <2>5, <2>6, <2>7
  <2> QED
    BY <1>4, <2>3, <2>5, <2>8 DEF Stacks!End, Stacks!Top
<1>7. CASE ~Restarts(F, N) /\ ReturnToParent(F, N, status)
  <2> DEFINE n == num_processes[term_cur]
             top == term_pid[term_cur]
  <2>1. N[term_cur] # 0
    BY <1>1, <1>7 DEF Restarts
  <2>2. n \in Nat /\ n > 1 /\ n - 1 \in Nat /\ n - 1 > 0
    BY <1>1, <1>2, <2>1
  <2>3. /\ num_processes' = N
        /\ term_pid' = [term_pid EXCEPT ![term_cur] = parent_pid[top]]
        /\ page' = parent_pid[top]
        /\ UNCHANGED <<parent_pid, mem>>
    BY <1>2, <1>7 DEF ReturnToParent
  <2>4. /\ parent_pid \in [Pids -> Pids] /\ mem \in [Pids -> Programs]
        /\ top \in Pids /\ parent_pid[top] \in Pids
    BY <1>2 DEF TypeOK
  <2>5. /\ jobs'[term_cur] = Stack(parent_pid, parent_pid[top], mem, n - 1)
        /\ jobs[term_cur] = Stack(parent_pid, top, mem, n)
        /\ \A u \in Terminals \ {term_cur} : jobs'[u] = jobs[u]
        /\ \E f : jobs = [t \in Terminals |-> f[t]]
        /\ \E f : jobs' = [t \in Terminals |-> f[t]]
    BY <1>1, <1>2, <1>3, <2>3, JobsStack
  <2> HIDE DEF n, top
  <2>6. jobs'[term_cur] = SubSeq(jobs[term_cur], 1, n - 1)
    <3>1. Stack(parent_pid, parent_pid[top], mem, n - 1) =
             SubSeq(Stack(parent_pid, top, mem, n), 1, n - 1)
      <4>1. n \in Nat /\ n > 0
        BY <2>2
      <4> QED
        BY ONLY <2>4, <4>1, StackPop
    <3> QED
      BY <2>5, <3>1
  <2>7. Len(jobs'[term_cur]) = n - 1 /\ jobs'[term_cur][n - 1] = mem[parent_pid[top]]
    BY <2>2, <2>4, <2>5, StackShape
  <2>8. Len(jobs[term_cur]) = n /\ n # 1
    BY <1>5, <2>2 DEF n
  <2>9. jobs' = [jobs EXCEPT ![term_cur] =
                    IF Len(@) = 1 THEN <<shell>> ELSE SubSeq(@, 1, Len(@) - 1)]
    BY <1>2, <2>5, <2>6, <2>8
  <2> QED
    BY <1>4, <2>3, <2>7, <2>9 DEF Stacks!End, Stacks!Top
<1> QED
  BY <1>6, <1>7 DEF halt

\* Alt+Fn is Focus, of a new stack, ...
LEMMA FocusNewStep ==
    ASSUME IInv, NEW t \in Terminals, OpenTerminal(t)
    PROVE  Stacks!Focus(t)
<1>1. /\ t # term_cur /\ init[t] = 0 /\ can_execute(num_processes) /\ term_cur' = t
      /\ Launch(shell, processes_flags, num_processes, t)
  BY DEF OpenTerminal
<1>2. /\ TypeOK /\ Launchable(processes_flags, num_processes, Open)
      /\ t \notin Open /\ num_processes[t] = 0
  BY <1>1, ReadyToLaunch DEF IInv, TypeOK, Open, ProcessAccounting
<1>3. /\ jobs'[t] = Append(Stack(parent_pid, term_pid[t], mem, num_processes[t]), shell)
      /\ \A u \in Terminals \ {t} :
            jobs'[u] = Stack(parent_pid, term_pid[u], mem, num_processes[u])
      /\ mem'[page'] = shell
  BY <1>1, <1>2, LaunchPushes, ConstantsAssumption
<1>4. /\ jobs[t] = Stack(parent_pid, term_pid[t], mem, num_processes[t])
      /\ \A u \in Terminals \ {t} : jobs'[u] = jobs[u]
      /\ \E f : jobs = [u \in Terminals |-> f[u]]
      /\ \E f : jobs' = [u \in Terminals |-> f[u]]
  BY <1>3, JobsStack
<1>5. jobs[t] = <<>> /\ Stacks!Load < MAX_PROCESSES
  BY <1>1, <1>2, StacksOf DEF can_execute
<1>6. jobs'[t] = <<shell>>
  BY <1>3, <1>4, <1>5
<1>7. jobs' = [jobs EXCEPT ![t] = <<shell>>]
  BY <1>4, <1>6
<1>8. mem'[page'] = Stacks!Top(jobs'[t])
  BY <1>3, <1>6 DEF Stacks!Top
<1> QED
  BY <1>1, <1>5, <1>7, <1>8 DEF Stacks!Focus

\* ... or of one there is.
LEMMA FocusOldStep ==
    ASSUME IInv, NEW t \in Terminals, LoadTerminal(t)
    PROVE  Stacks!Focus(t)
<1>1. /\ t # term_cur /\ t \in Open /\ term_cur' = t /\ page' = term_pid[t]
      /\ UNCHANGED <<parent_pid, mem, num_processes, term_pid>>
  BY DEF LoadTerminal, LoadPage, procVars, Open
<1>2. jobs' = jobs
  BY <1>1, JobsStack
<1>3. /\ jobs[t] # <<>> /\ num_processes[t] > 0 /\ Len(jobs[t]) = num_processes[t]
      /\ jobs[t][num_processes[t]] = mem[term_pid[t]]
  BY <1>1, StacksOf DEF IInv, ProcessAccounting
<1>4. mem'[page'] = Stacks!Top(jobs'[t])
  BY <1>1, <1>2, <1>3 DEF Stacks!Top
<1> QED
  BY <1>1, <1>2, <1>3, <1>4 DEF Stacks!Focus

\* Every step of the code is a step of the stacks or leaves them alone.
LEMMA StackStep ==
    IInv /\ [Next]_vars => [Stacks!Next]_<<jobs, term_cur, mem[page]>>
<1> SUFFICES ASSUME IInv, [Next]_vars
             PROVE  Stacks!Next \/ UNCHANGED <<jobs, term_cur, mem[page]>>
  OBVIOUS
<1>1. CASE UNCHANGED <<parent_pid, mem, num_processes, term_pid, term_cur, page>>
  <2>1. jobs' = jobs
    BY <1>1, JobsStack
  <2> QED
    BY <1>1, <2>1
<1>2. IntSyscall \/ SyscallReturn \/ IntException \/ ExecuteRefuse \/ UNCHANGED vars
        \/ (\E found \in BOOLEAN : ExecuteFail(found))
      => UNCHANGED <<parent_pid, mem, num_processes, term_pid, term_cur, page>>
  BY DEF IntSyscall, SyscallReturn, IntException, ExecuteRefuse, ExecuteFail, vars,
         procVars, termVars
<1>3. ASSUME NEW prog \in Programs, ExecuteLaunch(prog)
      PROVE  Stacks!Next
  BY <1>3, RunStep DEF Stacks!Next
<1>4. ASSUME NEW s \in Statuses, Halt(s)
      PROVE  Stacks!Next
  BY <1>4, EndStep DEF Stacks!Next, Halt
<1>5. CASE ExecuteExit
  BY <1>5, EndStep DEF Stacks!Next, ExecuteExit
<1>6. CASE FaultHalt
  BY <1>6, EndStep DEF Stacks!Next, FaultHalt
<1>7. ASSUME NEW t \in Terminals, OpenTerminal(t)
      PROVE  Stacks!Next
  BY <1>7, FocusNewStep DEF Stacks!Next, Stacks!Terminals, Terminals
<1>8. ASSUME NEW t \in Terminals, LoadTerminal(t)
      PROVE  Stacks!Next
  BY <1>8, FocusOldStep DEF Stacks!Next, Stacks!Terminals, Terminals
<1> QED
  BY <1>1, <1>2, <1>3, <1>4, <1>5, <1>6, <1>7, <1>8 DEF Next

\* The kernel starts with the stacks of TerminalStacks.
LEMMA StackInit == Init => Stacks!Init
<1> SUFFICES ASSUME Init
             PROVE  Stacks!Init
  OBVIOUS
<1>1. IInv
  BY InitIInv
<1>2. /\ num_processes = [t \in Terminals |-> IF t = 1 THEN 1 ELSE 0]
      /\ mem[term_pid[1]] = shell /\ mem[page] = shell /\ term_cur = 1
  BY ConstantsAssumption DEF Init, Pids, Terminals
<1>3. ASSUME NEW t \in Terminals
      PROVE  jobs[t] = IF t = 1 THEN <<shell>> ELSE <<>>
  <2>1. /\ jobs[t] \in Seq(Programs) /\ Len(jobs[t]) = num_processes[t]
        /\ num_processes[t] > 0 => jobs[t][num_processes[t]] = mem[term_pid[t]]
    BY <1>1, StacksOf
  <2>2. CASE t = 1
    <3>1. Len(jobs[t]) = 1 /\ jobs[t][1] = shell
      BY <1>2, <2>1, <2>2
    <3> QED
      BY <2>1, <2>2, <3>1
  <2>3. CASE t # 1
    BY <1>2, <2>1, <2>3
  <2> QED
    BY <2>2, <2>3
<1>4. jobs = [t \in Terminals |-> IF t = 1 THEN <<shell>> ELSE <<>>]
  BY <1>3, JobsStack
<1> QED
  BY <1>2, <1>4 DEF Stacks!Init, Stacks!Terminals, Terminals

\* The process and terminal code implements three stacks of programs: for every
\* number of PCBs, the parent links, the counts and the mapped block of execute,
\* halt and switch_terminal are those of TerminalStacks.
THEOREM Refinement == Spec => ImplementsStacks
<1>1. Init => Stacks!Init
  BY StackInit
<1>2. IInv /\ [Next]_vars => [Stacks!Next]_<<jobs, term_cur, mem[page]>>
  BY StackStep
<1> QED
  BY <1>1, <1>2, Inductive, PTL DEF Spec, ImplementsStacks, Stacks!Spec
=============================================================================
