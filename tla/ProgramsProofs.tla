--------------------------- MODULE ProgramsProofs ---------------------------
(***************************************************************************)
(* The shell and the user programs, proved for every image of the file     *)
(* system, every text of its files, every size of the programs' buffers    *)
(* and any number of processes and descriptors.                            *)
(***************************************************************************)
EXTENDS Programs, FilesProofs

-----------------------------------------------------------------------------
(***************************************************************************)
(* Sequences and texts                                                     *)
(***************************************************************************)
\* Induction over sequences, one element more at the end.
LEMMA SequenceInduction ==
    ASSUME NEW V, NEW S, <<>> \in S, \A s \in Seq(V), x \in V : s \in S => Append(s, x) \in S
    PROVE  Seq(V) \subseteq S
<1> DEFINE N == {n \in Nat : \A s \in Seq(V) : Len(s) = n => s \in S}
<1>1. 0 \in N
  BY \A s \in Seq(V) : Len(s) = 0 => s = <<>>
<1>2. ASSUME NEW n \in Nat, n \in N
      PROVE  n + 1 \in N
  <2> SUFFICES ASSUME NEW s \in Seq(V), Len(s) = n + 1
               PROVE  s \in S
    OBVIOUS
  <2> DEFINE f == SubSeq(s, 1, n)
  <2>1. f \in Seq(V) /\ Len(f) = n /\ s[n + 1] \in V
    OBVIOUS
  <2>2. s = Append(f, s[n + 1])
    OBVIOUS
  <2> HIDE DEF f
  <2>3. f \in S
    BY <2>1, <1>2
  <2> QED
    BY <2>1, <2>2, <2>3
<1>3. Nat \subseteq N
  <2> HIDE DEF N
  <2> QED
    BY <1>1, <1>2, SetInduction
<1> QED
  BY <1>3

\* h holds what a loop over 1..n computes from b by the steps F.
Loops(h, n, b, F) == h[0] = b /\ \A i \in 1..n : h[i] = F[i][h[i - 1]]

\* Every loop computes a function, ...
LEMMA LoopExists ==
    ASSUME NEW V, NEW n \in Nat, NEW b \in V, NEW F \in [1..n -> [V -> V]]
    PROVE  \E h \in [0..n -> V] : Loops(h, n, b, F)
<1> DEFINE pred == [i \in Nat |-> i - 1]
           step == [i \in Nat |-> [v \in V |-> IF i \in 1..n THEN F[i][v] ELSE v]]
           base == [i \in Nat |-> b]
<1>1. step \in [Nat -> [V -> V]] /\ base \in [Nat -> V]
  OBVIOUS
<1>2. PICK h \in [Nat -> V] : Computes(h, Nat, pred, step, base)
  <2> HIDE DEF pred, step, base
  <2> QED
    BY <1>1, RecursiveFunction
<1>3. h[0] = b
  <2>1. pred[0] = -1 /\ base[0] = b
    OBVIOUS
  <2> HIDE DEF pred, step, base
  <2> QED
    BY <1>2, <2>1 DEF Computes
<1>4. \A i \in 1..n : h[i] = F[i][h[i - 1]]
  <2> SUFFICES ASSUME NEW i \in 1..n
               PROVE  h[i] = F[i][h[i - 1]]
    OBVIOUS
  <2>1. pred[i] = i - 1 /\ i - 1 \in 0..(i - 1) /\ i \in Nat /\ h[i - 1] \in V
    OBVIOUS
  <2>2. h[i] = step[i][h[i - 1]]
    <3> HIDE DEF pred, step, base
    <3> QED
      BY <1>2, <2>1 DEF Computes
  <2> QED
    BY <2>1, <2>2
<1> HIDE DEF pred, step, base
<1> DEFINE g == [i \in 0..n |-> h[i]]
<1>5. g \in [0..n -> V] /\ g[0] = b
  BY <1>3
<1>6. \A i \in 1..n : g[i] = F[i][g[i - 1]]
  BY <1>4, \A i \in 1..n : i \in 0..n /\ i - 1 \in 0..n
<1> HIDE DEF g
<1> QED
  BY <1>5, <1>6 DEF Loops

\* ... and only one.
LEMMA LoopUnique ==
    ASSUME NEW n \in Nat, NEW F, NEW g, NEW h, g[0] = h[0],
           \A i \in 1..n : g[i] = F[i][g[i - 1]], \A i \in 1..n : h[i] = F[i][h[i - 1]]
    PROVE  \A i \in 0..n : g[i] = h[i]
<1> DEFINE S == {i \in Nat : i <= n => g[i] = h[i]}
<1>1. 0 \in S
  OBVIOUS
<1>2. ASSUME NEW i \in Nat, i \in S
      PROVE  i + 1 \in S
  <2> SUFFICES ASSUME i + 1 <= n
               PROVE  g[i + 1] = h[i + 1]
    OBVIOUS
  <2>1. i + 1 \in 1..n /\ (i + 1) - 1 = i
    OBVIOUS
  <2>2. g[i] = h[i]
    BY <1>2
  <2> QED
    BY <2>1, <2>2
<1>3. Nat \subseteq S
  <2> HIDE DEF S
  <2> QED
    BY <1>1, <1>2, SetInduction
<1> QED
  BY <1>3

\* Nothing put together is nothing, ...
LEMMA FlattenNothing == FlattenSeq(<<>>) = <<>>
  BY DEF FlattenSeq

\* ... and one sequence more goes behind the others.
LEMMA FlattenMore ==
    ASSUME NEW V, NEW s \in Seq(Seq(V)), NEW x \in Seq(V)
    PROVE  /\ FlattenSeq(s) \in Seq(V)
           /\ FlattenSeq(Append(s, x)) = FlattenSeq(s) \o x
<1> DEFINE n == Len(s)
           t == Append(s, x)
<1>1. n \in Nat /\ s \in [1..n -> Seq(V)]
  OBVIOUS
<1>2. t \in Seq(Seq(V)) /\ Len(t) = n + 1 /\ t[n + 1] = x /\ \A i \in 1..n : t[i] = s[i]
  OBVIOUS
<1> HIDE DEF t
<1>3. t \in [1..(n + 1) -> Seq(V)]
  <2>1. t \in [1..Len(t) -> Seq(V)]
    BY <1>2
  <2>2. Len(t) = n + 1
    BY <1>2
  <2> HIDE DEF n
  <2> QED
    BY <2>1, <2>2
<1>4. CASE n = 0
  <2>1. s = <<>>
    BY <1>4
  <2>2. PICK g \in [1..1 -> Seq(V)] : Flattens(g, t, 1)
    <3>1. t \in [1..1 -> Seq(V)]
      <4>1. n + 1 = 1
        BY <1>4
      <4> HIDE DEF n
      <4> QED
        BY <1>3, <4>1
    <3>2. 1 \in Nat \ {0}
      OBVIOUS
    <3> QED
      BY <3>1, <3>2, Flatten
  <2>3. FlattenSeq(t) = x
    BY <1>2, <1>4, <2>2 DEF Flattens
  <2>4. FlattenSeq(s) = <<>> /\ <<>> \o x = x
    BY <2>1, FlattenNothing
  <2> QED
    BY <2>3, <2>4 DEF t
<1>5. ASSUME n # 0
      PROVE  FlattenSeq(s) \in Seq(V) /\ FlattenSeq(t) = FlattenSeq(s) \o x
  <2> HIDE DEF n
  <2>0. n \in Nat \ {0} /\ n + 1 \in Nat \ {0}
    BY <1>1, <1>5
  <2>1. PICK f \in [1..n -> Seq(V)] : Flattens(f, s, n)
    BY <1>1, <2>0, Flatten
  <2>g. PICK g \in [1..(n + 1) -> Seq(V)] : Flattens(g, t, n + 1)
    BY <1>3, <2>0, Flatten
  <2> DEFINE S == {i \in Nat : i + 1 <= n => f[i + 1] = g[i + 1]}
  <2>2. 0 \in S
    BY <1>2, <2>0, <2>g, <2>1 DEF Flattens
  <2>3. ASSUME NEW i \in Nat, i \in S
        PROVE  i + 1 \in S
    <3> SUFFICES ASSUME i + 2 <= n
                 PROVE  f[i + 2] = g[i + 2]
      OBVIOUS
    <3>1. i + 2 \in 2..n /\ (i + 2) - 1 = i + 1 /\ i + 2 \in 2..(n + 1) /\ i + 2 \in 1..n
      BY <2>0
    <3>2. f[i + 2] = f[i + 1] \o s[i + 2] /\ g[i + 2] = g[i + 1] \o t[i + 2]
      BY <2>g, <2>1, <3>1 DEF Flattens
    <3>3. f[i + 1] = g[i + 1]
      BY <2>0, <2>3
    <3> QED
      BY <1>2, <3>1, <3>2, <3>3
  <2>4. n - 1 \in S
    <3>1. Nat \subseteq S
      <4> HIDE DEF S
      <4> QED
        BY <2>2, <2>3, SetInduction
    <3>2. n - 1 \in Nat
      BY <2>0
    <3> HIDE DEF S
    <3> QED
      BY <3>1, <3>2
  <2>5. f[n] = g[n]
    BY <2>4, <2>0
  <2>6. g[n + 1] = g[n] \o t[n + 1]
    <3>1. n + 1 \in 2..(n + 1) /\ (n + 1) - 1 = n
      BY <2>0
    <3> QED
      BY <2>g, <3>1 DEF Flattens
  <2>7. FlattenSeq(s) = f[n] /\ FlattenSeq(t) = g[n + 1] /\ f[n] \in Seq(V)
    BY <2>0, <2>1, <2>g DEF Flattens
  <2> QED
    BY <1>2, <2>5, <2>6, <2>7
<1> QED
  BY <1>4, <1>5 DEF t

\* Two sequences of sequences are put together one after the other.
LEMMA FlattenBoth ==
    ASSUME NEW V, NEW s \in Seq(Seq(V)), NEW t \in Seq(Seq(V))
    PROVE  FlattenSeq(s \o t) = FlattenSeq(s) \o FlattenSeq(t)
<1> DEFINE S == {u \in Seq(Seq(V)) : FlattenSeq(s \o u) = FlattenSeq(s) \o FlattenSeq(u)}
<1>0. FlattenSeq(s) \in Seq(V)
  BY FlattenMore, <<>> \in Seq(V)
<1>1. <<>> \in S
  BY <1>0, FlattenNothing
<1>2. ASSUME NEW u \in Seq(Seq(V)), NEW x \in Seq(V), u \in S
      PROVE  Append(u, x) \in S
  <2>1. FlattenSeq(u) \in Seq(V) /\ FlattenSeq(Append(u, x)) = FlattenSeq(u) \o x
    BY FlattenMore
  <2>2. s \o u \in Seq(Seq(V)) /\ s \o Append(u, x) = Append(s \o u, x)
    OBVIOUS
  <2>3. FlattenSeq(s \o Append(u, x)) = FlattenSeq(s \o u) \o x
    BY <2>2, FlattenMore
  <2>4. \A a, b, c \in Seq(V) : (a \o b) \o c = a \o (b \o c)
    BY SMTT(60)
  <2>5. (FlattenSeq(s) \o FlattenSeq(u)) \o x = FlattenSeq(s) \o (FlattenSeq(u) \o x)
    BY <1>0, <2>1, <2>4
  <2>6. FlattenSeq(s \o u) = FlattenSeq(s) \o FlattenSeq(u) /\ Append(u, x) \in Seq(Seq(V))
    BY <1>2
  <2>7. FlattenSeq(s \o Append(u, x)) = FlattenSeq(s) \o FlattenSeq(Append(u, x))
    BY <2>1, <2>3, <2>5, <2>6
  <2> QED
    BY <2>6, <2>7
<1>3. Seq(Seq(V)) \subseteq S
  <2> HIDE DEF S
  <2> QED
    BY <1>1, <1>2, SequenceInduction
<1> QED
  BY <1>3

\* The lines of a text with one character more.
Broken(lines, c) ==
    IF c = NL THEN Append(lines, <<>>)
    ELSE [lines EXCEPT ![Len(lines)] = Append(@, c)]

\* The lines of a text: at least one.
Texts(V) == {l \in Seq(Seq(V)) : Len(l) > 0}

\* With one character more the lines are still lines.
LEMMA BrokenTyped ==
    ASSUME NEW V, NEW l \in Texts(V), NEW c \in V
    PROVE  Broken(l, c) \in Texts(V)
<1>1. l \in Seq(Seq(V)) /\ Len(l) \in Nat /\ Len(l) > 0 /\ l[Len(l)] \in Seq(V)
  BY DEF Texts
<1>2. CASE c = NL
  BY <1>1, <1>2 DEF Broken, Texts
<1>3. CASE c # NL
  <2>1. Append(l[Len(l)], c) \in Seq(V)
    BY <1>1
  <2>2. [l EXCEPT ![Len(l)] = Append(l[Len(l)], c)] \in Seq(Seq(V))
    BY <1>1, <2>1
  <2>3. Len([l EXCEPT ![Len(l)] = Append(l[Len(l)], c)]) = Len(l)
    BY <1>1, <2>1
  <2> QED
    BY <1>1, <1>3, <2>2, <2>3 DEF Broken, Texts
<1> QED
  BY <1>2, <1>3

\* What the recursive definition computes.
LEMMA LinesLoop ==
    ASSUME NEW V, NEW text \in Seq(V)
    PROVE  \E h \in [0..Len(text) -> Texts(V)] :
              /\ h[0] = << <<>> >>
              /\ \A i \in 1..Len(text) : h[i] = Broken(h[i - 1], text[i])
              /\ Lines(text) = h[Len(text)]
<1> DEFINE n == Len(text)
           W == Texts(V)
           F == [i \in 1..n |-> [l \in W |-> Broken(l, text[i])]]
           b == << <<>> >>
           Is(f) == f = [i \in 0..n |-> IF i = 0 THEN b ELSE Broken(f[i - 1], text[i])]
           u == CHOOSE f : Is(f)
<1>1. n \in Nat /\ b \in W
  BY DEF Texts
<1>2. F \in [1..n -> [W -> W]]
  BY BrokenTyped
<1>3. PICK h \in [0..n -> W] : h[0] = b /\ \A i \in 1..n : h[i] = F[i][h[i - 1]]
  <2> HIDE DEF F, n, W, b, Is, u
  <2>1. \E h \in [0..n -> W] : Loops(h, n, b, F)
    BY <1>1, <1>2, LoopExists
  <2> QED
    BY <2>1 DEF Loops
<1>4. \A i \in 1..n : h[i] = Broken(h[i - 1], text[i])
  <2> SUFFICES ASSUME NEW i \in 1..n
               PROVE  h[i] = Broken(h[i - 1], text[i])
    OBVIOUS
  <2>1. i - 1 \in 0..n
    BY <1>1
  <2>2. h[i - 1] \in W
    BY <2>1
  <2> QED
    BY <1>3, <2>2
<1> HIDE DEF F, W
<1>5. Is(h)
  <2> HIDE DEF n
  <2>1. \A i \in 0..n : h[i] = IF i = 0 THEN b ELSE Broken(h[i - 1], text[i])
    BY <1>1, <1>3, <1>4
  <2> QED
    BY <1>3, <2>1
<1>6. Is(u)
  <2> HIDE DEF Is
  <2> QED
    BY <1>5
<1>7. Lines(text) = u[n]
  BY DEF Lines, Broken
<1> HIDE DEF u, n, b
<1>6b. \A i \in 0..n : u[i] = IF i = 0 THEN b ELSE Broken(u[i - 1], text[i])
  BY <1>6
<1> HIDE DEF Is
<1> DEFINE S == {i \in Nat : i <= n => u[i] = h[i]}
<1>8. 0 \in S
  BY <1>1, <1>3, <1>6b
<1>9. ASSUME NEW i \in Nat, i \in S
      PROVE  i + 1 \in S
  <2> SUFFICES ASSUME i + 1 <= n
               PROVE  u[i + 1] = h[i + 1]
    OBVIOUS
  <2>1. i + 1 \in 1..n /\ (i + 1) - 1 = i /\ i + 1 \in 0..n
    BY <1>1
  <2>2. u[i] = h[i]
    BY <1>1, <1>9
  <2>3. u[i + 1] = Broken(u[i], text[i + 1])
    BY <1>6b, <2>1
  <2> QED
    BY <1>4, <2>1, <2>2, <2>3
<1>10. Nat \subseteq S
  <2> HIDE DEF S
  <2> QED
    BY <1>8, <1>9, SetInduction
<1>11. u[n] = h[n]
  BY <1>1, <1>10
<1> QED
  BY <1>3, <1>4, <1>7, <1>11 DEF n, W, b

\* The lines of nothing, and of one character more.
LEMMA LinesOfNothing == Lines(<<>>) = << <<>> >>
<1>1. <<>> \in Seq({}) /\ Len(<<>>) = 0
  OBVIOUS
<1> QED
  BY <1>1, LinesLoop

\* Lines, character by character.
LEMMA LinesMore ==
    ASSUME NEW V, NEW text \in Seq(V), NEW c \in V
    PROVE  /\ Lines(text) \in Texts(V)
           /\ Lines(Append(text, c)) = Broken(Lines(text), c)
<1> DEFINE n == Len(text)
           t == Append(text, c)
<1>1. n \in Nat /\ t \in Seq(V) /\ Len(t) = n + 1 /\ t[n + 1] = c /\ \A i \in 1..n : t[i] = text[i]
  OBVIOUS
<1>2. PICK h \in [0..n -> Texts(V)] :
              /\ h[0] = << <<>> >>
              /\ \A i \in 1..n : h[i] = Broken(h[i - 1], text[i])
              /\ Lines(text) = h[n]
  BY LinesLoop
<1> HIDE DEF t
<1>3. PICK g \in [0..n+1 -> Texts(V)] :
              /\ g[0] = << <<>> >>
              /\ \A i \in 1..n+1 : g[i] = Broken(g[i - 1], t[i])
              /\ Lines(t) = g[n + 1]
  <2>1. \E g \in [0..Len(t) -> Texts(V)] :
              /\ g[0] = << <<>> >>
              /\ \A i \in 1..Len(t) : g[i] = Broken(g[i - 1], t[i])
              /\ Lines(t) = g[Len(t)]
    BY <1>1, LinesLoop
  <2>2. Len(t) = n + 1
    BY <1>1
  <2> HIDE DEF n
  <2> QED
    BY <2>1, <2>2
<1> HIDE DEF n
<1> DEFINE S == {i \in Nat : i <= n => g[i] = h[i]}
<1>4. 0 \in S
  BY <1>1, <1>2, <1>3
<1>5. ASSUME NEW i \in Nat, i \in S
      PROVE  i + 1 \in S
  <2> SUFFICES ASSUME i + 1 <= n
               PROVE  g[i + 1] = h[i + 1]
    OBVIOUS
  <2>1. i + 1 \in 1..n /\ (i + 1) - 1 = i /\ i + 1 \in 1..(n + 1)
    BY <1>1
  <2>2. g[i] = h[i]
    BY <1>1, <1>5
  <2>3. g[i + 1] = Broken(g[i], t[i + 1]) /\ h[i + 1] = Broken(h[i], text[i + 1])
    BY <1>2, <1>3, <2>1
  <2> QED
    BY <1>1, <2>1, <2>2, <2>3
<1>6. g[n] = h[n]
  <2>1. Nat \subseteq S
    <3> HIDE DEF S
    <3> QED
      BY <1>4, <1>5, SetInduction
  <2> QED
    BY <1>1, <2>1
<1>7. g[n + 1] = Broken(g[n], t[n + 1])
  <2>1. n + 1 \in 1..(n + 1) /\ (n + 1) - 1 = n
    BY <1>1
  <2> QED
    BY <1>3, <2>1
<1>8. h[n] \in Texts(V)
  BY <1>1, <1>2
<1> QED
  BY <1>1, <1>2, <1>3, <1>6, <1>7, <1>8 DEF t

-----------------------------------------------------------------------------
(***************************************************************************)
(* The invariant                                                           *)
(***************************************************************************)
\* The characters, with those the programs know by name: words of interest are one.
Words ==
    {NL, BLANK, NUL, ":", "0", "1", "2", "3", "4", "5", "6", "7", "8", "9", "shell",
     "no_such_command", "program_terminated_by_exception", "program_terminated_abnormally",
     "could_not_read_arguments", "could_not_read_argument", "file_not_found",
     "file_read_failed", "file_open_failed", "file_close_failed", "directory_open_failed",
     "directory_entry_read_failed", "Wrong_Choice", "Hello", "PASS", "FAIL"}
Chars == STRING \cup Words

\* What the programs write: characters and the cells of fish.
Printed == Chars \cup (Nat \X Nat \X Chars \X Chars)

\* The locals of a program.
IsLocals(r) ==
    /\ {"pc", "fd", "fd0", "fd1", "buf", "name", "i", "status", "c0", "c1", "eof", "row", "cnt",
        "junk", "unlucky", "chosen"} \subseteq DOMAIN r
    /\ r.fd \in -1..MAX_FILES-1 /\ r.status \in -1..255
    /\ r.buf \in Seq(Chars) /\ r.name \in Seq(Chars) /\ r.c0 \in Chars /\ r.c1 \in Chars
    /\ r.i \in Nat /\ r.row \in Nat /\ r.cnt \in Nat /\ r.chosen \in Nat /\ r.eof \subseteq {0, 1}

\* Every variable of the programs.
TypedPrograms ==
    /\ DOMAIN proc = Pids /\ \A p \in Pids : IsLocals(proc[p])
    /\ args \in [Pids -> Seq(Chars)]
    /\ out \in [Pids -> Seq(Printed)]
    /\ cmd \in [Pids -> Seq(Chars)]

\* The program a process runs, and the one a place belongs to.
Program(p) == CommandName(cmd[p])[1]
Owner(pc) ==
    CASE pc \in {"execute", "report", "wait"} -> "shell"
      [] pc = "cat read" -> "cat"
      [] pc = "ls read" -> "ls"
      [] pc \in {"grep dir", "grep open", "grep read", "grep close"} -> "grep"
      [] pc \in {"fish clock", "fish open0", "fish open1", "fish read0", "fish read1",
                 "fish close0", "fish close1", "fish rate", "fish wait", "fish close"} -> "fish"
      [] pc = "count" -> "counter"
      [] pc = "test" -> "syserr"
      [] OTHER -> pc

\* The program that runs.
Task == Program(Current)

\* A process is at a place of its program; those below the one that runs wait, and
\* those that are not there have left nothing.
Placed ==
    /\ \A p \in Pids : proc[p].pc # "halt" => Owner(proc[p].pc) = Program(p)
    /\ \A i \in 1..Len(stack)-1 : proc[stack[i]].pc = "wait"
    /\ \A p \in Pids \ Live :
          proc[p].pc = "shell" /\ out[p] = <<>> /\ cmd[p] = <<"shell">>

\* What the program that runs was given, has written and has open.
Args == args[Current]
Out == out[Current]
File(fd) == files[Current][fd]
Seen(fd) == seen[Current][fd]
Mine == opened[Current]

\* A descriptor of the entry k, and one of the directory.
Describes(fd, k) ==
    /\ fd \in Mine
    /\ File(fd).ops = dentries[k].file_type /\ File(fd).inode = dentries[k].inode_num
    /\ File(fd).ops = "dir" => File(fd).pos <= num_dir_entries
    /\ File(fd).ops = "rtc" => Seen(fd) = <<>>
IsDir(fd) == fd \in Mine /\ File(fd).ops = "dir" /\ File(fd).pos <= num_dir_entries

\* Before the first call of a program.
Starting == Now = Fresh(Now.pc) /\ Mine = {} /\ Out = <<>>

\* cat has written what it has read.
CatReading ==
    /\ Args # <<>> /\ read_dentry_by_name(Args) # 0
    /\ Describes(Now.fd, read_dentry_by_name(Args))
    /\ Now.status = 0
    /\ Out = IF File(Now.fd).ops = "dir" THEN FlattenSeq(Seen(Now.fd)) ELSE Seen(Now.fd)

\* What cat has written when it returns.
Whole(k) ==
    IF dentries[k].file_type = "dir" THEN AllOf(LAMBDA d : d.file_name) ELSE Bytes(dentries[k])
CatDone ==
    Args # <<>> =>
        IF read_dentry_by_name(Args) = 0 THEN Now.status = 2
        ELSE Now.status = 0 /\ Out = Whole(read_dentry_by_name(Args))

\* ls has written the names it has read.
Listed(n) == FlattenSeq([k \in 1..n |-> Append(dentries[k].file_name, NL)])
LsReading == IsDir(Now.fd) /\ Out = Listed(File(Now.fd).pos)
LsDone == Out = Listed(num_dir_entries)

\* grep has written the lines of the files before the one it reads, and of that
\* those that end before the line at the end of what it has read, which is in its
\* buffer, unless the file ends there.
Searched(s, d) == Report(d.file_name, Lines(Bytes(d)), s)
Reported(s, n) == FlattenSeq([k \in 1..n |-> Searched(s, dentries[k])])
Lucky == LinesFit /\ ~Now.unlucky
Searching(o, f, text, buf, before, name, s) ==
    \/ /\ buf = Last(Lines(text))
       /\ o = before \o Report(name, Front(Lines(text)), s)
    \/ /\ buf = <<>>
       /\ o = before \o Report(name, Lines(text), s)
       /\ f.ops = "file" => f.pos = inodes[f.inode].length

\* grep is at this entry of the directory: looking at the next, opening it, reading
\* it and closing it.
Entry0 == File(Now.fd).pos
GrepListing ==
    /\ Args # <<>> /\ IsDir(Now.fd) /\ Mine = {Now.fd}
    /\ Lucky => Out = Reported(Args, Entry0)
Searchable ==
    /\ Args # <<>> /\ IsDir(Now.fd) /\ Entry0 > 0
    /\ Now.name = dentries[Entry0].file_name /\ dentries[Entry0].file_type # "dir"
GrepOpening ==
    /\ Searchable /\ Mine = {Now.fd}
    /\ Lucky => Out = Reported(Args, Entry0 - 1)
GrepReading ==
    /\ Searchable /\ Mine = {Now.fd, Now.fd0} /\ Now.fd # Now.fd0 /\ Describes(Now.fd0, Entry0)
    /\ Len(Now.buf) < GREP_BUFSIZE
    /\ Lucky => Searching(Out, File(Now.fd0), Seen(Now.fd0), Now.buf, Reported(Args, Entry0 - 1),
                          Now.name, Args)
GrepClosing ==
    /\ Searchable /\ Mine = {Now.fd, Now.fd0} /\ Now.fd # Now.fd0 /\ Describes(Now.fd0, Entry0)
    /\ Lucky => Out = Reported(Args, Entry0)
GrepDone == Args # <<>> /\ Lucky => Out = Reported(Args, num_dir_entries)

\* counter has written the numbers up to the last.
Counted(text, n) ==
    /\ Len(Lines(text)) = n + 1 /\ Lines(text)[n + 1] = <<>>
    /\ \A k \in 1..n : NumberOf(Lines(text)[k]) = k
Counting == Now.i <= Now.chosen /\ Out \in Seq(Chars) /\ Counted(Out, Now.i)
CountDone == Now.i > 0 => Now.i = Now.chosen /\ Counted(Out, Now.i)

\* Of syserr's calls, those that must fail have failed.
Testing ==
    /\ Now.row \in 1..Len(Tests) /\ Now.status = 0 /\ Now.i <= Len(Tests[Now.row].calls)
    /\ Now.row # 3 => Now.cnt = Now.i /\ Mine = {}
    /\ Now.row = 3 =>
          /\ \A fd \in Mine : File(fd).ops = "dir"
          /\ Now.i < MAX_FILES - 1 => Now.cnt = 0 /\ Mine = 2..Now.i+1
          /\ Now.i >= MAX_FILES - 1 => Now.cnt = 1 /\ Mine = Now.i+3-MAX_FILES..MAX_FILES-1

\* A frame of which fish has read text, with the column i of its row to be read
\* next and c the character read last: a newline when the row has ended.
InFrame(frame, text, c, ended, row, i) ==
    /\ ended => /\ c = NL /\ Len(Lines(frame)) <= row + 1
                /\ Len(Lines(frame)) = row + 1 => Len(Lines(frame)[row + 1]) <= i
    /\ ~ended /\ c # NL => Len(Lines(text)) = row + 1 /\ Len(Last(Lines(text))) = i
    /\ ~ended /\ c = NL => /\ Len(Lines(text)) = row + 2 /\ Last(Lines(text)) = <<>>
                           /\ Len(Lines(text)[row + 1]) <= i
\* The row has ended.
RowOver(frame, text, ended, row) ==
    /\ ended => Len(Lines(frame)) <= row + 1
    /\ ~ended => Len(Lines(text)) = row + 2 /\ Last(Lines(text)) = <<>>

\* The texts of the two frames, and what a cell shows of a character.
Frame0 == BytesOf(<<"frame0">>)
Frame1 == BytesOf(<<"frame1">>)
Cell(c) == IF c = NL THEN BLANK ELSE c
\* The cells before a place.
Before(row, i) == {q \in FishCells : q[1] < row \/ (q[1] = row /\ q[2] < i)}
Shown(S) == IsFiniteSet(S) /\ Range(Out) = S /\ Len(Out) = Cardinality(S)

\* A frame is open until its file has ended; fish is in the row of both.
Frames(fd, name, k) == k \notin Now.eof => Describes(fd, read_dentry_by_name(name))
In0(c, row, i) == InFrame(Frame0, Seen(Now.fd0), c, 0 \in Now.eof, row, i)
In1(c, row, i) == InFrame(Frame1, Seen(Now.fd1), c, 1 \in Now.eof, row, i)

\* fish before its first character, ...
FishFresh ==
    Out = <<>> /\ Now.i = 0 /\ Now.row = 0 /\ Now.eof = {} /\ Now.c0 = "0" /\ Now.c1 = "0"
FishClock == FishFresh /\ Mine = {}
FishOpening0 == FishFresh /\ Mine \subseteq {Now.fd}
FishOpening1 ==
    /\ FishFresh /\ Mine \subseteq {Now.fd, Now.fd0}
    /\ Describes(Now.fd0, read_dentry_by_name(<<"frame0">>)) /\ Seen(Now.fd0) = <<>>

\* ... between its reads, and when all is shown.
BothFrames ==
    Now.fd0 # Now.fd1 /\ Frames(Now.fd0, <<"frame0">>, 0) /\ Frames(Now.fd1, <<"frame1">>, 1)
FishReading0 ==
    /\ BothFrames /\ In0(Now.c0, Now.row, Now.i) /\ In1(Now.c1, Now.row, Now.i)
    /\ Shown(Before(Now.row, Now.i))
FishReading1 ==
    /\ BothFrames /\ In0(Now.c0, Now.row, Now.i + 1) /\ In1(Now.c1, Now.row, Now.i)
    /\ CharAt(Frame0, Now.row, Now.i) = Cell(Now.c0)
    /\ Shown(Before(Now.row, Now.i))
FishClosing0 ==
    /\ BothFrames /\ Now.i = 0
    /\ RowOver(Frame0, Seen(Now.fd0), 0 \in Now.eof, Now.row)
    /\ RowOver(Frame1, Seen(Now.fd1), 1 \in Now.eof, Now.row)
    /\ Shown(Before(Now.row + 1, 0))
FishClosing1 ==
    /\ BothFrames /\ Now.i = 0
    /\ In0(Now.c0, Now.row + 1, 0)
    /\ RowOver(Frame1, Seen(Now.fd1), 1 \in Now.eof, Now.row)
    /\ Shown(Before(Now.row + 1, 0))
FishShown == Shown(FishCells)

\* What a program has done when it halts, and where it is before.
Finished ==
    /\ Task = "cat" => CatDone
    /\ Task = "ls" => LsDone
    /\ Task = "grep" => GrepDone
    /\ Task = "counter" => CountDone
    /\ Task = "fish" => FishShown
Inside ==
    /\ Now.pc \notin Places \cup {"shell"} => Starting
    /\ At("cat read") => CatReading
    /\ At("ls read") => LsReading
    /\ At("grep dir") => GrepListing
    /\ At("grep open") => GrepOpening
    /\ At("grep read") => GrepReading
    /\ At("grep close") => GrepClosing
    /\ At("count") => Counting
    /\ At("test") => Testing
    /\ At("fish clock") => FishClock
    /\ At("fish open0") => FishOpening0
    /\ At("fish open1") => FishOpening1
    /\ At("fish read0") => FishReading0
    /\ At("fish read1") => FishReading1
    /\ At("fish close0") => FishClosing0
    /\ At("fish close1") => FishClosing1
    /\ Now.pc \in {"fish rate", "fish wait", "fish close"} => FishShown
    /\ Task = "syserr" => Out \in Seq({"PASS"})
    /\ At("halt") => Finished

\* The invariant: what holds of every process, and what the program that runs has
\* done of its work.
Kept == FilesInv /\ TypedPrograms /\ Placed /\ ArgsDelivered
ProgramsInv == Kept /\ Inside

-----------------------------------------------------------------------------
(***************************************************************************)
(* Types                                                                   *)
(***************************************************************************)
\* Every word of the programs and every byte of a file is a character.
LEMMA WordsAreChars ==
    /\ Words \subseteq Chars /\ STRING \subseteq Chars
    /\ Visible \cup {" "} \subseteq Chars
  BY ProgramsAssumption DEF Chars, Words, BLANK

\* Sequences over a larger set.
LEMMA WiderSeq ==
    ASSUME NEW V, NEW W, V \subseteq W
    PROVE  Seq(V) \subseteq Seq(W)
  OBVIOUS

\* Characters can be written.
LEMMA Written == Chars \subseteq Printed /\ Seq(Chars) \subseteq Seq(Printed)
  BY WiderSeq DEF Printed

\* The locals a program starts with have their types.
LEMMA FreshLocals == \A pc : IsLocals(Fresh(pc)) /\ Fresh(pc).pc = pc
<1> SUFFICES ASSUME NEW pc
             PROVE  IsLocals(Fresh(pc)) /\ Fresh(pc).pc = pc
  OBVIOUS
<1>1. {"pc", "fd", "fd0", "fd1", "buf", "name", "i", "status", "c0", "c1", "eof", "row", "cnt",
        "junk", "unlucky", "chosen"} \subseteq DOMAIN Fresh(pc)
  BY DEF Fresh
<1>2. "0" \in Chars
  BY DEF Chars, Words
<1> QED
  BY <1>1, <1>2, FilesAssumption DEF IsLocals, Fresh

\* What is typed at a prompt is a sequence of characters.
LEMMA LinesTyped == Commands \cup Replies \subseteq Seq(Chars)
<1>1. Commands \cup Replies \subseteq Seq(STRING)
  BY ProgramsAssumption
<1>2. Seq(STRING) \subseteq Seq(Chars)
  BY WordsAreChars, WiderSeq
<1> QED
  BY <1>1, <1>2

\* A message of one word can be written.
LEMMA WordsWritten ==
    /\ <<>> \in Seq(Chars) /\ <<>> \in Seq(Printed)
    /\ \A w \in Words : w \in Chars /\ <<w>> \in Seq(Chars) /\ <<w>> \in Seq(Printed)
<1>1. \A w \in Words : w \in Chars /\ w \in Printed
  BY DEF Chars, Printed
<1> QED
  BY <1>1

-----------------------------------------------------------------------------
(***************************************************************************)
(* The outcomes of the system calls                                        *)
(***************************************************************************)
\* A call of the process that runs changes nothing of the others, and of its
\* descriptors at most one.
OnlyAt(fd) ==
    \A g \in Fds : g # fd => files'[Current][g] = files[Current][g]
                             /\ seen'[Current][g] = seen[Current][g]
Alone == UNCHANGED <<files, opened, seen>>

\* The two outcomes of open(): the lowest free descriptor, or -1 because there is no
\* such file or no free descriptor.
Opened(fd, name) ==
    LET k == read_dentry_by_name(name) IN
    /\ k \in DOMAIN dentries
    /\ result'.value = fd
    /\ fd \in Given \ Mine /\ 2..fd-1 \subseteq Mine
    /\ opened'[Current] = Mine \cup {fd}
    /\ files'[Current][fd] =
          [flags |-> 1, ops |-> dentries[k].file_type, inode |-> dentries[k].inode_num, pos |-> 0]
    /\ seen'[Current][fd] = <<>>
    /\ OnlyAt(fd)
NotOpened(name) ==
    /\ result'.value = -1
    /\ read_dentry_by_name(name) = 0 \/ Mine = Given
    /\ Alone

\* The entries of the directory.
LEMMA Entries ==
    /\ num_dir_entries \in Nat /\ DOMAIN dentries = 1..num_dir_entries
    /\ \A k \in 1..num_dir_entries :
          /\ dentries[k].file_name \in Seq(STRING) /\ dentries[k].file_name \in Seq(Chars)
          /\ dentries[k].file_type \in Types
          /\ dentries[k].inode_num \in Nat
          /\ Len(dentries[k].file_name) \in 1..FILE_NAME_LENGTH
          /\ dentries[k].file_name[1] \in Chars
          /\ dentries[k].file_name[1] \notin Places
          /\ dentries[k].file_name[1] = "." <=> dentries[k].file_type = "dir"
<1> DEFINE R == [file_name : Seq(STRING), file_type : Types, inode_num : Nat]
<1>1. dentries \in Seq(R)
  BY DirectoryAssumption
<1>2. num_dir_entries \in Nat /\ DOMAIN dentries = 1..num_dir_entries
      /\ \A k \in 1..num_dir_entries : dentries[k] \in R
  <2> HIDE DEF R
  <2> QED
    BY <1>1 DEF num_dir_entries
<1>3. ASSUME NEW k \in 1..num_dir_entries
      PROVE  /\ dentries[k].file_name \in Seq(STRING) /\ dentries[k].file_name \in Seq(Chars)
             /\ dentries[k].file_type \in Types
             /\ dentries[k].inode_num \in Nat
             /\ Len(dentries[k].file_name) \in 1..FILE_NAME_LENGTH
             /\ dentries[k].file_name[1] \in Chars
             /\ dentries[k].file_name[1] \notin Places
             /\ dentries[k].file_name[1] = "." <=> dentries[k].file_type = "dir"
  <2>1. dentries[k].file_name \in Seq(STRING) /\ dentries[k].file_type \in Types
        /\ dentries[k].inode_num \in Nat
    BY <1>2
  <2>2. dentries[k].file_name \in Seq(Chars)
    BY <2>1, WordsAreChars, WiderSeq
  <2>3. Len(dentries[k].file_name) \in 1..FILE_NAME_LENGTH
    BY <1>2, DirectoryAssumption
  <2>4. dentries[k].file_name[1] \in Chars
    BY <2>2, <2>3
  <2>5. /\ dentries[k].file_name[1] \notin Places
        /\ dentries[k].file_name[1] = "." <=> dentries[k].file_type = "dir"
    BY <1>2, DirectoryAssumption
  <2> QED
    BY <2>1, <2>2, <2>3, <2>4, <2>5
<1> HIDE DEF R
<1> QED
  BY <1>2, <1>3

\* No process is executed or halted when the stack stays.
LEMMA StaysCurrent ==
    ASSUME stack' = stack
    PROVE  Current' = Current /\ Live' = Live
  BY DEF Current, Live

\* open() has one of its outcomes and keeps the invariant of the descriptors.
LEMMA OpenOutcome ==
    ASSUME FilesInv, NEW name, open(name)
    PROVE  /\ FilesInv' /\ stack' = stack
           /\ NotOpened(name) \/ \E fd \in Given : Opened(fd, name)
<1>0. Typed /\ Current \in Pids
  BY Running DEF FilesInv
<1>1. CASE OpenFails(name)
  <2>1. FilesInv'
    BY <1>1, FilesIdle DEF OpenFails
  <2>2. ASSUME \A fd \in 2..MAX_FILES-1 : IsOpen(Current, fd)
        PROVE  Mine = Given
    <3>1. Mine \subseteq Given
      BY <1>0 DEF Typed, Mine
    <3>2. ASSUME NEW fd \in Given
          PROVE  fd \in Mine
      <4>1. fd \in Fds /\ fd \notin {0, 1}
        BY FilesAssumption DEF Given, Fds
      <4> QED
        BY <2>2, <4>1, Descriptor DEF Mine, Given
    <3> QED
      BY <3>1, <3>2
  <2> QED
    BY <1>1, <2>1, <2>2 DEF OpenFails, NotOpened, Alone, Failure, Returns
<1>2. CASE Open(name)
  <2>1. FilesInv'
    <3>1. PICK fd, e, x : Call(fd, e, x)
      BY <1>2, OpenCall
    <3> QED
      BY <3>1, CallKeeps
  <2> DEFINE k == read_dentry_by_name(name)
             d == dentries[k]
  <2>2. k \in 1..num_dir_entries
    BY <1>2, LookUp DEF Open
  <2>3. d.file_type \in Types /\ k \in DOMAIN dentries
    BY <2>2, Entries
  <2> HIDE DEF k
  <2>4. PICK fd \in Fds :
          /\ FirstFree(Current, fd)
          /\ files' = [files EXCEPT ![Current][fd] =
                         [flags |-> 1, ops |-> d.file_type, inode |-> d.inode_num, pos |-> 0]]
          /\ opened' = [opened EXCEPT ![Current] = @ \cup {fd}]
          /\ seen' = [seen EXCEPT ![Current][fd] = <<>>]
          /\ result' = Returns(fd, <<>>)
    BY <1>2, <2>3 DEF Open, k
  <2>5. fd \in Given /\ fd \notin {0, 1} /\ Given \subseteq Fds
    BY <2>4, FilesAssumption DEF FirstFree, Given, Fds
  <2>6. fd \notin Mine
    BY <2>4, <2>5, Descriptor DEF FirstFree, Mine
  <2>7. 2..fd-1 \subseteq Mine
    <3> SUFFICES ASSUME NEW g \in 2..fd-1
                 PROVE  g \in Mine
      OBVIOUS
    <3>1. g \in Fds /\ g \notin {0, 1}
      BY <2>4, FilesAssumption DEF Fds, FirstFree
    <3> QED
      BY <2>4, <3>1, Descriptor DEF Mine, FirstFree
  <2>8. /\ opened'[Current] = Mine \cup {fd}
        /\ files'[Current][fd] =
              [flags |-> 1, ops |-> d.file_type, inode |-> d.inode_num, pos |-> 0]
        /\ seen'[Current][fd] = <<>>
        /\ OnlyAt(fd)
    BY <1>0, <2>4 DEF Typed, Mine, OnlyAt
  <2>9. result'.value = fd
    BY <2>4 DEF Returns
  <2>10. Opened(fd, name)
    BY <2>3, <2>5, <2>6, <2>7, <2>8, <2>9 DEF Opened, k
  <2>11. stack' = stack
    BY <1>2 DEF Open
  <2> QED
    BY <2>1, <2>5, <2>10, <2>11
<1> QED
  BY <1>1, <1>2 DEF open

\* The outcomes of read(): -1, bytes of a file, the next name of the directory, and
\* nothing at the end of the directory and from the clock.
Refused(call, fd) ==
    /\ fd \in Mine => call \notin Supported(File(fd).ops)
    /\ result'.value = -1
    /\ Alone
HasRead(fd, n) ==
    LET f == File(fd)
        g == files'[Current][fd]
    IN
    /\ fd \in Mine /\ f.ops = "file"
    /\ result'.data \in Seq(Visible \cup {" "}) /\ result'.value = Len(result'.data)
    /\ result'.value \in 0..n
    /\ g.ops = "file" /\ g.inode = f.inode /\ g.pos = f.pos + result'.value
    /\ g.pos <= inodes[f.inode].length
    /\ result'.value < n => g.pos = inodes[f.inode].length
    /\ seen'[Current][fd] = Seen(fd) \o result'.data
    /\ opened' = opened
    /\ OnlyAt(fd)
HasListed(fd, n) ==
    LET f == File(fd)
        g == files'[Current][fd]
        name == dentries[f.pos + 1].file_name
    IN
    /\ fd \in Mine /\ f.ops = "dir" /\ f.pos < num_dir_entries
    /\ result' = Returns(Len(name), Cut(name, n))
    /\ g.ops = "dir" /\ g.inode = f.inode /\ g.pos = f.pos + 1
    /\ seen'[Current][fd] = Append(Seen(fd), name)
    /\ opened' = opened
    /\ OnlyAt(fd)
HasEnded(fd) ==
    /\ fd \in Mine
    /\ File(fd).ops = "rtc" \/ (File(fd).ops = "dir" /\ File(fd).pos >= num_dir_entries)
    /\ result' = Nothing
    /\ Alone

\* A call that returns -1 changes no descriptor.
LEMMA RefusedCall ==
    ASSUME FilesInv, NEW call, NEW fd, CallFails(call, fd)
    PROVE  FilesInv' /\ stack' = stack /\ Refused(call, fd)
<1>1. FilesInv'
  BY FilesIdle DEF CallFails
<1>2. ASSUME fd \in Mine
      PROVE  call \notin Supported(File(fd).ops)
  <2>1. Typed
    BY DEF FilesInv
  <2>2. fd \in Fds
    BY <1>2, <2>1, Running, FilesAssumption DEF Typed, Mine, Given, Fds
  <2>3. IsOpen(Current, fd)
    BY <1>2, <2>2, Descriptor DEF Mine
  <2> QED
    BY <2>2, <2>3 DEF CallFails, File
<1> QED
  BY <1>1, <1>2 DEF CallFails, Refused, Alone, Failure, Returns

\* The descriptors of the program that runs, and what it has read of each.
LEMMA MineAre ==
    ASSUME FilesInv
    PROVE  /\ Mine \subseteq Given /\ Given \subseteq Fds /\ 0 \notin Mine /\ 1 \notin Mine
           /\ Typed /\ Current \in Pids
           /\ \A fd \in Mine : File(fd) \in Descriptors /\ Told(File(fd), Seen(fd))
                               /\ Seen(fd) \in Seq(Returned) /\ IsOpen(Current, fd)
<1>1. Typed /\ Current \in Pids
  BY Running DEF FilesInv
<1>2. Mine \subseteq Given /\ Given \subseteq Fds /\ 0 \notin Mine /\ 1 \notin Mine
  BY <1>1, FilesAssumption DEF Typed, Mine, Given, Fds
<1> QED
  BY <1>1, <1>2, Descriptor DEF Mine, File, Seen

\* How much is read.
LEMMA ReadAmount ==
    ASSUME NEW f \in Descriptors, f.ops = "file", NEW n \in 1..UINT-1, ~RunsOff(f, n),
           f.pos <= inodes[f.inode].length
    PROVE  LET l == read_length(f.inode, f.pos, n) IN
           /\ l \in 0..n /\ f.pos + l <= inodes[f.inode].length
           /\ l < n => f.pos + l = inodes[f.inode].length
<1> DEFINE L == inodes[f.inode].length
           U == UINT
           p == f.pos
<1>1. L \in 0..U-1 /\ U \in Nat /\ U > 1 /\ p \in Nat /\ p <= L /\ n \in Int /\ n \in 1..U-1
  BY ImageAssumption DEF Descriptors
<1>2. n % U = n
  BY <1>1
<1>3. read_length(f.inode, f.pos, n) = IF (p + n) % U > L THEN L - p ELSE n
  BY <1>2 DEF read_length
<1>4. p + read_length(f.inode, f.pos, n) <= L
  BY ReadLength, <1>1
<1> HIDE DEF L, U, p
<1>5. CASE (p + n) % U > L
  <2>1. p + n < U
    <3> SUFFICES ASSUME p + n >= U
                 PROVE  FALSE
      BY <1>1
    <3>1. (p + n) % U = p + n - U
      BY <1>1
    <3> QED
      BY <1>1, <1>5, <3>1
  <2>2. (p + n) % U = p + n
    BY <1>1, <2>1
  <2> QED
    BY <1>1, <1>3, <1>5, <2>2 DEF p, L, U
<1>6. CASE ~((p + n) % U > L)
  BY <1>1, <1>3, <1>4, <1>6 DEF p, L, U
<1> QED
  BY <1>5, <1>6

\* A function on the first numbers is a sequence.
LEMMA RowOf ==
    ASSUME NEW V, NEW n \in Nat, NEW f \in [1..n -> V]
    PROVE  f \in Seq(V) /\ Len(f) = n
  OBVIOUS

\* read() of a file gives the bytes behind the position and moves it.
LEMMA FileReadOutcome ==
    ASSUME FilesInv, NEW fd \in Fds, NEW n \in 1..UINT-1, ReadFile(fd, n)
    PROVE  FilesInv' /\ stack' = stack /\ HasRead(fd, n)
<1>1. FilesInv'
  <2>1. n \in Int
    OBVIOUS
  <2>2. PICK e, x : Call(fd, e, x)
    BY <2>1, ReadFileCall
  <2> QED
    BY <2>2, CallKeeps
<1> DEFINE f == files[Current][fd]
           l == read_length(f.inode, f.pos, n)
           bytes == ShowAll(read_data(f.inode, f.pos, n))
<1>2. fd \in Mine
  BY Descriptor DEF ReadFile, Mine
<1>3. f \in Descriptors /\ f.ops = "file" /\ f.pos \in Nat /\ f.pos <= inodes[f.inode].length
  <2>1. f \in Descriptors /\ Told(f, Seen(fd))
    BY <1>2, MineAre DEF File
  <2> QED
    BY <2>1 DEF ReadFile, Told, Descriptors
<1>4. /\ l \in 0..n /\ f.pos + l <= inodes[f.inode].length
      /\ l < n => f.pos + l = inodes[f.inode].length
  BY <1>3, ReadAmount DEF ReadFile
<1>5. bytes \in Seq(Visible \cup {" "}) /\ Len(bytes) = l
  <2>1. bytes = [k \in 1..l |-> Show(ByteAt(inodes[f.inode], f.pos + k - 1))]
    BY DEF ShowAll, read_data
  <2> HIDE DEF bytes, l
  <2>2. l \in Nat
    BY <1>4
  <2>3. \A byte : Show(byte) \in Visible \cup {" "}
    BY DEF Show
  <2>4. bytes \in [1..l -> Visible \cup {" "}]
    BY <2>1, <2>3
  <2> QED
    BY <2>2, <2>4, RowOf
<1>6. /\ result' = Returns(Len(bytes), bytes)
      /\ files' = [files EXCEPT ![Current][fd].pos = @ + Len(bytes)]
      /\ seen' = [seen EXCEPT ![Current][fd] = @ \o bytes]
      /\ stack' = stack /\ opened' = opened
  BY DEF ReadFile
<1>7. Typed /\ Current \in Pids
  BY MineAre
<1> HIDE DEF bytes, l
<1>8. result'.value = l /\ result'.data = bytes
  BY <1>5, <1>6 DEF Returns
<1>9. /\ files'[Current][fd].pos = f.pos + l
      /\ files'[Current][fd].ops = f.ops /\ files'[Current][fd].inode = f.inode
      /\ seen'[Current][fd] = seen[Current][fd] \o bytes
      /\ OnlyAt(fd)
  BY <1>3, <1>5, <1>6, <1>7 DEF Typed, OnlyAt, Descriptors
<1> QED
  BY <1>1, <1>2, <1>3, <1>4, <1>5, <1>6, <1>8, <1>9 DEF HasRead, File, Seen

\* read() of the directory gives the next name, or nothing behind the last.
LEMMA DirReadOutcome ==
    ASSUME FilesInv, NEW fd \in Fds, NEW n, ReadDir(fd, n)
    PROVE  FilesInv' /\ stack' = stack /\ (HasListed(fd, n) \/ HasEnded(fd))
<1> DEFINE f == files[Current][fd]
           name == dentries[f.pos + 1].file_name
<1>1. fd \in Mine /\ f.ops = "dir" /\ stack' = stack /\ opened' = opened
  BY Descriptor DEF ReadDir, Mine
<1>2. f \in Descriptors /\ f.pos \in Nat
  BY <1>1, MineAre DEF File, Descriptors
<1>3. Typed /\ Current \in Pids
  BY MineAre
<1>4. CASE f.pos >= num_dir_entries
  <2>1. result' = Nothing /\ UNCHANGED <<files, seen, opened, stack, rtc_opens>>
    BY <1>4 DEF ReadDir
  <2>2. FilesInv'
    BY <2>1, FilesIdle
  <2> QED
    BY <1>1, <1>4, <2>1, <2>2 DEF HasEnded, Alone, File
<1>5. CASE f.pos < num_dir_entries
  <2>1. ~(f.pos >= num_dir_entries)
    BY <1>2, <1>5, Entries
  <2>2. /\ result' = Returns(dir_count(f.pos + 1), Cut(name, n))
        /\ files' = [files EXCEPT ![Current][fd].pos = @ + 1]
        /\ seen' = [seen EXCEPT ![Current][fd] = Append(@, name)]
    BY <2>1 DEF ReadDir
  <2>3. FilesInv'
    <3>1. PICK e, x : Call(fd, e, x)
      BY <1>5, ReadDirCall
    <3> QED
      BY <3>1, CallKeeps
  <2> HIDE DEF name
  <2>4. /\ files'[Current][fd].pos = f.pos + 1
        /\ files'[Current][fd].ops = f.ops /\ files'[Current][fd].inode = f.inode
        /\ seen'[Current][fd] = Append(seen[Current][fd], name)
        /\ OnlyAt(fd)
    BY <1>2, <1>3, <2>2 DEF Typed, OnlyAt, Descriptors
  <2>5. result' = Returns(Len(name), Cut(name, n))
    BY <2>2 DEF dir_count, name
  <2> QED
    BY <1>1, <1>5, <2>3, <2>4, <2>5 DEF HasListed, File, Seen, name
<1> QED
  BY <1>2, <1>4, <1>5, Entries

\* read() has one of its outcomes.
LEMMA ReadOutcome ==
    ASSUME FilesInv, NEW fd, NEW n \in 1..UINT-1, read(fd, n)
    PROVE  /\ FilesInv' /\ stack' = stack
           /\ Refused("read", fd) \/ HasRead(fd, n) \/ HasListed(fd, n) \/ HasEnded(fd)
<1>1. CASE CallFails("read", fd)
  BY <1>1, RefusedCall
<1>2. CASE fd \in Fds /\ ReadFile(fd, n)
  BY <1>2, FileReadOutcome
<1>3. CASE fd \in Fds /\ ReadDir(fd, n)
  BY <1>3, DirReadOutcome
<1>4. CASE fd \in Fds /\ UseRtc(fd)
  <2>1. FilesInv'
    BY <1>4, FilesIdle DEF UseRtc
  <2>2. fd \in Mine /\ File(fd).ops = "rtc"
    BY <1>4, Descriptor DEF UseRtc, Mine, File
  <2> QED
    BY <1>4, <2>1, <2>2 DEF UseRtc, HasEnded, Alone
<1> QED
  BY <1>1, <1>2, <1>3, <1>4 DEF read

\* close() of a descriptor of the program.
HasClosed(fd) ==
    /\ fd \in Mine
    /\ result'.value = 0
    /\ opened'[Current] = Mine \ {fd}
    /\ OnlyAt(fd)

\* close() closes a descriptor of the program or returns -1.
LEMMA CloseOutcome ==
    ASSUME FilesInv, NEW fd, close(fd)
    PROVE  FilesInv' /\ stack' = stack /\ (Refused("close", fd) \/ HasClosed(fd))
<1>1. CASE CallFails("close", fd)
  BY <1>1, RefusedCall
<1>2. CASE fd \in Fds /\ Close(fd)
  <2>1. FilesInv'
    <3>1. PICK e, x : Call(fd, e, x)
      BY <1>2, CloseCall
    <3> QED
      BY <3>1, CallKeeps
  <2>2. fd \in Mine
    BY <1>2, Descriptor DEF Close, Mine, Supported
  <2>3. Typed /\ Current \in Pids
    BY MineAre
  <2>4. /\ files' = [files EXCEPT ![Current][fd].flags = 0]
        /\ opened' = [opened EXCEPT ![Current] = @ \ {fd}]
        /\ seen' = [seen EXCEPT ![Current][fd] = <<>>]
        /\ result' = Nothing /\ stack' = stack
    BY <1>2 DEF Close
  <2>5. opened'[Current] = Mine \ {fd} /\ OnlyAt(fd)
    BY <2>3, <2>4 DEF Typed, Mine, OnlyAt
  <2> QED
    BY <2>1, <2>2, <2>4, <2>5 DEF HasClosed, Nothing, Returns
<1> QED
  BY <1>1, <1>2 DEF close

\* A call that leaves the descriptors alone keeps their invariant.
LEMMA AnswerOutcome ==
    ASSUME FilesInv, NEW value, Answers(value)
    PROVE  FilesInv' /\ stack' = stack /\ result'.value = value /\ Alone
  BY FilesIdle DEF Answers, Alone, Returns

\* write() changes no descriptor, and returns -1 for what the program did not open.
LEMMA WriteOutcome ==
    ASSUME FilesInv, NEW fd, write(fd)
    PROVE  /\ FilesInv' /\ stack' = stack /\ Alone
           /\ Refused("write", fd) \/ fd \in {1} \cup Mine
<1>1. CASE CallFails("write", fd)
  BY <1>1, RefusedCall DEF Refused
<1>2. CASE fd \in Fds /\ UseRtc(fd)
  <2>1. FilesInv'
    BY <1>2, FilesIdle DEF UseRtc
  <2>2. fd \in Mine /\ File(fd).ops = "rtc"
    BY <1>2, Descriptor DEF UseRtc, Mine, File
  <2> QED
    BY <1>2, <2>1, <2>2 DEF UseRtc, Alone
<1>3. CASE fd \in Fds /\ IsOpen(Current, fd) /\ files[Current][fd].ops = "stdout" /\ Answers(1)
  <2>1. fd = 1 \/ fd \in Mine
    BY <1>3, Descriptor DEF Mine
  <2> QED
    BY <1>3, <2>1, AnswerOutcome
<1> QED
  BY <1>1, <1>2, <1>3 DEF write

-----------------------------------------------------------------------------
(***************************************************************************)
(* The shell: execute() and halt()                                         *)
(***************************************************************************)
\* The first of the places of a sequence where something is.
LEMMA FirstOf ==
    ASSUME NEW n \in Nat, NEW I \in SUBSET (1..n), NEW k, k = IF I # {} THEN Min(I) ELSE 0
    PROVE  IF I = {} THEN k = 0 ELSE k \in I /\ \A i \in I : k <= i
<1>1. CASE I # {}
  <2>1. \E m \in I : \A i \in I : m <= i
    BY <1>1, LeastNatural, I \in SUBSET Nat
  <2> QED
    BY <2>1 DEF Min
<1> QED
  BY <1>1

\* FirstBlank finds the first blank of a command if it has one.
LEMMA Blanks ==
    ASSUME NEW c \in Seq(Chars)
    PROVE  \/ FirstBlank(c) = 0 /\ BLANK \notin Range(c)
           \/ /\ FirstBlank(c) \in 1..Len(c) /\ c[FirstBlank(c)] = BLANK
              /\ \A j \in 1..FirstBlank(c)-1 : c[j] # BLANK
<1> DEFINE I == {i \in 1..Len(c) : c[i] = BLANK}
<1>1. FirstBlank(c) = IF I # {} THEN Min(I) ELSE 0
  BY DEF FirstBlank, SelectInSeq
<1>2. IF I = {} THEN FirstBlank(c) = 0 ELSE FirstBlank(c) \in I /\ \A i \in I : FirstBlank(c) <= i
  <2> DEFINE n == Len(c)
             k == FirstBlank(c)
  <2>1. I \in SUBSET (1..n) /\ n \in Nat /\ k = IF I # {} THEN Min(I) ELSE 0
    BY <1>1
  <2> HIDE DEF I, n, k
  <2>2. IF I = {} THEN k = 0 ELSE k \in I /\ \A i \in I : k <= i
    BY <2>1, FirstOf
  <2> QED
    BY <2>2 DEF k
<1> QED
  BY <1>2 DEF Range

\* The parts of a command are sequences of characters.
LEMMA NameTyped ==
    ASSUME NEW c \in Seq(Chars)
    PROVE  CommandName(c) \in Seq(Chars) /\ \A q : CommandArgs(q, c) \in Seq(Chars)
  BY Blanks DEF CommandName, CommandArgs

\* The arguments a are what follows the first blank of the command c.
Follows(a, c) ==
    \/ BLANK \notin Range(c) /\ a = <<>>
    \/ \E i \in DOMAIN c :
          /\ BLANK \notin Range(SubSeq(c, 1, i - 1))
          /\ SubSeq(c, 1, i - 1) \o <<BLANK>> \o a = c

\* What execute leaves in the PCB is what follows the first blank.
LEMMA Delivered ==
    ASSUME NEW c \in Seq(Chars), NEW q, NEW a, a = CommandArgs(q, c)
    PROVE  Follows(a, c)
<1> DEFINE i == FirstBlank(c)
<1>1. CASE i = 0
  <2>1. BLANK \notin Range(c)
    BY <1>1, Blanks
  <2> QED
    BY <1>1, <2>1 DEF CommandArgs, Follows
<1>2. CASE i # 0
  <2>1. i \in 1..Len(c) /\ c[i] = BLANK /\ \A j \in 1..i-1 : c[j] # BLANK
    BY <1>2, Blanks
  <2>2. a = SubSeq(c, i + 1, Len(c))
    BY <1>2 DEF CommandArgs
  <2> HIDE DEF i
  <2>3. i \in DOMAIN c /\ BLANK \notin Range(SubSeq(c, 1, i - 1))
    BY <2>1 DEF Range
  <2>4. SubSeq(c, 1, i - 1) \o <<BLANK>> \o a = c
    <3> DEFINE u == SubSeq(c, 1, i - 1)
               v == u \o <<BLANK>>
               w == v \o a
    <3>1. u \in Seq(Chars) /\ Len(u) = i - 1 /\ \A j \in 1..i-1 : u[j] = c[j]
      BY <2>1
    <3>2. a \in Seq(Chars) /\ Len(a) = Len(c) - i /\ \A j \in 1..Len(c)-i : a[j] = c[i + j]
      BY <2>1, <2>2
    <3>3. BLANK \in Chars
      BY DEF Chars, Words
    <3> HIDE DEF u
    <3>4. v \in Seq(Chars) /\ Len(v) = i /\ \A j \in 1..i : v[j] = c[j]
      BY <2>1, <3>1, <3>3
    <3> HIDE DEF v
    <3>5. w \in Seq(Chars) /\ Len(w) = Len(c) /\ \A j \in 1..Len(c) : w[j] = c[j]
      <4>1. IsJoin(w, v, a) /\ w \in Seq(Chars)
        BY <3>2, <3>4, Joined
      <4>2. Len(w) = Len(c)
        BY <2>1, <3>2, <3>4, <4>1 DEF IsJoin
      <4>3. ASSUME NEW j \in 1..Len(c)
            PROVE  w[j] = c[j]
        <5>1. CASE j <= i
          BY <2>1, <3>4, <4>1, <5>1 DEF IsJoin
        <5>2. CASE ~(j <= i)
          <6>1. j - i \in 1..Len(a) /\ i + (j - i) = j /\ j - i \in 1..Len(c)-i
            BY <2>1, <3>2, <5>2
          <6> HIDE DEF w
          <6>2. w[i + (j - i)] = a[j - i] /\ a[j - i] = c[i + (j - i)]
            BY <3>2, <3>4, <4>1, <6>1 DEF IsJoin
          <6> QED
            BY <6>1, <6>2
        <5> QED
          BY <5>1, <5>2
      <4> QED
        BY <4>1, <4>2, <4>3
    <3>6. w = c
      <4> HIDE DEF w
      <4> QED
        BY <3>5
    <3> QED
      BY <3>6 DEF u, v
  <2> QED
    BY <2>3, <2>4 DEF Follows
<1> QED
  BY <1>1, <1>2

\* The shell is executed without arguments.
LEMMA ShellsName ==
    /\ CommandName(<<"shell">>) = <<"shell">> /\ BLANK \notin Range(<<"shell">>)
    /\ <<"shell">> \in Seq(Chars)
<1>1. <<"shell">> \in Seq(Chars)
  BY DEF Chars, Words
<1>2. BLANK \notin Range(<<"shell">>)
  <2>1. DOMAIN <<"shell">> = {1} /\ <<"shell">>[1] = "shell"
    OBVIOUS
  <2> QED
    BY <2>1 DEF Range, BLANK
<1>3. FirstBlank(<<"shell">>) = 0
  <2>1. DOMAIN <<"shell">> = {1} /\ <<"shell">>[1] = "shell" /\ 1..Len(<<"shell">>) = {1}
    OBVIOUS
  <2> QED
    BY <1>1, <2>1, Blanks DEF BLANK
<1> QED
  BY <1>1, <1>2, <1>3 DEF CommandName

\* The entry of a name.
LEMMA EntryOf ==
    ASSUME NEW name
    PROVE  LET k == read_dentry_by_name(name) IN
           /\ k \in 0..num_dir_entries
           /\ k # 0 => k \in DOMAIN dentries /\ Cut(name, FILE_NAME_LENGTH) = dentries[k].file_name
           /\ \A j \in DOMAIN dentries : Cut(name, FILE_NAME_LENGTH) = dentries[j].file_name => j = k
<1> DEFINE k == read_dentry_by_name(name)
           n == num_dir_entries
           I == {i \in 1..n : Cut(name, FILE_NAME_LENGTH) = dentries[i].file_name}
<1>1. k = IF I # {} THEN Min(I) ELSE 0
  BY DEF read_dentry_by_name, SelectInSeq, num_dir_entries
<1>2. n \in Nat /\ DOMAIN dentries = 1..n
  BY Entries
<1> HIDE DEF n
<1>3. IF I = {} THEN k = 0 ELSE k \in I
  <2>1. I \in SUBSET (1..n)
    OBVIOUS
  <2> HIDE DEF I, k
  <2>2. IF I = {} THEN k = 0 ELSE k \in I /\ \A i \in I : k <= i
    BY <1>1, <1>2, <2>1, FirstOf
  <2> QED
    BY <2>2
<1> HIDE DEF k
<1>4. k \in 0..n /\ (k # 0 => k \in DOMAIN dentries /\ Cut(name, FILE_NAME_LENGTH) = dentries[k].file_name)
  BY <1>2, <1>3
<1>5. ASSUME NEW j \in DOMAIN dentries, Cut(name, FILE_NAME_LENGTH) = dentries[j].file_name
      PROVE  j = k
  <2>1. k # 0
    BY <1>2, <1>3, <1>5
  <2>2. dentries[j].file_name = dentries[k].file_name /\ k \in DOMAIN dentries
    BY <1>4, <1>5, <2>1
  <2> QED
    BY <2>2, DirectoryAssumption
<1> QED
  BY <1>4, <1>5 DEF k, n

\* A step of the program that runs.
Move(r, o) ==
    /\ stack' = stack /\ args' = args /\ cmd' = cmd
    /\ proc' = [proc EXCEPT ![Current] = r]
    /\ out' = [out EXCEPT ![Current] = o]

\* The program that runs and its locals.
LEMMA RunningProgram ==
    ASSUME Kept
    PROVE  /\ FilesInv /\ TypedPrograms /\ Placed /\ ArgsDelivered
           /\ Current \in Pids /\ Current \in Live /\ Live \subseteq Pids
           /\ IsLocals(Now) /\ Out \in Seq(Printed) /\ Args \in Seq(Chars)
           /\ cmd[Current] \in Seq(Chars)
           /\ Now.pc = "halt" \/ Owner(Now.pc) = Task
           /\ \A i \in 1..Len(stack)-1 : stack[i] # Current
           /\ Now.pc # "wait" \/ Task = "shell"
<1>1. FilesInv /\ TypedPrograms /\ Placed /\ ArgsDelivered /\ Typed /\ Lives
  BY DEF Kept, FilesInv
<1>2. Current \in Pids /\ Current \in Live /\ Live \subseteq Pids
  BY <1>1, Running
<1>3. IsLocals(Now) /\ Out \in Seq(Printed) /\ Args \in Seq(Chars) /\ cmd[Current] \in Seq(Chars)
  BY <1>1, <1>2 DEF TypedPrograms, Now, Out, Args
<1>4. Now.pc = "halt" \/ Owner(Now.pc) = Task
  BY <1>1, <1>2 DEF Placed, Now, Task
<1>5. \A i \in 1..Len(stack)-1 : stack[i] # Current
  BY <1>1 DEF Typed, Lives, Current
<1> QED
  BY <1>1, <1>2, <1>3, <1>4, <1>5 DEF Owner

\* A step of the program that runs keeps what holds of every process: the others,
\* their output and their arguments stay.
LEMMA Moved ==
    ASSUME Kept, NEW r, NEW o, Move(r, o), FilesInv', IsLocals(r), o \in Seq(Printed),
           r.pc = "halt" \/ Owner(r.pc) = Task
    PROVE  Kept' /\ Now' = r /\ Out' = o /\ Args' = Args /\ Task' = Task /\ Current' = Current
<1>1. Current' = Current /\ Live' = Live /\ stack' = stack /\ args' = args /\ cmd' = cmd
  BY StaysCurrent DEF Move
<1>2. /\ FilesInv /\ TypedPrograms /\ Placed /\ ArgsDelivered /\ Current \in Pids
      /\ Current \in Live /\ \A i \in 1..Len(stack)-1 : stack[i] # Current
      /\ Live \subseteq Pids
  BY RunningProgram
<1>3. /\ DOMAIN proc' = Pids /\ proc'[Current] = r
      /\ \A p \in Pids : p # Current => proc'[p] = proc[p]
  BY <1>2 DEF TypedPrograms, Move
<1>4. /\ out' \in [Pids -> Seq(Printed)] /\ out'[Current] = o
      /\ \A p \in Pids : p # Current => out'[p] = out[p]
  BY <1>2 DEF TypedPrograms, Move
<1>5. TypedPrograms'
  <2>1. \A p \in Pids : IsLocals(proc'[p])
    BY <1>2, <1>3 DEF TypedPrograms
  <2> QED
    BY <1>1, <1>2, <1>3, <1>4, <2>1 DEF TypedPrograms
<1>6. Placed'
  <2>1. \A p \in Pids : proc'[p].pc # "halt" => Owner(proc'[p].pc) = Program(p)'
    <3>1. \A p \in Pids : Program(p)' = Program(p)
      BY <1>1 DEF Program
    <3> QED
      BY <1>2, <1>3, <3>1 DEF Placed, Task
  <2>2. \A i \in 1..Len(stack)-1 : proc'[stack[i]].pc = "wait"
    <3> SUFFICES ASSUME NEW i \in 1..Len(stack)-1
                 PROVE  proc'[stack[i]].pc = "wait"
      OBVIOUS
    <3>1. stack[i] # Current /\ stack[i] \in Pids
      BY <1>2 DEF FilesInv, Typed
    <3> QED
      BY <1>2, <1>3, <3>1 DEF Placed
  <2>3. \A p \in Pids \ Live : proc'[p].pc = "shell" /\ out'[p] = <<>> /\ cmd'[p] = <<"shell">>
    BY <1>1, <1>2, <1>3, <1>4 DEF Placed
  <2> QED
    BY <1>1, <2>1, <2>2, <2>3 DEF Placed
<1>7. ArgsDelivered'
  BY <1>1, <1>2 DEF ArgsDelivered
<1>8. Now' = r /\ Out' = o /\ Args' = Args /\ Task' = Task
  BY <1>1, <1>3, <1>4 DEF Now, Out, Args, Task, Program
<1> QED
  BY <1>1, <1>5, <1>6, <1>7, <1>8 DEF Kept

\* A program that writes nothing.
LEMMA SilentMove ==
    ASSUME Kept, stack' = stack, NEW r, Become(r), UNCHANGED <<args, out, cmd>>
    PROVE  Move(r, Out)
<1>1. out \in [Pids -> Seq(Printed)] /\ Current \in Pids
  BY RunningProgram DEF TypedPrograms
<1>2. out' = [out EXCEPT ![Current] = out[Current]]
  BY <1>1
<1> QED
  BY <1>2 DEF Move, Become, Out

\* A program that writes.
LEMMA WritingMove ==
    ASSUME Kept, stack' = stack, NEW r, Become(r), NEW text, Write(text), UNCHANGED <<args, cmd>>
    PROVE  Move(r, Out \o text)
<1>1. out \in [Pids -> Seq(Printed)] /\ Current \in Pids
  BY RunningProgram DEF TypedPrograms
<1>2. out' = [out EXCEPT ![Current] = out[Current] \o text]
  BY <1>1 DEF Write
<1> QED
  BY <1>2 DEF Move, Become, Out

\* The shell is at a place of its own.
LEMMA ShellMoved ==
    ASSUME Kept, NEW r, NEW o, Move(r, o), FilesInv', IsLocals(r), o \in Seq(Printed),
           Task = "shell", r.pc \in {"shell", "execute", "report", "halt"}
    PROVE  ProgramsInv'
<1>1. Kept' /\ Now' = r /\ Task' = "shell"
  BY Moved DEF Owner
<1>2. Inside'
  BY <1>1 DEF Inside, Finished, At, Places
<1> QED
  BY <1>1, <1>2 DEF ProgramsInv

\* The places of the shell.
LEMMA AtShell ==
    ASSUME Kept, Now.pc \in {"shell", "execute", "report"}
    PROVE  Task = "shell"
  BY RunningProgram DEF Owner

\* Whatever line the shell reads, ProgramsInv stays.
LEMMA ShellReadStep ==
    ASSUME Kept, NEW line \in Commands, ShellRead(line)
    PROVE  ProgramsInv'
<1>1. IsLocals(Now) /\ Current \in Pids /\ FilesInv
  BY RunningProgram
<1>2. FilesInv' /\ stack' = stack /\ Task = "shell"
  BY <1>1, AtShell, AnswerOutcome DEF ShellRead, At
<1>3. <<>> \in Seq(Printed) /\ line \in Seq(Chars)
  BY LinesTyped, WordsWritten
<1>4. ASSUME NEW r, Become(r), IsLocals(r), r.pc \in {"shell", "execute", "report", "halt"}
      PROVE  ProgramsInv'
  <2>1. Move(r, <<>>)
    BY <1>2, <1>4 DEF Move, Become, ShellRead
  <2> QED
    BY <1>2, <1>3, <1>4, <2>1, ShellMoved
<1>5. CASE line = <<"exit">>
  <2> DEFINE r == [Now EXCEPT !.pc = "halt", !.status = 0]
  <2>1. Become(r)
    BY <1>5 DEF ShellRead, Exit
  <2>2. IsLocals(r) /\ r.pc = "halt"
    BY <1>1 DEF IsLocals
  <2> HIDE DEF r
  <2> QED
    BY <1>4, <2>1, <2>2
<1>6. CASE line = <<>>
  <2> DEFINE r == [Now EXCEPT !.pc = "shell"]
  <2>1. Become(r)
    BY <1>6 DEF ShellRead, Goto
  <2>2. IsLocals(r) /\ r.pc = "shell"
    BY <1>1 DEF IsLocals
  <2> HIDE DEF r
  <2> QED
    BY <1>4, <2>1, <2>2
<1>7. CASE line # <<"exit">> /\ line # <<>>
  <2> DEFINE r == [Now EXCEPT !.pc = "execute", !.buf = line]
  <2>1. Become(r)
    BY <1>7 DEF ShellRead
  <2>2. IsLocals(r) /\ r.pc = "execute"
    BY <1>1, <1>3 DEF IsLocals
  <2> HIDE DEF r
  <2> QED
    BY <1>4, <2>1, <2>2
<1> QED
  BY <1>5, <1>6, <1>7

\* execute() of "exit" halts the shell and keeps ProgramsInv.
LEMMA ExecuteExitStep ==
    ASSUME Kept, ExecuteExit
    PROVE  ProgramsInv'
<1>1. IsLocals(Now) /\ Out \in Seq(Printed) /\ FilesInv
  BY RunningProgram
<1>2. FilesInv' /\ stack' = stack /\ Task = "shell"
  BY <1>1, AtShell, AnswerOutcome DEF ExecuteExit, At
<1> DEFINE r == [Now EXCEPT !.pc = "halt", !.status = 0]
<1>3. Become(r) /\ UNCHANGED <<args, out, cmd>>
  BY DEF ExecuteExit, Exit
<1>4. IsLocals(r) /\ r.pc = "halt"
  BY <1>1 DEF IsLocals
<1> HIDE DEF r
<1>5. Move(r, Out)
  BY <1>2, <1>3, SilentMove
<1> QED
  BY <1>1, <1>2, <1>4, <1>5, ShellMoved

\* execute() that makes no process keeps ProgramsInv.
LEMMA ExecuteFailsStep ==
    ASSUME Kept, ExecuteFails
    PROVE  ProgramsInv'
<1>1. IsLocals(Now) /\ Out \in Seq(Printed) /\ FilesInv
  BY RunningProgram
<1>2. FilesInv' /\ stack' = stack /\ Task = "shell"
  BY <1>1, AtShell, AnswerOutcome DEF ExecuteFails, At
<1>3. PICK status \in {-1, 0} :
         Become([Now EXCEPT !.pc = "report", !.status = status]) /\ UNCHANGED <<args, out, cmd>>
  BY DEF ExecuteFails
<1> DEFINE r == [Now EXCEPT !.pc = "report", !.status = status]
<1>4. IsLocals(r) /\ r.pc = "report"
  BY <1>1 DEF IsLocals
<1>5. Become(r) /\ UNCHANGED <<args, out, cmd>>
  BY <1>3
<1> HIDE DEF r
<1>6. Move(r, Out)
  BY <1>2, <1>5, SilentMove
<1> QED
  BY <1>1, <1>2, <1>4, <1>6, ShellMoved

\* The shell's report of a status keeps ProgramsInv.
LEMMA ShellReportStep ==
    ASSUME Kept, ShellReport
    PROVE  ProgramsInv'
<1>1. IsLocals(Now) /\ Out \in Seq(Printed) /\ FilesInv
  BY RunningProgram
<1>2. FilesInv' /\ stack' = stack /\ Task = "shell"
  BY <1>1, AtShell, AnswerOutcome DEF ShellReport, At
<1> DEFINE m == Message(Now.status)
<1>3. m \in Seq(Printed)
  <2>1. {"no_such_command", "program_terminated_by_exception", "program_terminated_abnormally"}
           \subseteq Words
    BY DEF Words
  <2>2. \/ m = <<>> \/ m = <<"no_such_command">> \/ m = <<"program_terminated_by_exception">>
        \/ m = <<"program_terminated_abnormally">>
    BY DEF Message
  <2> HIDE DEF m
  <2> QED
    BY <2>1, <2>2, WordsWritten
<1>4. Become(Fresh("shell")) /\ Write(m) /\ UNCHANGED <<args, cmd>>
  BY DEF ShellReport
<1> HIDE DEF m
<1>5. Move(Fresh("shell"), Out \o m)
  BY <1>2, <1>4, WritingMove
<1>6. Out \o m \in Seq(Printed)
  BY <1>1, <1>3
<1> QED
  BY <1>2, <1>5, <1>6, FreshLocals, ShellMoved

\* The name of a program is no place of one.
LEMMA ProgramName ==
    ASSUME NEW name \in Seq(Chars), read_dentry_by_name(name) # 0
    PROVE  name[1] \notin Places
<1> DEFINE k == read_dentry_by_name(name)
           L == FILE_NAME_LENGTH
<1>1. k \in DOMAIN dentries /\ Cut(name, L) = dentries[k].file_name
  BY EntryOf
<1>2. Len(dentries[k].file_name) >= 1 /\ dentries[k].file_name[1] \notin Places
  BY <1>1, Entries
<1>3. L \in Nat
  BY ProgramsAssumption
<1> HIDE DEF k, L
<1>4. Len(Cut(name, L)) >= 1 => Cut(name, L)[1] = name[1]
  BY <1>3 DEF Cut
<1> QED
  BY <1>1, <1>2, <1>4

\* execute() of a program keeps ProgramsInv: the new process has fresh locals, an
\* empty table and its own arguments, and the shell waits.
LEMMA ExecuteProgramStep ==
    ASSUME Kept, NEW q \in Pids, ExecuteProgram(q)
    PROVE  ProgramsInv'
<1> DEFINE line == Now.buf
           name == CommandName(line)
           old == Current
<1>1. /\ FilesInv /\ TypedPrograms /\ Placed /\ ArgsDelivered
      /\ old \in Pids /\ old \in Live /\ Live \subseteq Pids /\ IsLocals(Now)
      /\ \A i \in 1..Len(stack)-1 : stack[i] # old
  BY RunningProgram
<1>2. Typed /\ Lives /\ stack \in Seq(Pids) /\ Len(stack) > 0
  BY <1>1 DEF FilesInv, Typed
<1>3. /\ Task = "shell" /\ At("execute")
      /\ read_dentry_by_name(name) # 0 /\ Execute(q)
      /\ proc' = [proc EXCEPT ![old].pc = "wait", ![q] = Fresh(name[1])]
      /\ args' = [args EXCEPT ![q] = CommandArgs(q, line)]
      /\ out' = out /\ cmd' = [cmd EXCEPT ![q] = line]
  BY AtShell DEF ExecuteProgram, Executable, At
<1>4. line \in Seq(Chars) /\ name \in Seq(Chars) /\ CommandArgs(q, line) \in Seq(Chars)
  BY <1>1, NameTyped DEF IsLocals
<1>5. name[1] \notin Places
  BY <1>3, <1>4, ProgramName
<1>6. FilesInv'
  BY <1>1, <1>3, ExecuteStep
<1> HIDE DEF line, name
<1>7. q \notin Live /\ stack' = Append(stack, q) /\ opened' = opened
  BY <1>3 DEF Execute, Live
<1>8. /\ Len(stack') = Len(stack) + 1 /\ stack'[Len(stack) + 1] = q
      /\ \A i \in 1..Len(stack) : stack'[i] = stack[i]
  BY <1>2, <1>7
<1>9. Current' = q /\ Live' = Live \cup {q} /\ q # old
  <2>1. Current' = q
    BY <1>8 DEF Current
  <2>2. Live' = Live \cup {q}
    <3>1. \A i \in 1..Len(stack') : i \in 1..Len(stack) \/ i = Len(stack) + 1
      BY <1>2, <1>8
    <3>2. Len(stack) + 1 \in 1..Len(stack') /\ 1..Len(stack) \subseteq 1..Len(stack')
      BY <1>2, <1>8
    <3> QED
      BY <1>8, <3>1, <3>2 DEF Live
  <2> QED
    BY <1>1, <1>7, <2>1, <2>2
<1> HIDE DEF old
<1>10. /\ DOMAIN proc' = Pids /\ proc'[q] = Fresh(name[1])
       /\ proc'[old] = [proc[old] EXCEPT !.pc = "wait"]
       /\ \A p \in Pids : p # old /\ p # q => proc'[p] = proc[p]
  BY <1>1, <1>3, <1>9 DEF TypedPrograms
<1>11. IsLocals(proc'[old]) /\ proc'[old].pc = "wait"
  <2>1. IsLocals(proc[old])
    BY <1>1 DEF TypedPrograms
  <2> QED
    BY <1>10, <2>1 DEF IsLocals
<1>12. /\ args' \in [Pids -> Seq(Chars)] /\ cmd' \in [Pids -> Seq(Chars)]
       /\ args'[q] = CommandArgs(q, line) /\ cmd'[q] = line
       /\ \A p \in Pids : p # q => args'[p] = args[p] /\ cmd'[p] = cmd[p]
  BY <1>1, <1>3, <1>4 DEF TypedPrograms
<1>13. TypedPrograms'
  <2>1. \A p \in Pids : IsLocals(proc'[p])
    <3> SUFFICES ASSUME NEW p \in Pids
                 PROVE  IsLocals(proc'[p])
      OBVIOUS
    <3>1. p = q \/ p = old \/ (p # q /\ p # old)
      OBVIOUS
    <3>2. IsLocals(proc[p])
      BY <1>1 DEF TypedPrograms
    <3> QED
      BY <1>10, <1>11, <3>1, <3>2, FreshLocals
  <2> QED
    BY <1>1, <1>3, <1>10, <1>12, <2>1 DEF TypedPrograms
<1>14. Placed'
  <2>1. ASSUME NEW p \in Pids, proc'[p].pc # "halt"
        PROVE  Owner(proc'[p].pc) = Program(p)'
    <3>1. CASE p = q
      <4>1. proc'[p].pc = name[1] /\ Program(p)' = name[1]
        BY <3>1, <1>10, <1>12, FreshLocals DEF Program, name
      <4> QED
        BY <1>5, <4>1 DEF Owner, Places
    <3>2. CASE p = old
      <4>1. Program(p)' = Program(p) /\ Program(p) = "shell"
        BY <1>3, <1>9, <1>12, <3>2 DEF Program, Task, old
      <4> QED
        BY <1>11, <3>2, <4>1 DEF Owner
    <3>3. CASE p # q /\ p # old
      <4>1. Program(p)' = Program(p) /\ proc'[p] = proc[p]
        BY <1>10, <1>12, <3>3 DEF Program
      <4>2. proc[p].pc # "halt" => Owner(proc[p].pc) = Program(p)
        BY <1>1 DEF Placed
      <4> QED
        BY <2>1, <4>1, <4>2
    <3> QED
      BY <3>1, <3>2, <3>3
  <2>2. ASSUME NEW i \in 1..Len(stack')-1
        PROVE  proc'[stack'[i]].pc = "wait"
    <3>1. i \in 1..Len(stack) /\ stack'[i] = stack[i] /\ stack[i] \in Live /\ stack[i] \in Pids
      BY <1>2, <1>8 DEF Live
    <3>2. CASE i = Len(stack)
      BY <3>1, <3>2, <1>11 DEF old, Current
    <3>3. CASE i # Len(stack)
      <4>1. i \in 1..Len(stack)-1
        BY <1>2, <3>1, <3>3
      <4>2. stack[i] # old /\ stack[i] # q
        BY <1>1, <1>7, <3>1, <4>1
      <4> QED
        BY <1>1, <1>10, <3>1, <4>1, <4>2 DEF Placed
    <3> QED
      BY <3>2, <3>3
  <2>3. \A p \in Pids \ Live' : proc'[p].pc = "shell" /\ out'[p] = <<>> /\ cmd'[p] = <<"shell">>
    <3> SUFFICES ASSUME NEW p \in Pids \ Live'
                 PROVE  proc'[p].pc = "shell" /\ out'[p] = <<>> /\ cmd'[p] = <<"shell">>
      OBVIOUS
    <3>1. p \notin Live /\ p # q /\ p # old
      BY <1>1, <1>9
    <3>2. proc[p].pc = "shell" /\ out[p] = <<>> /\ cmd[p] = <<"shell">>
      BY <1>1, <3>1 DEF Placed
    <3> QED
      BY <1>3, <1>10, <1>12, <3>1, <3>2
  <2> QED
    BY <2>1, <2>2, <2>3 DEF Placed
<1>15. ArgsDelivered'
  <2>1. Follows(args'[q], cmd'[q])
    BY <1>4, <1>12, Delivered
  <2>2. ASSUME NEW p \in Live
        PROVE  Follows(args'[p], cmd'[p])
    <3>1. args'[p] = args[p] /\ cmd'[p] = cmd[p]
      BY <1>1, <1>7, <1>12
    <3>2. Follows(args[p], cmd[p])
      BY <1>1 DEF ArgsDelivered, Follows
    <3> QED
      BY <3>1, <3>2
  <2>3. \A p \in Live' : Follows(args'[p], cmd'[p])
    BY <1>9, <2>1, <2>2
  <2> QED
    BY <2>3 DEF ArgsDelivered, Follows
<1>16. Inside'
  <2>1. Now' = Fresh(name[1]) /\ Now'.pc = name[1] /\ Out' = <<>> /\ Mine' = {}
    BY <1>1, <1>2, <1>3, <1>7, <1>9, <1>10, FreshLocals DEF Now, Out, Mine, Placed, Lives
  <2>2. Starting'
    BY <2>1 DEF Starting
  <2>3. Now'.pc \notin Places /\ Out' \in Seq({"PASS"})
    BY <1>5, <2>1
  <2> QED
    BY <2>2, <2>3 DEF Inside, At, Places
<1> QED
  BY <1>6, <1>13, <1>14, <1>15, <1>16 DEF ProgramsInv, Kept

\* halt() keeps ProgramsInv: the shell that waits goes on with the status, or a new
\* shell begins with a PCB in which nothing is left.
LEMMA HaltProgramStep ==
    ASSUME Kept, HaltProgram
    PROVE  ProgramsInv'
<1>0. PICK old : old = Current
  OBVIOUS
<1> DEFINE n == Len(stack)
           status == Now.status
           without == [proc EXCEPT ![old] = Fresh("shell")]
<1>1. /\ FilesInv /\ TypedPrograms /\ Placed /\ ArgsDelivered
      /\ old \in Pids /\ old \in Live /\ Live \subseteq Pids /\ IsLocals(Now)
      /\ \A i \in 1..n-1 : stack[i] # old
  BY <1>0, RunningProgram
<1>2. Typed /\ Lives /\ stack \in Seq(Pids) /\ n \in Nat /\ n > 0 /\ status \in -1..255
  BY <1>1 DEF FilesInv, Typed, IsLocals
<1>3. /\ Halt
      /\ out' = [out EXCEPT ![old] = <<>>] /\ cmd' = [cmd EXCEPT ![old] = <<"shell">>]
  BY <1>0 DEF HaltProgram
<1>4. /\ out' \in [Pids -> Seq(Printed)] /\ cmd' \in [Pids -> Seq(Chars)]
      /\ out'[old] = <<>> /\ cmd'[old] = <<"shell">>
      /\ \A p \in Pids : p # old => out'[p] = out[p] /\ cmd'[p] = cmd[p]
  BY <1>1, <1>3, ShellsName, WordsWritten DEF TypedPrograms
<1>5. \A p \in Pids \ {old} : Program(p)' = Program(p)
  BY <1>4 DEF Program
<1>6. Program(old)' = "shell"
  BY <1>4, ShellsName DEF Program
<1>7. /\ DOMAIN without = Pids /\ without[old] = Fresh("shell")
      /\ \A p \in Pids : p # old => without[p] = proc[p]
  BY <1>1 DEF TypedPrograms
<1>8. IsLocals(Fresh("shell")) /\ Fresh("shell").pc = "shell"
  BY FreshLocals
<1>9. CASE n > 1
  <2>0. PICK q : q = stack[n - 1]
    OBVIOUS
  <2>1. FilesInv' /\ stack' = Front(stack)
    BY <1>1, <1>3, <1>9, HaltToParent DEF Halt
  <2>2. /\ Len(stack') = n - 1 /\ \A i \in 1..n-1 : stack'[i] = stack[i]
    BY <1>2, <1>9, <2>1 DEF Front
  <2>3. Current' = q /\ q \in Pids /\ q \in Live /\ q # old
    BY <1>1, <1>2, <1>9, <2>0, <2>2 DEF Current, Live
  <2>4. Live' = Live \ {old}
    <3>1. Live' = {stack[i] : i \in 1..n-1}
      BY <2>2 DEF Live
    <3>2. \A i \in 1..n : i \in 1..n-1 \/ i = n
      BY <1>2
    <3>3. old = stack[n] /\ n \in 1..n /\ 1..n-1 \subseteq 1..n
      BY <1>0, <1>2 DEF Current
    <3>4. Live = {stack[i] : i \in 1..n}
      BY DEF Live
    <3> HIDE DEF n
    <3> QED
      BY <1>1, <3>1, <3>2, <3>3, <3>4
  <2>5. /\ proc' = [without EXCEPT ![q].pc = "report", ![q].status = status % 256]
        /\ args' = args
    BY <1>0, <1>9, <2>3 DEF HaltProgram, Current
  <2>6. proc[q].pc = "wait" /\ IsLocals(proc[q]) /\ Program(q) = "shell"
    <3>1. n - 1 \in 1..n-1
      BY <1>2, <1>9
    <3>2. proc[q].pc = "wait" /\ IsLocals(proc[q])
      BY <1>1, <2>0, <2>3, <3>1 DEF Placed, TypedPrograms
    <3>3. Owner(proc[q].pc) = Program(q)
      BY <1>1, <2>3, <3>2 DEF Placed
    <3> QED
      BY <3>2, <3>3 DEF Owner
  <2> HIDE DEF without
  <2>7. /\ DOMAIN proc' = Pids /\ proc'[old] = Fresh("shell")
        /\ proc'[q] = [proc[q] EXCEPT !.pc = "report", !.status = status % 256]
        /\ \A p \in Pids : p # old /\ p # q => proc'[p] = proc[p]
    <3>1. without[q] = proc[q]
      BY <1>7, <2>3
    <3> QED
      BY <1>1, <1>7, <2>3, <2>5, <3>1
  <2>8. IsLocals(proc'[q]) /\ proc'[q].pc = "report"
    <3>1. status % 256 \in -1..255
      <4> HIDE DEF status
      <4> QED
        BY <1>2
    <3> QED
      BY <2>6, <2>7, <3>1 DEF IsLocals
  <2>9. TypedPrograms'
    <3>1. ASSUME NEW p \in Pids
          PROVE  IsLocals(proc'[p])
      <4>1. IsLocals(proc[p])
        BY <1>1 DEF TypedPrograms
      <4>2. p = q \/ p = old \/ (p # q /\ p # old)
        OBVIOUS
      <4> QED
        BY <1>8, <2>7, <2>8, <4>1, <4>2
    <3> QED
      BY <1>1, <1>4, <2>5, <2>7, <3>1 DEF TypedPrograms
  <2>10. Placed'
    <3>1. ASSUME NEW p \in Pids, proc'[p].pc # "halt"
          PROVE  Owner(proc'[p].pc) = Program(p)'
      <4>1. CASE p = old
        BY <1>6, <1>8, <2>7, <4>1 DEF Owner
      <4>2. CASE p = q
        BY <1>5, <2>3, <2>6, <2>8, <4>2 DEF Owner
      <4>3. CASE p # q /\ p # old
        <5>1. proc'[p] = proc[p] /\ Program(p)' = Program(p)
          BY <1>5, <2>7, <4>3
        <5>2. proc[p].pc # "halt" => Owner(proc[p].pc) = Program(p)
          BY <1>1 DEF Placed
        <5> QED
          BY <3>1, <5>1, <5>2
      <4> QED
        BY <4>1, <4>2, <4>3
    <3>2. ASSUME NEW i \in 1..Len(stack')-1
          PROVE  proc'[stack'[i]].pc = "wait"
      <4>1. i \in 1..n-1 /\ i # n - 1 /\ n - 1 \in 1..n /\ i \in 1..n
        BY <1>2, <1>9, <2>2
      <4>2. stack'[i] = stack[i] /\ stack[i] \in Pids /\ stack[i] # old
        BY <1>1, <1>2, <2>2, <4>1
      <4>3. stack[i] # q
        BY <1>2, <2>0, <4>1 DEF Lives
      <4> QED
        BY <1>1, <2>7, <4>1, <4>2, <4>3 DEF Placed
    <3>3. ASSUME NEW p \in Pids \ Live'
          PROVE  proc'[p].pc = "shell" /\ out'[p] = <<>> /\ cmd'[p] = <<"shell">>
      <4>1. CASE p = old
        BY <1>4, <1>8, <2>7, <4>1
      <4>2. CASE p # old
        <5>1. p \notin Live /\ p # q
          BY <2>3, <2>4, <4>2
        <5>2. proc[p].pc = "shell" /\ out[p] = <<>> /\ cmd[p] = <<"shell">>
          BY <1>1, <5>1 DEF Placed
        <5> QED
          BY <1>4, <2>7, <4>2, <5>1, <5>2
      <4> QED
        BY <4>1, <4>2
    <3> QED
      BY <3>1, <3>2, <3>3 DEF Placed
  <2>11. ArgsDelivered'
    <3>1. \A p \in Live' : args'[p] = args[p] /\ cmd'[p] = cmd[p] /\ p \in Live
      BY <1>1, <1>4, <2>4, <2>5
    <3>2. \A p \in Live : Follows(args[p], cmd[p])
      BY <1>1 DEF ArgsDelivered, Follows
    <3>3. \A p \in Live' : Follows(args'[p], cmd'[p])
      BY <3>1, <3>2
    <3> QED
      BY <3>3 DEF ArgsDelivered, Follows
  <2>12. Inside'
    <3>1. Now'.pc = "report"
      BY <2>3, <2>8 DEF Now
    <3>2. Task' = "shell"
      BY <1>5, <2>3, <2>6 DEF Task
    <3> QED
      BY <3>1, <3>2 DEF Inside, At, Places
  <2> QED
    BY <2>1, <2>9, <2>10, <2>11, <2>12 DEF ProgramsInv, Kept
<1>10. CASE ~(n > 1)
  <2>1. FilesInv'
    BY <1>1, <1>3, <1>10, HaltToShell
  <2>2. PICK q \in Pids : stack' = <<q>>
    BY <1>3, <1>10 DEF Halt
  <2>3. Current' = q /\ Live' = {q} /\ Len(stack') = 1 /\ stack'[Len(stack')] = q
    BY <2>2 DEF Current, Live
  <2>4. Live = {old}
    BY <1>0, <1>2, <1>10 DEF Live, Current
  <2>5. proc' = without /\ args' = [args EXCEPT ![q] = <<>>]
    BY <1>0, <1>10, <2>3 DEF HaltProgram
  <2> HIDE DEF without
  <2>6. ASSUME NEW p \in Pids
        PROVE  IsLocals(proc'[p]) /\ proc'[p].pc = "shell" /\ cmd'[p] = <<"shell">> /\ out'[p] = <<>>
    <3>1. CASE p = old
      BY <1>4, <1>7, <1>8, <2>5, <3>1
    <3>2. CASE p # old
      <4>1. p \in Pids \ Live
        BY <2>4, <3>2
      <4>2. proc[p].pc = "shell" /\ out[p] = <<>> /\ cmd[p] = <<"shell">> /\ IsLocals(proc[p])
        BY <1>1, <4>1 DEF Placed, TypedPrograms
      <4> QED
        BY <1>4, <1>7, <2>5, <3>2, <4>2
    <3> QED
      BY <3>1, <3>2
  <2>7. args' \in [Pids -> Seq(Chars)] /\ args'[q] = <<>>
    BY <1>1, <2>5, WordsWritten DEF TypedPrograms
  <2>8. TypedPrograms'
    BY <1>4, <1>7, <2>5, <2>6, <2>7 DEF TypedPrograms
  <2>9. \A p \in Pids : Program(p)' = "shell"
    BY <2>6, ShellsName DEF Program
  <2>10. Placed'
    <3>1. \A p \in Pids : proc'[p].pc # "halt" => Owner(proc'[p].pc) = Program(p)'
      BY <2>6, <2>9 DEF Owner
    <3>2. \A i \in 1..Len(stack')-1 : proc'[stack'[i]].pc = "wait"
      BY <2>3
    <3> QED
      BY <2>6, <3>1, <3>2 DEF Placed
  <2>11. ArgsDelivered'
    BY <2>3, <2>6, <2>7, ShellsName DEF ArgsDelivered
  <2>12. Inside'
    <3>1. Now'.pc = "shell" /\ Task' = "shell"
      BY <2>3, <2>6, <2>9 DEF Now, Task
    <3> QED
      BY <3>1 DEF Inside, At, Places
  <2> QED
    BY <2>1, <2>8, <2>10, <2>11, <2>12 DEF ProgramsInv, Kept
<1> QED
  BY <1>9, <1>10

-----------------------------------------------------------------------------
(***************************************************************************)
(* hello, cat and ls                                                       *)
(***************************************************************************)
\* A program returns.
Ended(s) == [Now EXCEPT !.pc = "halt", !.status = s]

\* A program that returns keeps its output and its arguments.
LEMMA Exits ==
    ASSUME Kept, NEW s \in -1..255, NEW o \in Seq(Printed), FilesInv',
           Move(Ended(s), o)
    PROVE  /\ Kept' /\ Current' = Current
           /\ Out' = o /\ Args' = Args /\ Task' = Task
           /\ Now'.status = s /\ Now'.i = Now.i /\ Now'.chosen = Now.chosen
           /\ Now'.unlucky = Now.unlucky /\ At("halt")'
<1> DEFINE r == Ended(s)
<1>1. /\ IsLocals(r) /\ r.pc = "halt" /\ r.status = s /\ r.i = Now.i /\ r.chosen = Now.chosen
      /\ r.unlucky = Now.unlucky
  BY RunningProgram DEF IsLocals, Ended
<1> HIDE DEF r
<1>2. Kept' /\ Now' = r /\ Out' = o /\ Args' = Args /\ Task' = Task /\ Current' = Current
  BY <1>1, Moved DEF r
<1> QED
  BY <1>1, <1>2 DEF At

\* A program that returns keeps ProgramsInv when it has done its work.
LEMMA Ends ==
    ASSUME Kept', At("halt")', Finished', Task' = "syserr" => Out' \in Seq({"PASS"})
    PROVE  ProgramsInv'
<1>1. Inside'
  BY DEF Inside, At, Places
<1> QED
  BY <1>1 DEF ProgramsInv

\* The program at a place.
LEMMA TaskAt ==
    ASSUME Kept, NEW pc, At(pc), pc # "halt"
    PROVE  Task = Owner(pc)
  BY RunningProgram DEF At

\* Descriptors that every process has room for.
LEMMA SlotFree == 2 \in Given /\ 3 \in Given /\ 4 \in Given
  BY FilesAssumption, ProgramsAssumption DEF Given

\* The statuses the programs return.
LEMMA Statuses == -1 \in -1..255 /\ 0 \in -1..255 /\ 2 \in -1..255 /\ 3 \in -1..255
  OBVIOUS

\* hello keeps ProgramsInv.
LEMMA HelloReadStep ==
    ASSUME ProgramsInv, NEW line \in Replies, HelloRead(line)
    PROVE  ProgramsInv'
<1>1. Kept
  BY DEF ProgramsInv
<1>2. FilesInv' /\ stack' = stack /\ Out \in Seq(Printed) /\ Task = "hello"
  BY <1>1, RunningProgram, AnswerOutcome, TaskAt DEF HelloRead, Owner
<1> DEFINE text == <<"Hello">> \o line
<1>3. text \in Seq(Printed)
  <2>1. "Hello" \in Words
    BY DEF Words
  <2>2. line \in Seq(Printed) /\ <<"Hello">> \in Seq(Printed)
    BY <2>1, LinesTyped, Written, WordsWritten
  <2> QED
    BY <2>2
<1>4. Become(Ended(0)) /\ Write(text) /\ UNCHANGED <<args, cmd>>
  BY DEF HelloRead, Exit, Ended
<1> HIDE DEF text
<1>5. Move(Ended(0), Out \o text)
  BY <1>1, <1>2, <1>4, WritingMove
<1>6. Out \o text \in Seq(Printed)
  BY <1>2, <1>3
<1>7. Task' = Task /\ Kept' /\ At("halt")'
  BY <1>1, <1>2, <1>5, <1>6, Statuses, Exits
<1>8. Finished'
  BY <1>2, <1>7 DEF Finished
<1> QED
  BY <1>2, <1>7, <1>8, Ends

\* What has been read of an entry when it has all been.
LEMMA ReadWhole ==
    ASSUME NEW k \in DOMAIN dentries, NEW f \in Descriptors, NEW x,
           f.ops = dentries[k].file_type, f.inode = dentries[k].inode_num, Told(f, x),
           f.ops = "file" => f.pos = inodes[f.inode].length,
           f.ops = "dir" => f.pos = num_dir_entries,
           f.ops = "rtc" => x = <<>>
    PROVE  Whole(k) = IF f.ops = "dir" THEN FlattenSeq(x) ELSE x
<1>1. f.ops \in Types /\ DOMAIN dentries = 1..num_dir_entries
  BY Entries
<1>2. CASE f.ops = "file"
  <2> DEFINE n == f.inode
             l == inodes[n].length
  <2>1. n \in DOMAIN inodes /\ l \in Nat
    BY <1>2, ImageAssumption DEF Descriptors
  <2>2. x = ShowAll(SubSeq(FileBytes(n), 1, l))
    BY <1>2 DEF Told
  <2>3. x = [i \in 1..l |-> Show(ByteAt(inodes[n], i - 1))]
    BY <2>1, <2>2, FileShown
  <2>4. FileBytes(n) = [i \in 1..l |-> ByteAt(inodes[n], i - 1)]
    BY <2>1, FileAt
  <2>5. ShowAll(FileBytes(n)) = [i \in 1..l |-> Show(ByteAt(inodes[n], i - 1))]
    BY <2>4 DEF ShowAll
  <2> QED
    BY <1>2, <2>3, <2>5 DEF Whole, Bytes
<1>3. CASE f.ops = "dir"
  <2>1. x = [i \in 1..num_dir_entries |-> dentries[i].file_name]
    BY <1>3 DEF Told
  <2> QED
    BY <1>1, <1>3, <2>1 DEF Whole, AllOf
<1>4. CASE f.ops = "rtc"
  BY <1>4 DEF Whole, Bytes
<1> QED
  BY <1>1, <1>2, <1>3, <1>4 DEF Types

\* The descriptors of the programs can be read and closed.
LEMMA CanRead ==
    ASSUME NEW ops \in Types
    PROVE  "read" \in Supported(ops) /\ "close" \in Supported(ops)
  BY DEF Supported, Types, Calls

\* cat's open() keeps ProgramsInv: it fails only when there is no such file.
LEMMA CatOpenStep ==
    ASSUME ProgramsInv, CatOpen
    PROVE  ProgramsInv'
<1>1. Kept /\ Task = "cat"
  BY TaskAt DEF ProgramsInv, CatOpen, Owner
<1>2. /\ Now = Fresh("cat") /\ Mine = {} /\ Out = <<>>
  BY DEF ProgramsInv, Inside, Starting, At, CatOpen, Places
<1>3. /\ FilesInv /\ IsLocals(Now) /\ Out \in Seq(Printed) /\ Current \in Pids
      /\ UNCHANGED <<args, cmd>>
  BY <1>1, RunningProgram DEF CatOpen
<1>4. ASSUME FilesInv', stack' = stack, NEW s \in {2, 3}, NEW w \in Words, Exit(s), Write(<<w>>),
             Args # <<>> => s = 2 /\ read_dentry_by_name(Args) = 0
      PROVE  ProgramsInv'
  <2>1. Move(Ended(s), Out \o <<w>>)
    BY <1>1, <1>3, <1>4, WritingMove DEF Exit, Ended
  <2>2. Out \o <<w>> \in Seq(Printed) /\ s \in -1..255
    BY <1>3, WordsWritten
  <2>3. Kept' /\ At("halt")' /\ Task' = Task /\ Now'.status = s /\ Args' = Args
    BY <1>1, <1>4, <2>1, <2>2, Exits
  <2>4. Finished'
    BY <1>1, <1>4, <2>3 DEF Finished, CatDone
  <2> QED
    BY <1>1, <2>3, <2>4, Ends
<1>5. CASE NoArgs
  <2>1. Answers(0) /\ Exit(3) /\ Write(<<"could_not_read_arguments">>) /\ Args = <<>>
    BY <1>5 DEF CatOpen, NoArgs, Args
  <2>2. FilesInv' /\ stack' = stack
    BY <1>3, <2>1, AnswerOutcome
  <2>3. "could_not_read_arguments" \in Words /\ 3 \in {2, 3}
    BY DEF Words
  <2> QED
    BY <1>4, <2>1, <2>2, <2>3
<1>6. CASE ~NoArgs
  <2>0. Args # <<>>
    BY <1>6 DEF NoArgs, Args
  <2>1. open(Args)
    BY <1>6 DEF CatOpen, Args
  <2>2. FilesInv' /\ stack' = stack /\ (NotOpened(Args) \/ \E fd \in Given : Opened(fd, Args))
    BY <1>3, <2>1, OpenOutcome
  <2>3. CASE NotOpened(Args)
    <3>1. read_dentry_by_name(Args) = 0
      BY <1>2, <2>3, SlotFree DEF NotOpened
    <3>2. Exit(2) /\ Write(<<"file_not_found">>)
      BY <1>6, <2>3 DEF CatOpen, NotOpened, Failed
    <3>3. "file_not_found" \in Words /\ 2 \in {2, 3}
      BY DEF Words
    <3> QED
      BY <1>4, <2>2, <3>1, <3>2, <3>3
  <2>4. ASSUME NEW fd \in Given, Opened(fd, Args)
        PROVE  ProgramsInv'
    <3> DEFINE k == read_dentry_by_name(Args)
               r == [Now EXCEPT !.pc = "cat read", !.fd = fd]
    <3>0. fd \in -1..MAX_FILES-1 /\ fd # -1 /\ result'.value = fd
      BY <2>4, FilesAssumption DEF Given, Opened
    <3>1. Become(r) /\ Silent
      BY <1>6, <3>0 DEF CatOpen, Failed
    <3>2. IsLocals(r) /\ r.pc = "cat read" /\ r.fd = fd /\ r.status = Now.status
      BY <1>3, <3>0 DEF IsLocals
    <3>3. r.status = 0
      BY <1>2, <3>2 DEF Fresh
    <3> HIDE DEF r
    <3>4. Move(r, Out)
      BY <1>1, <1>3, <2>2, <3>1, SilentMove DEF Silent
    <3>5. Kept' /\ Now' = r /\ Out' = Out /\ Args' = Args /\ Task' = Task /\ Current' = Current
      BY <1>1, <1>3, <2>2, <3>2, <3>4, Moved DEF Owner
    <3>6. /\ fd \in opened'[Current] /\ files'[Current][fd].ops = dentries[k].file_type
          /\ files'[Current][fd].inode = dentries[k].inode_num /\ files'[Current][fd].pos = 0
          /\ seen'[Current][fd] = <<>> /\ k \in DOMAIN dentries
      BY <2>4 DEF Opened
    <3>7. k # 0 /\ 0 <= num_dir_entries
      BY <3>6, Entries
    <3>8. Describes(fd, k)'
      BY <3>5, <3>6, <3>7 DEF Describes, File, Seen, Mine
    <3>9. CatReading'
      <4>1. Out' = IF File(Now.fd)'.ops = "dir" THEN FlattenSeq(Seen(Now.fd)') ELSE Seen(Now.fd)'
        BY <1>2, <3>2, <3>5, <3>6, FlattenNothing DEF Seen
      <4> QED
        BY <2>0, <3>2, <3>3, <3>5, <3>7, <3>8, <4>1 DEF CatReading
    <3>10. Inside'
      BY <1>1, <3>2, <3>5, <3>9 DEF Inside, At, Places
    <3> QED
      BY <3>5, <3>10 DEF ProgramsInv
  <2> QED
    BY <2>2, <2>3, <2>4
<1> QED
  BY <1>5, <1>6

\* A name fits in the buffers.
LEMMA WholeName ==
    ASSUME NEW k \in DOMAIN dentries, NEW n \in Nat, FILE_NAME_LENGTH <= n
    PROVE  Cut(dentries[k].file_name, n) = dentries[k].file_name
<1> DEFINE s == dentries[k].file_name
<1>1. s \in Seq(Chars) /\ Len(s) \in 1..FILE_NAME_LENGTH /\ FILE_NAME_LENGTH \in Nat
  BY Entries, ProgramsAssumption
<1> HIDE DEF s
<1>2. IF Len(s) < n THEN TRUE ELSE Len(s) = n
  BY <1>1
<1>3. Cut(s, n) = SubSeq(s, 1, Len(s))
  BY <1>1, <1>2 DEF Cut
<1> QED
  BY <1>1, <1>3 DEF s

\* The sizes of the reads.
LEMMA Sizes ==
    /\ CAT_BUFSIZE \in 1..UINT-1 /\ GREP_BUFSIZE \in 1..UINT-1 /\ SBUFSIZE - 1 \in 1..UINT-1
    /\ 1 \in 1..UINT-1 /\ 4 \in 1..UINT-1
    /\ CAT_BUFSIZE \in Nat /\ GREP_BUFSIZE \in Nat /\ SBUFSIZE - 1 \in Nat
    /\ FILE_NAME_LENGTH <= CAT_BUFSIZE /\ FILE_NAME_LENGTH <= SBUFSIZE - 1
  BY ProgramsAssumption, ImageAssumption

\* cat's read() keeps ProgramsInv: what it writes is what it has read, and a read of
\* nothing means that all of the file has been read.
LEMMA CatReadStep ==
    ASSUME ProgramsInv, CatRead
    PROVE  ProgramsInv'
<1> DEFINE fd == Now.fd
           k == read_dentry_by_name(Args)
           f == File(fd)
           x == Seen(fd)
           n == CAT_BUFSIZE
<1>1. Kept /\ Task = "cat" /\ CatReading
  BY TaskAt DEF ProgramsInv, CatRead, Owner, Inside
<1>2. /\ FilesInv /\ IsLocals(Now) /\ Out \in Seq(Printed) /\ UNCHANGED <<args, cmd>>
  BY <1>1, RunningProgram DEF CatRead
<1>3. /\ Args # <<>> /\ k # 0 /\ Describes(fd, k) /\ Now.status = 0
      /\ Out = IF f.ops = "dir" THEN FlattenSeq(x) ELSE x
  BY <1>1 DEF CatReading
<1>4. k \in DOMAIN dentries /\ k \in 1..num_dir_entries
  BY <1>3, LookUp, Entries
<1>5. /\ fd \in Mine /\ f \in Descriptors /\ Told(f, x) /\ f.ops \in Types
      /\ f.ops = dentries[k].file_type /\ f.inode = dentries[k].inode_num
  BY <1>2, <1>3, <1>4, MineAre, Entries DEF Describes
<1>6. /\ FilesInv' /\ stack' = stack
      /\ Refused("read", fd) \/ HasRead(fd, n) \/ HasListed(fd, n) \/ HasEnded(fd)
  BY <1>2, Sizes, ReadOutcome DEF CatRead
<1>7. ~Refused("read", fd)
  BY <1>5, CanRead DEF Refused
<1>8. ASSUME result'.value = 0,
             f.ops = "file" => f.pos = inodes[f.inode].length,
             f.ops = "dir" => f.pos = num_dir_entries
      PROVE  ProgramsInv'
  <2>0. Exit(0) /\ Silent
    <3>1. ~Failed
      BY <1>8 DEF Failed
    <3> QED
      BY <1>8, <3>1, Zenon DEF CatRead
  <2>1. Move(Ended(0), Out)
    BY <1>1, <1>2, <1>6, <2>0, SilentMove DEF Exit, Ended, Silent
  <2>2. /\ Kept' /\ At("halt")' /\ Task' = Task /\ Now'.status = 0 /\ Args' = Args /\ Out' = Out
    BY <1>1, <1>2, <1>6, <2>1, Statuses, Exits
  <2>3. Out = Whole(k)
    BY <1>3, <1>4, <1>5, <1>8, ReadWhole DEF Describes
  <2>4. Finished'
    BY <1>1, <1>3, <2>2, <2>3 DEF Finished, CatDone
  <2> QED
    BY <1>1, <2>2, <2>4, Ends
<1>9. ASSUME result'.value \in Nat, result'.value # 0, result'.data \in Seq(Chars),
             fd \in opened'[Current],
             files'[Current][fd].ops = f.ops, files'[Current][fd].inode = f.inode,
             f.ops = "dir" => /\ files'[Current][fd].pos <= num_dir_entries
                              /\ FlattenSeq(seen'[Current][fd]) = FlattenSeq(x) \o result'.data,
             f.ops # "dir" => f.ops # "rtc" /\ seen'[Current][fd] = x \o result'.data
      PROVE  ProgramsInv'
  <2> DEFINE r == [Now EXCEPT !.pc = "cat read"]
             data == result'.data
  <2>0. Goto("cat read") /\ Write(data)
    <3>1. ~Failed
      BY <1>9 DEF Failed
    <3> QED
      BY <1>9, <3>1, Zenon DEF CatRead
  <2>1. Become(r) /\ Write(data)
    BY <2>0 DEF Goto
  <2>2. IsLocals(r) /\ r.pc = "cat read" /\ r.fd = fd /\ r.status = 0
    BY <1>2, <1>3 DEF IsLocals
  <2> HIDE DEF r
  <2>3. Move(r, Out \o data)
    <3> HIDE DEF data
    <3> QED
      BY <1>1, <1>2, <1>6, <2>1, WritingMove
  <2>4. Out \o data \in Seq(Printed)
    BY <1>2, <1>9, Written
  <2>5. Kept' /\ Now' = r /\ Out' = Out \o data /\ Args' = Args /\ Task' = Task /\ Current' = Current
    <3> HIDE DEF data
    <3> QED
      BY <1>1, <1>6, <2>2, <2>3, <2>4, Moved DEF Owner
  <2>6. Describes(Now.fd, read_dentry_by_name(Args))'
    BY <1>3, <1>9, <2>2, <2>5 DEF Describes, File, Seen, Mine
  <2>7. Out' = IF File(Now.fd)'.ops = "dir" THEN FlattenSeq(Seen(Now.fd)') ELSE Seen(Now.fd)'
    BY <1>3, <1>9, <2>2, <2>5 DEF File, Seen
  <2>8. CatReading'
    BY <1>3, <2>2, <2>5, <2>6, <2>7 DEF CatReading
  <2>9. Inside'
    BY <1>1, <2>2, <2>5, <2>8 DEF Inside, At, Places
  <2> QED
    BY <2>5, <2>9 DEF ProgramsInv
<1>10. CASE HasRead(fd, n)
  <2>0. result'.data \in Seq(Visible \cup {" "})
    BY <1>10 DEF HasRead
  <2>1. /\ f.ops = "file" /\ result'.value \in 0..n /\ opened' = opened
        /\ files'[Current][fd].ops = "file" /\ files'[Current][fd].inode = f.inode
        /\ files'[Current][fd].pos = f.pos + result'.value
        /\ result'.value < n => files'[Current][fd].pos = inodes[f.inode].length
        /\ seen'[Current][fd] = x \o result'.data
    BY <1>10 DEF HasRead
  <2>2. result'.data \in Seq(Chars)
    BY <2>0, WordsAreChars, WiderSeq
  <2>3. f.pos \in Nat
    BY <1>5 DEF Descriptors
  <2>4. n \in Nat /\ n >= 1
    BY Sizes
  <2> HIDE DEF f, x, fd, n
  <2>5. CASE result'.value = 0
    <3>1. f.pos = inodes[f.inode].length
      BY <2>1, <2>3, <2>4, <2>5
    <3> QED
      BY <1>8, <2>1, <2>5, <3>1
  <2>6. CASE result'.value # 0
    <3>1. result'.value \in Nat /\ fd \in opened'[Current]
      BY <1>5, <2>1, <2>4 DEF Mine
    <3> QED
      BY <1>9, <2>1, <2>2, <2>6, <3>1
  <2> QED
    BY <2>5, <2>6
<1>11. CASE HasListed(fd, n)
  <2> DEFINE name == dentries[f.pos + 1].file_name
  <2>1. /\ f.ops = "dir" /\ f.pos < num_dir_entries
        /\ result' = Returns(Len(name), Cut(name, n)) /\ opened' = opened
        /\ files'[Current][fd].ops = "dir" /\ files'[Current][fd].inode = f.inode
        /\ files'[Current][fd].pos = f.pos + 1
        /\ seen'[Current][fd] = Append(x, name)
    BY <1>11 DEF HasListed
  <2>2. f.pos \in Nat /\ f.pos + 1 \in DOMAIN dentries /\ f.pos + 1 <= num_dir_entries
    BY <1>5, <2>1, Entries DEF Descriptors
  <2>3. Cut(name, n) = name
    BY <2>2, Sizes, WholeName
  <2>4. name \in Seq(Chars) /\ Len(name) \in Nat /\ Len(name) # 0
    BY <2>2, Entries
  <2>5. x \in Seq(Seq(Chars))
    <3>1. x = [i \in 1..f.pos |-> dentries[i].file_name]
      BY <1>5, <2>1 DEF Told
    <3>2. \A i \in 1..f.pos : dentries[i].file_name \in Seq(Chars)
      BY <2>2, Entries
    <3> QED
      BY <2>2, <3>1, <3>2, RowOf
  <2> HIDE DEF name, f, x, fd, n
  <2>6. result'.value = Len(name) /\ result'.data = name
    BY <2>1, <2>3 DEF Returns
  <2>7. FlattenSeq(seen'[Current][fd]) = FlattenSeq(x) \o result'.data
    BY <2>1, <2>4, <2>5, <2>6, FlattenMore
  <2> QED
    BY <1>5, <1>9, <2>1, <2>2, <2>4, <2>6, <2>7 DEF Mine
<1>12. CASE HasEnded(fd)
  <2>1. /\ f.ops = "rtc" \/ (f.ops = "dir" /\ f.pos >= num_dir_entries)
        /\ result'.value = 0
    BY <1>12 DEF HasEnded, Nothing, Returns
  <2>2. f.ops = "dir" => f.pos = num_dir_entries
    BY <1>3, <1>5, <2>1, Entries DEF Describes, Descriptors
  <2> QED
    BY <1>8, <2>1, <2>2
<1> QED
  BY <1>6, <1>7, <1>10, <1>11, <1>12

\* A name of the directory is found at its own entry.
LEMMA NameFound ==
    ASSUME NEW k \in DOMAIN dentries
    PROVE  read_dentry_by_name(dentries[k].file_name) = k
<1>1. FILE_NAME_LENGTH \in Nat /\ FILE_NAME_LENGTH <= FILE_NAME_LENGTH
  BY ProgramsAssumption
<1>2. Cut(dentries[k].file_name, FILE_NAME_LENGTH) = dentries[k].file_name
  BY <1>1, WholeName
<1> QED
  BY <1>2, EntryOf

\* The directory itself is found under the name of a dot.
LEMMA DotFound ==
    /\ read_dentry_by_name(<<".">>) \in DOMAIN dentries
    /\ read_dentry_by_name(<<".">>) # 0
    /\ dentries[read_dentry_by_name(<<".">>)].file_type = "dir"
<1>1. PICK k \in DOMAIN dentries : dentries[k].file_name = <<".">>
  BY DirectoryAssumption
<1>2. read_dentry_by_name(<<".">>) = k
  BY <1>1, NameFound
<1>3. k # 0 /\ (dentries[k].file_name[1] = "." <=> dentries[k].file_type = "dir")
  BY <1>1, Entries
<1>4. dentries[k].file_name[1] = "."
  BY <1>1
<1> QED
  BY <1>1, <1>2, <1>3, <1>4

\* A first call of open() for the directory succeeds.
LEMMA DotOpened ==
    ASSUME FilesInv, open(<<".">>), Mine = {}
    PROVE  /\ FilesInv' /\ stack' = stack
           /\ \E fd \in Given :
                 /\ result'.value = fd /\ fd # -1 /\ fd \in -1..MAX_FILES-1
                 /\ opened'[Current] = {fd}
                 /\ files'[Current][fd].ops = "dir" /\ files'[Current][fd].pos = 0
                 /\ seen'[Current][fd] = <<>>
<1>1. FilesInv' /\ stack' = stack /\ (NotOpened(<<".">>) \/ \E fd \in Given : Opened(fd, <<".">>))
  BY OpenOutcome
<1>2. ~NotOpened(<<".">>)
  BY DotFound, SlotFree DEF NotOpened
<1>3. PICK fd \in Given : Opened(fd, <<".">>)
  BY <1>1, <1>2
<1>4. fd # -1 /\ fd \in -1..MAX_FILES-1
  BY FilesAssumption DEF Given
<1>5. /\ result'.value = fd /\ opened'[Current] = {fd}
      /\ files'[Current][fd].ops = "dir" /\ files'[Current][fd].pos = 0
      /\ seen'[Current][fd] = <<>>
  BY <1>3, DotFound DEF Opened
<1> QED
  BY <1>1, <1>4, <1>5

\* A read of the directory gives the next name, or nothing at its end.
AtEnd(fd) == result'.value = 0 /\ Alone /\ File(fd).pos = num_dir_entries
NextName(fd) ==
    LET k == File(fd).pos + 1 IN
    /\ k \in DOMAIN dentries /\ File(fd).pos \in Nat /\ k <= num_dir_entries
    /\ result'.value \in Nat \ {0} /\ result'.data = dentries[k].file_name
    /\ opened' = opened
    /\ files'[Current][fd].ops = "dir" /\ files'[Current][fd].pos = k
    /\ OnlyAt(fd)

\* A read of the directory gives the next name, whole, or the end.
LEMMA DirectoryRead ==
    ASSUME FilesInv, NEW fd, IsDir(fd), read(fd, SBUFSIZE - 1)
    PROVE  FilesInv' /\ stack' = stack /\ (AtEnd(fd) \/ NextName(fd))
<1> DEFINE n == SBUFSIZE - 1
           f == File(fd)
<1>1. n \in 1..UINT-1 /\ n \in Nat /\ FILE_NAME_LENGTH <= n
  BY Sizes
<1>2. /\ FilesInv' /\ stack' = stack
      /\ Refused("read", fd) \/ HasRead(fd, n) \/ HasListed(fd, n) \/ HasEnded(fd)
  BY <1>1, ReadOutcome
<1>3. /\ fd \in Mine /\ f.ops = "dir" /\ f.pos <= num_dir_entries /\ f.pos \in Nat
  BY MineAre DEF IsDir, Descriptors
<1>4. ~Refused("read", fd) /\ ~HasRead(fd, n)
  BY <1>3, CanRead DEF Refused, HasRead, Types
<1>5. ASSUME HasEnded(fd)
      PROVE  AtEnd(fd)
  BY <1>3, <1>5, Entries DEF HasEnded, AtEnd, Nothing, Returns
<1>6. ASSUME HasListed(fd, n)
      PROVE  NextName(fd)
  <2> DEFINE k == f.pos + 1
             name == dentries[k].file_name
  <2>1. /\ f.pos < num_dir_entries
        /\ result' = Returns(Len(name), Cut(name, n)) /\ opened' = opened
        /\ files'[Current][fd].ops = "dir"
        /\ files'[Current][fd].pos = k /\ OnlyAt(fd)
    BY <1>6 DEF HasListed
  <2>2. k \in DOMAIN dentries /\ k <= num_dir_entries
    BY <1>3, <2>1, Entries
  <2>3. Cut(name, n) = name
    BY <1>1, <2>2, WholeName
  <2>4. Len(name) \in Nat \ {0}
    BY <2>2, Entries
  <2> HIDE DEF name
  <2>5. result'.value \in Nat \ {0} /\ result'.data = name
    BY <2>1, <2>3, <2>4 DEF Returns
  <2> QED
    BY <1>3, <2>1, <2>2, <2>5 DEF NextName, name
<1> QED
  BY <1>2, <1>4, <1>5, <1>6

\* A row of sequences put together, and one more.
LEMMA FlattenRow ==
    ASSUME NEW V, NEW n \in Nat, NEW f \in [1..n+1 -> Seq(V)]
    PROVE  /\ FlattenSeq([k \in 1..n |-> f[k]]) \in Seq(V)
           /\ FlattenSeq(f) = FlattenSeq([k \in 1..n |-> f[k]]) \o f[n + 1]
<1> DEFINE g == [k \in 1..n |-> f[k]]
           x == f[n + 1]
<1>1. g \in [1..n -> Seq(V)] /\ x \in Seq(V)
  <2>1. 1..n \subseteq 1..n+1 /\ n + 1 \in 1..n+1
    OBVIOUS
  <2> QED
    BY <2>1
<1>2. g \in Seq(Seq(V)) /\ Len(g) = n
  BY <1>1, RowOf
<1>3. f = Append(g, x)
  <2>1. f \in Seq(Seq(V)) /\ Len(f) = n + 1
    BY RowOf, n + 1 \in Nat
  <2>2. Append(g, x) \in Seq(Seq(V)) /\ Len(Append(g, x)) = n + 1
        /\ Append(g, x)[n + 1] = x /\ \A k \in 1..n : Append(g, x)[k] = g[k]
    BY <1>1, <1>2
  <2>3. \A k \in 1..n+1 : f[k] = Append(g, x)[k]
    <3>1. \A k \in 1..n+1 : k \in 1..n \/ k = n + 1
      OBVIOUS
    <3> QED
      BY <2>2, <3>1
  <2> HIDE DEF g, x
  <2> QED
    BY <2>1, <2>2, <2>3
<1> HIDE DEF g, x
<1>4. FlattenSeq(g) \in Seq(V) /\ FlattenSeq(Append(g, x)) = FlattenSeq(g) \o x
  BY <1>1, <1>2, FlattenMore
<1> QED
  BY <1>3, <1>4 DEF g, x

\* ls writes one name more, ...
LEMMA ListedMore ==
    ASSUME NEW n \in Nat, n + 1 \in DOMAIN dentries
    PROVE  Listed(n + 1) = Listed(n) \o Append(dentries[n + 1].file_name, NL)
<1> DEFINE f == [k \in 1..n+1 |-> Append(dentries[k].file_name, NL)]
           g == [k \in 1..n |-> f[k]]
<1>1. \A k \in 1..n+1 : Append(dentries[k].file_name, NL) \in Seq(Chars)
  <2>1. NL \in Chars
    BY WordsWritten DEF Words
  <2> QED
    BY <2>1, Entries
<1>2. f \in [1..n+1 -> Seq(Chars)]
  BY <1>1
<1>3. f[n + 1] = Append(dentries[n + 1].file_name, NL)
  OBVIOUS
<1>4. g = [k \in 1..n |-> Append(dentries[k].file_name, NL)]
  BY \A k \in 1..n : k \in 1..n+1
<1> HIDE DEF f
<1>5. FlattenSeq(f) = FlattenSeq(g) \o f[n + 1]
  BY <1>2, FlattenRow
<1> QED
  BY <1>3, <1>4, <1>5 DEF Listed, f

\* ... and at first none.
LEMMA ListedNone == Listed(0) = <<>>
<1>1. [k \in 1..0 |-> Append(dentries[k].file_name, NL)] = <<>>
  OBVIOUS
<1> QED
  BY <1>1, FlattenNothing DEF Listed

\* ls's open() keeps ProgramsInv.
LEMMA LsOpenStep ==
    ASSUME ProgramsInv, LsOpen
    PROVE  ProgramsInv'
<1>1. Kept /\ Task = "ls"
  BY TaskAt DEF ProgramsInv, LsOpen, Owner
<1>2. Now = Fresh("ls") /\ Mine = {} /\ Out = <<>>
  BY DEF ProgramsInv, Inside, Starting, At, LsOpen, Places
<1>3. /\ FilesInv /\ IsLocals(Now) /\ Out \in Seq(Printed) /\ UNCHANGED <<args, cmd>>
      /\ open(<<".">>)
  BY <1>1, RunningProgram DEF LsOpen
<1>4. FilesInv' /\ stack' = stack
  BY <1>2, <1>3, DotOpened
<1>5. PICK fd \in Given :
         /\ result'.value = fd /\ fd # -1 /\ fd \in -1..MAX_FILES-1
         /\ opened'[Current] = {fd}
         /\ files'[Current][fd].ops = "dir" /\ files'[Current][fd].pos = 0
  BY <1>2, <1>3, DotOpened
<1> DEFINE r == [Now EXCEPT !.pc = "ls read", !.fd = fd]
<1>6. Become(r) /\ Silent
  BY <1>5 DEF LsOpen, Failed
<1>7. IsLocals(r) /\ r.pc = "ls read" /\ r.fd = fd
  BY <1>3, <1>5 DEF IsLocals
<1> HIDE DEF r
<1>8. Move(r, Out)
  BY <1>1, <1>3, <1>4, <1>6, SilentMove DEF Silent
<1>9. Kept' /\ Now' = r /\ Out' = Out /\ Task' = Task /\ Current' = Current
  BY <1>1, <1>3, <1>4, <1>7, <1>8, Moved DEF Owner
<1>10. LsReading'
  <2>0. 0 <= num_dir_entries
    BY Entries
  <2>1. IsDir(Now.fd)'
    BY <1>5, <1>7, <1>9, <2>0 DEF IsDir, File, Mine
  <2>2. File(Now.fd)'.pos = 0
    BY <1>5, <1>7, <1>9 DEF File
  <2> QED
    BY <1>2, <1>9, <2>1, <2>2, ListedNone DEF LsReading
<1>11. Inside'
  BY <1>1, <1>7, <1>9, <1>10 DEF Inside, At, Places
<1> QED
  BY <1>9, <1>11 DEF ProgramsInv

\* ls's read() keeps ProgramsInv: the names come in order, each once.
LEMMA LsReadStep ==
    ASSUME ProgramsInv, LsRead
    PROVE  ProgramsInv'
<1> DEFINE fd == Now.fd
           n == File(fd).pos
<1>1. Kept /\ Task = "ls" /\ LsReading
  BY TaskAt DEF ProgramsInv, LsRead, Owner, Inside
<1>2. /\ FilesInv /\ IsLocals(Now) /\ Out \in Seq(Printed) /\ UNCHANGED <<args, cmd>>
      /\ read(fd, SBUFSIZE - 1)
  BY <1>1, RunningProgram DEF LsRead
<1>3. IsDir(fd) /\ Out = Listed(n)
  BY <1>1 DEF LsReading
<1>4. FilesInv' /\ stack' = stack /\ (AtEnd(fd) \/ NextName(fd))
  BY <1>2, <1>3, DirectoryRead
<1>5. CASE AtEnd(fd)
  <2>0. Exit(0) /\ Silent
    <3>1. ~Failed /\ result'.value = 0
      BY <1>5 DEF Failed, AtEnd
    <3> QED
      BY <3>1, Zenon DEF LsRead
  <2>1. Move(Ended(0), Out)
    BY <1>1, <1>2, <1>4, <2>0, SilentMove DEF Exit, Ended, Silent
  <2>2. Kept' /\ At("halt")' /\ Task' = Task /\ Out' = Out
    BY <1>1, <1>2, <1>4, <2>1, Statuses, Exits
  <2>3. LsDone'
    BY <1>3, <1>5, <2>2 DEF LsDone, AtEnd
  <2>4. Finished'
    BY <1>1, <2>2, <2>3 DEF Finished
  <2> QED
    BY <1>1, <2>2, <2>4, Ends
<1>6. CASE NextName(fd)
  <2> DEFINE r == [Now EXCEPT !.pc = "ls read"]
             name == dentries[n + 1].file_name
             text == Append(name, NL)
  <2>0. /\ n + 1 \in DOMAIN dentries /\ n \in Nat /\ n + 1 <= num_dir_entries
        /\ result'.value \in Nat \ {0} /\ result'.data = name /\ opened' = opened
        /\ files'[Current][fd].ops = "dir" /\ files'[Current][fd].pos = n + 1
    BY <1>6 DEF NextName
  <2>1. Become(r) /\ Write(text)
    <3>1. ~Failed /\ result'.value # 0
      BY <2>0 DEF Failed
    <3>2. Goto("ls read") /\ Write(Append(result'.data, NL))
      BY <3>1, Zenon DEF LsRead
    <3> QED
      BY <2>0, <3>2 DEF Goto
  <2>2. IsLocals(r) /\ r.pc = "ls read" /\ r.fd = fd
    BY <1>2 DEF IsLocals
  <2>3. text \in Seq(Printed)
    <3>1. name \in Seq(Chars) /\ NL \in Chars
      BY <2>0, Entries, WordsWritten DEF Words
    <3> HIDE DEF name
    <3> QED
      BY <3>1, Written
  <2> HIDE DEF r
  <2>4. Move(r, Out \o text)
    <3> HIDE DEF text
    <3> QED
      BY <1>1, <1>2, <1>4, <2>1, WritingMove
  <2>5. Out \o text \in Seq(Printed)
    BY <1>2, <2>3
  <2>6. Kept' /\ Now' = r /\ Out' = Out \o text /\ Task' = Task /\ Current' = Current
    <3> HIDE DEF text
    <3> QED
      BY <1>1, <1>4, <2>2, <2>4, <2>5, Moved DEF Owner
  <2>7. LsReading'
    <3>1. IsDir(Now.fd)'
      BY <1>3, <2>0, <2>2, <2>6 DEF IsDir, File, Mine
    <3>2. File(Now.fd)'.pos = n + 1
      BY <2>0, <2>2, <2>6 DEF File
    <3>3. Out' = Listed(n + 1)
      BY <1>3, <2>0, <2>6, ListedMore
    <3> QED
      BY <3>1, <3>2, <3>3 DEF LsReading
  <2>8. Inside'
    BY <1>1, <2>2, <2>6, <2>7 DEF Inside, At, Places
  <2> QED
    BY <2>6, <2>8 DEF ProgramsInv
<1> QED
  BY <1>4, <1>5, <1>6

-----------------------------------------------------------------------------
(***************************************************************************)
(* syserr                                                                  *)
(***************************************************************************)
\* The calls of syserr that must fail, of a process that has opened nothing.
CallsOf ==
    [call : {"open", "read", "write", "close", "vidmap", "int80"}, arg : Int, name : Seq(STRING)]
Outside == {0, 4194304}
MustFail(c) ==
    \/ c.call \in {"read", "close", "int80"}
    \/ c.call = "write" /\ c.arg # 1
    \/ c.call = "open" /\ read_dentry_by_name(c.name) = 0
    \/ c.call = "vidmap" /\ c.arg \in Outside
Bad == {c \in CallsOf : MustFail(c)}

\* Calls on numbers that are no open descriptor must fail, ...
LEMMA EachBad ==
    ASSUME NEW call \in {"read", "write", "close", "vidmap", "int80"}, NEW s \in Seq(Int),
           call = "write" => \A k \in 1..Len(s) : s[k] # 1,
           call = "vidmap" => \A k \in 1..Len(s) : s[k] \in Outside
    PROVE  Each(call, s) \in Seq(Bad)
<1> DEFINE n == Len(s)
           c(k) == [call |-> call, arg |-> s[k], name |-> <<>>]
<1>1. n \in Nat /\ DOMAIN s = 1..n
  OBVIOUS
<1>2. ASSUME NEW k \in 1..n
      PROVE  c(k) \in Bad
  <2>1. s[k] \in Int /\ <<>> \in Seq(STRING)
    OBVIOUS
  <2>2. c(k).call = call /\ c(k).arg = s[k]
    OBVIOUS
  <2>3. c(k) \in CallsOf
    BY <2>1 DEF CallsOf
  <2>4. MustFail(c(k))
    BY <2>2 DEF MustFail
  <2> QED
    BY <2>3, <2>4 DEF Bad
<1> HIDE DEF n
<1>3. Each(call, s) = [k \in 1..n |-> c(k)]
  BY <1>1 DEF Each
<1>4. [k \in 1..n |-> c(k)] \in [1..n -> Bad]
  <2> HIDE DEF c
  <2> QED
    BY <1>2
<1> HIDE DEF c
<1> QED
  BY <1>1, <1>3, <1>4, RowOf

\* ... and so must the opens of names that are no file's.
LEMMA OpensBad ==
    /\ Opens(BadNames) \in Seq(Bad)
<1> DEFINE n == Len(BadNames)
           c(k) == [call |-> "open", arg |-> 0, name |-> BadNames[k]]
<1>1. BadNames \in Seq(Seq(STRING))
  BY DirectoryAssumption
<1>2. n \in Nat /\ DOMAIN BadNames = 1..n /\ \A k \in 1..n : BadNames[k] \in Seq(STRING)
  BY <1>1
<1>3. ASSUME NEW k \in 1..n
      PROVE  c(k) \in Bad
  <2>1. BadNames[k] \in Seq(STRING) /\ read_dentry_by_name(BadNames[k]) = 0
    BY <1>2, DirectoryAssumption
  <2>2. c(k).call = "open" /\ c(k).name = BadNames[k]
    OBVIOUS
  <2>3. c(k) \in CallsOf
    BY <2>1 DEF CallsOf
  <2>4. MustFail(c(k))
    BY <2>1, <2>2 DEF MustFail
  <2> QED
    BY <2>3, <2>4 DEF Bad
<1> HIDE DEF n
<1>4. Opens(BadNames) = [k \in 1..n |-> c(k)]
  BY <1>2 DEF Opens
<1>5. [k \in 1..n |-> c(k)] \in [1..n -> Bad]
  <2> HIDE DEF c
  <2> QED
    BY <1>3
<1> HIDE DEF c
<1> QED
  BY <1>2, <1>4, <1>5, RowOf

\* A test all of whose calls must fail.
Plain(t) == t.calls \in Seq(Bad) /\ t.counted = Len(t.calls) /\ t.wanted = Len(t.calls)

\* Test makes such a test of such calls.
LEMMA PlainTest ==
    ASSUME NEW calls \in Seq(Bad)
    PROVE  Plain(Test(calls))
  BY DEF Plain, Test

\* The descriptors from a on.
LEMMA FdsTyped ==
    ASSUME NEW a \in {0, 2}
    PROVE  /\ FdsFrom(a) \in Seq(Int) /\ Len(FdsFrom(a)) = MAX_FILES - a
           /\ \A k \in 1..MAX_FILES-a : FdsFrom(a)[k] = a + k - 1
<1> DEFINE n == MAX_FILES - a
<1>1. n \in Nat
  BY FilesAssumption
<1> HIDE DEF n
<1>2. FdsFrom(a) = [k \in 1..n |-> a + k - 1]
  BY DEF FdsFrom, n
<1>3. FdsFrom(a) \in [1..n -> Int]
  BY <1>2
<1>4. FdsFrom(a) \in Seq(Int) /\ Len(FdsFrom(a)) = n
  BY <1>1, <1>3, RowOf
<1> QED
  BY <1>2, <1>4 DEF n

\* The calls on a number that is no descriptor all fail.
LEMMA PlainFd ==
    ASSUME NEW fd \in Int, fd # 1
    PROVE  Plain(err_fd(fd))
<1>1. <<fd>> \in Seq(Int) /\ \A k \in 1..Len(<<fd>>) : <<fd>>[k] # 1
  OBVIOUS
<1>2. /\ Each("read", <<fd>>) \in Seq(Bad) /\ Each("write", <<fd>>) \in Seq(Bad)
      /\ Each("close", <<fd>>) \in Seq(Bad)
  BY <1>1, EachBad
<1>3. Each("read", <<fd>>) \o Each("write", <<fd>>) \o Each("close", <<fd>>) \in Seq(Bad)
  BY <1>2
<1> QED
  BY <1>3, PlainTest DEF err_fd

\* The calls on descriptors that are not open all fail.
LEMMA PlainUnopened == Plain(err_unopened)
<1>1. FdsFrom(0) \in Seq(Int) /\ FdsFrom(2) \in Seq(Int)
  BY FdsTyped
<1>2. \A k \in 1..Len(FdsFrom(2)) : FdsFrom(2)[k] # 1
  <2>1. Len(FdsFrom(2)) = MAX_FILES - 2 /\ \A k \in 1..MAX_FILES-2 : FdsFrom(2)[k] = 2 + k - 1
    BY FdsTyped
  <2>2. MAX_FILES \in Nat
    BY FilesAssumption
  <2> QED
    BY <2>1, <2>2
<1>3. /\ Each("close", FdsFrom(0)) \in Seq(Bad) /\ Each("read", FdsFrom(2)) \in Seq(Bad)
      /\ Each("write", FdsFrom(2)) \in Seq(Bad)
  BY <1>1, <1>2, EachBad
<1>4. Each("close", FdsFrom(0)) \o Each("read", FdsFrom(2)) \o Each("write", FdsFrom(2)) \in Seq(Bad)
  BY <1>3
<1> QED
  BY <1>4, PlainTest DEF err_unopened

\* So do the opens of bad names, vidmap outside of the program, the wrong way on
\* standard input and output, and the numbers that are no system call's.
LEMMA PlainOthers ==
    Plain(err_open) /\ Plain(err_vidmap) /\ Plain(err_stdin_out) /\ Plain(err_syscall_num)
<1>1. Plain(err_open)
  BY OpensBad, PlainTest DEF err_open
<1>2. Plain(err_vidmap)
  <2> DEFINE s == <<0, 4194304>>
  <2>1. s \in Seq(Int) /\ \A k \in 1..Len(s) : s[k] \in Outside
    BY SMT DEF Outside
  <2>2. err_vidmap = Test(Each("vidmap", s))
    BY SMT DEF err_vidmap
  <2> HIDE DEF s
  <2>3. Each("vidmap", s) \in Seq(Bad)
    BY <2>1, EachBad
  <2> QED
    BY <2>2, <2>3, PlainTest
<1>3. Plain(err_stdin_out)
  <2>1. /\ <<0>> \in Seq(Int) /\ <<1>> \in Seq(Int) /\ \A k \in 1..Len(<<0>>) : <<0>>[k] # 1
    OBVIOUS
  <2>2. Each("write", <<0>>) \in Seq(Bad) /\ Each("read", <<1>>) \in Seq(Bad)
    BY <2>1, EachBad
  <2>3. Each("write", <<0>>) \o Each("read", <<1>>) \in Seq(Bad)
    BY <2>2
  <2> QED
    BY <2>3, PlainTest DEF err_stdin_out
<1>4. Plain(err_syscall_num)
  <2>1. <<BIG, NEG, 0>> \in Seq(Int)
    BY SMT DEF BIG, NEG
  <2>2. Each("int80", <<BIG, NEG, 0>>) \in Seq(Bad)
    BY <2>1, EachBad
  <2> QED
    BY <2>2, PlainTest DEF err_syscall_num
<1> QED
  BY <1>1, <1>2, <1>3, <1>4

\* Every test of syserr but the third is such a test.
LEMMA PlainTests ==
    Len(Tests) = 8 /\ Tests[3] = err_open_lots /\ \A r \in 1..8 : r # 3 => Plain(Tests[r])
<1>1. /\ Len(Tests) = 8 /\ Tests[1] = err_fd(NEG) /\ Tests[2] = err_fd(BIG)
      /\ Tests[3] = err_open_lots /\ Tests[4] = err_open /\ Tests[5] = err_unopened
      /\ Tests[6] = err_vidmap /\ Tests[7] = err_stdin_out /\ Tests[8] = err_syscall_num
  BY DEF Tests
<1>2. Plain(err_fd(NEG)) /\ Plain(err_fd(BIG))
  <2>1. NEG \in Int /\ BIG \in Int /\ NEG # 1 /\ BIG # 1
    BY SMT DEF NEG, BIG
  <2> QED
    BY <2>1, PlainFd
<1>3. ASSUME NEW r \in 1..8, r # 3
      PROVE  Plain(Tests[r])
  <2>1. r = 1 \/ r = 2 \/ r = 4 \/ r = 5 \/ r = 6 \/ r = 7 \/ r = 8
    BY <1>3
  <2> QED
    BY <1>1, <1>2, <2>1, PlainUnopened, PlainOthers
<1> QED
  BY <1>1, <1>3

\* A call that must fail does, of a process that has opened nothing.
LEMMA BadFails ==
    ASSUME FilesInv, Mine = {}, NEW c \in Bad, Do(c)
    PROVE  FilesInv' /\ stack' = stack /\ Alone /\ result'.value = -1
<1>1. c \in CallsOf /\ MustFail(c)
  BY DEF Bad
<1>2. c.call \in {"open", "read", "write", "close", "vidmap", "int80"} /\ c.arg \in Int
  BY <1>1 DEF CallsOf
<1>3. CASE c.call = "open"
  <2>1. open(c.name) /\ read_dentry_by_name(c.name) = 0
    BY <1>1, <1>3 DEF Do, MustFail
  <2>2. /\ FilesInv' /\ stack' = stack
        /\ NotOpened(c.name) \/ \E fd \in Given : Opened(fd, c.name)
    BY <2>1, OpenOutcome
  <2>3. ~ \E fd \in Given : Opened(fd, c.name)
    BY <2>1, Entries DEF Opened
  <2> QED
    BY <2>2, <2>3 DEF NotOpened
<1>4. CASE c.call = "read"
  <2>0. UINT - 1 \in Nat /\ UINT - 1 >= 1
    BY Sizes, ImageAssumption
  <2>1. read(c.arg, 1) /\ 1 \in 1..UINT-1
    BY <1>4, <2>0 DEF Do
  <2>2. /\ FilesInv' /\ stack' = stack
        /\ \/ Refused("read", c.arg) \/ HasRead(c.arg, 1) \/ HasListed(c.arg, 1)
           \/ HasEnded(c.arg)
    BY <2>1, ReadOutcome
  <2> QED
    BY <2>2 DEF Refused, HasRead, HasListed, HasEnded
<1>5. CASE c.call = "write"
  <2>1. write(c.arg) /\ c.arg # 1
    BY <1>1, <1>5 DEF Do, MustFail
  <2>2. FilesInv' /\ stack' = stack /\ (Refused("write", c.arg) \/ c.arg \in {1} \cup Mine)
    BY <2>1, WriteOutcome
  <2> QED
    BY <2>1, <2>2 DEF Refused
<1>6. CASE c.call = "close"
  <2>1. close(c.arg)
    BY <1>6 DEF Do
  <2>2. FilesInv' /\ stack' = stack /\ (Refused("close", c.arg) \/ HasClosed(c.arg))
    BY <2>1, CloseOutcome
  <2> QED
    BY <2>2 DEF Refused, HasClosed
<1>7. CASE c.call = "vidmap"
  <2>1. vidmap(c.arg) /\ c.arg \in Outside
    BY <1>1, <1>7 DEF Do, MustFail
  <2>2. Answers(-1)
    BY <2>1, SMT DEF vidmap, Outside, VIRTUAL_START
  <2> QED
    BY <2>2, AnswerOutcome
<1>8. CASE c.call = "int80"
  <2>1. Answers(-1)
    BY <1>8 DEF Do, int80
  <2> QED
    BY <2>1, AnswerOutcome
<1> QED
  BY <1>2, <1>3, <1>4, <1>5, <1>6, <1>7, <1>8

\* err_open_lots opens the directory until no descriptor is left, and closes them all.
LEMMA Lots ==
    LET t == err_open_lots
        M == MAX_FILES
    IN  /\ Len(t.calls) = 2 * M - 3 /\ t.counted = M - 1 /\ t.wanted = 1
        /\ \A k \in 1..M-1 : t.calls[k].call = "open" /\ t.calls[k].name = <<".">>
        /\ \A k \in M..2*M-3 : t.calls[k].call = "close" /\ t.calls[k].arg = k + 2 - M
<1> DEFINE M == MAX_FILES
           dots == [k \in 1..M-1 |-> <<".">>]
           opener == [call |-> "open", arg |-> 0, name |-> <<".">>]
           closer(k) == [call |-> "close", arg |-> k + 1, name |-> <<>>]
           V == {opener} \cup {closer(k) : k \in 1..M-2}
           a == Opens(dots)
           b == Each("close", FdsFrom(2))
           t == err_open_lots
<1>1. M \in Nat /\ M > 2 /\ M - 1 \in Nat /\ M - 2 \in Nat
  BY FilesAssumption
<1>2. a = [k \in 1..M-1 |-> opener]
  <2>1. DOMAIN dots = 1..M-1 /\ \A k \in 1..M-1 : dots[k] = <<".">>
    OBVIOUS
  <2> HIDE DEF dots
  <2> QED
    BY <2>1 DEF Opens
<1>3. b = [k \in 1..M-2 |-> closer(k)]
  <2>1. DOMAIN FdsFrom(2) = 1..M-2 /\ \A k \in 1..M-2 : FdsFrom(2)[k] = k + 1
    BY <1>1 DEF FdsFrom
  <2> QED
    BY <2>1 DEF Each
<1>4. /\ opener.call = "open" /\ opener.name = <<".">>
      /\ \A k \in 1..M-2 : closer(k).call = "close" /\ closer(k).arg = k + 1
  OBVIOUS
<1>5. t.calls = a \o b /\ t.counted = M - 1 /\ t.wanted = 1
  BY DEF err_open_lots
<1> HIDE DEF opener, closer, dots, M, t
<1>6. a \in [1..M-1 -> V] /\ b \in [1..M-2 -> V]
  BY <1>2, <1>3
<1>7. /\ \A k \in 1..M-1 : a[k] = opener
      /\ \A k \in 1..M-2 : b[k] = closer(k)
  BY <1>2, <1>3
<1> HIDE DEF a, b, V
<1>8. a \in Seq(V) /\ Len(a) = M - 1 /\ b \in Seq(V) /\ Len(b) = M - 2
  BY <1>1, <1>6, RowOf
<1>9. /\ Len(a \o b) = 2 * M - 3
      /\ \A k \in 1..M-1 : (a \o b)[k] = a[k]
      /\ \A k \in M..2*M-3 : (a \o b)[k] = b[k - (M - 1)]
  BY <1>1, <1>8
<1>10. \A k \in M..2*M-3 : k - (M - 1) \in 1..M-2 /\ k - (M - 1) + 1 = k + 2 - M
  BY <1>1
<1>11. /\ Len(t.calls) = 2 * M - 3 /\ t.counted = M - 1 /\ t.wanted = 1
       /\ \A k \in 1..M-1 : t.calls[k].call = "open" /\ t.calls[k].name = <<".">>
       /\ \A k \in M..2*M-3 : t.calls[k].call = "close" /\ t.calls[k].arg = k + 2 - M
  <2>1. \A k \in 1..M-1 : t.calls[k] = opener
    BY <1>5, <1>7, <1>9
  <2>2. ASSUME NEW k \in M..2*M-3
        PROVE  t.calls[k].call = "close" /\ t.calls[k].arg = k + 2 - M
    <3>1. t.calls[k] = closer(k - (M - 1))
      BY <1>5, <1>7, <1>9, <1>10
    <3> QED
      BY <1>4, <1>10, <3>1
  <2> QED
    BY <1>4, <1>5, <1>9, <2>1, <2>2
<1> QED
  BY <1>11 DEF t, M

\* The choice of a test keeps ProgramsInv.
LEMMA SyserrReadStep ==
    ASSUME ProgramsInv, NEW line \in Replies, SyserrRead(line)
    PROVE  ProgramsInv'
<1>1. Kept /\ Task = "syserr"
  BY TaskAt DEF ProgramsInv, SyserrRead, Owner
<1>2. Now = Fresh("syserr") /\ Mine = {} /\ Out = <<>>
  BY DEF ProgramsInv, Inside, Starting, At, SyserrRead, Places
<1>3. /\ FilesInv /\ IsLocals(Now) /\ Out \in Seq(Printed) /\ UNCHANGED <<args, out, cmd>>
  BY <1>1, RunningProgram DEF SyserrRead
<1>4. FilesInv' /\ stack' = stack /\ Alone
  BY <1>3, AnswerOutcome DEF SyserrRead
<1>5. PICK k : Select(k)
  BY DEF SyserrRead
<1>6. CASE k \in 0..8
  <2> DEFINE row == IF k = 0 THEN 1 ELSE k
             r == [Now EXCEPT !.pc = "test", !.chosen = k, !.row = row]
  <2>1. Become(r)
    BY <1>5, <1>6, PlainTests DEF Select
  <2>2. row \in 1..8
    BY <1>6
  <2>3. /\ IsLocals(r) /\ r.pc = "test" /\ r.row = row /\ r.i = Now.i /\ r.cnt = Now.cnt
        /\ r.status = Now.status
    <3> HIDE DEF row
    <3>1. row \in Nat /\ k \in Nat
      BY <1>6, <2>2
    <3> QED
      BY <1>3, <3>1 DEF IsLocals
  <2>4. r.i = 0 /\ r.cnt = 0 /\ r.status = 0
    BY <1>2, <2>3 DEF Fresh
  <2> HIDE DEF r, row
  <2>5. Move(r, Out)
    BY <1>1, <1>3, <1>4, <2>1, SilentMove
  <2>6. Kept' /\ Now' = r /\ Out' = Out /\ Task' = Task /\ Current' = Current
    BY <1>1, <1>3, <1>4, <2>3, <2>5, Moved DEF Owner
  <2>7. Mine' = {}
    BY <1>2, <1>4, <2>6 DEF Mine, Alone
  <2>8. Testing'
    <3>1. Len(Tests[row].calls) \in Nat /\ MAX_FILES \in Nat /\ MAX_FILES > 2
      BY <2>2, PlainTests, Lots, FilesAssumption, SMTT(60) DEF Plain
    <3>2. 2..1 = {} /\ 0 + 1 = 1
      OBVIOUS
    <3> QED
      BY <2>2, <2>3, <2>4, <2>6, <2>7, <3>1, <3>2, PlainTests DEF Testing
  <2>9. Inside'
    <3>1. <<>> \in Seq({"PASS"})
      OBVIOUS
    <3> QED
      BY <1>1, <1>2, <2>3, <2>6, <2>8, <3>1 DEF Inside, At, Places
  <2> QED
    BY <2>6, <2>9 DEF ProgramsInv
<1>7. CASE k \notin 0..8
  <2>1. Exit(0)
    BY <1>5, <1>7, PlainTests DEF Select
  <2>2. Move(Ended(0), Out)
    BY <1>1, <1>3, <1>4, <2>1, SilentMove DEF Exit, Ended
  <2>3. Kept' /\ At("halt")' /\ Task' = Task /\ Out' = Out
    BY <1>1, <1>3, <1>4, <2>2, Statuses, Exits
  <2>4. Finished'
    BY <1>1, <2>3 DEF Finished
  <2>5. <<>> \in Seq({"PASS"})
    OBVIOUS
  <2> QED
    BY <1>2, <2>3, <2>4, <2>5, Ends
<1> QED
  BY <1>6, <1>7

\* A test has its number of calls.
LEMMA TestLength ==
    ASSUME NEW row \in 1..8
    PROVE  Len(Tests[row].calls) \in Nat
<1>1. CASE row = 3
  <2>1. Len(err_open_lots.calls) = 2 * MAX_FILES - 3 /\ MAX_FILES \in Nat /\ MAX_FILES > 2
    BY Lots, FilesAssumption
  <2> QED
    BY <1>1, <2>1, PlainTests
<1>2. CASE row # 3
  <2>1. Tests[row].calls \in Seq(Bad)
    BY <1>2, PlainTests DEF Plain
  <2> QED
    BY <2>1
<1> QED
  BY <1>1, <1>2

\* After a call of the test of the row, i of which are made.
LEMMA Tested ==
    ASSUME Kept, Task = "syserr", At("test"), Out \in Seq({"PASS"}), FilesInv', stack' = stack,
           UNCHANGED <<args, out, cmd>>, NEW n \in Nat,
           Become([Now EXCEPT !.i = @ + 1, !.cnt = n]),
           Now.row \in 1..8, Now.status = 0, Now.i < Len(Tests[Now.row].calls),
           Now.row # 3 => n = Now.i + 1 /\ opened'[Current] = {},
           Now.row = 3 =>
              /\ \A fd \in opened'[Current] : files'[Current][fd].ops = "dir"
              /\ Now.i < MAX_FILES - 2 => n = 0 /\ opened'[Current] = 2..Now.i+2
              /\ Now.i >= MAX_FILES - 2 =>
                    n = 1 /\ opened'[Current] = Now.i+4-MAX_FILES..MAX_FILES-1
    PROVE  ProgramsInv'
<1> DEFINE r == [Now EXCEPT !.i = @ + 1, !.cnt = n]
           L == Len(Tests[Now.row].calls)
           M == MAX_FILES
<1>1. FilesInv /\ IsLocals(Now) /\ Out \in Seq(Printed) /\ Now.i \in Nat
  BY RunningProgram DEF IsLocals
<1>2. /\ IsLocals(r) /\ r.pc = "test" /\ r.row = Now.row /\ r.i = Now.i + 1 /\ r.cnt = n
      /\ r.status = 0
  BY <1>1 DEF IsLocals, At
<1>3. L \in Nat /\ M \in Nat
  BY TestLength, FilesAssumption
<1>4. Become(r)
  OBVIOUS
<1> HIDE DEF r
<1>5. Move(r, Out)
  BY <1>4, SilentMove
<1>6. Kept' /\ Now' = r /\ Out' = Out /\ Task' = Task /\ Current' = Current
  BY <1>1, <1>2, <1>5, Moved DEF Owner
<1>7. Testing'
  <2>1. r.i <= L
    <3> HIDE DEF L
    <3> QED
      BY <1>1, <1>2, <1>3 DEF L
  <2>2. Mine' = opened'[Current] /\ \A fd : File(fd)' = files'[Current][fd]
    BY <1>6 DEF Mine, File
  <2>3. ASSUME Now.row = 3
        PROVE  /\ \A fd \in Mine' : files'[Current][fd].ops = "dir"
               /\ r.i < M - 1 => r.cnt = 0 /\ Mine' = 2..r.i+1
               /\ r.i >= M - 1 => r.cnt = 1 /\ Mine' = r.i+3-M..M-1
    <3>1. r.i < M - 1 => Now.i < M - 2 /\ Now.i + 2 = r.i + 1
      BY <1>1, <1>2, <1>3
    <3>2. r.i >= M - 1 => Now.i >= M - 2 /\ Now.i + 4 - M = r.i + 3 - M
      BY <1>1, <1>2, <1>3, SMTT(60)
    <3> QED
      BY <1>2, <2>2, <2>3, <3>1, <3>2
  <2>4. Now'.row \in 1..Len(Tests) /\ Now'.status = 0 /\ Now'.i <= Len(Tests[Now'.row].calls)
    BY <1>2, <1>6, <2>1, PlainTests
  <2>5. Now'.row # 3 => Now'.cnt = Now'.i /\ Mine' = {}
    BY <1>2, <1>6, <2>2
  <2>6. Now'.row = 3 =>
          /\ \A fd \in Mine' : File(fd)'.ops = "dir"
          /\ Now'.i < MAX_FILES - 1 => Now'.cnt = 0 /\ Mine' = 2..Now'.i+1
          /\ Now'.i >= MAX_FILES - 1 => Now'.cnt = 1 /\ Mine' = Now'.i+3-MAX_FILES..MAX_FILES-1
    BY <1>2, <1>6, <2>2, <2>3
  <2> QED
    BY <2>4, <2>5, <2>6 DEF Testing
<1>8. Inside'
  BY <1>2, <1>6, <1>7 DEF Inside, At, Places
<1> QED
  BY <1>6, <1>8 DEF ProgramsInv

\* A call of a test keeps ProgramsInv: those that have to fail do, and err_open_lots
\* opens until no descriptor is left, then closes each.
LEMMA TestCallStep ==
    ASSUME ProgramsInv, TestCall
    PROVE  ProgramsInv'
<1> DEFINE i == Now.i
           row == Now.row
           M == MAX_FILES
           t == Tests[row]
           c == t.calls[i + 1]
<1>1. Kept /\ Task = "syserr" /\ Testing /\ Out \in Seq({"PASS"}) /\ At("test")
  BY TaskAt DEF ProgramsInv, TestCall, Owner, Inside
<1>2. /\ FilesInv /\ i \in Nat /\ Now.cnt \in Nat /\ UNCHANGED <<args, out, cmd>>
      /\ i < Len(t.calls) /\ Do(c)
  BY <1>1, RunningProgram DEF TestCall, IsLocals
<1>3. row \in 1..8 /\ Now.status = 0 /\ M \in Nat /\ M > 2
  BY <1>1, PlainTests, FilesAssumption DEF Testing
<1>4. Become([Now EXCEPT !.i = @ + 1,
                         !.cnt = @ + (IF Failed /\ Now.i < t.counted THEN 1 ELSE 0)])
  BY DEF TestCall
<1>5. CASE row # 3
  <2>1. Plain(t) /\ Now.cnt = i /\ Mine = {}
    BY <1>1, <1>3, <1>5, PlainTests DEF Testing
  <2>2. c \in Bad
    <3>1. t.calls \in Seq(Bad) /\ i + 1 \in 1..Len(t.calls)
      BY <1>2, <2>1 DEF Plain
    <3> HIDE DEF t
    <3> QED
      BY <3>1
  <2>3. FilesInv' /\ stack' = stack /\ Alone /\ result'.value = -1
    BY <1>2, <2>1, <2>2, BadFails
  <2>4. Become([Now EXCEPT !.i = @ + 1, !.cnt = i + 1])
    <3>1. Failed /\ i < t.counted
      BY <1>2, <2>1, <2>3 DEF Failed, Plain
    <3>2. Now.cnt + (IF Failed /\ i < t.counted THEN 1 ELSE 0) = i + 1
      BY <2>1, <3>1
    <3> QED
      BY <1>4, <3>2
  <2>5. opened'[Current] = {} /\ i + 1 \in Nat
    BY <1>2, <2>1, <2>3 DEF Mine, Alone
  <2> QED
    BY <1>1, <1>2, <1>3, <1>5, <2>3, <2>4, <2>5, Tested
<1>6. CASE row = 3
  <2>1. /\ t = err_open_lots /\ Len(t.calls) = 2 * M - 3 /\ t.counted = M - 1
        /\ \A k \in 1..M-1 : t.calls[k].call = "open" /\ t.calls[k].name = <<".">>
        /\ \A k \in M..2*M-3 : t.calls[k].call = "close" /\ t.calls[k].arg = k + 2 - M
    BY <1>6, PlainTests, Lots
  <2>2. /\ \A fd \in Mine : File(fd).ops = "dir"
        /\ i < M - 1 => Now.cnt = 0 /\ Mine = 2..i+1
        /\ i >= M - 1 => Now.cnt = 1 /\ Mine = i+3-M..M-1
    BY <1>1, <1>6 DEF Testing
  <2> DEFINE n == Now.cnt + (IF Failed /\ i < M - 1 THEN 1 ELSE 0)
  <2>3. Become([Now EXCEPT !.i = @ + 1, !.cnt = n]) /\ n \in Nat
    BY <1>2, <1>4, <2>1
  <2> HIDE DEF M, t
  <2>4. Given = 2..M-1 /\ Given \subseteq Fds
    BY FilesAssumption DEF Given, Fds, M
  <2>5. CASE i < M - 1
    <3>1. open(<<".">>)
      <4>1. i + 1 \in 1..M-1
        BY <1>2, <1>3, <2>5
      <4>2. c.call = "open" /\ c.name = <<".">>
        BY <2>1, <4>1
      <4> QED
        BY <1>2, <4>2 DEF Do
    <3>2. FilesInv' /\ stack' = stack /\ (NotOpened(<<".">>) \/ \E fd \in Given : Opened(fd, <<".">>))
      BY <1>2, <3>1, OpenOutcome
    <3>3. CASE NotOpened(<<".">>)
      <4>1. Mine = Given /\ Failed /\ Alone
        BY <3>3, DotFound DEF NotOpened, Failed
      <4>2. i = M - 2
        <5>0. M - 1 \in 2..M-1
          BY <1>3 DEF M
        <5>1. M - 1 \in 2..i+1
          BY <2>2, <2>4, <2>5, <4>1, <5>0
        <5> QED
          BY <1>2, <1>3, <2>5, <5>1
      <4>3. n = 1
        BY <2>2, <2>5, <4>1
      <4>4. opened'[Current] = i+4-M..M-1
        BY <1>3, <2>4, <4>1, <4>2 DEF Alone, Mine
      <4>5. \A fd \in opened'[Current] : files'[Current][fd].ops = "dir"
        BY <2>2, <4>1 DEF Alone, Mine, File
      <4>6. i >= M - 2 /\ ~(i < M - 2)
        BY <1>2, <1>3, <4>2 DEF M
      <4> HIDE DEF n
      <4> QED
        BY <1>1, <1>2, <1>3, <1>6, <2>3, <3>2, <4>3, <4>4, <4>5, <4>6, Tested DEF M, t
    <3>4. ASSUME NEW fd \in Given, Opened(fd, <<".">>)
          PROVE  ProgramsInv'
      <4>1. /\ result'.value = fd /\ fd \notin Mine /\ 2..fd-1 \subseteq Mine
            /\ opened'[Current] = Mine \cup {fd}
            /\ files'[Current][fd].ops = "dir" /\ OnlyAt(fd)
        BY <3>4, DotFound DEF Opened
      <4>2. fd \in 2..M-1 /\ fd \in Int
        BY <1>3, <2>4
      <4>3. fd = i + 2
        <5>1. fd \notin 2..i+1 /\ 2..fd-1 \subseteq 2..i+1
          BY <2>2, <2>5, <4>1
        <5>2. fd >= i + 2
          BY <1>2, <4>2, <5>1
        <5>3. ~(fd > i + 2)
          <6> SUFFICES ASSUME fd > i + 2
                       PROVE  FALSE
            OBVIOUS
          <6>1. i + 2 \in 2..fd-1
            BY <1>2, <4>2
          <6> QED
            BY <1>2, <5>1, <6>1
        <5> QED
          BY <1>2, <4>2, <5>2, <5>3
      <4>4. i < M - 2 /\ opened'[Current] = 2..i+2
        BY <1>2, <1>3, <2>2, <2>5, <4>1, <4>2, <4>3
      <4>5. n = 0
        BY <2>2, <2>5, <4>1, <4>2, <4>3, <1>2 DEF Failed
      <4>6. \A g \in opened'[Current] : files'[Current][g].ops = "dir"
        <5> SUFFICES ASSUME NEW g \in opened'[Current]
                     PROVE  files'[Current][g].ops = "dir"
          OBVIOUS
        <5>1. CASE g = fd
          BY <4>1, <5>1
        <5>2. CASE g # fd
          <6>1. g \in Mine /\ g \in Fds
            BY <1>2, <4>1, <5>2, MineAre
          <6> QED
            BY <2>2, <4>1, <5>2, <6>1 DEF OnlyAt, File
        <5> QED
          BY <5>1, <5>2
      <4> HIDE DEF n
      <4>7. ~(i >= M - 2)
        BY <1>2, <1>3, <4>4
      <4> QED
        BY <1>1, <1>2, <1>3, <1>6, <2>3, <3>2, <4>4, <4>5, <4>6, <4>7, Tested DEF M, t
    <3> QED
      BY <3>2, <3>3, <3>4
  <2>6. CASE ~(i < M - 1)
    <3> DEFINE fd == i + 3 - M
    <3>0. i >= M - 1 /\ i <= 2 * M - 4 /\ fd \in 2..M-1
      BY <1>2, <1>3, <2>1, <2>6
    <3>1. close(fd)
      <4>1. i + 1 \in M..2*M-3 /\ i + 1 + 2 - M = fd
        BY <1>2, <1>3, <3>0, SMTT(60)
      <4>2. c.call = "close" /\ c.arg = fd
        BY <2>1, <4>1
      <4> QED
        BY <1>2, <4>2 DEF Do
    <3>2. FilesInv' /\ stack' = stack /\ (Refused("close", fd) \/ HasClosed(fd))
      BY <1>2, <3>1, CloseOutcome
    <3>3. fd \in Mine /\ Mine = fd..M-1 /\ Now.cnt = 1
      BY <2>2, <3>0
    <3>4. ~Refused("close", fd)
      <4>1. File(fd).ops \in Types
        BY <2>2, <3>3 DEF Types
      <4> QED
        BY <3>3, <4>1, CanRead DEF Refused
    <3>5. opened'[Current] = Mine \ {fd} /\ OnlyAt(fd)
      BY <3>2, <3>4 DEF HasClosed
    <3>6. opened'[Current] = i+4-M..M-1
      BY <1>2, <1>3, <3>0, <3>3, <3>5
    <3>7. n = 1
      BY <2>6, <3>3
    <3>8. \A g \in opened'[Current] : files'[Current][g].ops = "dir"
      <4> SUFFICES ASSUME NEW g \in opened'[Current]
                   PROVE  files'[Current][g].ops = "dir"
        OBVIOUS
      <4>1. g \in Mine /\ g \in Fds /\ g # fd
        BY <1>2, <3>5, MineAre
      <4> QED
        BY <2>2, <3>5, <4>1 DEF OnlyAt, File
    <3>9. i >= M - 2 /\ ~(i < M - 2)
      BY <1>2, <1>3, <3>0
    <3> HIDE DEF n
    <3> QED
      BY <1>1, <1>2, <1>3, <1>6, <2>3, <3>2, <3>6, <3>7, <3>8, <3>9, Tested DEF M, t
  <2> QED
    BY <2>5, <2>6
<1> QED
  BY <1>5, <1>6

\* The end of a test keeps ProgramsInv: all the failures it wants have been counted,
\* and nothing is open before the next.
LEMMA TestEndStep ==
    ASSUME ProgramsInv, TestEnd
    PROVE  ProgramsInv'
<1> DEFINE i == Now.i
           row == Now.row
           M == MAX_FILES
           t == Tests[row]
<1>1. Kept /\ Task = "syserr" /\ Testing /\ Out \in Seq({"PASS"}) /\ At("test")
  BY TaskAt DEF ProgramsInv, TestEnd, Owner, Inside
<1>2. /\ FilesInv /\ IsLocals(Now) /\ i \in Nat /\ Now.cnt \in Nat /\ UNCHANGED <<args, cmd>>
      /\ i = Len(t.calls) /\ Current \in Pids /\ Out \in Seq(Printed)
  BY <1>1, RunningProgram DEF TestEnd, IsLocals
<1>3. row \in 1..8 /\ Now.status = 0 /\ M \in Nat /\ M > 2
  BY <1>1, PlainTests, FilesAssumption DEF Testing
<1>4. FilesInv' /\ stack' = stack /\ Alone
  BY <1>2, AnswerOutcome DEF TestEnd
<1>5. Now.cnt = t.wanted /\ Mine = {}
  <2>1. CASE row # 3
    BY <1>1, <1>2, <1>3, <2>1, PlainTests DEF Testing, Plain
  <2>2. CASE row = 3
    <3>1. i = 2 * M - 3 /\ t.wanted = 1
      BY <1>2, <2>2, PlainTests, Lots
    <3>2. i >= M - 1
      BY <1>3, <3>1
    <3>3. Now.cnt = 1 /\ Mine = i+3-M..M-1
      BY <1>1, <2>2, <3>2 DEF Testing
    <3>4. i + 3 - M > M - 1 /\ i + 3 - M \in Int
      BY <1>3, <3>1
    <3> QED
      BY <1>3, <3>1, <3>3, <3>4
  <2> QED
    BY <2>1, <2>2
<1>6. /\ Write(<<"PASS">>)
      /\ IF Now.chosen = 0 /\ row < 8
         THEN Become([Now EXCEPT !.row = @ + 1, !.i = 0, !.cnt = 0, !.status = 0])
         ELSE Exit(0)
  BY <1>3, <1>5, PlainTests DEF TestEnd
<1>7. <<"PASS">> \in Seq(Printed) /\ Out \o <<"PASS">> \in Seq({"PASS"})
      /\ Out \o <<"PASS">> \in Seq(Printed)
  <2>1. "PASS" \in Words
    BY DEF Words
  <2>2. <<"PASS">> \in Seq(Printed)
    BY <2>1, WordsWritten
  <2>3. Out \o <<"PASS">> \in Seq({"PASS"})
    BY <1>1
  <2> QED
    BY <1>2, <2>2, <2>3
<1> DEFINE text == <<"PASS">>
           r == [Now EXCEPT !.row = @ + 1, !.i = 0, !.cnt = 0, !.status = 0]
<1>8. CASE Now.chosen = 0 /\ row < 8
  <2>1. Become(r) /\ Write(text)
    BY <1>6, <1>8
  <2>2. /\ IsLocals(r) /\ r.pc = "test" /\ r.row = row + 1 /\ r.i = 0 /\ r.cnt = 0
        /\ r.status = 0
    BY <1>1, <1>2 DEF IsLocals, At
  <2>3. r.row \in 1..8
    BY <1>3, <1>8, <2>2
  <2> HIDE DEF r, text
  <2>4. Move(r, Out \o text)
    BY <1>1, <1>2, <1>4, <2>1, WritingMove
  <2>5. Out \o text \in Seq(Printed) /\ Out \o text \in Seq({"PASS"})
    BY <1>7 DEF text
  <2>6. Kept' /\ Now' = r /\ Out' = Out \o text /\ Task' = Task /\ Current' = Current
    BY <1>1, <1>4, <2>2, <2>4, <2>5, Moved DEF Owner
  <2>7. Mine' = {}
    BY <1>4, <1>5, <2>6 DEF Mine, Alone
  <2>8. Testing'
    <3>1. Len(Tests[r.row].calls) \in Nat
      BY <2>3, TestLength
    <3>2. 2..1 = {} /\ 0 + 1 = 1 /\ 0 < M - 1 /\ ~(0 >= M - 1)
      BY <1>3
    <3> QED
      BY <2>2, <2>3, <2>6, <2>7, <3>1, <3>2, PlainTests DEF Testing
  <2>9. Inside'
    BY <1>1, <2>2, <2>5, <2>6, <2>8 DEF Inside, At, Places
  <2> QED
    BY <2>6, <2>9 DEF ProgramsInv
<1>9. CASE ~(Now.chosen = 0 /\ row < 8)
  <2>1. Become(Ended(0)) /\ Write(text)
    BY <1>6, <1>9 DEF Exit, Ended
  <2> HIDE DEF text
  <2>2. Move(Ended(0), Out \o text)
    BY <1>1, <1>2, <1>4, <2>1, WritingMove
  <2>3. Out \o text \in Seq(Printed) /\ Out \o text \in Seq({"PASS"})
    BY <1>7 DEF text
  <2>4. Kept' /\ At("halt")' /\ Task' = Task /\ Out' = Out \o text
    BY <1>1, <1>4, <2>2, <2>3, Statuses, Exits
  <2>5. Finished'
    BY <1>1, <2>4 DEF Finished
  <2> QED
    BY <2>3, <2>4, <2>5, Ends
<1> QED
  BY <1>8, <1>9

-----------------------------------------------------------------------------
(***************************************************************************)
(* Lines                                                                   *)
(***************************************************************************)
\* A sequence is its front and its last element.
LEMMA LastAndFront ==
    ASSUME NEW V, NEW l \in Seq(V), Len(l) > 0
    PROVE  /\ Front(l) \in Seq(V) /\ Len(Front(l)) = Len(l) - 1 /\ Last(l) \in V
           /\ \A k \in 1..Len(l)-1 : Front(l)[k] = l[k]
           /\ Front(l) \o <<Last(l)>> = l /\ Append(Front(l), Last(l)) = l
<1> DEFINE f == Front(l)
           x == Last(l)
           n == Len(l) - 1
<1>1. n \in Nat /\ Len(l) = n + 1
  OBVIOUS
<1>2. f = SubSeq(l, 1, n) /\ x = l[n + 1]
  BY DEF Front, Last
<1>3. f \in Seq(V) /\ Len(f) = n /\ x \in V /\ \A k \in 1..n : f[k] = l[k]
  BY <1>1, <1>2
<1> HIDE DEF f, x, n
<1>4. Append(f, x) = l
  <2>1. Append(f, x) \in Seq(V) /\ Len(Append(f, x)) = n + 1
    BY <1>1, <1>3
  <2>2. \A k \in 1..n+1 : Append(f, x)[k] = l[k]
    BY <1>1, <1>2, <1>3
  <2> QED
    BY <1>1, <2>1, <2>2
<1>5. f \o <<x>> = Append(f, x)
  BY <1>3
<1> QED
  BY <1>3, <1>4, <1>5 DEF f, x, n

\* No line has a newline.
LEMMA CleanLines ==
    ASSUME NEW V, NEW text \in Seq(V)
    PROVE  Lines(text) \in Texts(V \ {NL})
<1> DEFINE W == V \ {NL}
           S == {t \in Seq(V) : Lines(t) \in Texts(W)}
<1>1. <<>> \in S
  <2>1. << <<>> >> \in Texts(W)
    BY DEF Texts
  <2> QED
    BY <2>1, LinesOfNothing
<1>2. ASSUME NEW t \in Seq(V), NEW c \in V, t \in S
      PROVE  Append(t, c) \in S
  <2>1. Lines(Append(t, c)) = Broken(Lines(t), c) /\ Lines(t) \in Texts(W) /\ Append(t, c) \in Seq(V)
    BY <1>2, LinesMore
  <2>2. CASE c = NL
    <3>1. Broken(Lines(t), c) = Append(Lines(t), <<>>)
      BY <2>2 DEF Broken
    <3>2. Append(Lines(t), <<>>) \in Texts(W)
      BY <2>1 DEF Texts
    <3> QED
      BY <2>1, <3>1, <3>2
  <2>3. CASE c # NL
    <3>1. c \in W
      BY <2>3
    <3> HIDE DEF W
    <3>2. Broken(Lines(t), c) \in Texts(W)
      BY <2>1, <3>1, BrokenTyped
    <3> QED
      BY <2>1, <3>2
  <2> QED
    BY <2>2, <2>3
<1>3. Seq(V) \subseteq S
  <2> HIDE DEF S
  <2> QED
    BY <1>1, <1>2, SequenceInduction
<1> QED
  BY <1>3

\* A text without a newline is one line.
LEMMA OneLine ==
    ASSUME NEW V, NEW text \in Seq(V \ {NL})
    PROVE  Lines(text) = <<text>>
<1> DEFINE W == V \ {NL}
           S == {t \in Seq(W) : Lines(t) = <<t>>}
<1>1. <<>> \in S
  BY LinesOfNothing
<1>2. ASSUME NEW t \in Seq(W), NEW c \in W, t \in S
      PROVE  Append(t, c) \in S
  <2>1. Lines(Append(t, c)) = Broken(Lines(t), c) /\ Lines(t) = <<t>> /\ Append(t, c) \in Seq(W)
    BY <1>2, LinesMore
  <2>2. c # NL
    OBVIOUS
  <2>3. Broken(<<t>>, c) = <<Append(t, c)>>
    BY <2>2 DEF Broken
  <2> QED
    BY <2>1, <2>3
<1>3. Seq(W) \subseteq S
  <2> HIDE DEF S, W
  <2> QED
    BY <1>1, <1>2, SequenceInduction
<1> QED
  BY <1>3

\* Sequences with the same elements are the same.
LEMMA SameSeq ==
    ASSUME NEW V, NEW a \in Seq(V), NEW b \in Seq(V), Len(a) = Len(b),
           \A k \in 1..Len(a) : a[k] = b[k]
    PROVE  a = b
  OBVIOUS

\* One element more behind two sequences, ...
GoesBehind(a, m, x) == Append(a \o m, x) = a \o Append(m, x)

\* ... goes behind the second.
LEMMA AppendBehind ==
    ASSUME NEW W, NEW a \in Seq(W), NEW m \in Seq(W), NEW x \in W
    PROVE  GoesBehind(a, m, x)
  BY DEF GoesBehind

\* The last element of two sequences is that of the second.
LEMMA LastBehind ==
    ASSUME NEW W, NEW a \in Seq(W), NEW m \in Seq(W), Len(m) > 0, NEW x \in W
    PROVE  [(a \o m) EXCEPT ![Len(a \o m)] = x] = a \o [m EXCEPT ![Len(m)] = x]
<1> DEFINE n == Len(a)
           l == Len(m)
           am == a \o m
           u == [m EXCEPT ![l] = x]
           v == [am EXCEPT ![n + l] = x]
           au == a \o u
<1>1. n \in Nat /\ l \in Nat /\ l > 0
  OBVIOUS
<1>2. /\ am \in Seq(W) /\ Len(am) = n + l
      /\ \A k \in 1..n : am[k] = a[k]
      /\ \A k \in 1..l : am[n + k] = m[k]
  BY Joined DEF IsJoin
<1>3. /\ u \in Seq(W) /\ Len(u) = l /\ u[l] = x /\ \A k \in 1..l-1 : u[k] = m[k]
  OBVIOUS
<1> HIDE DEF u
<1>4. /\ au \in Seq(W) /\ Len(au) = n + l
      /\ \A k \in 1..n : au[k] = a[k]
      /\ \A k \in 1..l : au[n + k] = u[k]
  <2>1. u \in Seq(W) /\ Len(u) = l
    BY <1>3
  <2>2. IsJoin(a \o u, a, u) /\ a \o u \in Seq(W)
    BY <2>1, Joined
  <2> QED
    BY <2>1, <2>2 DEF IsJoin
<1> HIDE DEF am, au, n, l
<1>5. /\ v \in Seq(W) /\ Len(v) = n + l /\ v[n + l] = x /\ \A k \in 1..n+l-1 : v[k] = am[k]
  BY <1>1, <1>2
<1> HIDE DEF v
<1>6. ASSUME NEW k \in 1..n+l
      PROVE  v[k] = au[k]
  <2>1. CASE k \in 1..n
    <3>1. k \in 1..n+l-1
      BY <1>1, <2>1
    <3> QED
      BY <1>2, <1>4, <1>5, <2>1, <3>1
  <2>2. CASE k = n + l
    <3>1. l \in 1..l
      BY <1>1
    <3> QED
      BY <1>3, <1>4, <1>5, <2>2, <3>1
  <2>3. CASE k \notin 1..n /\ k # n + l
    <3> DEFINE j == k - n
    <3>1. j \in 1..l-1 /\ j \in 1..l /\ k = n + j /\ k \in 1..n+l-1
      BY <1>1, <2>3
    <3> HIDE DEF j
    <3> QED
      BY <1>2, <1>3, <1>4, <1>5, <3>1
  <2> QED
    BY <2>1, <2>2, <2>3
<1>7. v = au
  BY <1>1, <1>4, <1>5, <1>6, SameSeq
<1>8. Len(a \o m) = n + l
  BY <1>2 DEF am
<1> QED
  BY <1>7, <1>8 DEF v, au, u, am, l

\* One character more changes only the last of the lines.
LEMMA BrokenBehind ==
    ASSUME NEW V, NEW a \in Seq(Seq(V)), NEW m \in Texts(V), NEW c \in V
    PROVE  a \o m \in Texts(V) /\ Broken(a \o m, c) = a \o Broken(m, c)
<1> DEFINE W == Seq(V)
           x == Append(m[Len(m)], c)
           e == <<>>
<1>1. /\ m \in Seq(W) /\ Len(m) \in Nat /\ Len(m) > 0 /\ m[Len(m)] \in W /\ a \in Seq(W)
      /\ Len(a) \in Nat /\ e \in W
  BY DEF Texts
<1>2. x \in W
  BY <1>1
<1>3. a \o m \in Seq(W) /\ Len(a \o m) = Len(a) + Len(m) /\ (a \o m)[Len(a \o m)] = m[Len(m)]
  <2> HIDE DEF W
  <2>0. IsJoin(a \o m, a, m) /\ a \o m \in Seq(W)
    BY <1>1, Joined
  <2>1. /\ a \o m \in Seq(W) /\ Len(a \o m) = Len(a) + Len(m)
        /\ \A k \in 1..Len(m) : (a \o m)[Len(a) + k] = m[k]
    BY <2>0 DEF IsJoin
  <2>2. Len(m) \in 1..Len(m)
    BY <1>1
  <2> QED
    BY <2>1, <2>2
<1>4. a \o m \in Texts(V)
  <2>1. Len(a \o m) > 0
    <3> HIDE DEF W
    <3> QED
      BY <1>1, <1>3
  <2> QED
    BY <1>3, <2>1 DEF Texts
<1>5. CASE c = NL
  <2>1. Broken(a \o m, c) = Append(a \o m, e) /\ Broken(m, c) = Append(m, e)
    BY <1>5 DEF Broken
  <2>2. Append(a \o m, e) = a \o Append(m, e)
    <3> HIDE DEF W, e
    <3>1. GoesBehind(a, m, e)
      BY <1>1, AppendBehind
    <3> QED
      BY <3>1 DEF GoesBehind
  <2> QED
    BY <1>4, <2>1, <2>2
<1>6. CASE c # NL
  <2>1. Broken(m, c) = [m EXCEPT ![Len(m)] = x]
    BY <1>6 DEF Broken
  <2>2. Broken(a \o m, c) = [(a \o m) EXCEPT ![Len(a \o m)] = x]
    BY <1>3, <1>6 DEF Broken
  <2> HIDE DEF W, x
  <2>3. [(a \o m) EXCEPT ![Len(a \o m)] = x] = a \o [m EXCEPT ![Len(m)] = x]
    BY <1>1, <1>2, LastBehind
  <2> QED
    BY <1>4, <2>1, <2>2, <2>3
<1> QED
  BY <1>5, <1>6

\* The lines of a text and of what is behind it: only the last line goes on.
LEMMA LinesBehind ==
    ASSUME NEW V, NEW text \in Seq(V), NEW more \in Seq(V)
    PROVE  /\ Last(Lines(text)) \in Seq(V) /\ Front(Lines(text)) \in Seq(Seq(V))
           /\ Lines(text \o more) = Front(Lines(text)) \o Lines(Last(Lines(text)) \o more)
<1> DEFINE l == Lines(text)
           W == Seq(V)
           a == Front(l)
           x == Last(l)
           S == {d \in Seq(V) : Lines(text \o d) = a \o Lines(x \o d)}
<1>1. l \in Texts(V \ {NL}) /\ l \in Seq(W) /\ Len(l) > 0
  <2>1. l \in Texts(V \ {NL}) /\ l \in Texts(V)
    <3>1. <<>> \in Seq(V)
      OBVIOUS
    <3>2. PICK h \in [0..Len(text) -> Texts(V)] : Lines(text) = h[Len(text)]
      BY LinesLoop
    <3> QED
      BY <3>2, CleanLines
  <2> QED
    BY <2>1 DEF Texts
<1>2. x \in Seq(V \ {NL})
  BY <1>1 DEF Texts, Last
<1> HIDE DEF l
<1>3. a \in Seq(W) /\ x \in W /\ a \o <<x>> = l
  <2> HIDE DEF W
  <2> QED
    BY <1>1, LastAndFront
<1> HIDE DEF a, x
<1>4. <<>> \in S
  <2>1. text \o <<>> = text /\ x \o <<>> = x /\ <<>> \in Seq(V)
    BY <1>3
  <2>2. Lines(x) = <<x>>
    BY <1>2, OneLine
  <2> QED
    BY <1>3, <2>1, <2>2 DEF l
<1>5. ASSUME NEW d \in Seq(V), NEW c \in V, d \in S
      PROVE  Append(d, c) \in S
  <2>1. /\ text \o Append(d, c) = Append(text \o d, c) /\ text \o d \in Seq(V)
        /\ x \o Append(d, c) = Append(x \o d, c) /\ x \o d \in Seq(V) /\ Append(d, c) \in Seq(V)
    BY <1>3, SMTT(60)
  <2>2. Lines(text \o d) = a \o Lines(x \o d)
    BY <1>5
  <2> DEFINE m == Lines(x \o d)
  <2>3. /\ Lines(Append(text \o d, c)) = Broken(Lines(text \o d), c)
        /\ Lines(Append(x \o d, c)) = Broken(m, c) /\ m \in Texts(V)
    BY <2>1, LinesMore
  <2> HIDE DEF m
  <2>4. Broken(a \o m, c) = a \o Broken(m, c)
    BY <1>3, <2>3, BrokenBehind
  <2>5. Lines(text \o Append(d, c)) = a \o Lines(x \o Append(d, c))
    BY <2>1, <2>2, <2>3, <2>4 DEF m
  <2> QED
    BY <2>1, <2>5
<1>6. Seq(V) \subseteq S
  <2> HIDE DEF S
  <2> QED
    BY <1>4, <1>5, SequenceInduction
<1> QED
  BY <1>3, <1>6 DEF a, x, l

-----------------------------------------------------------------------------
(***************************************************************************)
(* counter                                                                 *)
(***************************************************************************)
\* The digits, and the place of one in lookup.
Digits == {lookup[k] : k \in 1..10}
Place(c) == SelectInSeq(lookup, LAMBDA d : d = c)

\* The ten digits are different, and no newline is one.
LEMMA TenDigits ==
    /\ Len(lookup) = 10 /\ \A k \in 1..10 : lookup[k] \in Digits
    /\ Digits \subseteq Chars /\ NL \notin Digits
    /\ \A j, k \in 1..10 : lookup[j] = lookup[k] => j = k
<1>1. /\ Len(lookup) = 10 /\ lookup[1] = "0" /\ lookup[2] = "1" /\ lookup[3] = "2" /\ lookup[4] = "3"
      /\ lookup[5] = "4" /\ lookup[6] = "5" /\ lookup[7] = "6" /\ lookup[8] = "7"
      /\ lookup[9] = "8" /\ lookup[10] = "9"
  BY DEF lookup
<1>2. \A k \in 1..10 : \/ k = 1 \/ k = 2 \/ k = 3 \/ k = 4 \/ k = 5 \/ k = 6 \/ k = 7 \/ k = 8 \/ k = 9
                       \/ k = 10
  OBVIOUS
<1>3. Digits = {"0", "1", "2", "3", "4", "5", "6", "7", "8", "9"}
  BY <1>1, <1>2 DEF Digits
<1>4. Digits \subseteq Words /\ NL \notin Digits
  BY <1>3 DEF Words, NL
<1>5. \A j, k \in 1..10 : lookup[j] = lookup[k] => j = k
  BY <1>1, <1>2
<1> QED
  BY <1>1, <1>4, <1>5 DEF Digits, Chars

\* Where a digit is found in lookup.
LEMMA PlaceOf ==
    /\ \A c : Place(c) \in 0..10
    /\ \A k \in 1..10 : Place(lookup[k]) = k
<1> DEFINE I(c) == {i \in 1..10 : lookup[i] = c}
<1>1. ASSUME NEW c
      PROVE  IF I(c) = {} THEN Place(c) = 0 ELSE Place(c) \in I(c)
  <2>1. Place(c) = IF I(c) # {} THEN Min(I(c)) ELSE 0
    BY TenDigits DEF Place, SelectInSeq
  <2> DEFINE J == I(c)
             k == Place(c)
  <2>2. J \in SUBSET (1..10) /\ 10 \in Nat /\ k = IF J # {} THEN Min(J) ELSE 0
    BY <2>1
  <2> HIDE DEF J, k
  <2>3. IF J = {} THEN k = 0 ELSE k \in J
    BY <2>2, FirstOf
  <2> QED
    BY <2>3 DEF J, k
<1>2. ASSUME NEW c
      PROVE  Place(c) \in 0..10
  BY <1>1, <1>2
<1>3. ASSUME NEW k \in 1..10
      PROVE  Place(lookup[k]) = k
  <2>1. I(lookup[k]) = {k}
    BY TenDigits
  <2> QED
    BY <1>1, <2>1
<1> QED
  BY <1>2, <1>3

\* NumberOf is what its loop computes, ...
LEMMA NumberLoop ==
    ASSUME NEW V, NEW s \in Seq(V)
    PROVE  \E h \in [0..Len(s) -> Int] :
              /\ h[0] = 0
              /\ \A i \in 1..Len(s) : h[i] = RADIX * h[i - 1] + Place(s[i]) - 1
              /\ NumberOf(s) = h[Len(s)]
<1> DEFINE n == Len(s)
           F == [i \in 1..n |-> [v \in Int |-> RADIX * v + Place(s[i]) - 1]]
           Is(f) == f = [i \in 0..n |-> IF i = 0 THEN 0 ELSE RADIX * f[i - 1] + Place(s[i]) - 1]
           u == CHOOSE f : Is(f)
<1>1. n \in Nat /\ 0 \in Int /\ RADIX \in Int
  BY ProgramsAssumption
<1>2. F \in [1..n -> [Int -> Int]]
  <2>1. \A i \in 1..n : Place(s[i]) \in Int
    BY PlaceOf
  <2> HIDE DEF n
  <2>2. ASSUME NEW i \in 1..n, NEW v \in Int
        PROVE  RADIX * v + Place(s[i]) - 1 \in Int
    BY <1>1, <2>1
  <2> QED
    BY <2>2
<1>3. PICK h \in [0..n -> Int] : h[0] = 0 /\ \A i \in 1..n : h[i] = F[i][h[i - 1]]
  <2> HIDE DEF F, n, Is, u
  <2>1. \E h \in [0..n -> Int] : Loops(h, n, 0, F)
    BY <1>1, <1>2, LoopExists
  <2> QED
    BY <2>1 DEF Loops
<1>4. \A i \in 1..n : h[i] = RADIX * h[i - 1] + Place(s[i]) - 1
  <2> SUFFICES ASSUME NEW i \in 1..n
               PROVE  h[i] = RADIX * h[i - 1] + Place(s[i]) - 1
    OBVIOUS
  <2>1. i - 1 \in 0..n
    BY <1>1
  <2>2. h[i - 1] \in Int
    BY <2>1
  <2> QED
    BY <1>3, <2>2
<1> HIDE DEF F
<1>5. Is(h)
  <2> HIDE DEF n
  <2>1. \A i \in 0..n : h[i] = IF i = 0 THEN 0 ELSE RADIX * h[i - 1] + Place(s[i]) - 1
    BY <1>1, <1>3, <1>4
  <2> QED
    BY <1>3, <2>1
<1>6. Is(u)
  <2> HIDE DEF Is
  <2> QED
    BY <1>5
<1>7. NumberOf(s) = u[n]
  BY DEF NumberOf, Place
<1> HIDE DEF u, n
<1>8. \A i \in 0..n : u[i] = IF i = 0 THEN 0 ELSE RADIX * u[i - 1] + Place(s[i]) - 1
  BY <1>6
<1> HIDE DEF Is
<1> DEFINE S == {i \in Nat : i <= n => u[i] = h[i]}
<1>9. 0 \in S
  BY <1>1, <1>3, <1>8
<1>10. ASSUME NEW i \in Nat, i \in S
      PROVE  i + 1 \in S
  <2> SUFFICES ASSUME i + 1 <= n
               PROVE  u[i + 1] = h[i + 1]
    OBVIOUS
  <2>1. i + 1 \in 1..n /\ (i + 1) - 1 = i /\ i + 1 \in 0..n /\ i + 1 # 0
    BY <1>1
  <2>2. u[i] = h[i]
    BY <1>1, <1>10
  <2>3. u[i + 1] = RADIX * u[(i + 1) - 1] + Place(s[i + 1]) - 1
    BY <1>8, <2>1
  <2>4. h[i + 1] = RADIX * h[(i + 1) - 1] + Place(s[i + 1]) - 1
    BY <1>4, <2>1
  <2> QED
    BY <2>1, <2>2, <2>3, <2>4
<1>11. Nat \subseteq S
  <2> HIDE DEF S
  <2> QED
    BY <1>9, <1>10, SetInduction
<1>12. u[n] = h[n]
  BY <1>1, <1>11
<1> QED
  BY <1>3, <1>4, <1>7, <1>12 DEF n

\* ... digit by digit.
LEMMA NumberMore ==
    /\ NumberOf(<<>>) = 0
    /\ \A V : \A s \in Seq(V), c \in V :
          /\ NumberOf(s) \in Int
          /\ NumberOf(Append(s, c)) = RADIX * NumberOf(s) + Place(c) - 1
<1>1. NumberOf(<<>>) = 0
  <2>1. <<>> \in Seq({}) /\ Len(<<>>) = 0
    OBVIOUS
  <2> QED
    BY <2>1, NumberLoop
<1>2. ASSUME NEW V, NEW s \in Seq(V), NEW c \in V
      PROVE  /\ NumberOf(s) \in Int
             /\ NumberOf(Append(s, c)) = RADIX * NumberOf(s) + Place(c) - 1
  <2> DEFINE n == Len(s)
             t == Append(s, c)
  <2>1. n \in Nat /\ t \in Seq(V) /\ Len(t) = n + 1 /\ t[n + 1] = c /\ \A i \in 1..n : t[i] = s[i]
    OBVIOUS
  <2>2. PICK h \in [0..n -> Int] :
                /\ h[0] = 0
                /\ \A i \in 1..n : h[i] = RADIX * h[i - 1] + Place(s[i]) - 1
                /\ NumberOf(s) = h[n]
    BY NumberLoop
  <2> HIDE DEF t
  <2>3. PICK g \in [0..n+1 -> Int] :
                /\ g[0] = 0
                /\ \A i \in 1..n+1 : g[i] = RADIX * g[i - 1] + Place(t[i]) - 1
                /\ NumberOf(t) = g[n + 1]
    <3>1. \E g \in [0..Len(t) -> Int] :
                /\ g[0] = 0
                /\ \A i \in 1..Len(t) : g[i] = RADIX * g[i - 1] + Place(t[i]) - 1
                /\ NumberOf(t) = g[Len(t)]
      BY <2>1, NumberLoop
    <3>2. Len(t) = n + 1
      BY <2>1
    <3> HIDE DEF n
    <3> QED
      BY <3>1, <3>2
  <2> HIDE DEF n
  <2> DEFINE S == {i \in Nat : i <= n => g[i] = h[i]}
  <2>4. 0 \in S
    BY <2>1, <2>2, <2>3
  <2>5. ASSUME NEW i \in Nat, i \in S
        PROVE  i + 1 \in S
    <3> SUFFICES ASSUME i + 1 <= n
                 PROVE  g[i + 1] = h[i + 1]
      OBVIOUS
    <3>1. i + 1 \in 1..n /\ (i + 1) - 1 = i /\ i + 1 \in 1..(n + 1)
      BY <2>1
    <3>2. g[i] = h[i] /\ t[i + 1] = s[i + 1]
      BY <2>1, <2>5, <3>1
    <3>3. g[i + 1] = RADIX * g[(i + 1) - 1] + Place(t[i + 1]) - 1
      BY <2>3, <3>1
    <3>4. h[i + 1] = RADIX * h[(i + 1) - 1] + Place(s[i + 1]) - 1
      BY <2>2, <3>1
    <3> QED
      BY <3>1, <3>2, <3>3, <3>4
  <2>6. g[n] = h[n]
    <3>1. Nat \subseteq S
      <4> HIDE DEF S
      <4> QED
        BY <2>4, <2>5, SetInduction
    <3> QED
      BY <2>1, <3>1
  <2>7. g[n + 1] = RADIX * g[n] + Place(t[n + 1]) - 1
    <3>1. n + 1 \in 1..(n + 1) /\ (n + 1) - 1 = n
      BY <2>1
    <3>2. g[n + 1] = RADIX * g[(n + 1) - 1] + Place(t[n + 1]) - 1
      BY <2>3, <3>1
    <3> QED
      BY <3>1, <3>2
  <2>8. h[n] \in Int
    BY <2>1, <2>2
  <2> QED
    BY <2>1, <2>2, <2>3, <2>6, <2>7, <2>8 DEF t
<1> QED
  BY <1>1, <1>2

\* One division of ece391_itoa.
Quotient(n) == n \div RADIX
Digit(n) == lookup[1 + (n % RADIX)]

\* A division by the radix leaves a digit and a smaller number.
LEMMA DigitOf ==
    ASSUME NEW n \in Nat
    PROVE  /\ Quotient(n) \in Nat
           /\ n > 0 => Quotient(n) < n
           /\ Digit(n) \in Digits /\ n = RADIX * Quotient(n) + Place(Digit(n)) - 1
<1> DEFINE R == RADIX
<1>1. R \in Nat \ {0} /\ R \in 2..10
  BY ProgramsAssumption
<1> HIDE DEF R
<1>2. PICK q \in Nat, r \in 0..R-1 : n = q * R + r /\ n \div R = q /\ n % R = r
  BY <1>1, Division
<1>3. n > 0 => q < n
  <2>1. CASE q = 0
    BY <2>1
  <2>2. CASE q > 0
    <3>1. PICK e \in Nat : R = e + 2
      <4>1. R - 2 \in Nat /\ R = (R - 2) + 2
        BY <1>1
      <4> QED
        BY <4>1
    <3>2. q * R = q * e + q * 2 /\ q * e \in Nat
      BY <3>1
    <3> QED
      BY <1>2, <2>2, <3>2
  <2> QED
    BY <2>1, <2>2
<1>4. 1 + r \in 1..10
  BY <1>1
<1>5. Digit(n) = lookup[1 + r] /\ Quotient(n) = q
  BY <1>2 DEF Digit, Quotient, R
<1>6. Place(Digit(n)) = 1 + r /\ Digit(n) \in Digits
  BY <1>4, <1>5, PlaceOf, TenDigits
<1>7. q * R = R * q
  BY <1>1
<1> QED
  BY <1>1, <1>2, <1>3, <1>5, <1>6, <1>7 DEF R

\* The digits of a number: the lowest, then those of the quotient.
LEMMA DigitsUpDef ==
    /\ DigitsUp[0] = <<>>
    /\ \A n \in Nat : DigitsUp[n] \in Seq(Digits)
    /\ \A n \in Nat \ {0} : DigitsUp[n] = <<Digit(n)>> \o DigitsUp[Quotient(n)]
<1> DEFINE V == Seq(Digits)
           pred == [n \in Nat |-> Quotient(n)]
           step == [n \in Nat |-> [v \in V |-> <<Digit(n)>> \o v]]
           base == [n \in Nat |-> <<>>]
           Is(f) == f = [n \in Nat |-> IF n = 0 THEN <<>> ELSE <<Digit(n)>> \o f[Quotient(n)]]
<1>1. step \in [Nat -> [V -> V]] /\ base \in [Nat -> V]
  <2>1. ASSUME NEW n \in Nat, NEW v \in V
        PROVE  <<Digit(n)>> \o v \in V
    BY DigitOf
  <2>2. <<>> \in V
    OBVIOUS
  <2> HIDE DEF V
  <2> QED
    BY <2>1, <2>2
<1>2. PICK h \in [Nat -> V] : Computes(h, Nat, pred, step, base)
  <2> HIDE DEF pred, step, base, V
  <2> QED
    BY <1>1, RecursiveFunction
<1>3. ASSUME NEW n \in Nat
      PROVE  h[n] = IF n = 0 THEN <<>> ELSE <<Digit(n)>> \o h[Quotient(n)]
  <2>1. h[n] = IF pred[n] \in 0..(n - 1) THEN step[n][h[pred[n]]] ELSE base[n]
    <3> HIDE DEF pred, step, base
    <3> QED
      BY <1>2 DEF Computes
  <2>2. pred[n] = Quotient(n) /\ base[n] = <<>> /\ Quotient(n) \in Nat
    BY DigitOf
  <2>3. n # 0 => Quotient(n) \in 0..n-1
    BY DigitOf
  <2>4. n = 0 => ~(Quotient(n) \in 0..n-1)
    BY <2>2
  <2>5. step[n][h[Quotient(n)]] = <<Digit(n)>> \o h[Quotient(n)]
    <3>1. h[Quotient(n)] \in V
      BY <1>2, <2>2
    <3> HIDE DEF V
    <3> QED
      BY <3>1
  <2> HIDE DEF pred, step, base, V
  <2> QED
    BY <2>1, <2>2, <2>3, <2>4, <2>5
<1>4. Is(h)
  <2> HIDE DEF V
  <2> QED
    BY <1>2, <1>3
<1>5. Is(DigitsUp)
  <2>1. DigitsUp = CHOOSE f : Is(f)
    BY DEF DigitsUp, Digit, Quotient
  <2> HIDE DEF Is, DigitsUp
  <2> QED
    BY <1>4, <2>1
<1>6. \A n \in Nat : DigitsUp[n] = IF n = 0 THEN <<>> ELSE <<Digit(n)>> \o DigitsUp[Quotient(n)]
  BY <1>5
<1> HIDE DEF Is
<1>7. \A n \in Nat : DigitsUp[n] \in V
  <2> DEFINE D == {n \in Nat : DigitsUp[n] \notin V}
  <2> SUFFICES ASSUME D # {}
               PROVE  FALSE
    OBVIOUS
  <2>1. PICK m \in D : \A n \in D : m <= n
    BY LeastNatural, D \in SUBSET Nat
  <2>2. m \in Nat /\ DigitsUp[m] \notin V
    OBVIOUS
  <2>3. m # 0
    <3>1. <<>> \in V
      OBVIOUS
    <3> HIDE DEF V
    <3> QED
      BY <1>6, <2>2, <3>1
  <2>4. Quotient(m) \in Nat /\ Quotient(m) < m /\ Digit(m) \in Digits
    <3>1. m \in Nat /\ m > 0
      BY <2>2, <2>3
    <3> HIDE DEF D, V
    <3> QED
      BY <3>1, DigitOf
  <2>5. DigitsUp[Quotient(m)] \in V
    <3> HIDE DEF V
    <3>1. Quotient(m) \notin D
      BY <2>1, <2>2, <2>4
    <3> QED
      BY <2>4, <3>1
  <2>6. DigitsUp[m] = <<Digit(m)>> \o DigitsUp[Quotient(m)]
    BY <1>6, <2>2, <2>3
  <2> QED
    BY <2>2, <2>4, <2>5, <2>6
<1> QED
  BY <1>6, <1>7

\* Reverse puts the first element behind the others.
LEMMA Reversed ==
    ASSUME NEW V, NEW s \in Seq(V), NEW d \in V
    PROVE  Reverse(s) \in Seq(V) /\ Reverse(<<d>> \o s) = Append(Reverse(s), d)
<1> DEFINE n == Len(s)
           t == <<d>> \o s
           a == Reverse(s)
           b == Reverse(t)
<1>1. n \in Nat /\ Len(t) = n + 1 /\ t \in Seq(V) /\ t[1] = d /\ \A k \in 1..n : t[k + 1] = s[k]
  OBVIOUS
<1>2. a \in [1..n -> V] /\ \A k \in 1..n : a[k] = s[(n - k) + 1]
  BY <1>1 DEF Reverse
<1> HIDE DEF t
<1>3. b \in [1..n+1 -> V] /\ \A k \in 1..n+1 : b[k] = t[(n + 1 - k) + 1]
  BY <1>1 DEF Reverse
<1> HIDE DEF a, b, n
<1>4. a \in Seq(V) /\ Len(a) = n /\ b \in Seq(V) /\ Len(b) = n + 1
  BY <1>1, <1>2, <1>3, RowOf
<1>5. Append(a, d) \in Seq(V) /\ Len(Append(a, d)) = n + 1 /\ Append(a, d)[n + 1] = d
      /\ \A k \in 1..n : Append(a, d)[k] = a[k]
  BY <1>4, <1>1
<1>6. ASSUME NEW k \in 1..n+1
      PROVE  b[k] = Append(a, d)[k]
  <2>1. CASE k = n + 1
    <3>1. (n + 1 - k) + 1 = 1
      BY <1>1, <2>1
    <3> QED
      BY <1>1, <1>3, <1>5, <2>1, <3>1
  <2>2. CASE k # n + 1
    <3>1. k \in 1..n /\ (n - k) + 1 \in 1..n /\ (n + 1 - k) + 1 = ((n - k) + 1) + 1
      BY <1>1, <2>2
    <3>2. t[((n - k) + 1) + 1] = s[(n - k) + 1]
      BY <1>1, <3>1
    <3> QED
      BY <1>2, <1>3, <1>5, <3>1, <3>2
  <2> QED
    BY <2>1, <2>2
<1>7. b = Append(a, d)
  BY <1>4, <1>5, <1>6, SameSeq
<1> QED
  BY <1>4, <1>7 DEF a, b, t

\* itoa is the inverse of the reading of a number.
LEMMA ItoaRight ==
    ASSUME NEW n \in Nat
    PROVE  itoa(n) \in Seq(Digits) /\ NumberOf(itoa(n)) = n
<1> DEFINE T(k) == Reverse(DigitsUp[k])
           D == {k \in Nat : ~(T(k) \in Seq(Digits) /\ NumberOf(T(k)) = k)}
<1>1. D = {}
  <2> SUFFICES ASSUME D # {}
               PROVE  FALSE
    OBVIOUS
  <2>1. PICK m \in D : \A k \in D : m <= k
    BY LeastNatural, D \in SUBSET Nat
  <2>2. m \in Nat /\ ~(T(m) \in Seq(Digits) /\ NumberOf(T(m)) = m)
    OBVIOUS
  <2> DEFINE q == Quotient(m)
             d == Digit(m)
  <2>3. CASE m = 0
    <3>1. T(m) = <<>>
      BY <2>3, DigitsUpDef DEF Reverse
    <3>2. <<>> \in Seq(Digits)
      OBVIOUS
    <3> QED
      BY <2>2, <2>3, <3>1, <3>2, NumberMore
  <2>4. CASE m # 0
    <3>1. q \in Nat /\ q < m /\ d \in Digits /\ m = RADIX * q + Place(d) - 1
      BY <2>2, <2>4, DigitOf
    <3>2. T(q) \in Seq(Digits) /\ NumberOf(T(q)) = q
      <4>1. q \notin D
        BY <2>1, <2>2, <3>1
      <4> QED
        BY <3>1, <4>1
    <3>3. DigitsUp[m] = <<d>> \o DigitsUp[q] /\ DigitsUp[q] \in Seq(Digits)
      BY <2>2, <2>4, <3>1, DigitsUpDef
    <3>4. T(m) = Append(T(q), d)
      <4> DEFINE s == DigitsUp[q]
      <4> HIDE DEF s, d
      <4>1. Reverse(<<d>> \o s) = Append(Reverse(s), d)
        BY <3>1, <3>3, Reversed DEF s
      <4> QED
        BY <3>3, <4>1 DEF s
    <3>5. NumberOf(Append(T(q), d)) = RADIX * NumberOf(T(q)) + Place(d) - 1
      <4> HIDE DEF T, d
      <4> QED
        BY <3>1, <3>2, NumberMore
    <3>6. T(m) \in Seq(Digits)
      <4> HIDE DEF T, d
      <4> QED
        BY <3>1, <3>2, <3>4
    <3>7. NumberOf(T(m)) = m
      BY <3>1, <3>2, <3>4, <3>5
    <3> QED
      BY <2>2, <3>6, <3>7
  <2> QED
    BY <2>3, <2>4
<1>2. T(n) \in Seq(Digits) /\ NumberOf(T(n)) = n
  BY <1>1
<1>3. CASE n = 0
  <2> DEFINE z == "0"
             e == <<>>
  <2>1. z \in Digits /\ Place(z) = 1
    <3>1. lookup[1] = "0" /\ 1 \in 1..10
      BY DEF lookup
    <3> QED
      BY <3>1, TenDigits, PlaceOf
  <2>2. e \in Seq(Digits) /\ Append(e, z) = <<"0">>
    OBVIOUS
  <2>3. itoa(n) = <<"0">>
    BY <1>3 DEF itoa
  <2>4. NumberOf(Append(e, z)) = RADIX * NumberOf(e) + Place(z) - 1 /\ NumberOf(e) = 0
    <3>1. NumberOf(e) = 0
      BY NumberMore
    <3> HIDE DEF e, z
    <3> QED
      BY <2>1, <2>2, <3>1, NumberMore
  <2>5. RADIX * 0 = 0
    BY ProgramsAssumption
  <2>6. Append(e, z) \in Seq(Digits)
    BY <2>1, <2>2
  <2>7. itoa(n) = Append(e, z)
    BY <2>2, <2>3
  <2> HIDE DEF e, z
  <2>8. NumberOf(Append(e, z)) = 0
    BY <2>1, <2>4, <2>5
  <2> QED
    BY <1>3, <2>6, <2>7, <2>8
<1>4. CASE n # 0
  BY <1>2, <1>4 DEF itoa
<1> QED
  BY <1>3, <1>4

\* A number more, on a line of its own.
LEMMA CountedMore ==
    ASSUME NEW text \in Seq(Chars), NEW n \in Nat, Counted(text, n)
    PROVE  /\ itoa(n + 1) \o <<NL>> \in Seq(Chars)
           /\ Counted(text \o (itoa(n + 1) \o <<NL>>), n + 1)
<1> DEFINE d == itoa(n + 1)
           l == Lines(text)
           f == Front(l)
           W == Seq(Chars)
           e == <<>>
           nl == NL
           new == Append(f, d)
<1>1. d \in Seq(Digits) /\ NumberOf(d) = n + 1
  BY ItoaRight, n + 1 \in Nat
<1>2. d \in Seq(Chars) /\ d \in Seq(Chars \ {NL}) /\ nl \in Chars /\ e \in W
  <2>1. Digits \subseteq Chars \ {NL} /\ Digits \subseteq Chars
    BY TenDigits
  <2>2. nl \in Chars
    BY WordsWritten DEF Words
  <2> QED
    BY <1>1, <2>1, <2>2, WiderSeq
<1>3. l \in Texts(Chars)
  BY <1>2, LinesMore
<1>4. l \in Seq(W) /\ Len(l) = n + 1 /\ Last(l) = e /\ \A k \in 1..n : NumberOf(l[k]) = k
  BY <1>3 DEF Texts, Counted, Last
<1> HIDE DEF d, l, nl
<1>5. f \in Seq(W) /\ Len(f) = n /\ \A k \in 1..n : f[k] = l[k]
  <2> HIDE DEF W
  <2>1. Len(l) > 0 /\ Len(l) - 1 = n
    BY <1>4
  <2> QED
    BY <1>4, <2>1, LastAndFront
<1>6. Lines(text \o d) = new
  <2>1. Lines(text \o d) = f \o Lines(Last(l) \o d)
    BY <1>2, LinesBehind DEF l
  <2>2. Last(l) \o d = d
    BY <1>2, <1>4
  <2>3. Lines(d) = <<d>>
    BY <1>2, OneLine
  <2>4. f \o <<d>> = Append(f, d)
    <3> HIDE DEF W, f
    <3> QED
      BY <1>2, <1>5 DEF W
  <2> QED
    BY <2>1, <2>2, <2>3, <2>4
<1> HIDE DEF f
<1>7. new \in Seq(W) /\ Len(new) = n + 1 /\ new[n + 1] = d /\ \A k \in 1..n : new[k] = f[k]
  <2>1. d \in W
    BY <1>2
  <2> HIDE DEF W
  <2> QED
    BY <1>5, <2>1
<1> HIDE DEF new
<1>8. text \o d \in Seq(Chars) /\ text \o (d \o <<nl>>) = Append(text \o d, nl)
      /\ d \o <<nl>> \in Seq(Chars)
  BY <1>2
<1>9. Lines(Append(text \o d, nl)) = Append(new, e)
  <2>1. Lines(Append(text \o d, nl)) = Broken(new, nl)
    BY <1>2, <1>6, <1>8, LinesMore
  <2> QED
    BY <2>1 DEF Broken, nl
<1>10. LET z == Append(new, e) IN
       /\ Len(z) = n + 2 /\ z[n + 2] = e /\ z[n + 1] = d /\ \A k \in 1..n : z[k] = f[k]
  <2> HIDE DEF W, e
  <2> QED
    BY <1>2, <1>7
<1>11. \A k \in 1..n+1 : NumberOf(Append(new, e)[k]) = k
  <2> SUFFICES ASSUME NEW k \in 1..n+1
               PROVE  NumberOf(Append(new, e)[k]) = k
    OBVIOUS
  <2>1. k \in 1..n \/ k = n + 1
    OBVIOUS
  <2> QED
    BY <1>1, <1>4, <1>5, <1>10, <2>1
<1>12. Counted(Append(text \o d, nl), n + 1)
  <2>1. (n + 1) + 1 = n + 2
    OBVIOUS
  <2> HIDE DEF e
  <2>2. Len(Lines(Append(text \o d, nl))) = n + 2 /\ Lines(Append(text \o d, nl))[n + 2] = e
    BY <1>9, <1>10
  <2> QED
    BY <1>9, <1>11, <2>1, <2>2 DEF Counted, e
<1> QED
  BY <1>8, <1>12 DEF d, nl

\* At first counter has written no number.
LEMMA CountedNone == Counted(<<>>, 0)
<1>1. Len(<< <<>> >>) = 1 /\ << <<>> >>[1] = <<>>
  OBVIOUS
<1> QED
  BY <1>1, LinesOfNothing DEF Counted

\* The choice of a maximum keeps ProgramsInv.
LEMMA CounterReadStep ==
    ASSUME ProgramsInv, NEW line \in Replies, CounterRead(line)
    PROVE  ProgramsInv'
<1>1. Kept /\ Task = "counter"
  BY TaskAt DEF ProgramsInv, CounterRead, Owner
<1>2. Now = Fresh("counter") /\ Mine = {} /\ Out = <<>>
  BY DEF ProgramsInv, Inside, Starting, At, CounterRead, Places
<1>3. /\ FilesInv /\ IsLocals(Now) /\ Out \in Seq(Printed) /\ UNCHANGED <<args, cmd>>
      /\ Now.i = 0
  BY <1>1, <1>2, RunningProgram DEF CounterRead, Fresh
<1>4. FilesInv' /\ stack' = stack
  BY <1>3, AnswerOutcome DEF CounterRead
<1> DEFINE Wrong == Len(line) > 1 \/ (Len(line) = 1 /\ line[1] \notin DOMAIN CounterMax)
<1>5. CASE Wrong
  <2> DEFINE text == <<"Wrong_Choice">>
  <2>1. Become(Ended(0)) /\ Write(text)
    BY <1>5 DEF CounterRead, Exit, Ended
  <2>2. text \in Seq(Printed)
    <3>1. "Wrong_Choice" \in Words
      BY DEF Words
    <3> QED
      BY <3>1, WordsWritten
  <2> HIDE DEF text
  <2>3. Move(Ended(0), Out \o text)
    BY <1>1, <1>3, <1>4, <2>1, WritingMove
  <2>4. Out \o text \in Seq(Printed)
    BY <1>3, <2>2
  <2>5. Kept' /\ At("halt")' /\ Task' = Task /\ Now'.i = Now.i
    BY <1>1, <1>4, <2>3, <2>4, Statuses, Exits
  <2>6. Finished'
    BY <1>1, <1>3, <2>5 DEF Finished, CountDone
  <2> QED
    BY <1>1, <2>5, <2>6, Ends
<1>6. CASE ~Wrong
  <2> DEFINE m == IF line = <<>> THEN 0 ELSE CounterMax[line[1]]
             r == [Now EXCEPT !.pc = "count", !.chosen = m]
  <2>1. Become(r) /\ Silent
    BY <1>6 DEF CounterRead
  <2>2. m \in Nat
    <3>1. line \in Seq(Chars) /\ Len(line) \in Nat
      BY LinesTyped
    <3>2. line # <<>> => Len(line) = 1
      <4>1. Len(line) = 0 => line = <<>>
        BY <3>1
      <4>2. ~(Len(line) > 1)
        BY <1>6
      <4>3. Len(line) = 0 \/ Len(line) = 1
        BY <3>1, <4>2
      <4> QED
        BY <4>1, <4>3, Zenon
    <3>3. line # <<>> => line[1] \in DOMAIN CounterMax
      BY <1>6, <3>2
    <3> QED
      BY <3>3, ProgramsAssumption
  <2> HIDE DEF m
  <2>3. IsLocals(r) /\ r.pc = "count" /\ r.chosen = m /\ r.i = Now.i
    BY <1>3, <2>2 DEF IsLocals
  <2> HIDE DEF r
  <2>4. Move(r, Out)
    BY <1>1, <1>3, <1>4, <2>1, SilentMove DEF Silent
  <2>5. Kept' /\ Now' = r /\ Out' = Out /\ Task' = Task
    BY <1>1, <1>3, <1>4, <2>3, <2>4, Moved DEF Owner
  <2>6. Counting'
    <3>1. <<>> \in Seq(Chars) /\ 0 <= m
      BY <2>2
    <3> QED
      BY <1>2, <1>3, <2>3, <2>5, <3>1, CountedNone DEF Counting
  <2>7. Inside'
    BY <1>1, <2>3, <2>5, <2>6 DEF Inside, At, Places
  <2> QED
    BY <2>5, <2>7 DEF ProgramsInv
<1> QED
  BY <1>5, <1>6

\* One number more keeps ProgramsInv: its line reads as the number that follows the
\* last, and at the end all up to the chosen one are written.
LEMMA CountStep ==
    ASSUME ProgramsInv, Count
    PROVE  ProgramsInv'
<1> DEFINE i == Now.i
<1>1. Kept /\ Task = "counter" /\ Counting
  BY TaskAt DEF ProgramsInv, Count, Owner, Inside
<1>2. /\ FilesInv /\ IsLocals(Now) /\ Out \in Seq(Printed) /\ UNCHANGED <<args, cmd>>
      /\ i \in Nat /\ Now.chosen \in Nat
  BY <1>1, RunningProgram DEF Count, IsLocals
<1>3. FilesInv' /\ stack' = stack
  BY <1>2, AnswerOutcome DEF Count
<1>4. i <= Now.chosen /\ Out \in Seq(Chars) /\ Counted(Out, i)
  BY <1>1 DEF Counting
<1>5. CASE i < Now.chosen
  <2> DEFINE text == itoa(i + 1) \o <<NL>>
             r == [Now EXCEPT !.i = @ + 1]
  <2>1. Become(r) /\ Write(text)
    BY <1>5 DEF Count
  <2>2. text \in Seq(Chars) /\ Counted(Out \o text, i + 1)
    BY <1>2, <1>4, CountedMore
  <2>3. IsLocals(r) /\ r.pc = "count" /\ r.chosen = Now.chosen /\ r.i = i + 1
    BY <1>2 DEF IsLocals, Count, At
  <2> HIDE DEF text, r
  <2>4. Move(r, Out \o text)
    BY <1>1, <1>2, <1>3, <2>1, WritingMove
  <2>5. Out \o text \in Seq(Chars) /\ Out \o text \in Seq(Printed)
    <3>1. Out \o text \in Seq(Chars)
      BY <1>4, <2>2
    <3> QED
      BY <3>1, Written
  <2>6. Kept' /\ Now' = r /\ Out' = Out \o text /\ Task' = Task
    BY <1>1, <1>3, <2>3, <2>4, <2>5, Moved DEF Owner
  <2>7. Counting'
    <3>1. i + 1 <= Now.chosen
      BY <1>2, <1>5
    <3> QED
      BY <2>2, <2>3, <2>5, <2>6, <3>1 DEF Counting
  <2>8. Inside'
    BY <1>1, <2>3, <2>6, <2>7 DEF Inside, At, Places
  <2> QED
    BY <2>6, <2>8 DEF ProgramsInv
<1>6. CASE ~(i < Now.chosen)
  <2>1. Exit(0) /\ Silent
    BY <1>6 DEF Count
  <2>2. Move(Ended(0), Out)
    BY <1>1, <1>2, <1>3, <2>1, SilentMove DEF Exit, Ended, Silent
  <2>3. Kept' /\ At("halt")' /\ Task' = Task /\ Now'.i = i /\ Now'.chosen = Now.chosen /\ Out' = Out
    BY <1>1, <1>2, <1>3, <2>2, Statuses, Exits
  <2>4. i = Now.chosen
    BY <1>2, <1>4, <1>6
  <2>5. Finished'
    BY <1>1, <1>4, <2>3, <2>4 DEF Finished, CountDone
  <2> QED
    BY <1>1, <2>3, <2>5, Ends
<1> QED
  BY <1>5, <1>6

-----------------------------------------------------------------------------
(***************************************************************************)
(* grep                                                                    *)
(***************************************************************************)
\* The lines m are those of l, and more: the last line of l goes on in m.
GoesOn(l, m) ==
    /\ Len(m) >= Len(l)
    /\ \A k \in 1..Len(l)-1 : m[k] = l[k]
    /\ Len(m[Len(l)]) >= Len(l[Len(l)])
    /\ \A j \in 1..Len(l[Len(l)]) : m[Len(l)][j] = l[Len(l)][j]

\* One character more leaves the lines before the last.
LEMMA BrokenAt ==
    ASSUME NEW V, NEW l \in Texts(V), NEW c \in V
    PROVE  LET m == Broken(l, c)
               n == Len(l)
           IN
           /\ n \in Nat /\ n > 0 /\ \A k \in 1..n-1 : m[k] = l[k]
           /\ c = NL => Len(m) = n + 1 /\ m[n] = l[n] /\ m[n + 1] = <<>>
           /\ c # NL => Len(m) = n /\ m[n] = Append(l[n], c)
<1> DEFINE W == Seq(V)
           n == Len(l)
           e == <<>>
           x == Append(l[n], c)
<1>1. l \in Seq(W) /\ n \in Nat /\ n > 0 /\ e \in W /\ l[n] \in W
  BY DEF Texts
<1>2. x \in W
  BY <1>1
<1>3. CASE c = NL
  <2>1. Broken(l, c) = Append(l, e)
    BY <1>3 DEF Broken
  <2>2. /\ Len(Append(l, e)) = n + 1 /\ Append(l, e)[n + 1] = e
        /\ \A k \in 1..n : Append(l, e)[k] = l[k]
    <3> HIDE DEF W, e
    <3> QED
      BY <1>1
  <2> QED
    BY <1>1, <1>3, <2>1, <2>2
<1>4. CASE c # NL
  <2>1. Broken(l, c) = [l EXCEPT ![n] = x]
    BY <1>4 DEF Broken
  <2> DEFINE m == [l EXCEPT ![n] = x]
  <2>2. Len(m) = n /\ m[n] = x /\ \A k \in 1..n-1 : m[k] = l[k]
    <3> HIDE DEF W, x
    <3> QED
      BY <1>1, <1>2
  <2> QED
    BY <1>1, <1>4, <2>1, <2>2
<1> QED
  BY <1>3, <1>4

\* Lines that go on still do with one character more.
LEMMA OneMore ==
    ASSUME NEW V, NEW l \in Texts(V), NEW m \in Texts(V), GoesOn(l, m), NEW c \in V
    PROVE  GoesOn(l, Broken(m, c))
<1> DEFINE n == Len(l)
           h == Len(m)
           b == Broken(m, c)
<1>1. /\ n \in Nat /\ n > 0 /\ h \in Nat /\ h >= n /\ l[n] \in Seq(V) /\ m[n] \in Seq(V)
      /\ m[h] \in Seq(V)
  BY DEF Texts, GoesOn
<1>2. /\ \A k \in 1..n-1 : m[k] = l[k]
      /\ Len(m[n]) >= Len(l[n]) /\ \A j \in 1..Len(l[n]) : m[n][j] = l[n][j]
  BY DEF GoesOn
<1>3. /\ \A k \in 1..h-1 : b[k] = m[k]
      /\ c = NL => Len(b) = h + 1 /\ b[h] = m[h]
      /\ c # NL => Len(b) = h /\ b[h] = Append(m[h], c)
  BY BrokenAt
<1> HIDE DEF b, n, h
<1>4. Len(b) >= n
  BY <1>1, <1>3
<1>5. \A k \in 1..n-1 : b[k] = l[k]
  <2> SUFFICES ASSUME NEW k \in 1..n-1
               PROVE  b[k] = l[k]
    OBVIOUS
  <2>1. k \in 1..h-1
    BY <1>1
  <2> QED
    BY <1>2, <1>3, <2>1
<1>6. Len(b[n]) >= Len(l[n]) /\ \A j \in 1..Len(l[n]) : b[n][j] = l[n][j]
  <2>0. Len(l[n]) \in Nat /\ Len(m[n]) \in Nat
    BY <1>1
  <2>1. CASE n < h \/ c = NL
    <3>1. n \in 1..h-1 \/ (n = h /\ c = NL)
      BY <1>1, <2>1
    <3>2. b[n] = m[n]
      BY <1>3, <3>1
    <3> QED
      BY <1>2, <3>2
  <2>2. CASE n = h /\ c # NL
    <3>1. b[n] = Append(m[n], c)
      BY <1>3, <2>2
    <3> DEFINE y == m[n]
    <3>2. y \in Seq(V)
      BY <1>1
    <3> HIDE DEF y
    <3>3. Len(Append(y, c)) = Len(y) + 1 /\ \A j \in 1..Len(y) : Append(y, c)[j] = y[j]
      BY <3>2
    <3>4. \A j \in 1..Len(l[n]) : j \in 1..Len(y)
      BY <1>2, <2>0 DEF y
    <3>5. Len(y) + 1 >= Len(l[n])
      BY <1>2, <2>0 DEF y
    <3> QED
      BY <1>2, <3>1, <3>3, <3>4, <3>5 DEF y
  <2> QED
    BY <1>1, <2>1, <2>2
<1> QED
  BY <1>4, <1>5, <1>6 DEF GoesOn, n, b

\* The lines of the beginning of a text are the first ones of the text.
LEMMA LinesGoOn ==
    ASSUME NEW V, NEW text \in Seq(V), NEW more \in Seq(V)
    PROVE  GoesOn(Lines(text), Lines(text \o more)) /\ Lines(text) \in Texts(V)
<1> DEFINE l == Lines(text)
           S == {d \in Seq(V) : GoesOn(l, Lines(text \o d))}
<1>1. l \in Texts(V)
  <2>1. PICK h \in [0..Len(text) -> Texts(V)] : Lines(text) = h[Len(text)]
    BY LinesLoop
  <2> QED
    BY <2>1
<1>2. <<>> \in S
  <2>1. text \o <<>> = text /\ <<>> \in Seq(V)
    OBVIOUS
  <2>2. Len(l) \in Nat /\ Len(l[Len(l)]) \in Nat
    <3> HIDE DEF l
    <3>1. Len(l) \in Nat /\ l[Len(l)] \in Seq(V)
      BY <1>1 DEF Texts
    <3> QED
      BY <3>1
  <2>3. GoesOn(l, l)
    <3> HIDE DEF l
    <3> QED
      BY <2>2 DEF GoesOn
  <2> QED
    BY <2>1, <2>3
<1>3. ASSUME NEW d \in Seq(V), NEW c \in V, d \in S
      PROVE  Append(d, c) \in S
  <2> DEFINE m == Lines(text \o d)
  <2>1. text \o Append(d, c) = Append(text \o d, c) /\ text \o d \in Seq(V) /\ Append(d, c) \in Seq(V)
    OBVIOUS
  <2>2. Lines(Append(text \o d, c)) = Broken(m, c) /\ m \in Texts(V)
    BY <2>1, LinesMore
  <2>3. GoesOn(l, m)
    BY <1>3
  <2> HIDE DEF l, m
  <2>4. GoesOn(l, Broken(m, c))
    BY <1>1, <2>2, <2>3, OneMore
  <2> QED
    BY <2>1, <2>2, <2>4
<1>4. Seq(V) \subseteq S
  <2> HIDE DEF S
  <2> QED
    BY <1>2, <1>3, SequenceInduction
<1> QED
  BY <1>1, <1>4

\* What is reported of a line.
Item(name, line, s) ==
    IF Matches(line, s) THEN name \o <<":">> \o line \o <<NL>> ELSE <<>>

\* What is reported of each line, in order.
Items(name, lines, s) == [k \in DOMAIN lines |-> Item(name, lines[k], s)]

AreItems(f, name, lines, s) ==
    /\ f \in Seq(Seq(Chars)) /\ Len(f) = Len(lines)
    /\ \A k \in 1..Len(lines) : f[k] = Item(name, lines[k], s)

\* The report consists of one item for each line, ...
LEMMA ItemsTyped ==
    ASSUME NEW name \in Seq(Chars), NEW lines \in Seq(Seq(Chars)), NEW s
    PROVE  AreItems(Items(name, lines, s), name, lines, s)
<1> DEFINE n == Len(lines)
           f == Items(name, lines, s)
<1>1. n \in Nat /\ DOMAIN lines = 1..n /\ \A k \in 1..n : lines[k] \in Seq(Chars)
  OBVIOUS
<1>2. ASSUME NEW line \in Seq(Chars)
      PROVE  Item(name, line, s) \in Seq(Chars)
  <2>1. ":" \in Chars /\ NL \in Chars
    BY WordsWritten DEF Words
  <2>2. name \o <<":">> \o line \o <<NL>> \in Seq(Chars) /\ <<>> \in Seq(Chars)
    BY <2>1
  <2> QED
    BY <2>2 DEF Item
<1> HIDE DEF n
<1>3. f = [k \in 1..n |-> Item(name, lines[k], s)]
  BY <1>1 DEF Items
<1>4. f \in [1..n -> Seq(Chars)]
  BY <1>1, <1>2, <1>3
<1> DEFINE W == Seq(Chars)
<1> HIDE DEF W, f
<1>5. f \in Seq(W) /\ Len(f) = n
  <2>1. f \in [1..n -> W]
    BY <1>4 DEF W
  <2> QED
    BY <1>1, <2>1, RowOf
<1> QED
  BY <1>3, <1>5 DEF W, f, n, AreItems

\* ... put together, ...
LEMMA Reports ==
    ASSUME NEW name \in Seq(Chars), NEW lines \in Seq(Seq(Chars)), NEW s
    PROVE  /\ Report(name, lines, s) = FlattenSeq(Items(name, lines, s))
           /\ Report(name, lines, s) \in Seq(Chars)
<1>1. Report(name, lines, s) = FlattenSeq(Items(name, lines, s))
  BY DEF Report, Items, Item
<1>2. Items(name, lines, s) \in Seq(Seq(Chars))
  BY ItemsTyped DEF AreItems
<1>3. FlattenSeq(Items(name, lines, s)) \in Seq(Chars)
  <2>1. <<>> \in Seq(Chars)
    OBVIOUS
  <2> QED
    BY <1>2, <2>1, FlattenMore
<1> QED
  BY <1>1, <1>3

\* ... so that the report of two groups of lines is one behind the other.
LEMMA ReportBoth ==
    ASSUME NEW name \in Seq(Chars), NEW a \in Seq(Seq(Chars)), NEW b \in Seq(Seq(Chars)), NEW s
    PROVE  Report(name, a \o b, s) = Report(name, a, s) \o Report(name, b, s)
<1> DEFINE W == Seq(Chars)
           I(l) == Items(name, l, s)
           ab == a \o b
           n == Len(a)
           h == Len(b)
<1>1. ab \in Seq(W) /\ n \in Nat /\ h \in Nat /\ IsJoin(ab, a, b)
  <2>1. a \in Seq(W) /\ b \in Seq(W)
    OBVIOUS
  <2> HIDE DEF W
  <2> QED
    BY <2>1, Joined
<1>2. Len(ab) = n + h /\ (\A k \in 1..n : ab[k] = a[k]) /\ \A k \in 1..h : ab[n + k] = b[k]
  BY <1>1 DEF IsJoin
<1> HIDE DEF ab
<1>3. /\ I(a) \in Seq(W) /\ I(b) \in Seq(W) /\ I(ab) \in Seq(W)
      /\ Len(I(a)) = n /\ Len(I(b)) = h /\ Len(I(ab)) = n + h
      /\ \A k \in 1..n : I(a)[k] = Item(name, a[k], s)
      /\ \A k \in 1..h : I(b)[k] = Item(name, b[k], s)
      /\ \A k \in 1..n+h : I(ab)[k] = Item(name, ab[k], s)
  <2>1. /\ AreItems(I(a), name, a, s) /\ AreItems(I(b), name, b, s)
        /\ AreItems(I(ab), name, ab, s)
    BY <1>1, ItemsTyped
  <2> HIDE DEF I
  <2> QED
    BY <1>2, <2>1 DEF AreItems
<1> DEFINE u == I(a)
           v == I(b)
           z == I(ab)
           uv == u \o v
<1> HIDE DEF I, u, v, z, W, n, h
<1>4. uv \in Seq(W) /\ IsJoin(uv, u, v)
  BY <1>3, Joined DEF u, v
<1>5. Len(uv) = n + h /\ (\A k \in 1..n : uv[k] = u[k]) /\ \A k \in 1..h : uv[n + k] = v[k]
  BY <1>3, <1>4 DEF IsJoin, u, v
<1> HIDE DEF uv
<1>6. ASSUME NEW k \in 1..n+h
      PROVE  z[k] = uv[k]
  <2>1. CASE k \in 1..n
    BY <1>2, <1>3, <1>5, <2>1 DEF u, z
  <2>2. CASE k \notin 1..n
    <3> DEFINE j == k - n
    <3>1. j \in 1..h /\ k = n + j
      BY <1>1, <2>2
    <3> HIDE DEF j
    <3>2. z[k] = Item(name, b[j], s)
      BY <1>2, <1>3, <3>1 DEF z
    <3> QED
      BY <1>3, <1>5, <3>1, <3>2 DEF v
  <2> QED
    BY <2>1, <2>2
<1>7. z = uv
  <2>1. z \in Seq(W) /\ Len(z) = n + h
    BY <1>3 DEF z
  <2> QED
    BY <1>4, <1>5, <1>6, <2>1, SameSeq
<1>8. FlattenSeq(uv) = FlattenSeq(u) \o FlattenSeq(v)
  BY <1>3, FlattenBoth DEF uv, u, v, W
<1>9. /\ Report(name, a, s) = FlattenSeq(u) /\ Report(name, b, s) = FlattenSeq(v)
      /\ Report(name, ab, s) = FlattenSeq(z)
  BY <1>1, Reports DEF u, v, z, W, I
<1> QED
  BY <1>7, <1>8, <1>9 DEF ab

\* An empty line is not reported.
LEMMA ReportEmpty ==
    ASSUME NEW name \in Seq(Chars), NEW s
    PROVE  Report(name, << <<>> >>, s) = <<>> /\ Report(name, <<>>, s) = <<>>
<1>1. Items(name, <<>>, s) = <<>>
  BY DEF Items
<1>2. Items(name, << <<>> >>, s) = << <<>> >>
  <2>1. ~Matches(<<>>, s)
    BY DEF Matches
  <2>2. DOMAIN << <<>> >> = {1} /\ << <<>> >>[1] = <<>>
    OBVIOUS
  <2> QED
    BY <2>1, <2>2 DEF Items, Item
<1>3. << <<>> >> \in Seq(Seq(Chars)) /\ <<>> \in Seq(Seq(Chars)) /\ <<>> \in Seq(Chars)
  OBVIOUS
<1>4. FlattenSeq(<< <<>> >>) = <<>>
  <2> DEFINE e == <<>>
             z == <<>>
             W == Seq(Chars)
  <2>1. FlattenSeq(Append(z, e)) = FlattenSeq(z) \o e
    <3>1. z \in Seq(Seq(Chars)) /\ e \in Seq(Chars)
      OBVIOUS
    <3> HIDE DEF z, e
    <3> QED
      BY <3>1, FlattenMore
  <2>2. Append(z, e) = << <<>> >> /\ FlattenSeq(z) \o e = <<>>
    BY FlattenNothing
  <2> QED
    BY <2>1, <2>2
<1> QED
  BY <1>1, <1>2, <1>3, <1>4, Reports, FlattenNothing, ZenonT(60)

\* The text, the lines and the report of an entry.
LEMMA EntryText ==
    ASSUME NEW k \in DOMAIN dentries
    PROVE  /\ Bytes(dentries[k]) \in Seq(Chars)
           /\ Lines(Bytes(dentries[k])) \in Seq(Seq(Chars))
           /\ dentries[k].file_name \in Seq(Chars)
           /\ \A s : Searched(s, dentries[k]) \in Seq(Chars)
           /\ dentries[k].file_type # "file" => \A s : Searched(s, dentries[k]) = <<>>
<1> DEFINE d == dentries[k]
           n == d.inode_num
           t == Bytes(d)
<1>1. d.file_type \in Types /\ k \in 1..num_dir_entries /\ d.file_name \in Seq(Chars)
  BY Entries
<1>2. t \in Seq(Chars)
  <2>1. CASE d.file_type = "file"
    <3> DEFINE l == inodes[n].length
               f == [i \in 1..l |-> Show(ByteAt(inodes[n], i - 1))]
    <3>1. n \in DOMAIN inodes /\ l \in Nat
      BY <1>1, <2>1, ImageAssumption
    <3>2. FileBytes(n) = [i \in 1..l |-> ByteAt(inodes[n], i - 1)]
      BY <3>1, FileAt
    <3>3. t = f
      BY <2>1, <3>2 DEF ShowAll, Bytes
    <3>4. f \in [1..l -> Chars]
      <4>1. \A byte : Show(byte) \in Chars
        BY WordsAreChars DEF Show
      <4> QED
        BY <4>1
    <3> HIDE DEF f, l
    <3>5. f \in Seq(Chars)
      BY <3>1, <3>4, RowOf
    <3> QED
      BY <3>3, <3>5
  <2>2. CASE d.file_type # "file"
    BY <2>2 DEF Bytes
  <2> QED
    BY <2>1, <2>2
<1> HIDE DEF t
<1>3. Lines(t) \in Seq(Seq(Chars))
  <2>1. NL \in Chars
    BY WordsWritten DEF Words
  <2>2. Lines(t) \in Texts(Chars)
    BY <1>2, <2>1, LinesMore
  <2> QED
    BY <2>2 DEF Texts
<1>4. ASSUME NEW s
      PROVE  Searched(s, d) \in Seq(Chars)
  <2>1. Searched(s, d) = Report(d.file_name, Lines(t), s)
    BY DEF Searched, t
  <2> QED
    BY <1>1, <1>3, <2>1, Reports
<1>5. ASSUME d.file_type # "file", NEW s
      PROVE  Searched(s, d) = <<>>
  <2>1. t = <<>>
    BY <1>5 DEF t, Bytes
  <2>2. Searched(s, d) = Report(d.file_name, << <<>> >>, s)
    BY <2>1, LinesOfNothing DEF Searched, t
  <2> QED
    BY <1>1, <2>2, ReportEmpty
<1> QED
  BY <1>1, <1>2, <1>3, <1>4, <1>5 DEF t

\* grep has searched one file more, ...
LEMMA ReportedMore ==
    ASSUME NEW s, NEW n \in Nat, n + 1 \in DOMAIN dentries
    PROVE  /\ Reported(s, n) \in Seq(Chars)
           /\ Reported(s, n + 1) = Reported(s, n) \o Searched(s, dentries[n + 1])
<1> DEFINE f == [k \in 1..n+1 |-> Searched(s, dentries[k])]
           g == [k \in 1..n |-> f[k]]
<1>1. \A k \in 1..n+1 : Searched(s, dentries[k]) \in Seq(Chars)
  BY Entries, EntryText
<1>2. f \in [1..n+1 -> Seq(Chars)]
  BY <1>1
<1>3. f[n + 1] = Searched(s, dentries[n + 1])
  OBVIOUS
<1>4. g = [k \in 1..n |-> Searched(s, dentries[k])]
  BY \A k \in 1..n : k \in 1..n+1
<1> HIDE DEF f
<1>5. FlattenSeq(f) = FlattenSeq(g) \o f[n + 1] /\ FlattenSeq(g) \in Seq(Chars)
  BY <1>2, FlattenRow
<1> QED
  BY <1>3, <1>4, <1>5 DEF Reported, f

\* ... and at first none.
LEMMA ReportedNone == \A s : Reported(s, 0) = <<>>
<1> SUFFICES ASSUME NEW s
             PROVE  Reported(s, 0) = <<>>
  OBVIOUS
<1>1. [k \in 1..0 |-> Searched(s, dentries[k])] = <<>>
  OBVIOUS
<1> QED
  BY <1>1, FlattenNothing DEF Reported

\* grep's open() of the directory keeps ProgramsInv.
LEMMA GrepStartStep ==
    ASSUME ProgramsInv, GrepStart
    PROVE  ProgramsInv'
<1>1. Kept /\ Task = "grep"
  BY TaskAt DEF ProgramsInv, GrepStart, Owner
<1>2. Now = Fresh("grep") /\ Mine = {} /\ Out = <<>>
  BY DEF ProgramsInv, Inside, Starting, At, GrepStart, Places
<1>3. /\ FilesInv /\ IsLocals(Now) /\ Out \in Seq(Printed) /\ UNCHANGED <<args, cmd>>
  BY <1>1, RunningProgram DEF GrepStart
<1>4. CASE NoArgs
  <2> DEFINE text == <<"could_not_read_argument">>
  <2>1. Answers(0) /\ Become(Ended(3)) /\ Write(text) /\ Args = <<>>
    BY <1>4 DEF GrepStart, NoArgs, Args, Exit, Ended
  <2>2. FilesInv' /\ stack' = stack
    BY <1>3, <2>1, AnswerOutcome
  <2>3. text \in Seq(Printed)
    <3>1. "could_not_read_argument" \in Words
      BY DEF Words
    <3> QED
      BY <3>1, WordsWritten
  <2> HIDE DEF text
  <2>4. Move(Ended(3), Out \o text)
    BY <1>1, <1>3, <2>1, <2>2, WritingMove
  <2>5. Out \o text \in Seq(Printed)
    BY <1>3, <2>3
  <2>6. Kept' /\ At("halt")' /\ Task' = Task /\ Args' = Args
    BY <1>1, <2>2, <2>4, <2>5, Statuses, Exits
  <2>7. Finished'
    BY <1>1, <2>1, <2>6 DEF Finished, GrepDone
  <2> QED
    BY <1>1, <2>6, <2>7, Ends
<1>5. CASE ~NoArgs
  <2>0. open(<<".">>) /\ Args # <<>>
    BY <1>5 DEF GrepStart, NoArgs, Args
  <2>1. FilesInv' /\ stack' = stack
    BY <1>2, <1>3, <2>0, DotOpened
  <2>2. PICK fd \in Given :
           /\ result'.value = fd /\ fd # -1 /\ fd \in -1..MAX_FILES-1
           /\ opened'[Current] = {fd}
           /\ files'[Current][fd].ops = "dir" /\ files'[Current][fd].pos = 0
    BY <1>2, <1>3, <2>0, DotOpened
  <2> DEFINE r == [Now EXCEPT !.pc = "grep dir", !.fd = fd]
  <2>3. Become(r) /\ Silent
    BY <1>5, <2>2 DEF GrepStart, Failed
  <2>4. IsLocals(r) /\ r.pc = "grep dir" /\ r.fd = fd
    BY <1>3, <2>2 DEF IsLocals
  <2> HIDE DEF r
  <2>5. Move(r, Out)
    BY <1>1, <1>3, <2>1, <2>3, SilentMove DEF Silent
  <2>6. Kept' /\ Now' = r /\ Out' = Out /\ Task' = Task /\ Current' = Current /\ Args' = Args
    BY <1>1, <1>3, <2>1, <2>4, <2>5, Moved DEF Owner
  <2>7. GrepListing'
    <3>0. 0 <= num_dir_entries
      BY Entries
    <3>1. IsDir(Now.fd)' /\ Mine' = {Now'.fd}
      BY <2>2, <2>4, <2>6, <3>0 DEF IsDir, File, Mine
    <3>2. Entry0' = 0
      BY <2>2, <2>4, <2>6 DEF File, Entry0
    <3> QED
      BY <1>2, <2>0, <2>6, <3>1, <3>2, ReportedNone DEF GrepListing
  <2>8. Inside'
    BY <1>1, <2>4, <2>6, <2>7 DEF Inside, At, Places
  <2> QED
    BY <2>6, <2>8 DEF ProgramsInv
<1> QED
  BY <1>4, <1>5

\* grep's read of the directory keeps ProgramsInv: what it skips has no lines to
\* report, and at the end every file has been searched.
LEMMA GrepDirStep ==
    ASSUME ProgramsInv, GrepDir
    PROVE  ProgramsInv'
<1> DEFINE fd == Now.fd
           n == File(fd).pos
<1>1. Kept /\ Task = "grep" /\ GrepListing
  BY TaskAt, ZenonT(60) DEF ProgramsInv, GrepDir, Owner, Inside
<1>2. /\ FilesInv /\ IsLocals(Now) /\ Out \in Seq(Printed) /\ UNCHANGED <<args, cmd>>
      /\ read(fd, SBUFSIZE - 1)
  BY <1>1, RunningProgram DEF GrepDir
<1>3. /\ IsDir(fd) /\ Args # <<>> /\ Mine = {fd}
      /\ Lucky => Out = Reported(Args, n)
  BY <1>1 DEF GrepListing, Entry0
<1>4. FilesInv' /\ stack' = stack /\ (AtEnd(fd) \/ NextName(fd))
  BY <1>2, <1>3, DirectoryRead
<1>5. CASE AtEnd(fd)
  <2>0. Exit(0) /\ Silent
    <3>1. ~Failed /\ result'.value = 0
      BY <1>5 DEF Failed, AtEnd
    <3> QED
      BY <3>1, Zenon DEF GrepDir
  <2>1. Move(Ended(0), Out)
    BY <1>1, <1>2, <1>4, <2>0, SilentMove DEF Exit, Ended, Silent
  <2>2. Kept' /\ At("halt")' /\ Task' = Task /\ Out' = Out /\ Args' = Args /\ Now'.unlucky = Now.unlucky
    BY <1>1, <1>2, <1>4, <2>1, Statuses, Exits
  <2>3. GrepDone'
    BY <1>3, <1>5, <2>2 DEF GrepDone, AtEnd, Lucky
  <2>4. Finished'
    BY <1>1, <2>2, <2>3 DEF Finished
  <2> QED
    BY <1>1, <2>2, <2>4, Ends
<1>6. CASE NextName(fd)
  <2> DEFINE d == dentries[n + 1]
             name == d.file_name
  <2>0. /\ n + 1 \in DOMAIN dentries /\ n \in Nat /\ n + 1 <= num_dir_entries
        /\ result'.value \in Nat \ {0} /\ result'.data = name /\ opened' = opened
        /\ files'[Current][fd].ops = "dir" /\ files'[Current][fd].pos = n + 1
    BY <1>6 DEF NextName
  <2>1. /\ Silent
        /\ IF result'.data[1] = "." THEN Goto("grep dir")
           ELSE Become([Now EXCEPT !.pc = "grep open", !.name = result'.data])
    <3>1. ~Failed /\ result'.value # 0
      BY <2>0 DEF Failed
    <3> QED
      BY <3>1, Zenon DEF GrepDir
  <2>2. /\ name \in Seq(Chars) /\ (name[1] = "." <=> d.file_type = "dir")
    BY <2>0, Entries
  <2>3. /\ Reported(Args, n) \in Seq(Chars)
        /\ Reported(Args, n + 1) = Reported(Args, n) \o Searched(Args, d)
        /\ d.file_type # "file" => Searched(Args, d) = <<>>
    BY <2>0, ReportedMore, EntryText
  <2>4. CASE name[1] = "."
    <3> DEFINE r == [Now EXCEPT !.pc = "grep dir"]
    <3>1. Become(r) /\ Silent
      BY <2>0, <2>1, <2>4 DEF Goto
    <3>2. IsLocals(r) /\ r.pc = "grep dir" /\ r.fd = fd /\ r.unlucky = Now.unlucky
      BY <1>2 DEF IsLocals
    <3> HIDE DEF r
    <3>3. Move(r, Out)
      BY <1>1, <1>2, <1>4, <3>1, SilentMove DEF Silent
    <3>4. Kept' /\ Now' = r /\ Out' = Out /\ Task' = Task /\ Current' = Current /\ Args' = Args
      BY <1>1, <1>2, <1>4, <3>2, <3>3, Moved DEF Owner
    <3>5. Reported(Args, n + 1) = Reported(Args, n)
      BY <2>2, <2>3, <2>4
    <3>6. GrepListing'
      <4>1. IsDir(Now.fd)' /\ Mine' = {Now'.fd}
        BY <1>3, <2>0, <3>2, <3>4 DEF IsDir, File, Mine
      <4>2. Entry0' = n + 1
        BY <2>0, <3>2, <3>4 DEF File, Entry0
      <4>3. Lucky' = Lucky
        BY <3>2, <3>4 DEF Lucky
      <4> QED
        BY <1>3, <3>4, <3>5, <4>1, <4>2, <4>3 DEF GrepListing
    <3>7. Inside'
      BY <1>1, <3>2, <3>4, <3>6 DEF Inside, At, Places
    <3> QED
      BY <3>4, <3>7 DEF ProgramsInv
  <2>5. CASE name[1] # "."
    <3> DEFINE r == [Now EXCEPT !.pc = "grep open", !.name = name]
    <3>1. Become(r) /\ Silent
      BY <2>0, <2>1, <2>5
    <3>2. IsLocals(r) /\ r.pc = "grep open" /\ r.fd = fd /\ r.unlucky = Now.unlucky /\ r.name = name
      BY <1>2, <2>2 DEF IsLocals
    <3> HIDE DEF r
    <3>3. Move(r, Out)
      BY <1>1, <1>2, <1>4, <3>1, SilentMove DEF Silent
    <3>4. Kept' /\ Now' = r /\ Out' = Out /\ Task' = Task /\ Current' = Current /\ Args' = Args
      BY <1>1, <1>2, <1>4, <3>2, <3>3, Moved DEF Owner
    <3>5. GrepOpening'
      <4>1. IsDir(Now.fd)' /\ Mine' = {Now'.fd}
        BY <1>3, <2>0, <3>2, <3>4 DEF IsDir, File, Mine
      <4>2. Entry0' = n + 1
        BY <2>0, <3>2, <3>4 DEF File, Entry0
      <4>3. Lucky' = Lucky
        BY <3>2, <3>4 DEF Lucky
      <4>4. n + 1 > 0 /\ (n + 1) - 1 = n
        BY <2>0
      <4>5. Searchable'
        BY <1>3, <2>2, <2>5, <3>2, <3>4, <4>1, <4>2, <4>4 DEF Searchable
      <4> QED
        BY <1>3, <3>4, <4>1, <4>2, <4>3, <4>4, <4>5 DEF GrepOpening
    <3>6. Inside'
      BY <1>1, <3>2, <3>4, <3>5 DEF Inside, At, Places
    <3> QED
      BY <3>4, <3>6 DEF ProgramsInv
  <2> QED
    BY <2>4, <2>5
<1> QED
  BY <1>4, <1>5, <1>6

\* The entry grep is at.
LEMMA SearchableEntry ==
    ASSUME FilesInv, Searchable
    PROVE  /\ Entry0 \in Nat /\ Entry0 \in DOMAIN dentries /\ Entry0 - 1 \in Nat
           /\ (Entry0 - 1) + 1 = Entry0
           /\ read_dentry_by_name(Now.name) = Entry0
           /\ Now.name = dentries[Entry0].file_name /\ Now.name \in Seq(Chars)
           /\ dentries[Entry0].file_type \in Types \ {"dir"}
           /\ Reported(Args, Entry0 - 1) \in Seq(Chars)
           /\ Reported(Args, Entry0) =
                Reported(Args, Entry0 - 1) \o Searched(Args, dentries[Entry0])
<1> DEFINE n == Entry0
<1>1. Now.fd \in Mine /\ n <= num_dir_entries /\ n > 0 /\ n \in Nat
  BY MineAre DEF Searchable, IsDir, Entry0, Descriptors
<1>2. n \in DOMAIN dentries /\ n - 1 \in Nat /\ (n - 1) + 1 = n
  BY <1>1, Entries
<1>3. Now.name = dentries[n].file_name /\ dentries[n].file_type # "dir"
  BY DEF Searchable
<1> HIDE DEF n
<1>4. read_dentry_by_name(Now.name) = n
  BY <1>2, <1>3, NameFound
<1>5. Now.name \in Seq(Chars) /\ dentries[n].file_type \in Types \ {"dir"}
  BY <1>2, <1>3, Entries
<1> DEFINE k == n - 1
<1> HIDE DEF k
<1>6. k \in Nat /\ k + 1 = n
  BY <1>2 DEF k
<1>7. Reported(Args, k) \in Seq(Chars) /\ Reported(Args, k + 1) = Reported(Args, k) \o Searched(Args, dentries[k + 1])
  BY <1>2, <1>6, ReportedMore
<1>8. Reported(Args, k) \in Seq(Chars) /\ Reported(Args, n) = Reported(Args, k) \o Searched(Args, dentries[n])
  BY <1>6, <1>7
<1> QED
  BY <1>1, <1>2, <1>3, <1>4, <1>5, <1>8 DEF n, k

\* do_one_file's open() keeps ProgramsInv: the file that was listed can be opened.
LEMMA GrepOpenStep ==
    ASSUME ProgramsInv, GrepOpen
    PROVE  ProgramsInv'
<1> DEFINE fd == Now.fd
           n == Entry0
           name == Now.name
           before == Reported(Args, n - 1)
<1>1. Kept /\ Task = "grep" /\ GrepOpening
  BY TaskAt DEF ProgramsInv, GrepOpen, Owner, Inside
<1>2. /\ FilesInv /\ IsLocals(Now) /\ Out \in Seq(Printed) /\ UNCHANGED <<args, cmd>>
      /\ open(name)
  BY <1>1, RunningProgram DEF GrepOpen
<1>3. /\ Searchable /\ Mine = {fd} /\ IsDir(fd) /\ Args # <<>>
      /\ Lucky => Out = before
  BY <1>1 DEF GrepOpening, Searchable
<1>4. /\ n \in Nat /\ n \in DOMAIN dentries /\ read_dentry_by_name(name) = n
      /\ name = dentries[n].file_name /\ dentries[n].file_type \in Types \ {"dir"}
      /\ before \in Seq(Chars) /\ name \in Seq(Chars) /\ n # 0
  BY <1>2, <1>3, SearchableEntry, Entries
<1>5. FilesInv' /\ stack' = stack /\ (NotOpened(name) \/ \E g \in Given : Opened(g, name))
  BY <1>2, OpenOutcome
<1>6. ~NotOpened(name)
  BY <1>3, <1>4, SlotFree DEF NotOpened
<1>7. PICK g \in Given : Opened(g, name)
  BY <1>5, <1>6
<1>8. /\ result'.value = g /\ g \notin Mine /\ opened'[Current] = Mine \cup {g}
      /\ files'[Current][g] = [flags |-> 1, ops |-> dentries[n].file_type,
                                inode |-> dentries[n].inode_num, pos |-> 0]
      /\ seen'[Current][g] = <<>> /\ OnlyAt(g)
  BY <1>4, <1>7 DEF Opened
<1>9. g # -1 /\ g # fd /\ fd \in Fds
  BY <1>2, <1>3, <1>8, MineAre, FilesAssumption DEF Given
<1>10. PICK byte \in Garbage :
          /\ Become([Now EXCEPT !.pc = "grep read", !.fd0 = g, !.buf = <<>>, !.junk = byte])
          /\ Silent
  BY <1>8, <1>9 DEF GrepOpen, Failed
<1> DEFINE r == [Now EXCEPT !.pc = "grep read", !.fd0 = g, !.buf = <<>>, !.junk = byte]
<1>11. /\ IsLocals(r) /\ r.pc = "grep read" /\ r.fd = fd /\ r.fd0 = g /\ r.buf = <<>>
       /\ r.name = name /\ r.unlucky = Now.unlucky
  BY <1>2 DEF IsLocals
<1>12. Become(r) /\ Silent
  BY <1>10
<1> HIDE DEF r
<1>13. Move(r, Out)
  BY <1>1, <1>2, <1>5, <1>12, SilentMove DEF Silent
<1>14. Kept' /\ Now' = r /\ Out' = Out /\ Task' = Task /\ Current' = Current /\ Args' = Args
  BY <1>1, <1>2, <1>5, <1>11, <1>13, Moved DEF Owner
<1>15. files'[Current][fd] = files[Current][fd]
  BY <1>8, <1>9 DEF OnlyAt
<1>16. Entry0' = n /\ IsDir(Now.fd)' /\ Mine' = {Now'.fd, Now'.fd0} /\ Now'.fd # Now'.fd0
  BY <1>3, <1>8, <1>9, <1>11, <1>14, <1>15 DEF Entry0, IsDir, File, Mine
<1>17. Searchable'
  BY <1>3, <1>4, <1>11, <1>14, <1>16 DEF Searchable
<1>18. Describes(Now.fd0, Entry0)'
  <2>1. /\ files'[Current][g].ops = dentries[n].file_type
        /\ files'[Current][g].inode = dentries[n].inode_num
        /\ dentries[n].file_type # "dir"
    BY <1>4, <1>8
  <2>2. PICK k : k = n
    OBVIOUS
  <2>3. Describes(g, k)'
    BY <1>8, <1>14, <2>1, <2>2 DEF Describes, File, Seen, Mine
  <2> QED
    BY <1>11, <1>14, <1>16, <2>2, <2>3
<1>19. Len(Now.buf)' < GREP_BUFSIZE
  <2>1. Len(<<>>) = 0 /\ 0 < GREP_BUFSIZE
    BY Sizes
  <2>2. Now'.buf = <<>>
    BY <1>11, <1>14
  <2> QED
    BY <2>1, <2>2
<1>20. Lucky' => Searching(Out, File(Now.fd0), Seen(Now.fd0), Now.buf, Reported(Args, Entry0 - 1),
                          Now.name, Args)'
  <2> SUFFICES ASSUME Lucky'
               PROVE  Searching(Out', File(Now.fd0)', Seen(Now.fd0)', Now'.buf, Reported(Args', Entry0' - 1),
                          Now'.name, Args')
    BY DEF Searching, Reported, Searched, Report
  <2>1. Out' = before
    BY <1>3, <1>11, <1>14 DEF Lucky
  <2>2. Seen(Now.fd0)' = <<>>
    BY <1>8, <1>11, <1>14 DEF Seen
  <2>3. Last(Lines(<<>>)) = <<>> /\ Front(Lines(<<>>)) = <<>>
    <3>1. /\ Len(<< <<>> >>) = 1 /\ << <<>> >>[1] = <<>> /\ SubSeq(<< <<>> >>, 1, 0) = <<>>
      OBVIOUS
    <3> DEFINE one == << <<>> >>
    <3>2. Lines(<<>>) = one
      BY LinesOfNothing
    <3>3. Len(one) = 1 /\ one[1] = <<>> /\ SubSeq(one, 1, 0) = <<>>
      BY <3>1
    <3> HIDE DEF one
    <3>4. Last(one) = <<>> /\ Front(one) = <<>>
      BY <3>3 DEF Last, Front
    <3> QED
      BY <3>2, <3>4
  <2>4. before = before \o Report(name, Front(Lines(<<>>)), Args)
    BY <1>4, <2>3, ReportEmpty
  <2> QED
    BY <1>11, <1>14, <1>16, <2>1, <2>2, <2>3, <2>4 DEF Searching
<1>21. GrepReading'
  BY <1>16, <1>17, <1>18, <1>19, <1>20 DEF GrepReading
<1>22. Inside'
  BY <1>1, <1>11, <1>14, <1>21 DEF Inside, At, Places
<1> QED
  BY <1>14, <1>22 DEF ProgramsInv

\* do_one_file's close() keeps ProgramsInv: one file more has been searched.
LEMMA GrepCloseStep ==
    ASSUME ProgramsInv, GrepClose
    PROVE  ProgramsInv'
<1> DEFINE fd == Now.fd
           g == Now.fd0
           n == Entry0
<1>1. Kept /\ Task = "grep" /\ GrepClosing
  BY TaskAt DEF ProgramsInv, GrepClose, Owner, Inside
<1>2. /\ FilesInv /\ IsLocals(Now) /\ Out \in Seq(Printed) /\ UNCHANGED <<args, cmd>>
      /\ close(g)
  BY <1>1, RunningProgram DEF GrepClose
<1>3. /\ Searchable /\ Mine = {fd, g} /\ fd # g /\ IsDir(fd) /\ Args # <<>> /\ Describes(g, n)
      /\ Lucky => Out = Reported(Args, n)
  BY <1>1 DEF GrepClosing, Searchable
<1>4. FilesInv' /\ stack' = stack /\ (Refused("close", g) \/ HasClosed(g))
  BY <1>2, CloseOutcome
<1>5. ~Refused("close", g)
  <2>1. File(g).ops \in Types
    BY <1>2, <1>3, SearchableEntry DEF Describes
  <2> QED
    BY <1>3, <2>1, CanRead DEF Refused
<1>6. /\ result'.value = 0 /\ opened'[Current] = {fd} /\ OnlyAt(g) /\ fd \in Fds
  BY <1>2, <1>3, <1>4, <1>5, MineAre DEF HasClosed
<1> DEFINE r == [Now EXCEPT !.pc = "grep dir", !.buf = <<>>, !.junk = NUL]
<1>7. Become(r) /\ Silent
  <2>1. ~Failed
    BY <1>6 DEF Failed
  <2> QED
    BY <2>1, Zenon DEF GrepClose
<1>8. IsLocals(r) /\ r.pc = "grep dir" /\ r.fd = fd /\ r.unlucky = Now.unlucky
  BY <1>2 DEF IsLocals
<1> HIDE DEF r
<1>9. Move(r, Out)
  BY <1>1, <1>2, <1>4, <1>7, SilentMove DEF Silent
<1>10. Kept' /\ Now' = r /\ Out' = Out /\ Task' = Task /\ Current' = Current /\ Args' = Args
  BY <1>1, <1>2, <1>4, <1>8, <1>9, Moved DEF Owner
<1>11. files'[Current][fd] = files[Current][fd]
  BY <1>3, <1>6 DEF OnlyAt
<1>12. Entry0' = n /\ IsDir(Now.fd)' /\ Mine' = {Now'.fd}
  BY <1>3, <1>6, <1>8, <1>10, <1>11 DEF Entry0, IsDir, File, Mine
<1>13. GrepListing'
  BY <1>3, <1>8, <1>10, <1>12 DEF GrepListing, Lucky
<1>14. Inside'
  BY <1>1, <1>8, <1>10, <1>13 DEF Inside, At, Places
<1> QED
  BY <1>10, <1>14 DEF ProgramsInv

\* The last line is no longer than the text; it is shorter behind a newline, and
\* all of it when there is none.
Ending(u) ==
    LET l == Lines(u)
        n == Len(l)
    IN
    /\ Len(l[n]) <= Len(u)
    /\ n > 1 => Len(l[n]) < Len(u)
    /\ n = 1 => l[1] = u

\* The last line of every text is so.
LEMMA LineLengths ==
    ASSUME NEW V, NEW u \in Seq(V)
    PROVE  Ending(u) /\ Lines(u) \in Texts(V)
<1> DEFINE S == {d \in Seq(V) : Ending(d)}
<1>1. <<>> \in S
  <2> DEFINE one == << <<>> >>
             e == <<>>
  <2>1. Len(one) = 1 /\ one[1] = e /\ e \in Seq(V) /\ Len(e) = 0
    OBVIOUS
  <2>2. Lines(e) = one
    BY LinesOfNothing
  <2> HIDE DEF one, e
  <2>3. /\ Len(one[Len(one)]) <= Len(e) /\ ~(Len(one) > 1) /\ one[1] = e
    BY <2>1
  <2>4. Ending(e)
    BY <2>2, <2>3 DEF Ending
  <2> QED
    BY <2>1, <2>4 DEF e
<1>2. ASSUME NEW d \in Seq(V), NEW c \in V, d \in S
      PROVE  Append(d, c) \in S
  <2> DEFINE l == Lines(d)
             n == Len(l)
             m == Broken(l, c)
             x == l[n]
             y == Append(x, c)
             dc == Append(d, c)
  <2>1. l \in Texts(V) /\ Lines(dc) = m
    BY LinesMore
  <2>2. n \in Nat /\ n > 0 /\ x \in Seq(V)
    BY <2>1 DEF Texts
  <2>3. /\ c = NL => Len(m) = n + 1 /\ m[n] = x /\ m[n + 1] = <<>>
        /\ c # NL => Len(m) = n /\ m[n] = y
    BY <2>1, BrokenAt
  <2>4. Len(y) = Len(x) + 1 /\ Len(x) \in Nat
    BY <2>2
  <2>5. dc \in Seq(V) /\ Len(dc) = Len(d) + 1 /\ Len(d) \in Nat
    OBVIOUS
  <2>6. /\ Len(x) <= Len(d) /\ n > 1 => Len(x) < Len(d)
        /\ n = 1 => x = d
    BY <1>2 DEF Ending
  <2>7. Len(x) <= Len(d)
    BY <1>2 DEF Ending
  <2>8. n > 1 => Len(x) < Len(d)
    BY <1>2 DEF Ending
  <2>9. n = 1 => y = dc
    BY <2>6
  <2> DEFINE e == <<>>
  <2>10. Len(e) = 0
    OBVIOUS
  <2>11. c = NL => m[n + 1] = e
    BY <2>3
  <2> HIDE DEF l, n, m, x, y, dc, e
  <2>12. /\ Len(m[Len(m)]) <= Len(dc)
         /\ Len(m) > 1 => Len(m[Len(m)]) < Len(dc)
         /\ Len(m) = 1 => m[1] = dc
    <3>1. CASE c = NL
      <4>1. Len(m) = n + 1 /\ m[n + 1] = e
        BY <2>3, <2>11, <3>1
      <4>2. Len(m[Len(m)]) = 0
        BY <2>10, <4>1
      <4> QED
        BY <2>2, <2>5, <4>1, <4>2
    <3>2. CASE c # NL
      <4>1. Len(m) = n /\ m[n] = y
        BY <2>3, <3>2
      <4> QED
        BY <2>2, <2>4, <2>5, <2>7, <2>8, <2>9, <4>1
    <3> QED
      BY <3>1, <3>2
  <2>13. Ending(dc)
    BY <2>1, <2>12 DEF Ending
  <2> QED
    BY <2>5, <2>13 DEF dc
<1>3. Seq(V) \subseteq S
  <2> HIDE DEF S
  <2> QED
    BY <1>1, <1>2, SequenceInduction
<1>4. Lines(u) \in Texts(V)
  <2>1. PICK h \in [0..Len(u) -> Texts(V)] : Lines(u) = h[Len(u)]
    BY LinesLoop
  <2> QED
    BY <2>1
<1> QED
  BY <1>3, <1>4

\* The text is the beginning of what the entry k has.
Continues(x, k) == \E e \in Seq(Chars) : x \o e = Bytes(dentries[k])

\* What is left of a file.
LEMMA FileRest ==
    ASSUME NEW k \in DOMAIN dentries, NEW f \in Descriptors, NEW x, f.ops = "file",
           f.ops = dentries[k].file_type, f.inode = dentries[k].inode_num, Told(f, x)
    PROVE  /\ x \in Seq(Chars) /\ Len(x) = f.pos /\ f.pos <= inodes[f.inode].length
           /\ Len(Bytes(dentries[k])) = inodes[f.inode].length
           /\ inodes[f.inode].length \in Nat
           /\ Continues(x, k)
<1> DEFINE n == f.inode
           l == inodes[n].length
           t == Bytes(dentries[k])
           pos == f.pos
           V == Chars
<1>1. n \in DOMAIN inodes /\ l \in Nat /\ pos \in Nat /\ pos <= l
  BY ImageAssumption DEF Descriptors, Told
<1>2. x = [i \in 1..pos |-> Show(ByteAt(inodes[n], i - 1))]
  BY <1>1, FileShown DEF Told
<1>3. t = [i \in 1..l |-> Show(ByteAt(inodes[n], i - 1))]
  <2>1. FileBytes(n) = [i \in 1..l |-> ByteAt(inodes[n], i - 1)]
    BY <1>1, FileAt
  <2> QED
    BY <2>1 DEF ShowAll, Bytes
<1>4. \A byte : Show(byte) \in Chars
  BY WordsAreChars DEF Show
<1>5. x \in [1..pos -> V] /\ t \in [1..l -> V] /\ \A i \in 1..pos : x[i] = t[i]
  BY <1>1, <1>2, <1>3, <1>4
<1> HIDE DEF n, l, t, pos, V
<1>6. x \in Seq(V) /\ Len(x) = pos /\ t \in Seq(V) /\ Len(t) = l
  BY <1>1, <1>5, RowOf
<1> DEFINE e == SubSeq(t, pos + 1, l)
<1>7. e \in Seq(V) /\ Len(e) = l - pos /\ \A i \in 1..l-pos : e[i] = t[pos + i]
  BY <1>1, <1>6
<1> HIDE DEF e
<1> DEFINE xe == x \o e
<1>8. xe \in Seq(V) /\ IsJoin(xe, x, e)
  BY <1>6, <1>7, Joined
<1>9. /\ Len(xe) = l /\ \A i \in 1..pos : xe[i] = x[i]
      /\ \A i \in 1..l-pos : xe[pos + i] = e[i]
  BY <1>1, <1>6, <1>7, <1>8 DEF IsJoin
<1> HIDE DEF xe
<1>10. ASSUME NEW i \in 1..l PROVE xe[i] = t[i]
  <2>1. CASE i \in 1..pos
    BY <1>5, <1>9, <2>1
  <2>2. CASE i \notin 1..pos
    <3> DEFINE j == i - pos
    <3>1. j \in 1..l-pos /\ i = pos + j
      BY <1>1, <2>2
    <3> HIDE DEF j
    <3> QED
      BY <1>7, <1>9, <3>1
  <2> QED
    BY <2>1, <2>2
<1>11. xe = t
  BY <1>6, <1>8, <1>9, <1>10, SameSeq
<1> QED
  BY <1>1, <1>6, <1>7, <1>11 DEF xe, t, pos, l, n, V, Continues

\* What grep finds in a read: t is what it had read of the file, b the line it kept,
\* and d the bytes that follow.
Finds(t, d, b, o, before, name, s) ==
    LET lines == Lines(b \o d)
        all == Lines(t \o d)
    IN
    /\ lines \in Texts(Chars) /\ all \in Texts(Chars)
    /\ Last(lines) = Last(all)
    /\ o \o Report(name, Front(lines), s) = before \o Report(name, Front(all), s)
    /\ o \o Report(name, lines, s) = before \o Report(name, all, s)
    /\ Last(lines) = <<>> =>
          o \o Report(name, lines, s) = before \o Report(name, Front(all), s)

\* Two groups of lines are reported one behind the other.
BothReported(name, a, b, s) == Report(name, a \o b, s) = Report(name, a, s) \o Report(name, b, s)

\* They are, for every two.
LEMMA ReportedBoth ==
    ASSUME NEW name \in Seq(Chars), NEW a \in Seq(Seq(Chars)), NEW b \in Seq(Seq(Chars)), NEW s
    PROVE  BothReported(name, a, b, s)
  BY ReportBoth DEF BothReported

\* Three sequences one behind the other.
Regrouped(a, b, c) == (a \o b) \o c = a \o (b \o c)

\* It does not matter which two come first.
LEMMA Regroup ==
    ASSUME NEW V, NEW a \in Seq(V), NEW b \in Seq(V), NEW c \in Seq(V)
    PROVE  Regrouped(a, b, c)
  BY DEF Regrouped

\* The last of two groups of lines is that of the second.
LEMMA Behind ==
    ASSUME NEW W, NEW a \in Seq(W), NEW m \in Seq(W), Len(m) > 0
    PROVE  Last(a \o m) = Last(m) /\ Front(a \o m) = a \o Front(m)
<1> DEFINE am == a \o m
           f == Front(m)
           x == Last(m)
           af == a \o f
<1>1. am \in Seq(W) /\ IsJoin(am, a, m)
  BY Joined
<1>2. f \in Seq(W) /\ x \in W /\ Append(f, x) = m
  BY LastAndFront
<1> HIDE DEF f, x
<1>3. GoesBehind(a, f, x) /\ af \in Seq(W)
  BY <1>2, AppendBehind
<1>4. am = Append(af, x)
  BY <1>2, <1>3 DEF GoesBehind
<1> HIDE DEF am, af
<1>5. Len(am) = Len(af) + 1 /\ am[Len(am)] = x /\ SubSeq(am, 1, Len(am) - 1) = af
  BY <1>2, <1>3, <1>4
<1> QED
  BY <1>5 DEF Last, Front, am, af, f, x

\* What is searched when more has been read behind an unfinished line.
LEMMA Found ==
    ASSUME NEW t \in Seq(Chars), NEW d \in Seq(Chars), NEW before \in Seq(Chars),
           NEW name \in Seq(Chars), NEW s, NEW b, NEW o, b = Last(Lines(t)),
           o = before \o Report(name, Front(Lines(t)), s)
    PROVE  Finds(t, d, b, o, before, name, s)
<1> DEFINE V == Chars
           W == Seq(Chars)
           a == Front(Lines(t))
           lines == Lines(b \o d)
           all == Lines(t \o d)
           R(l) == Report(name, l, s)
<1>1. b \in W /\ a \in Seq(W) /\ all = a \o lines
  BY LinesBehind
<1>2. b \o d \in W /\ t \o d \in W
  BY <1>1
<1>3. lines \in Texts(V) /\ all \in Texts(V)
  BY <1>2, LineLengths
<1>4. lines \in Seq(W) /\ Len(lines) > 0
  BY <1>3 DEF Texts
<1> HIDE DEF a, lines, all
<1> DEFINE f == Front(lines)
           x == Last(lines)
<1>5. f \in Seq(W) /\ x \in W /\ lines = f \o <<x>> /\ <<x>> \in Seq(W)
  <2>1. f \in Seq(W) /\ x \in W /\ lines = f \o <<x>>
    <3> HIDE DEF W
    <3> QED
      BY <1>4, LastAndFront
  <2> HIDE DEF W, x
  <2>2. <<x>> \in Seq(W)
    BY <2>1
  <2> QED
    BY <2>1, <2>2
<1>6. Last(all) = x /\ Front(all) = a \o f
  <2> HIDE DEF W
  <2> QED
    BY <1>1, <1>4, Behind
<1> HIDE DEF f, x
<1>7. /\ R(a \o f) = R(a) \o R(f) /\ R(a \o lines) = R(a) \o R(lines)
      /\ R(f \o <<x>>) = R(f) \o R(<<x>>)
  <2> DEFINE z == <<x>>
  <2>1. z \in Seq(W)
    BY <1>5
  <2> HIDE DEF z
  <2>2. BothReported(name, a, f, s) /\ BothReported(name, a, lines, s) /\ BothReported(name, f, z, s)
    BY <1>1, <1>4, <1>5, <2>1, ReportedBoth
  <2>3. R(f \o z) = R(f) \o R(z)
    BY <2>2 DEF BothReported
  <2> QED
    BY <2>2, <2>3 DEF BothReported, z
<1>8. R(a) \in W /\ R(f) \in W /\ R(lines) \in W
  BY <1>1, <1>4, <1>5, Reports
<1>9. x = <<>> => R(lines) = R(f)
  <2> SUFFICES ASSUME x = <<>> PROVE R(lines) = R(f)
    OBVIOUS
  <2>1. R(<<x>>) = <<>>
    BY ReportEmpty
  <2>2. R(lines) = R(f) \o <<>>
    BY <1>5, <1>7, <2>1
  <2> QED
    BY <1>8, <2>2
<1> DEFINE ra == R(a)
           rf == R(f)
           rl == R(lines)
<1>10. o = before \o ra
  BY DEF a
<1> HIDE DEF R, ra, rf, rl
<1>11. o \o rf = before \o (ra \o rf) /\ o \o rl = before \o (ra \o rl)
  <2>1. Regrouped(before, ra, rf) /\ Regrouped(before, ra, rl)
    BY <1>8, Regroup DEF ra, rf, rl
  <2> QED
    BY <1>10, <2>1 DEF Regrouped
<1>12. o \o R(f) = before \o R(a \o f) /\ o \o R(lines) = before \o R(all)
  BY <1>1, <1>7, <1>11 DEF ra, rf, rl
<1> QED
  BY <1>3, <1>6, <1>9, <1>12 DEF Finds, R, f, x, lines, all

\* The lines of a file fit: so does the last one of what has been read of it.
LEMMA LastFits ==
    ASSUME NEW k \in DOMAIN dentries, LinesFit, NEW u \in Seq(Chars), NEW e \in Seq(Chars),
           u \o e = Bytes(dentries[k])
    PROVE  Len(Last(Lines(u))) < GREP_BUFSIZE
<1> DEFINE l == Lines(u)
           m == Lines(u \o e)
           n == Len(l)
<1>1. GoesOn(l, m) /\ l \in Texts(Chars) /\ m \in Texts(Chars)
  <2>1. u \o e \in Seq(Chars)
    BY EntryText
  <2> QED
    BY <2>1, LinesGoOn, LineLengths
<1> HIDE DEF l, m
<1>2. n \in Nat /\ n > 0 /\ n <= Len(m) /\ DOMAIN m = 1..Len(m) /\ Len(m) \in Nat
  BY <1>1 DEF GoesOn, Texts
<1>3. l[n] \in Seq(Chars) /\ m[n] \in Seq(Chars) /\ Len(m[n]) >= Len(l[n])
  BY <1>1, <1>2 DEF GoesOn, Texts
<1>4. Len(m[n]) < GREP_BUFSIZE
  <2>1. n \in DOMAIN m /\ dentries[k] \in Dentries
    BY <1>2 DEF Dentries
  <2>2. m = Lines(Bytes(dentries[k]))
    BY DEF m
  <2> QED
    BY <2>1, <2>2 DEF LinesFit
<1>5. Len(l[n]) \in Nat /\ Len(m[n]) \in Nat /\ GREP_BUFSIZE \in Nat
  BY <1>3, Sizes
<1> QED
  BY <1>3, <1>4, <1>5 DEF l, Last

\* Whether all of a file has been read.
AllRead(f) == f.ops = "file" => f.pos = inodes[f.inode].length

\* What a read of grep leaves.
Turned(k, t, d, b, o, before, name, s, h, behind, keep) ==
    LET lines == Lines(b \o d)
        more == Report(name, IF keep THEN Front(lines) ELSE lines, s)
    IN
    /\ d = <<>> => o \o more = before \o Report(name, Lines(Bytes(dentries[k])), s)
    /\ \/ d = <<>>
       \/ /\ Len(b \o d) = GREP_BUFSIZE /\ Last(lines) # <<>>
          /\ behind = NL /\ Len(lines) > 1
       \/ Searching(o \o more, h, t \o d, IF keep THEN Last(lines) ELSE <<>>, before, name, s)

\* One read of grep: it keeps the line at the end of its buffer, or has reported it
\* because nothing follows it.
LEMMA GrepTurn ==
    ASSUME NEW k \in DOMAIN dentries, LinesFit,
           NEW t \in Seq(Chars), NEW d \in Seq(Chars), NEW e \in Seq(Chars),
           NEW b \in Seq(Chars), NEW before \in Seq(Chars), NEW name \in Seq(Chars), NEW s,
           NEW o, NEW f, NEW h, NEW behind, NEW keep \in BOOLEAN,
           (t \o d) \o e = Bytes(dentries[k]),
           Searching(o, f, t, b, before, name, s),
           AllRead(f) => d = <<>>, d = <<>> => e = <<>>,
           Len(b \o d) < GREP_BUFSIZE => AllRead(h),
           Len(b \o d) <= GREP_BUFSIZE,
           keep <=> behind # NL /\ d # <<>> /\ Len(Lines(b \o d)) > 1
    PROVE  Turned(k, t, d, b, o, before, name, s, h, behind, keep)
<1> USE DEF Turned
<1> DEFINE lines == Lines(b \o d)
           all == Lines(t \o d)
           more == Report(name, IF keep THEN Front(lines) ELSE lines, s)
           kept == IF keep THEN Last(lines) ELSE <<>>
           bd == b \o d
<1>1. CASE b = Last(Lines(t)) /\ o = before \o Report(name, Front(Lines(t)), s)
  <2>1. Finds(t, d, b, o, before, name, s)
    BY <1>1, Found
  <2>2. /\ lines \in Texts(Chars) /\ all \in Texts(Chars)
        /\ Last(lines) = Last(all)
        /\ o \o Report(name, Front(lines), s) = before \o Report(name, Front(all), s)
        /\ o \o Report(name, lines, s) = before \o Report(name, all, s)
        /\ Last(lines) = <<>> =>
              o \o Report(name, lines, s) = before \o Report(name, Front(all), s)
    BY <2>1 DEF Finds
  <2>3. CASE d = <<>>
    <3>1. ~keep /\ t \o d = Bytes(dentries[k])
      BY <2>3
    <3> QED
      BY <2>2, <2>3, <3>1
  <2>4. CASE keep
    <3>1. Searching(o \o more, h, t \o d, kept, before, name, s)
      BY <2>2, <2>4 DEF Searching
    <3> QED
      BY <2>4, <3>1
  <2>5. CASE ~keep /\ d # <<>> /\ (AllRead(h) \/ Last(lines) = <<>>)
    <3>1. Searching(o \o more, h, t \o d, kept, before, name, s)
      BY <2>2, <2>5 DEF Searching, AllRead
    <3> QED
      BY <2>5, <3>1
  <2>6. CASE ~keep /\ d # <<>> /\ ~(AllRead(h) \/ Last(lines) = <<>>)
    <3>0. bd \in Seq(Chars) /\ Len(bd) \in Nat /\ GREP_BUFSIZE \in Nat
      BY Sizes
    <3>1. Len(bd) = GREP_BUFSIZE /\ Last(lines) # <<>>
      <4>1. ~(Len(bd) < GREP_BUFSIZE) /\ Len(bd) <= GREP_BUFSIZE
        BY <2>6
      <4> HIDE DEF bd, lines
      <4> QED
        BY <2>6, <3>0, <4>1
    <3>2. Len(lines) # 1
      <4> SUFFICES ASSUME Len(lines) = 1
                   PROVE  FALSE
        OBVIOUS
      <4>1. lines[1] = bd
        BY <3>0, LineLengths DEF Ending
      <4>2. t \o d \in Seq(Chars)
        OBVIOUS
      <4>3. Len(Last(all)) < GREP_BUFSIZE
        <5> DEFINE u == t \o d
        <5>1. u \in Seq(Chars) /\ u \o e = Bytes(dentries[k])
          BY <4>2
        <5> HIDE DEF u
        <5>2. Len(Last(Lines(u))) < GREP_BUFSIZE
          BY <5>1, LastFits
        <5> QED
          BY <5>2 DEF u
      <4>4. Last(lines) = bd
        <5> HIDE DEF lines, bd
        <5> QED
          BY <4>1 DEF Last
      <4>5. Len(bd) < GREP_BUFSIZE
        BY <2>2, <4>3, <4>4
      <4> QED
        BY <3>0, <3>1, <4>5
    <3>3. Len(lines) > 1
      <4>1. Len(lines) \in Nat /\ Len(lines) > 0
        BY <2>2 DEF Texts
      <4>2. \A z \in Nat : z > 0 /\ z # 1 => z > 1
        OBVIOUS
      <4> QED
        BY <3>2, <4>1, <4>2, Zenon
    <3> QED
      BY <2>6, <3>1, <3>3
  <2> QED
    BY <2>3, <2>4, <2>5, <2>6
<1>2. CASE b = <<>> /\ o = before \o Report(name, Lines(t), s) /\ AllRead(f)
  <2>1. d = <<>> /\ e = <<>> /\ ~keep
    BY <1>2
  <2>2. b \o d = <<>> /\ (t \o d) \o e = t
    BY <1>2, <2>1
  <2>3. more = <<>>
    BY <2>1, <2>2, LinesOfNothing, ReportEmpty
  <2>4. o \in Seq(Chars)
    <3>1. Lines(t) \in Texts(Chars)
      BY LineLengths
    <3>2. Lines(t) \in Seq(Seq(Chars))
      BY <3>1 DEF Texts
    <3>3. Report(name, Lines(t), s) \in Seq(Chars)
      BY <3>2, Reports
    <3> QED
      BY <1>2, <3>3
  <2>5. o \o more = o
    BY <2>3, <2>4
  <2> QED
    BY <1>2, <2>1, <2>2, <2>5
<1> QED
  BY <1>1, <1>2 DEF Searching, AllRead

\* The bytes of a file that have been read are characters.
LEMMA FileStep ==
    ASSUME FilesInv, FilesInv', stack' = stack, NEW fd \in Mine, NEW k \in DOMAIN dentries,
           File(fd).ops = "file", Describes(fd, k), NEW n \in Nat, HasRead(fd, n)
    PROVE  /\ Seen(fd) \in Seq(Chars) /\ result'.data \in Seq(Chars)
           /\ result'.value = Len(result'.data) /\ result'.value \in 0..n
           /\ File(fd).pos \in Nat
           /\ seen'[Current][fd] = Seen(fd) \o result'.data
           /\ files'[Current][fd].ops = "file" /\ files'[Current][fd].inode = File(fd).inode
           /\ files'[Current][fd].pos = File(fd).pos + result'.value
           /\ files'[Current][fd].pos <= inodes[File(fd).inode].length
           /\ inodes[File(fd).inode].length \in Nat
           /\ result'.value < n => files'[Current][fd].pos = inodes[File(fd).inode].length
           /\ opened' = opened /\ OnlyAt(fd)
           /\ \E e \in Seq(Chars) :
                 /\ (Seen(fd) \o result'.data) \o e = Bytes(dentries[k])
                 /\ files'[Current][fd].pos = inodes[File(fd).inode].length => e = <<>>
<1> DEFINE f == File(fd)
           h == files'[Current][fd]
           x == Seen(fd)
           y == seen'[Current][fd]
           l == inodes[f.inode].length
           d == result'.data
<1>1. /\ f.ops = dentries[k].file_type /\ f.inode = dentries[k].inode_num
      /\ f \in Descriptors /\ Told(f, x) /\ f.ops = "file"
  BY MineAre DEF Describes
<1>2. /\ d \in Seq(Visible \cup {" "}) /\ result'.value = Len(d)
      /\ result'.value \in 0..n
      /\ h.ops = "file" /\ h.inode = f.inode /\ h.pos = f.pos + result'.value
      /\ h.pos <= l
      /\ result'.value < n => h.pos = l
      /\ y = x \o d
      /\ opened' = opened
      /\ OnlyAt(fd)
  BY DEF HasRead
<1>3. d \in Seq(Chars)
  BY <1>2, WordsAreChars, WiderSeq
<1>4. /\ x \in Seq(Chars) /\ f.pos \in Nat
  BY <1>1, FileRest DEF Descriptors
<1>5. Current' = Current /\ Live' = Live
  BY StaysCurrent
<1>6. h \in Descriptors /\ Told(h, y)
  <2>1. fd \in opened'[Current] /\ Typed' /\ Stream' /\ Current \in Live /\ Current \in Pids
    BY <1>2, Running DEF Mine, FilesInv
  <2>2. Told(h, y)
    BY <1>5, <2>1 DEF Stream, Told
  <2>3. fd \in Fds
    BY MineAre
  <2> QED
    BY <2>1, <2>2, <2>3 DEF Typed
<1>7. h.ops = dentries[k].file_type /\ h.inode = dentries[k].inode_num
  BY <1>1, <1>2
<1> HIDE DEF f, h, x, y
<1>8. /\ Len(y) = h.pos /\ y \in Seq(Chars) /\ Len(Bytes(dentries[k])) = l
      /\ \E e \in Seq(Chars) : y \o e = Bytes(dentries[k])
  <2>1. h.ops = "file" /\ h.inode = f.inode
    BY <1>2
  <2>2. Len(y) = h.pos /\ y \in Seq(Chars) /\ Len(Bytes(dentries[k])) = inodes[h.inode].length
    BY <1>6, <1>7, <2>1, FileRest
  <2>3. \E e \in Seq(Chars) : y \o e = Bytes(dentries[k])
    <3>1. Continues(y, k)
      BY <1>6, <1>7, <2>1, FileRest
    <3> QED
      BY <3>1 DEF Continues
  <2> QED
    BY <2>1, <2>2, <2>3
<1>9. PICK e \in Seq(Chars) : y \o e = Bytes(dentries[k])
  BY <1>8
<1>10. h.pos = l => e = <<>>
  BY <1>8, <1>9
<1>11. l \in Nat
  BY <1>1, FileRest
<1>12. (x \o d) \o e = Bytes(dentries[k])
  BY <1>2, <1>9
<1> QED
  BY <1>2, <1>3, <1>4, <1>9, <1>10, <1>11, <1>12 DEF f, h, x, y

\* One read of do_one_file keeps ProgramsInv: of what has been read, the lines before
\* the one in the buffer have been reported, each once, wherever the reads cut them.
LEMMA GrepReadStep ==
    ASSUME ProgramsInv, GrepRead
    PROVE  ProgramsInv'
<1> DEFINE fd == Now.fd
           g == Now.fd0
           b == Now.buf
           n == GREP_BUFSIZE - Len(b)
           name == Now.name
           f == File(g)
           h == files'[Current][g]
           t == Seen(g)
           d == result'.data
           cnt == result'.value
           lines == Lines(b \o d)
           s == Args
<1>1. Kept /\ Task = "grep" /\ GrepReading
  BY TaskAt DEF ProgramsInv, GrepRead, Owner, Inside
<1>2. /\ FilesInv /\ IsLocals(Now) /\ Out \in Seq(Printed) /\ UNCHANGED <<args, cmd>>
      /\ read(g, n) /\ b \in Seq(Chars)
  BY <1>1, RunningProgram DEF GrepRead, IsLocals
<1>3. /\ Searchable /\ Mine = {fd, g} /\ fd # g /\ IsDir(fd) /\ Args # <<>>
      /\ Describes(g, Entry0) /\ Len(b) < GREP_BUFSIZE
      /\ Lucky => Searching(Out, f, t, b, Reported(Args, Entry0 - 1), name, Args)
  BY <1>1 DEF GrepReading, Searchable
<1>4. PICK k : k = Entry0
  OBVIOUS
<1> DEFINE before == Reported(s, k - 1)
<1>5. /\ k \in Nat /\ k \in DOMAIN dentries /\ name \in Seq(Chars)
      /\ name = dentries[k].file_name /\ dentries[k].file_type \in Types \ {"dir"}
      /\ before \in Seq(Chars)
      /\ Reported(s, k) = before \o Report(name, Lines(Bytes(dentries[k])), s)
  <2>1. Reported(s, k) = before \o Searched(s, dentries[k])
    BY <1>2, <1>3, <1>4, SearchableEntry
  <2> QED
    BY <1>2, <1>3, <1>4, <2>1, SearchableEntry, Entries DEF Searched
<1>6. /\ Len(b) \in Nat /\ n \in 1..UINT-1 /\ n \in Nat /\ GREP_BUFSIZE \in Nat
      /\ n + Len(b) = GREP_BUFSIZE
  BY <1>2, <1>3, Sizes, ImageAssumption
<1>7. /\ g \in Mine /\ g \in Fds /\ fd \in Fds /\ f.ops = dentries[k].file_type /\ f.ops \in {"file", "rtc"}
      /\ f.inode = dentries[k].inode_num /\ Describes(g, k)
      /\ f.ops = "rtc" => t = <<>>
  <2>1. Describes(g, k)
    BY <1>3, <1>4
  <2> QED
    BY <1>2, <1>5, <2>1, <1>3, MineAre DEF Describes, Types
<1>8. /\ FilesInv' /\ stack' = stack
      /\ Refused("read", g) \/ HasRead(g, n) \/ HasListed(g, n) \/ HasEnded(g)
  <2> HIDE DEF n, g
  <2> QED
    BY <1>2, <1>6, ReadOutcome
<1>9. ~Refused("read", g) /\ ~HasListed(g, n)
  <2>1. f.ops \in Types /\ f.ops # "dir"
    BY <1>7 DEF Types
  <2> QED
    BY <1>7, <2>1, CanRead DEF Refused, HasListed
<1>10. /\ t \in Seq(Chars) /\ d \in Seq(Chars) /\ cnt = Len(d) /\ cnt \in Nat /\ cnt <= n
       /\ opened'[Current] = Mine /\ OnlyAt(g) /\ h.ops = f.ops /\ h.inode = f.inode
       /\ h.ops = "rtc" => seen'[Current][g] = <<>>
       /\ seen'[Current][g] = t \o d
       /\ AllRead(f) => d = <<>>
       /\ cnt < n => AllRead(h)
  <2>1. CASE HasRead(g, n)
    <3>0. f.ops = "file"
      BY <2>1 DEF HasRead
    <3>1. /\ t \in Seq(Chars) /\ d \in Seq(Chars)
          /\ cnt = Len(d) /\ cnt \in 0..n
          /\ f.pos \in Nat
          /\ seen'[Current][g] = t \o d
          /\ h.ops = "file" /\ h.inode = f.inode
          /\ h.pos = f.pos + cnt
          /\ h.pos <= inodes[f.inode].length
          /\ inodes[f.inode].length \in Nat
          /\ cnt < n => h.pos = inodes[f.inode].length
          /\ opened' = opened /\ OnlyAt(g)
      <4> HIDE DEF n
      <4> QED
        BY <1>2, <1>5, <1>6, <1>7, <1>8, <2>1, <3>0, FileStep
    <3>2. AllRead(f) => d = <<>>
      <4> SUFFICES ASSUME AllRead(f) PROVE d = <<>>
        OBVIOUS
      <4>1. f.pos = inodes[f.inode].length
        BY <3>0 DEF AllRead
      <4> HIDE DEF f, h, cnt, d
      <4>2. cnt = 0
        BY <1>6, <3>1, <4>1
      <4>3. d \in Seq(Chars) /\ Len(d) = 0
        BY <3>1, <4>2
      <4> QED
        BY <4>3
    <3>3. cnt < n => AllRead(h)
      BY <3>1 DEF AllRead
    <3>4. cnt \in Nat /\ cnt <= n
      <4> HIDE DEF cnt, n
      <4> QED
        BY <1>6, <3>1
    <3> QED
      BY <3>0, <3>1, <3>2, <3>3, <3>4 DEF Mine
  <2>2. CASE HasEnded(g)
    <3>1. f.ops = "rtc" /\ cnt = 0 /\ d = <<>> /\ Alone /\ t = <<>>
      BY <1>7, <2>2 DEF HasEnded, Nothing, Returns
    <3>2. h = f /\ seen'[Current][g] = t /\ OnlyAt(g) /\ opened'[Current] = Mine
      BY <3>1 DEF Alone, File, Seen, Mine, OnlyAt
    <3>3. t \o d = <<>> /\ t \in Seq(Chars) /\ d \in Seq(Chars) /\ Len(d) = 0 /\ cnt \in Nat /\ cnt <= n
      BY <1>6, <3>1
    <3>4. AllRead(h)
      BY <3>1, <3>2 DEF AllRead
    <3> QED
      BY <3>1, <3>2, <3>3, <3>4
  <2> QED
    BY <1>8, <1>9, <2>1, <2>2
<1>11. /\ \E e \in Seq(Chars) : (t \o d) \o e = Bytes(dentries[k]) /\ (d = <<>> => e = <<>>)
  <2>1. CASE HasRead(g, n)
    <3>0. f.ops = "file"
      BY <2>1 DEF HasRead
    <3>1. PICK e \in Seq(Chars) :
            /\ (t \o d) \o e = Bytes(dentries[k])
            /\ h.pos = inodes[f.inode].length => e = <<>>
      <4> HIDE DEF n
      <4> QED
        BY <1>2, <1>5, <1>6, <1>7, <1>8, <2>1, <3>0, FileStep
    <3>2. d = <<>> => cnt < n
      BY <1>6, <1>10
    <3>3. cnt < n => h.pos = inodes[f.inode].length
      BY <2>1 DEF HasRead
    <3> QED
      BY <3>1, <3>2, <3>3
  <2>2. CASE HasEnded(g)
    <3>1. f.ops = "rtc" /\ d = <<>> /\ t = <<>>
      BY <1>7, <2>2 DEF HasEnded, Nothing, Returns
    <3>2. Bytes(dentries[k]) = <<>>
      BY <1>7, <3>1 DEF Bytes
    <3>3. (<<>> \o <<>>) \o <<>> = <<>> /\ <<>> \in Seq(Chars)
      OBVIOUS
    <3> QED
      BY <3>1, <3>2, <3>3
  <2> QED
    BY <1>8, <1>9, <2>1, <2>2
<1>12. PICK behind :
         LET keep == KeepsLast(lines, cnt, behind)
             last == lines[Len(lines)]
             behindFull == Len(b \o d) = GREP_BUFSIZE /\ last # <<>>
         IN
         /\ Write(Report(name, IF keep THEN Front(lines) ELSE lines, s))
         /\ Become([Now EXCEPT
               !.pc = GrepNext(cnt),
               !.buf = IF keep THEN last ELSE <<>>,
               !.junk = IF behindFull THEN NUL ELSE @,
               !.unlucky = @ \/ (behindFull /\ behind = NL /\ Len(lines) > 1)])
  <2>1. ~Failed
    BY <1>10 DEF Failed
  <2> QED
    BY <2>1, Zenon DEF GrepRead, Args
<1> DEFINE keep == KeepsLast(lines, cnt, behind)
           bad == Len(b \o d) = GREP_BUFSIZE /\ Last(lines) # <<>> /\ behind = NL /\ Len(lines) > 1
           kept == IF keep THEN Last(lines) ELSE <<>>
           w == Report(name, IF keep THEN Front(lines) ELSE lines, s)
           byte == IF Len(b \o d) = GREP_BUFSIZE /\ Last(lines) # <<>> THEN NUL ELSE Now.junk
           r == [Now EXCEPT !.pc = GrepNext(cnt), !.buf = kept, !.junk = byte,
                            !.unlucky = Now.unlucky \/ bad]
<1>13. Become(r) /\ Write(w)
  BY <1>12 DEF Last
<1>14. /\ lines \in Texts(Chars) /\ Ending(b \o d) /\ b \o d \in Seq(Chars)
       /\ Len(b \o d) \in Nat /\ Len(b \o d) <= GREP_BUFSIZE
       /\ Len(b \o d) < GREP_BUFSIZE => AllRead(h)
  <2>1. b \o d \in Seq(Chars) /\ Len(b \o d) = Len(b) + cnt
    BY <1>2, <1>10
  <2>2. lines \in Texts(Chars) /\ Ending(b \o d)
    <3> DEFINE u == b \o d
    <3>1. u \in Seq(Chars)
      BY <2>1
    <3> HIDE DEF u
    <3>2. Lines(u) \in Texts(Chars) /\ Ending(u)
      BY <3>1, LineLengths
    <3> QED
      BY <3>2 DEF u
  <2> HIDE DEF n, b, d, cnt
  <2>3. Len(b) + cnt <= GREP_BUFSIZE
    BY <1>6, <1>10
  <2>4. Len(b) + cnt < GREP_BUFSIZE => cnt < n
    BY <1>6, <1>10
  <2> QED
    BY <1>6, <1>10, <2>1, <2>2, <2>3, <2>4
<1>15. /\ w \in Seq(Chars) /\ kept \in Seq(Chars) /\ Len(kept) < GREP_BUFSIZE
  <2> DEFINE W == Seq(Chars)
  <2>1. lines \in Seq(W) /\ Len(lines) > 0 /\ Len(lines) \in Nat
    BY <1>14 DEF Texts
  <2>2. Front(lines) \in Seq(W) /\ Last(lines) \in W
    <3> HIDE DEF W, lines
    <3> QED
      BY <2>1, LastAndFront
  <2>3. w \in Seq(Chars)
    <3>1. (IF keep THEN Front(lines) ELSE lines) \in Seq(Seq(Chars))
      BY <2>1, <2>2
    <3> QED
      BY <1>5, <3>1, Reports
  <2>4. CASE keep
    <3>1. Len(lines) > 1
      BY <2>4 DEF KeepsLast
    <3>2. Len(Last(lines)) < Len(b \o d)
      BY <1>14, <3>1 DEF Ending, Last
    <3>3. Len(Last(lines)) \in Nat
      BY <2>2
    <3>4. kept = Last(lines)
      BY <2>4
    <3> HIDE DEF kept, lines, keep, w
    <3>5. Len(Last(lines)) < GREP_BUFSIZE
      <4> DEFINE q == Len(b \o d)
      <4>1. q \in Nat /\ q <= GREP_BUFSIZE /\ Len(Last(lines)) < q
        BY <1>14, <3>2
      <4> HIDE DEF q
      <4> QED
        BY <1>6, <3>3, <4>1
    <3> QED
      BY <2>2, <2>3, <3>4, <3>5
  <2>5. CASE ~keep
    <3>1. kept = <<>>
      BY <2>5
    <3>2. Len(<<>>) < GREP_BUFSIZE /\ <<>> \in Seq(Chars)
      BY Sizes
    <3> QED
      BY <2>3, <3>1, <3>2
  <2> QED
    BY <2>4, <2>5
<1>16. /\ IsLocals(r) /\ r.pc = GrepNext(cnt) /\ r.fd = fd /\ r.fd0 = g /\ r.name = name
       /\ r.buf = kept /\ r.unlucky = (Now.unlucky \/ bad)
  <2> HIDE DEF kept, bad, byte
  <2> QED
    BY <1>2, <1>15 DEF IsLocals
<1> HIDE DEF r, w, kept
<1>17. Move(r, Out \o w)
  BY <1>1, <1>2, <1>8, <1>13, WritingMove
<1>18. Out \o w \in Seq(Printed)
  BY <1>2, <1>15, Written
<1>19. r.pc \in {"grep read", "grep close"} /\ (cnt = 0 => r.pc = "grep close") /\ (cnt # 0 => r.pc = "grep read")
  BY <1>16 DEF GrepNext
<1>20. /\ Kept' /\ Now' = r /\ Out' = Out \o w /\ Task' = Task /\ Current' = Current /\ Args' = Args
  <2>1. Owner(r.pc) = Task
    BY <1>1, <1>19 DEF Owner
  <2> QED
    BY <1>1, <1>8, <1>16, <1>17, <1>18, <2>1, Moved
<1>21. files'[Current][fd] = files[Current][fd]
  BY <1>3, <1>7, <1>10 DEF OnlyAt
<1>22. Entry0' = k /\ IsDir(Now.fd)' /\ Mine' = {Now'.fd, Now'.fd0} /\ Now'.fd # Now'.fd0
  BY <1>3, <1>4, <1>10, <1>16, <1>20, <1>21 DEF Entry0, IsDir, File, Mine
<1>23. Searchable'
  <2>1. k > 0
    BY <1>3, <1>4 DEF Searchable
  <2> QED
    BY <1>3, <1>5, <1>16, <1>20, <1>22, <2>1 DEF Searchable
<1>24. Describes(Now.fd0, Entry0)'
  <2>0. PICK q : q = g
    OBVIOUS
  <2>1. Describes(q, k)'
    BY <1>7, <1>10, <1>20, <2>0 DEF Describes, File, Seen, Mine
  <2> QED
    BY <1>16, <1>20, <1>22, <2>0, <2>1
<1>25. Len(Now.buf)' < GREP_BUFSIZE
  BY <1>15, <1>16, <1>20
<1>26. ASSUME Lucky'
       PROVE  /\ cnt = 0 => Out \o w = Reported(s, k)
              /\ cnt # 0 => Searching(Out \o w, h, t \o d, kept, before, name, s)
  <2>1. LinesFit /\ ~Now'.unlucky
    BY <1>26 DEF Lucky
  <2>2. LinesFit /\ ~Now.unlucky /\ ~bad
    BY <1>16, <1>20, <2>1
  <2>3. Searching(Out, f, t, b, before, name, s)
    BY <1>3, <1>4, <2>2 DEF Lucky
  <2>4. PICK e \in Seq(Chars) : (t \o d) \o e = Bytes(dentries[k]) /\ (d = <<>> => e = <<>>)
    BY <1>11
  <2>5. cnt = 0 <=> d = <<>>
    BY <1>10
  <2>6. keep \in BOOLEAN /\ (keep <=> behind # NL /\ d # <<>> /\ Len(lines) > 1)
    BY <2>5 DEF KeepsLast
  <2>7. /\ d = <<>> => Out \o w = before \o Report(name, Lines(Bytes(dentries[k])), s)
        /\ \/ d = <<>> \/ bad
           \/ Searching(Out \o w, h, t \o d, kept, before, name, s)
    <3>1. Turned(k, t, d, b, Out, before, name, s, h, behind, keep)
      <4>1. Len(b \o d) < GREP_BUFSIZE => AllRead(h)
        BY <1>14
      <4>2. Len(b \o d) <= GREP_BUFSIZE
        BY <1>14
      <4>3. keep <=> behind # NL /\ d # <<>> /\ Len(Lines(b \o d)) > 1
        BY <2>6
      <4>4. d \in Seq(Chars) /\ t \in Seq(Chars) /\ AllRead(f) => d = <<>>
        BY <1>10
      <4>5. k \in DOMAIN dentries /\ name \in Seq(Chars) /\ before \in Seq(Chars)
        BY <1>5
      <4>6. b \in Seq(Chars) /\ LinesFit /\ keep \in BOOLEAN
        BY <1>2, <2>2, <2>6
      <4> HIDE DEF s, before, name, b, d, f, h, t, keep, lines
      <4> QED
        BY <1>10, <2>3, <2>4, <4>1, <4>2, <4>3, <4>4, <4>5, <4>6, GrepTurn
    <3> QED
      BY <3>1 DEF Turned, w, kept
  <2> QED
    BY <1>5, <2>2, <2>5, <2>7
<1>27. CASE cnt = 0
  <2>1. Lucky' => Out' = Reported(Args, k)
    BY <1>20, <1>26, <1>27
  <2>2. GrepClosing'
    BY <1>20, <1>22, <1>23, <1>24, <2>1 DEF GrepClosing
  <2>3. Inside'
    BY <1>1, <1>19, <1>20, <1>27, <2>2 DEF Inside, At, Places
  <2> QED
    BY <1>20, <2>3 DEF ProgramsInv
<1>28. CASE cnt # 0
  <2>1. Lucky' => Searching(Out, File(Now.fd0), Seen(Now.fd0), Now.buf, Reported(Args, Entry0 - 1),
                            Now.name, Args)'
    <3> SUFFICES ASSUME Lucky'
                 PROVE  Searching(Out', File(Now.fd0)', Seen(Now.fd0)', Now'.buf, Reported(Args', Entry0' - 1),
                            Now'.name, Args')
      BY DEF Searching, Reported, Searched, Report
    <3>1. Searching(Out \o w, h, t \o d, kept, before, name, s)
      BY <1>26, <1>28
    <3>2. File(Now.fd0)' = h /\ Seen(Now.fd0)' = t \o d
      BY <1>10, <1>16, <1>20 DEF File, Seen
    <3> QED
      BY <1>16, <1>20, <1>22, <3>1, <3>2
  <2>2. GrepReading'
    BY <1>22, <1>23, <1>24, <1>25, <2>1 DEF GrepReading
  <2>3. Inside'
    BY <1>1, <1>19, <1>20, <1>28, <2>2 DEF Inside, At, Places
  <2> QED
    BY <1>20, <2>3 DEF ProgramsInv
<1> QED
  BY <1>27, <1>28

-----------------------------------------------------------------------------
(***************************************************************************)
(* fish                                                                    *)
(***************************************************************************)
\* A text has at most one line more than characters, and no line is longer than it.
Bounded(u) ==
    /\ Len(Lines(u)) <= Len(u) + 1
    /\ \A k \in 1..Len(Lines(u)) : Len(Lines(u)[k]) <= Len(u)

\* Every text is so bounded.
LEMMA LineBounds ==
    ASSUME NEW V, NEW u \in Seq(V)
    PROVE  Bounded(u) /\ Lines(u) \in Texts(V)
<1> DEFINE S == {d \in Seq(V) : Bounded(d)}
<1>1. <<>> \in S
  <2> DEFINE one == << <<>> >>
             e == <<>>
  <2>1. Len(one) = 1 /\ one[1] = e /\ e \in Seq(V) /\ Len(e) = 0
    OBVIOUS
  <2>2. Lines(e) = one
    BY LinesOfNothing
  <2> HIDE DEF one, e
  <2>3. Len(one) <= Len(e) + 1 /\ \A k \in 1..Len(one) : Len(one[k]) <= Len(e)
    BY <2>1
  <2>4. Bounded(e)
    BY <2>2, <2>3 DEF Bounded
  <2> QED
    BY <2>1, <2>4 DEF e
<1>2. ASSUME NEW d \in Seq(V), NEW c \in V, d \in S
      PROVE  Append(d, c) \in S
  <2> DEFINE l == Lines(d)
             n == Len(l)
             m == Broken(l, c)
             x == l[n]
             y == Append(x, c)
             dc == Append(d, c)
  <2>1. l \in Texts(V) /\ Lines(dc) = m
    BY LinesMore
  <2>2. n \in Nat /\ n > 0 /\ x \in Seq(V) /\ \A k \in 1..n : l[k] \in Seq(V)
    BY <2>1 DEF Texts
  <2>3. /\ \A k \in 1..n-1 : m[k] = l[k]
        /\ c = NL => Len(m) = n + 1 /\ m[n] = x /\ m[n + 1] = <<>>
        /\ c # NL => Len(m) = n /\ m[n] = y
    BY <2>1, BrokenAt
  <2>4. Len(y) = Len(x) + 1 /\ Len(x) \in Nat
    BY <2>2
  <2>5. dc \in Seq(V) /\ Len(dc) = Len(d) + 1 /\ Len(d) \in Nat
    OBVIOUS
  <2>6. n <= Len(d) + 1 /\ \A k \in 1..n : Len(l[k]) <= Len(d) /\ Len(l[k]) \in Nat
    BY <1>2, <2>2 DEF Bounded
  <2> DEFINE e == <<>>
  <2>7. Len(e) = 0 /\ (c = NL => m[n + 1] = e)
    BY <2>3
  <2> HIDE DEF l, n, m, x, y, dc, e
  <2>8. Len(m) <= Len(dc) + 1
    BY <2>2, <2>3, <2>5, <2>6
  <2>9. ASSUME NEW k \in 1..Len(m)
        PROVE  Len(m[k]) <= Len(dc)
    <3>1. CASE k \in 1..n-1
      <4>1. k \in 1..n /\ m[k] = l[k]
        BY <2>2, <2>3, <3>1
      <4> QED
        BY <2>5, <2>6, <4>1
    <3>2. CASE k = n
      <4>1. n \in 1..n
        BY <2>2
      <4>2. Len(x) <= Len(d)
        BY <2>6, <4>1 DEF x
      <4> QED
        BY <2>3, <2>4, <2>5, <3>2, <4>2
    <3>3. CASE k = n + 1 /\ c = NL
      <4>1. m[k] = e
        BY <2>7, <3>3
      <4> QED
        BY <2>5, <2>7, <4>1
    <3> QED
      BY <2>2, <2>3, <3>1, <3>2, <3>3
  <2>10. Bounded(dc)
    BY <2>1, <2>8, <2>9 DEF Bounded
  <2> QED
    BY <2>5, <2>10 DEF dc
<1>3. Seq(V) \subseteq S
  <2> HIDE DEF S
  <2> QED
    BY <1>1, <1>2, SequenceInduction
<1> QED
  BY <1>3, LineLengths

\* What has been read is the beginning of a frame.
Begins(text, frame) == text \in Seq(Chars) /\ \E e \in Seq(Chars) : text \o e = frame

\* The lines of what has been read of a frame go on in the frame.
LEMMA Beginning ==
    ASSUME NEW text, NEW frame, Begins(text, frame)
    PROVE  /\ GoesOn(Lines(text), Lines(frame)) /\ Lines(text) \in Texts(Chars)
<1>1. PICK e \in Seq(Chars) : text \o e = frame /\ text \in Seq(Chars)
  BY DEF Begins
<1>2. GoesOn(Lines(text), Lines(text \o e)) /\ Lines(text) \in Texts(Chars)
  BY <1>1, LinesGoOn
<1> QED
  BY <1>1, <1>2

\* A row that has ended has no character left.
LEMMA RowEmpty ==
    ASSUME NEW frame \in Seq(Chars), NEW text, NEW ended \in BOOLEAN, NEW row \in Nat, NEW i \in Nat,
           ~ended => Begins(text, frame),
           InFrame(frame, text, NL, ended, row, i), NEW j \in Nat, j >= i
    PROVE  CharAt(frame, row, j) = BLANK
<1> DEFINE m == Lines(frame)
<1>1. m \in Texts(Chars)
  BY LineLengths
<1>2. ASSUME row < Len(m)
      PROVE  Len(m[row + 1]) <= i /\ Len(m[row + 1]) \in Nat
  <2>0. Len(m) \in Nat /\ row + 1 \in 1..Len(m) /\ Len(m[row + 1]) \in Nat
    BY <1>1, <1>2 DEF Texts
  <2>1. CASE ended
    <3>1. Len(m) <= row + 1 /\ (Len(m) = row + 1 => Len(m[row + 1]) <= i)
      BY <2>1 DEF InFrame
    <3> HIDE DEF m
    <3> QED
      BY <1>2, <2>0, <3>1
  <2>2. CASE ~ended
    <3> DEFINE l == Lines(text)
    <3>1. Len(l) = row + 2 /\ Len(l[row + 1]) <= i
      BY <2>2 DEF InFrame
    <3>2. GoesOn(l, m)
      BY <2>2, Beginning
    <3> HIDE DEF l, m
    <3>3. row + 1 \in 1..Len(l)-1
      BY <3>1
    <3>4. m[row + 1] = l[row + 1]
      BY <3>2, <3>3 DEF GoesOn
    <3> QED
      BY <2>0, <3>1, <3>4
  <2> QED
    BY <2>1, <2>2
<1> HIDE DEF m
<1>3. ~(row < Len(m) /\ j < Len(m[row + 1]))
  BY <1>2
<1> QED
  BY <1>3 DEF CharAt, m

\* Beside a row that has ended the other goes on.
LEMMA FrameStays ==
    ASSUME NEW frame \in Seq(Chars), NEW text, NEW ended \in BOOLEAN, NEW row \in Nat, NEW i \in Nat,
           ~ended => Begins(text, frame), InFrame(frame, text, NL, ended, row, i)
    PROVE  InFrame(frame, text, NL, ended, row, i + 1)
<1> DEFINE m == Lines(frame)
           l == Lines(text)
<1>1. m \in Texts(Chars) /\ (~ended => l \in Texts(Chars))
  BY LineLengths, Beginning
<1>2. ASSUME ended
      PROVE  Len(m) <= row + 1 /\ (Len(m) = row + 1 => Len(m[row + 1]) <= i + 1)
  <2>1. Len(m) <= row + 1 /\ (Len(m) = row + 1 => Len(m[row + 1]) <= i)
    BY <1>2 DEF InFrame
  <2>2. Len(m) = row + 1 => Len(m[row + 1]) \in Nat
    BY <1>1 DEF Texts
  <2> HIDE DEF m
  <2> QED
    BY <2>1, <2>2
<1>3. ASSUME ~ended
      PROVE  Len(l) = row + 2 /\ Last(l) = <<>> /\ Len(l[row + 1]) <= i + 1
  <2>1. Len(l) = row + 2 /\ Last(l) = <<>> /\ Len(l[row + 1]) <= i
    BY <1>3 DEF InFrame
  <2>2. Len(l[row + 1]) \in Nat
    BY <1>1, <1>3, <2>1 DEF Texts
  <2> HIDE DEF l
  <2> QED
    BY <2>1, <2>2
<1> QED
  BY <1>2, <1>3 DEF InFrame

\* The end of a file ends its last row.
LEMMA FrameEnds ==
    ASSUME NEW frame \in Seq(Chars), NEW text, NEW c, NEW row \in Nat, NEW i \in Nat,
           c # NL, InFrame(frame, frame, c, FALSE, row, i)
    PROVE  InFrame(frame, text, NL, TRUE, row, i + 1) /\ CharAt(frame, row, i) = BLANK
<1> DEFINE m == Lines(frame)
<1>1. Len(m) = row + 1 /\ Len(m[row + 1]) = i
  BY DEF InFrame, Last
<1> HIDE DEF m
<1>2. Len(m) <= row + 1 /\ (Len(m) = row + 1 => Len(m[row + 1]) <= i + 1)
  BY <1>1
<1>3. ~(row < Len(m) /\ i < Len(m[row + 1]))
  BY <1>1
<1> QED
  BY <1>2, <1>3 DEF InFrame, CharAt, m

\* The next character x of a row has been read.
Advanced(frame, text, x, row, i) ==
    InFrame(frame, Append(text, x), x, FALSE, row, i + 1) /\ CharAt(frame, row, i) = Cell(x)

\* The next character of a row, or its end.
LEMMA FrameGoesOn ==
    ASSUME NEW frame \in Seq(Chars), NEW text \in Seq(Chars), NEW c, NEW row \in Nat, NEW i \in Nat,
           c # NL, InFrame(frame, text, c, FALSE, row, i), NEW x \in Chars,
           Begins(Append(text, x), frame)
    PROVE  Advanced(frame, text, x, row, i)
<1> USE DEF Advanced
<1> DEFINE m == Lines(frame)
           l == Lines(text)
           b == Lines(Append(text, x))
           n == row + 1
<1>1. l \in Texts(Chars) /\ b = Broken(l, x) /\ m \in Texts(Chars)
  BY LinesMore, LineLengths
<1>2. Len(l) = n /\ Len(l[n]) = i /\ n \in Nat /\ l[n] \in Seq(Chars)
  BY <1>1 DEF InFrame, Last, Texts
<1>3. /\ x = NL => Len(b) = n + 1 /\ b[n] = l[n] /\ b[n + 1] = <<>>
      /\ x # NL => Len(b) = n /\ b[n] = Append(l[n], x)
  BY <1>1, <1>2, BrokenAt
<1>4. GoesOn(b, m)
  BY Beginning
<1>5. Len(m) \in Nat /\ \A k \in 1..Len(m) : m[k] \in Seq(Chars)
  BY <1>1 DEF Texts
<1> DEFINE y == l[n]
<1>6. Len(Append(y, x)) = i + 1 /\ Append(y, x)[i + 1] = x
  BY <1>2
<1> HIDE DEF m, l, b, y
<1>7. CASE x = NL
  <2>1. Len(b) = row + 2 /\ b[row + 2] = <<>> /\ Len(b[row + 1]) <= i + 1 /\ Len(b[n]) = i
    BY <1>2, <1>3, <1>7
  <2>2. m[n] = b[n]
    <3>1. n \in 1..Len(b)-1
      BY <1>2, <2>1
    <3> QED
      BY <1>4, <3>1 DEF GoesOn
  <2>3. ~(i < Len(m[row + 1]))
    BY <2>1, <2>2
  <2>4. CharAt(frame, row, i) = BLANK
    BY <2>3 DEF CharAt, m
  <2>5. Last(b) = <<>>
    BY <2>1 DEF Last
  <2> QED
    BY <1>7, <2>1, <2>4, <2>5 DEF InFrame, Cell, b
<1>8. CASE x # NL
  <2>1. Len(b) = n /\ b[n] = Append(y, x)
    BY <1>3, <1>8 DEF y
  <2>2. Len(b[n]) = i + 1 /\ b[n][i + 1] = x
    BY <1>6, <2>1
  <2>3. Len(m) >= n /\ Len(m[n]) >= i + 1 /\ m[n][i + 1] = x
    <3>1. /\ Len(m) >= n /\ Len(m[n]) >= Len(b[n])
          /\ \A j \in 1..Len(b[n]) : m[n][j] = b[n][j]
      BY <1>4, <2>1 DEF GoesOn
    <3>2. i + 1 \in 1..Len(b[n])
      BY <2>2
    <3> QED
      BY <2>2, <3>1, <3>2
  <2>4. row < Len(m) /\ i < Len(m[row + 1])
    <3>1. Len(m[n]) \in Nat
      BY <1>2, <1>5, <2>3
    <3> QED
      BY <1>5, <2>3, <3>1
  <2>5. CharAt(frame, row, i) = x
    BY <2>3, <2>4 DEF CharAt, m
  <2>6. Len(b) = row + 1 /\ Len(Last(b)) = i + 1
    BY <2>1, <2>2 DEF Last
  <2> QED
    BY <1>8, <2>5, <2>6 DEF InFrame, Cell, b
<1> QED
  BY <1>7, <1>8

\* One character behind a text.
IsOneMore(text, d) == text \o d = Append(text, d[1])

\* A read of one character puts it behind the text.
LEMMA OneChar ==
    ASSUME NEW V, NEW text \in Seq(V), NEW d \in Seq(V), Len(d) = 1
    PROVE  d[1] \in V /\ IsOneMore(text, d) /\ Append(text, d[1]) \in Seq(V)
<1> DEFINE x == d[1]
<1>1. x \in V /\ d = <<x>>
  OBVIOUS
<1> HIDE DEF x
<1>2. text \o <<x>> = Append(text, x) /\ Append(text, x) \in Seq(V)
  BY <1>1
<1>3. text \o d = Append(text, x)
  BY <1>1, <1>2
<1> QED
  BY <1>1, <1>2, <1>3 DEF IsOneMore, x

\* A read of nothing.
LEMMA NoChar ==
    ASSUME NEW V, NEW d \in Seq(V), Len(d) = 0
    PROVE  d = <<>>
  OBVIOUS

\* What a descriptor of the entry k has read of it.
LEMMA ReadSoFar ==
    ASSUME FilesInv, NEW q, NEW k \in DOMAIN dentries, Describes(q, k),
           dentries[k].file_type = "file"
    PROVE  /\ q \in Mine /\ File(q).ops = "file" /\ Begins(Seen(q), Bytes(dentries[k]))
           /\ Bytes(dentries[k]) \in Seq(Chars) /\ Seen(q) \in Seq(Chars)
<1> DEFINE f == File(q)
           x == Seen(q)
<1>1. /\ q \in Mine /\ f.ops = "file" /\ f.ops = dentries[k].file_type
      /\ f.inode = dentries[k].inode_num
  BY DEF Describes
<1>2. f \in Descriptors /\ Told(f, x)
  BY <1>1, MineAre
<1> HIDE DEF f, x
<1>3. x \in Seq(Chars) /\ Continues(x, k)
  BY <1>1, <1>2, FileRest
<1> QED
  BY <1>1, <1>3, EntryText DEF Begins, Continues, f, x

\* One character of a frame.
CharHasBeenRead(q, k, c, ended, row, i) ==
    LET now == CharRead(c)
        over == ended \/ (c # NL /\ result'.value = 0)
    IN
    /\ FilesInv' /\ stack' = stack /\ opened'[Current] = Mine /\ OnlyAt(q)
    /\ now \in Chars
    /\ InFrame(Bytes(dentries[k]), seen'[Current][q], now, over, row, i + 1)
    /\ CharAt(Bytes(dentries[k]), row, i) = Cell(now)
    /\ ~over => /\ files'[Current][q].ops = "file"
                /\ files'[Current][q].inode = dentries[k].inode_num

\* A character of a frame, read or not because its row has ended, is the one at its
\* place in the frame, and fish is in the same row afterwards, one column on.
LEMMA CharStep ==
    ASSUME FilesInv, NEW q, NEW k \in DOMAIN dentries, dentries[k].file_type = "file",
           NEW c \in Chars, NEW ended \in BOOLEAN, NEW row \in Nat, NEW i \in Nat,
           ~ended => Describes(q, k), NextChar(q, c),
           InFrame(Bytes(dentries[k]), Seen(q), c, ended, row, i)
    PROVE  CharHasBeenRead(q, k, c, ended, row, i)
<1> DEFINE frame == Bytes(dentries[k])
           text == Seen(q)
           now == CharRead(c)
           over == ended \/ (c # NL /\ result'.value = 0)
<1>1. frame \in Seq(Chars) /\ (~ended => Begins(text, frame))
  BY EntryText, ReadSoFar
<1>2. CASE c = NL
  <2>1. Answers(1) /\ now = NL /\ over = ended
    BY <1>2 DEF NextChar, CharRead
  <2>2. FilesInv' /\ stack' = stack /\ Alone
    BY <2>1, AnswerOutcome DEF Answers, Alone
  <2>3. opened'[Current] = Mine /\ OnlyAt(q) /\ seen'[Current][q] = text /\ files'[Current][q] = File(q)
    BY <2>2 DEF Alone, Mine, OnlyAt, Seen, File
  <2>4. ~ended => File(q).ops = "file" /\ File(q).inode = dentries[k].inode_num
    BY DEF Describes
  <2>5. InFrame(frame, text, NL, ended, row, i)
    BY <1>2
  <2> HIDE DEF frame, text
  <2>6. InFrame(frame, text, NL, ended, row, i + 1)
    BY <1>1, <2>5, FrameStays
  <2>7. CharAt(frame, row, i) = BLANK
    <3>1. i >= i
      OBVIOUS
    <3> QED
      BY <1>1, <2>5, <3>1, RowEmpty
  <2>8. NL \in Chars /\ Cell(NL) = BLANK
    BY WordsWritten DEF Words, Cell
  <2> QED
    BY <2>1, <2>2, <2>3, <2>4, <2>6, <2>7, <2>8 DEF CharHasBeenRead, frame
<1>3. CASE c # NL
  <2>1. ~ended /\ InFrame(frame, text, c, FALSE, row, i)
    <3>1. ~ended
      BY <1>3 DEF InFrame
    <3>2. ended = FALSE
      BY <3>1
    <3> QED
      BY <3>1, <3>2
  <2>2. Describes(q, k) /\ q \in Mine /\ File(q).ops = "file" /\ Begins(text, frame) /\ text \in Seq(Chars)
    BY <2>1, ReadSoFar
  <2>3. read(q, 1)
    BY <1>3 DEF NextChar
  <2>4. /\ FilesInv' /\ stack' = stack
        /\ Refused("read", q) \/ HasRead(q, 1) \/ HasListed(q, 1) \/ HasEnded(q)
    BY <2>3, Sizes, ReadOutcome
  <2>5. HasRead(q, 1)
    <3>1. File(q).ops \in Types
      BY <2>2 DEF Types
    <3> QED
      BY <2>2, <2>4, <3>1, CanRead DEF Refused, HasListed, HasEnded
  <2> DEFINE d == result'.data
             h == files'[Current][q]
             y == seen'[Current][q]
  <2>6. /\ d \in Seq(Chars) /\ result'.value = Len(d) /\ result'.value \in 0..1
        /\ y = text \o d
        /\ h.ops = "file" /\ h.inode = File(q).inode
        /\ result'.value < 1 => h.pos = inodes[File(q).inode].length
        /\ opened' = opened /\ OnlyAt(q)
    BY <2>2, <2>4, <2>5, FileStep
  <2>7. PICK e \in Seq(Chars) :
          /\ (text \o d) \o e = frame
          /\ h.pos = inodes[File(q).inode].length => e = <<>>
    BY <2>2, <2>4, <2>5, FileStep
  <2>8. opened'[Current] = Mine /\ h.inode = dentries[k].inode_num
    BY <2>2, <2>6 DEF Mine, Describes
  <2>9. CASE result'.value = 0
    <3>1. now = NL /\ over = TRUE
      <4>1. ~Failed
        BY <2>9 DEF Failed
      <4>2. now = NL
        BY <1>3, <2>9, <4>1, Zenon DEF CharRead
      <4> QED
        BY <1>3, <2>9, <4>2
    <3>2. d = <<>> /\ e = <<>>
      <4>1. Len(d) = 0 /\ d \in Seq(Chars) /\ result'.value < 1
        BY <2>6, <2>9
      <4>2. d = <<>>
        <5> HIDE DEF d
        <5> QED
          BY <4>1, NoChar
      <4> QED
        BY <2>6, <2>7, <4>1, <4>2
    <3>3. text = frame
      BY <2>2, <2>7, <3>2
    <3>4. InFrame(frame, frame, c, FALSE, row, i)
      BY <2>1, <3>3
    <3> HIDE DEF frame, text
    <3>5. InFrame(frame, y, NL, TRUE, row, i + 1) /\ CharAt(frame, row, i) = BLANK
      BY <1>1, <1>3, <3>4, FrameEnds
    <3>6. NL \in Chars /\ Cell(NL) = BLANK
      BY WordsWritten DEF Words, Cell
    <3> QED
      BY <2>4, <2>6, <2>8, <3>1, <3>5, <3>6 DEF CharHasBeenRead, frame
  <2>10. CASE result'.value = 1
    <3> DEFINE x == d[1]
    <3>1. now = x /\ over = FALSE
      <4>1. ~Failed /\ result'.value # 0
        BY <2>10 DEF Failed
      <4>2. now = x
        BY <1>3, <4>1, Zenon DEF CharRead
      <4> QED
        BY <2>1, <4>1, <4>2
    <3>2. Len(d) = 1 /\ d \in Seq(Chars)
      BY <2>6, <2>10
    <3>3. x \in Chars /\ text \o d = Append(text, x) /\ Append(text, x) \in Seq(Chars)
      <4> HIDE DEF d, text
      <4> QED
        BY <2>2, <3>2, OneChar DEF IsOneMore
    <3>4. Append(text, x) \in Seq(Chars)
      BY <3>3
    <3> HIDE DEF frame, text, x
    <3>5. Begins(Append(text, x), frame)
      BY <2>7, <3>3, <3>4 DEF Begins
    <3>6. InFrame(frame, Append(text, x), x, FALSE, row, i + 1) /\ CharAt(frame, row, i) = Cell(x)
      <4>1. Advanced(frame, text, x, row, i)
        BY <1>1, <1>3, <2>1, <2>2, <3>3, <3>5, FrameGoesOn
      <4> QED
        BY <4>1 DEF Advanced
    <3> QED
      BY <2>4, <2>6, <2>8, <3>1, <3>2, <3>3, <3>6 DEF CharHasBeenRead, frame
  <2> QED
    BY <2>6, <2>9, <2>10
<1> QED
  BY <1>2, <1>3

\* The entry of a frame.
EntryNamed(name) == read_dentry_by_name(name)

\* Both frames are files of the directory.
LEMMA FrameFound ==
    ASSUME NEW name \in {<<"frame0">>, <<"frame1">>}
    PROVE  /\ EntryNamed(name) \in DOMAIN dentries /\ EntryNamed(name) # 0
           /\ dentries[EntryNamed(name)].file_type = "file"
           /\ BytesOf(name) = Bytes(dentries[EntryNamed(name)])
<1>1. PICK k \in DOMAIN dentries : dentries[k].file_name = name /\ dentries[k].file_type = "file"
  BY DirectoryAssumption
<1>2. read_dentry_by_name(name) = k
  BY <1>1, NameFound
<1>3. k # 0
  BY Entries
<1>4. (CHOOSE d \in Dentries : d.file_name = name) = dentries[k]
  <2>1. dentries[k] \in Dentries
    BY DEF Dentries
  <2>2. ASSUME NEW d \in Dentries, d.file_name = name
        PROVE  d = dentries[k]
    <3>1. PICK j \in DOMAIN dentries : d = dentries[j]
      BY DEF Dentries
    <3>2. j = k
      BY <1>1, <2>2, <3>1, DirectoryAssumption
    <3> QED
      BY <3>1, <3>2
  <2> QED
    BY <1>1, <2>1, <2>2
<1> QED
  BY <1>1, <1>2, <1>3, <1>4 DEF BytesOf, EntryNamed

\* A cell of the two frames, and whether nothing is there.
Spot(row, col) == <<row, col, CharAt(Frame0, row, col), CharAt(Frame1, row, col)>>
Dark(row, col) == CharAt(Frame0, row, col) = BLANK /\ CharAt(Frame1, row, col) = BLANK

\* The frames are texts.
LEMMA FramesTyped == Frame0 \in Seq(Chars) /\ Frame1 \in Seq(Chars)
<1>1. /\ Frame0 = Bytes(dentries[EntryNamed(<<"frame0">>)])
      /\ Frame1 = Bytes(dentries[EntryNamed(<<"frame1">>)])
      /\ EntryNamed(<<"frame0">>) \in DOMAIN dentries /\ EntryNamed(<<"frame1">>) \in DOMAIN dentries
  BY FrameFound DEF Frame0, Frame1
<1> QED
  BY <1>1, EntryText

\* A character is within the bounds of its frame.
LEMMA CharBounds ==
    ASSUME NEW frame \in Seq(Chars), NEW row \in Nat, NEW col \in Nat,
           CharAt(frame, row, col) # BLANK
    PROVE  row <= Len(frame) /\ col <= Len(frame)
<1> DEFINE m == Lines(frame)
<1>1. m \in Texts(Chars) /\ Bounded(frame)
  BY LineBounds
<1>2. row < Len(m) /\ col < Len(m[row + 1])
  BY DEF CharAt
<1>3. Len(m) \in Nat /\ Len(frame) \in Nat /\ row + 1 \in 1..Len(m)
  BY <1>1, <1>2 DEF Texts
<1>4. Len(m[row + 1]) \in Nat /\ Len(m) <= Len(frame) + 1 /\ Len(m[row + 1]) <= Len(frame)
  BY <1>1, <1>3 DEF Texts, Bounded
<1> HIDE DEF m
<1> QED
  BY <1>2, <1>3, <1>4

\* The cells fish has to show are those with a character in one of the frames.
LEMMA Cells ==
    \A q : q \in FishCells <=> \E row, col \in Nat : q = Spot(row, col) /\ ~Dark(row, col)
<1> DEFINE n == Len(Frame0) + Len(Frame1)
           size == 0..n
           C == {<<row, col, CharAt(Frame0, row, col), CharAt(Frame1, row, col)>> :
                   row \in size, col \in size}
           D == {<<row, col, BLANK, BLANK>> : row \in size, col \in size}
<1>1. FishCells = C \ D
  BY DEF FishCells, Frame0, Frame1
<1>2. n \in Nat /\ Len(Frame0) \in Nat /\ Len(Frame1) \in Nat
  BY FramesTyped
<1>3. ASSUME NEW q, q \in FishCells
      PROVE  \E row, col \in Nat : q = Spot(row, col) /\ ~Dark(row, col)
  <2>1. PICK row \in size, col \in size : q = Spot(row, col)
    BY <1>1, <1>3 DEF Spot
  <2>2. ~Dark(row, col)
    <3> SUFFICES ASSUME Dark(row, col)
                 PROVE  FALSE
      OBVIOUS
    <3>1. q = <<row, col, BLANK, BLANK>>
      BY <2>1 DEF Spot, Dark
    <3>2. q \in D
      BY <3>1
    <3> QED
      BY <1>1, <1>3, <3>2
  <2>3. row \in Nat /\ col \in Nat
    BY <1>2
  <2> QED
    BY <2>1, <2>2, <2>3
<1>4. ASSUME NEW row \in Nat, NEW col \in Nat, ~Dark(row, col)
      PROVE  Spot(row, col) \in FishCells
  <2>1. (row <= Len(Frame0) /\ col <= Len(Frame0)) \/ (row <= Len(Frame1) /\ col <= Len(Frame1))
    BY <1>4, FramesTyped, CharBounds DEF Dark
  <2>2. row \in size /\ col \in size
    BY <1>2, <2>1
  <2>3. Spot(row, col) \in C
    BY <2>2 DEF Spot
  <2>4. Spot(row, col) \notin D
    <3> SUFFICES ASSUME NEW a \in size, NEW b \in size, Spot(row, col) = <<a, b, BLANK, BLANK>>
                 PROVE  FALSE
      OBVIOUS
    <3>1. Spot(row, col)[3] = CharAt(Frame0, row, col) /\ Spot(row, col)[4] = CharAt(Frame1, row, col)
      BY DEF Spot
    <3> QED
      BY <1>4, <3>1 DEF Dark
  <2> QED
    BY <1>1, <2>3, <2>4
<1> QED
  BY <1>3, <1>4

\* A cell is at its place.
LEMMA SpotAt ==
    ASSUME NEW row, NEW col
    PROVE  Spot(row, col)[1] = row /\ Spot(row, col)[2] = col
  BY DEF Spot

\* The cells before a place.
LEMMA BeforeAre ==
    ASSUME NEW row \in Nat, NEW i \in Nat, NEW q
    PROVE  q \in Before(row, i) <=>
              \E r, c \in Nat : q = Spot(r, c) /\ ~Dark(r, c) /\ (r < row \/ (r = row /\ c < i))
  BY Cells, SpotAt DEF Before

\* There is none before the first place.
LEMMA BeforeStart == Before(0, 0) = {}
<1>1. ASSUME NEW q \in Before(0, 0)
      PROVE  FALSE
  <2>1. PICK r, c \in Nat : r < 0 \/ (r = 0 /\ c < 0)
    BY BeforeAre
  <2> QED
    BY <2>1
<1> QED
  BY <1>1

\* The next place of a row.
LEMMA BeforeNext ==
    ASSUME NEW row \in Nat, NEW i \in Nat
    PROVE  /\ Dark(row, i) => Before(row, i + 1) = Before(row, i)
           /\ ~Dark(row, i) => /\ Before(row, i + 1) = Before(row, i) \cup {Spot(row, i)}
                               /\ Spot(row, i) \notin Before(row, i)
<1>0. i + 1 \in Nat
  OBVIOUS
<1>1. ASSUME NEW q \in Before(row, i)
      PROVE  q \in Before(row, i + 1)
  <2>1. PICK r, c \in Nat : q = Spot(r, c) /\ ~Dark(r, c) /\ (r < row \/ (r = row /\ c < i))
    BY BeforeAre
  <2>2. r < row \/ (r = row /\ c < i + 1)
    BY <2>1
  <2> QED
    BY <1>0, <2>1, <2>2, BeforeAre
<1>2. ASSUME NEW q \in Before(row, i + 1), q \notin Before(row, i)
      PROVE  q = Spot(row, i) /\ ~Dark(row, i)
  <2>1. PICK r, c \in Nat : q = Spot(r, c) /\ ~Dark(r, c) /\ (r < row \/ (r = row /\ c < i + 1))
    BY <1>0, BeforeAre
  <2>2. ~(r < row \/ (r = row /\ c < i))
    BY <1>2, <2>1, BeforeAre
  <2>3. r = row /\ c = i
    BY <2>1, <2>2
  <2> QED
    BY <2>1, <2>3
<1>3. ASSUME ~Dark(row, i)
      PROVE  Spot(row, i) \in Before(row, i + 1) /\ Spot(row, i) \notin Before(row, i)
  <2>1. Spot(row, i) \in Before(row, i + 1)
    <3>1. row = row /\ i < i + 1
      OBVIOUS
    <3> QED
      BY <1>0, <1>3, <3>1, BeforeAre
  <2>2. Spot(row, i) \notin Before(row, i)
    <3> SUFFICES ASSUME Spot(row, i) \in Before(row, i)
                 PROVE  FALSE
      OBVIOUS
    <3>1. PICK r, c \in Nat : Spot(row, i) = Spot(r, c) /\ (r < row \/ (r = row /\ c < i))
      BY BeforeAre
    <3>2. r = row /\ c = i
      BY <3>1, SpotAt
    <3> QED
      BY <3>1, <3>2
  <2> QED
    BY <2>1, <2>2
<1> QED
  BY <1>1, <1>2, <1>3

\* The rest of a row is dark.
LEMMA BeforeRow ==
    ASSUME NEW row \in Nat, NEW i \in Nat, \A j \in Nat : j >= i => Dark(row, j)
    PROVE  Before(row + 1, 0) = Before(row, i)
<1>0. row + 1 \in Nat /\ 0 \in Nat
  OBVIOUS
<1>1. ASSUME NEW q \in Before(row, i)
      PROVE  q \in Before(row + 1, 0)
  <2>1. PICK r, c \in Nat : q = Spot(r, c) /\ ~Dark(r, c) /\ (r < row \/ (r = row /\ c < i))
    BY BeforeAre
  <2>2. r < row + 1
    BY <2>1
  <2> QED
    BY <1>0, <2>1, <2>2, BeforeAre
<1>2. ASSUME NEW q \in Before(row + 1, 0)
      PROVE  q \in Before(row, i)
  <2>1. PICK r, c \in Nat : q = Spot(r, c) /\ ~Dark(r, c) /\ (r < row + 1 \/ (r = row + 1 /\ c < 0))
    BY <1>0, BeforeAre
  <2>2. r < row \/ (r = row /\ c < i)
    BY <2>1
  <2> QED
    BY <2>1, <2>2, BeforeAre
<1> QED
  BY <1>1, <1>2

\* All the rows behind are dark.
LEMMA BeforeEnd ==
    ASSUME NEW row \in Nat, \A r, j \in Nat : r >= row => Dark(r, j)
    PROVE  Before(row, 0) = FishCells
<1>1. ASSUME NEW q \in FishCells
      PROVE  q \in Before(row, 0)
  <2>1. PICK r, c \in Nat : q = Spot(r, c) /\ ~Dark(r, c)
    BY Cells
  <2>2. r < row
    BY <2>1
  <2>3. 0 \in Nat
    OBVIOUS
  <2> QED
    BY <2>1, <2>2, <2>3, BeforeAre
<1> QED
  BY <1>1 DEF Before

\* The cells that have been shown, each once.
Covers(o, S) == IsFiniteSet(S) /\ Range(o) = S /\ Len(o) = Cardinality(S)

\* At first no cell is shown, ...
LEMMA CoversNone == Covers(<<>>, {})
<1>1. IsFiniteSet({}) /\ Cardinality({}) = 0
  BY FS_EmptySet
<1>2. Range(<<>>) = {} /\ Len(<<>>) = 0
  BY DEF Range
<1> QED
  BY <1>1, <1>2 DEF Covers

\* ... and one cell more is shown once.
LEMMA CoversMore ==
    ASSUME NEW V, NEW o \in Seq(V), NEW S, Covers(o, S), NEW q \in V, q \notin S
    PROVE  Covers(o \o <<q>>, S \cup {q})
<1> DEFINE oq == o \o <<q>>
           n == Len(o)
<1>1. n \in Nat /\ DOMAIN o = 1..n /\ Len(oq) = n + 1 /\ DOMAIN oq = 1..n+1
      /\ oq[n + 1] = q /\ \A k \in 1..n : oq[k] = o[k]
  OBVIOUS
<1>2. Range(oq) = S \cup {q}
  <2> HIDE DEF oq, n
  <2>1. \A k \in 1..n+1 : k \in 1..n \/ k = n + 1
    BY <1>1
  <2>2. n + 1 \in 1..n+1 /\ 1..n \subseteq 1..n+1
    BY <1>1
  <2> QED
    BY <1>1, <2>1, <2>2 DEF Covers, Range
<1>3. IsFiniteSet(S \cup {q}) /\ Cardinality(S \cup {q}) = Cardinality(S) + 1
  BY FS_AddElement DEF Covers
<1> QED
  BY <1>1, <1>2, <1>3 DEF Covers

\* What a call on g leaves of another descriptor.
LEMMA Beside ==
    ASSUME FilesInv, stack' = stack, NEW g, NEW q, q # g, NEW k, OnlyAt(g),
           Mine \ {g} \subseteq opened'[Current], Describes(q, k)
    PROVE  Describes(q, k)' /\ seen'[Current][q] = Seen(q)
<1>1. Current' = Current /\ q \in Mine /\ q \in Fds
  BY StaysCurrent, MineAre DEF Describes
<1>2. files'[Current][q] = File(q) /\ seen'[Current][q] = Seen(q) /\ q \in opened'[Current]
  BY <1>1 DEF OnlyAt, File, Seen, Mine
<1> QED
  BY <1>1, <1>2 DEF Describes, File, Seen, Mine

\* What fish knows of a frame depends on what it has read only until the file ends.
LEMMA SameFrame ==
    ASSUME NEW frame, NEW t, NEW u, NEW c, NEW ended \in BOOLEAN, NEW row, NEW i,
           ~ended => u = t
    PROVE  /\ InFrame(frame, t, c, ended, row, i) => InFrame(frame, u, c, ended, row, i)
           /\ RowOver(frame, t, ended, row) => RowOver(frame, u, ended, row)
  BY DEF InFrame, RowOver

\* The two frames.
Name0 == <<"frame0">>
Name1 == <<"frame1">>

\* The entries and the texts of the two frames.
LEMMA TheFrames ==
    /\ EntryNamed(Name0) \in DOMAIN dentries /\ EntryNamed(Name1) \in DOMAIN dentries
    /\ dentries[EntryNamed(Name0)].file_type = "file"
    /\ dentries[EntryNamed(Name1)].file_type = "file"
    /\ Frame0 = Bytes(dentries[EntryNamed(Name0)]) /\ Frame1 = Bytes(dentries[EntryNamed(Name1)])
    /\ Frame0 \in Seq(Chars) /\ Frame1 \in Seq(Chars)
  BY FrameFound, FramesTyped DEF Frame0, Frame1, Name0, Name1

\* The read of the first frame keeps ProgramsInv.
LEMMA FishRead0Step ==
    ASSUME ProgramsInv, FishRead0
    PROVE  ProgramsInv'
<1>1. Kept /\ Task = "fish" /\ FishReading0
  BY TaskAt DEF ProgramsInv, FishRead0, Owner, Inside
<1>2. PICK a, b : a = Now.fd0 /\ b = Now.fd1
  OBVIOUS
<1> DEFINE j == EntryNamed(Name0)
           k == EntryNamed(Name1)
           c == Now.c0
           row == Now.row
           i == Now.i
           ended == 0 \in Now.eof
           other == 1 \in Now.eof
<1>3. /\ FilesInv /\ IsLocals(Now) /\ Out \in Seq(Printed) /\ UNCHANGED <<args, out, cmd>>
      /\ NextChar(a, c) /\ c \in Chars /\ row \in Nat /\ i \in Nat /\ Now.eof \subseteq {0, 1}
      /\ Now.c1 \in Chars
  BY <1>1, <1>2, RunningProgram DEF FishRead0, IsLocals
<1>4. /\ a # b /\ (~ended => Describes(a, j)) /\ (~other => Describes(b, k))
      /\ InFrame(Frame0, Seen(a), c, ended, row, i)
      /\ InFrame(Frame1, Seen(b), Now.c1, other, row, i)
      /\ Covers(Out, Before(row, i))
  BY <1>1, <1>2 DEF FishReading0, BothFrames, Frames, In0, In1, Shown, Covers, EntryNamed, Name0, Name1
<1> DEFINE now == CharRead(c)
           over == ended \/ (c # NL /\ result'.value = 0)
<1>5. CharHasBeenRead(a, j, c, ended, row, i)
  <2>1. ended \in BOOLEAN
    OBVIOUS
  <2> HIDE DEF j, c, row, i, ended
  <2> QED
    BY <1>3, <1>4, <2>1, TheFrames, CharStep DEF j
<1>6. /\ FilesInv' /\ stack' = stack /\ opened'[Current] = Mine /\ OnlyAt(a)
      /\ now \in Chars
      /\ InFrame(Frame0, seen'[Current][a], now, over, row, i + 1)
      /\ CharAt(Frame0, row, i) = Cell(now)
      /\ ~over => /\ files'[Current][a].ops = "file"
                  /\ files'[Current][a].inode = dentries[j].inode_num
  BY <1>5, TheFrames DEF CharHasBeenRead
<1> DEFINE e == EofAfter(0, c)
           r == [Now EXCEPT !.pc = "fish read1", !.c0 = now, !.eof = e]
<1>7. e \subseteq {0, 1} /\ (0 \in e <=> over) /\ (1 \in e <=> other)
  BY <1>3 DEF EofAfter
<1>8. Become(r)
  BY DEF FishRead0
<1> HIDE DEF e, now
<1>9. /\ IsLocals(r) /\ r.pc = "fish read1" /\ r.c0 = now /\ r.eof = e /\ r.c1 = Now.c1
      /\ r.row = row /\ r.i = i /\ r.fd0 = a /\ r.fd1 = b
  BY <1>2, <1>3, <1>6, <1>7 DEF IsLocals
<1> HIDE DEF r
<1>10. Move(r, Out)
  BY <1>1, <1>3, <1>6, <1>8, SilentMove
<1>11. Kept' /\ Now' = r /\ Out' = Out /\ Task' = Task /\ Current' = Current /\ Args' = Args
  BY <1>1, <1>3, <1>6, <1>9, <1>10, Moved DEF Owner
<1>12. ~other => Describes(b, k)' /\ seen'[Current][b] = Seen(b)
  <2> HIDE DEF other, k
  <2> QED
    BY <1>3, <1>4, <1>6, Beside
<1>13. ~over => Describes(a, j)'
  <2> SUFFICES ASSUME ~over PROVE Describes(a, j)'
    OBVIOUS
  <2>1. ~ended
    OBVIOUS
  <2>2. a \in Mine
    BY <1>4, <2>1 DEF Describes
  <2> QED
    BY <1>6, <1>11, <2>2, TheFrames DEF Describes, File, Seen, Mine
<1>14. BothFrames'
  <2>1. /\ Now'.fd0 = a /\ Now'.fd1 = b /\ (0 \in Now'.eof <=> over) /\ (1 \in Now'.eof <=> other)
    BY <1>7, <1>9, <1>11
  <2>2. Frames(Now.fd0, <<"frame0">>, 0)'
    BY <1>13, <2>1 DEF Frames, EntryNamed, Name0
  <2>3. Frames(Now.fd1, <<"frame1">>, 1)'
    BY <1>12, <2>1 DEF Frames, EntryNamed, Name1
  <2> QED
    BY <1>4, <2>1, <2>2, <2>3 DEF BothFrames
<1>15. /\ Seen(Now.fd0)' = seen'[Current][a] /\ Seen(Now.fd1)' = seen'[Current][b]
       /\ Frame0' = Frame0 /\ Frame1' = Frame1
  BY <1>9, <1>11 DEF Seen, Frame0, Frame1
<1>16. In0(Now.c0, Now.row, Now.i + 1)'
  BY <1>6, <1>7, <1>9, <1>11, <1>15 DEF In0, InFrame
<1>17. In1(Now.c1, Now.row, Now.i)'
  <2>1. InFrame(Frame1, seen'[Current][b], Now.c1, other, row, i)
    <3>1. other \in BOOLEAN
      OBVIOUS
    <3> HIDE DEF other
    <3> QED
      BY <1>4, <1>12, <3>1, SameFrame
  <2> QED
    BY <1>7, <1>9, <1>11, <1>15, <2>1 DEF In1, InFrame
<1>18. CharAt(Frame0, Now.row, Now.i)' = Cell(Now.c0)'
  BY <1>6, <1>9, <1>11 DEF Cell, CharAt, Frame0
<1>19. Shown(Before(Now.row, Now.i))'
  <2>1. Before(row, i) = Before(Now.row, Now.i)'
    BY <1>9, <1>11 DEF Before
  <2> QED
    BY <1>4, <1>11, <2>1 DEF Shown, Covers
<1>20. FishReading1'
  BY <1>14, <1>16, <1>17, <1>18, <1>19 DEF FishReading1
<1>21. Inside'
  BY <1>1, <1>9, <1>11, <1>20 DEF Inside, At, Places
<1> QED
  BY <1>11, <1>21 DEF ProgramsInv

\* The read of the second frame keeps ProgramsInv: the cell of the two characters is
\* shown, and a row ends only where neither frame has a character left in it.
LEMMA FishRead1Step ==
    ASSUME ProgramsInv, FishRead1
    PROVE  ProgramsInv'
<1>1. Kept /\ Task = "fish" /\ FishReading1
  BY TaskAt DEF ProgramsInv, FishRead1, Owner, Inside
<1>2. PICK a, b : a = Now.fd0 /\ b = Now.fd1
  OBVIOUS
<1> DEFINE j == EntryNamed(Name0)
           k == EntryNamed(Name1)
           c == Now.c1
           c0 == Now.c0
           row == Now.row
           i == Now.i
           ended == 1 \in Now.eof
           other == 0 \in Now.eof
<1>3. /\ FilesInv /\ IsLocals(Now) /\ Out \in Seq(Printed) /\ UNCHANGED <<args, cmd>>
      /\ NextChar(b, c) /\ c \in Chars /\ row \in Nat /\ i \in Nat /\ Now.eof \subseteq {0, 1}
      /\ c0 \in Chars
  BY <1>1, <1>2, RunningProgram DEF FishRead1, IsLocals
<1>4. /\ a # b /\ (~ended => Describes(b, k)) /\ (~other => Describes(a, j))
      /\ InFrame(Frame1, Seen(b), c, ended, row, i)
      /\ InFrame(Frame0, Seen(a), c0, other, row, i + 1)
      /\ CharAt(Frame0, row, i) = Cell(c0)
      /\ Covers(Out, Before(row, i))
  BY <1>1, <1>2 DEF FishReading1, BothFrames, Frames, In0, In1, Shown, Covers, EntryNamed, Name0, Name1
<1> DEFINE now == CharRead(c)
           over == ended \/ (c # NL /\ result'.value = 0)
<1>5. CharHasBeenRead(b, k, c, ended, row, i)
  <2>1. ended \in BOOLEAN
    OBVIOUS
  <2> HIDE DEF k, c, row, i, ended
  <2> QED
    BY <1>3, <1>4, <2>1, TheFrames, CharStep DEF k
<1>6. /\ FilesInv' /\ stack' = stack /\ opened'[Current] = Mine /\ OnlyAt(b)
      /\ now \in Chars
      /\ InFrame(Frame1, seen'[Current][b], now, over, row, i + 1)
      /\ CharAt(Frame1, row, i) = Cell(now)
      /\ ~over => /\ files'[Current][b].ops = "file"
                  /\ files'[Current][b].inode = dentries[k].inode_num
  BY <1>5, TheFrames DEF CharHasBeenRead
<1> DEFINE e == EofAfter(1, c)
           ends == c0 = NL /\ now = NL
           pc == IF ends THEN "fish close0" ELSE "fish read0"
           col == IF ends THEN 0 ELSE i + 1
           r == [Now EXCEPT !.pc = pc, !.c1 = now, !.eof = e, !.i = col]
           w == IF Dark(row, i) THEN <<>> ELSE <<Spot(row, i)>>
           S == Before(row, i + 1)
<1>7. e \subseteq {0, 1} /\ (1 \in e <=> over) /\ (0 \in e <=> other)
  BY <1>3 DEF EofAfter
<1>8. Become(r)
  BY DEF FishRead1
<1>9. /\ Dark(row, i) => Silent
      /\ ~Dark(row, i) => Write(<<Spot(row, i)>>)
  <2>1. Dark(row, i) <=> {c0, now} \subseteq {BLANK, NL}
    BY <1>4, <1>6 DEF Dark, Cell
  <2>2. Spot(row, i) = <<row, i, Cell(c0), Cell(now)>>
    BY <1>4, <1>6 DEF Spot
  <2> HIDE DEF now
  <2> QED
    BY <2>1, <2>2 DEF FishRead1, Cell, now
<1> HIDE DEF e, now
<1>10. col \in Nat
  BY <1>3
<1>11. /\ IsLocals(r) /\ r.pc = pc /\ r.c0 = c0 /\ r.eof = e /\ r.c1 = now
       /\ r.row = row /\ r.i = col /\ r.fd0 = a /\ r.fd1 = b
  <2> HIDE DEF pc, col
  <2> QED
    BY <1>2, <1>3, <1>6, <1>7, <1>10 DEF IsLocals
<1> HIDE DEF r
<1>12. PICK o : o \in Seq(Printed) /\ Move(r, o) /\ Covers(o, S)
  <2>1. CASE Dark(row, i)
    <3>1. Move(r, Out)
      BY <1>1, <1>3, <1>6, <1>8, <1>9, <2>1, SilentMove DEF Silent
    <3>2. S = Before(row, i)
      BY <1>3, <2>1, BeforeNext
    <3> QED
      BY <1>3, <1>4, <3>1, <3>2
  <2>2. CASE ~Dark(row, i)
    <3> DEFINE q == Spot(row, i)
               x == CharAt(Frame0, row, i)
               y == CharAt(Frame1, row, i)
    <3>1. q \in Printed
      <4>1. BLANK \in Chars
        BY WordsWritten DEF Words
      <4>2. x \in Chars /\ y \in Chars
        BY <1>3, <1>4, <1>6, <4>1 DEF Cell
      <4> HIDE DEF x, y
      <4>3. <<row, i, x, y>> \in Nat \X Nat \X Chars \X Chars
        BY <1>3, <4>2
      <4> QED
        BY <4>3 DEF Spot, Printed, x, y
    <3>2. Write(<<q>>)
      BY <1>9, <2>2
    <3>3. S = Before(row, i) \cup {q} /\ q \notin Before(row, i)
      BY <1>3, <2>2, BeforeNext
    <3> HIDE DEF q, S
    <3>4. Covers(Out \o <<q>>, S)
      <4>1. Covers(Out \o <<q>>, Before(row, i) \cup {q})
        BY <1>3, <1>4, <3>1, <3>3, CoversMore
      <4> QED
        BY <3>3, <4>1
    <3>5. Move(r, Out \o <<q>>)
      BY <1>1, <1>3, <1>6, <1>8, <3>2, WritingMove
    <3>6. Out \o <<q>> \in Seq(Printed)
      BY <1>3, <3>1
    <3> QED
      BY <3>4, <3>5, <3>6
  <2> QED
    BY <2>1, <2>2
<1>13. Kept' /\ Now' = r /\ Out' = o /\ Task' = Task /\ Current' = Current /\ Args' = Args
  <2>1. Owner(r.pc) = Task
    BY <1>1, <1>11 DEF Owner
  <2> QED
    BY <1>1, <1>6, <1>11, <1>12, <2>1, Moved
<1>14. ~other => Describes(a, j)' /\ seen'[Current][a] = Seen(a)
  <2> HIDE DEF other, j
  <2> QED
    BY <1>3, <1>4, <1>6, Beside
<1>15. ~over => Describes(b, k)'
  <2> SUFFICES ASSUME ~over PROVE Describes(b, k)'
    OBVIOUS
  <2>1. ~ended
    OBVIOUS
  <2>2. b \in Mine
    BY <1>4, <2>1 DEF Describes
  <2> QED
    BY <1>6, <1>13, <2>2, TheFrames DEF Describes, File, Seen, Mine
<1>16. /\ Now'.fd0 = a /\ Now'.fd1 = b /\ (1 \in Now'.eof <=> over) /\ (0 \in Now'.eof <=> other)
       /\ Now'.row = row /\ Now'.i = col /\ Now'.c0 = c0 /\ Now'.c1 = now
  BY <1>7, <1>11, <1>13
<1>17. BothFrames'
  <2>2. Frames(Now.fd0, <<"frame0">>, 0)'
    BY <1>14, <1>16 DEF Frames, EntryNamed, Name0
  <2>3. Frames(Now.fd1, <<"frame1">>, 1)'
    BY <1>15, <1>16 DEF Frames, EntryNamed, Name1
  <2> QED
    BY <1>4, <1>16, <2>2, <2>3 DEF BothFrames
<1>18. /\ Seen(Now.fd0)' = seen'[Current][a] /\ Seen(Now.fd1)' = seen'[Current][b]
       /\ Frame0' = Frame0 /\ Frame1' = Frame1
  BY <1>11, <1>13 DEF Seen, Frame0, Frame1
<1>19. InFrame(Frame0, seen'[Current][a], c0, other, row, i + 1)
  <2>1. other \in BOOLEAN
    OBVIOUS
  <2> HIDE DEF other
  <2> QED
    BY <1>4, <1>14, <2>1, SameFrame
<1>20. CASE ~ends
  <2>1. pc = "fish read0" /\ col = i + 1
    BY <1>20
  <2>2. In0(Now.c0, Now.row, Now.i)' /\ In1(Now.c1, Now.row, Now.i)'
    BY <1>6, <1>16, <1>18, <1>19, <2>1 DEF In0, In1, InFrame
  <2>3. Shown(Before(Now.row, Now.i))'
    BY <1>12, <1>13, <1>16, <2>1 DEF Shown, Covers, Before
  <2>4. FishReading0'
    BY <1>17, <2>2, <2>3 DEF FishReading0
  <2>5. Inside'
    BY <1>1, <1>11, <1>13, <2>1, <2>4 DEF Inside, At, Places
  <2> QED
    BY <1>13, <2>5 DEF ProgramsInv
<1>21. CASE ends
  <2>1. pc = "fish close0" /\ col = 0 /\ c0 = NL /\ now = NL
    BY <1>21
  <2>2. RowOver(Frame0, seen'[Current][a], other, row) /\ RowOver(Frame1, seen'[Current][b], over, row)
    BY <1>6, <1>19, <2>1 DEF InFrame, RowOver
  <2>3. \A m \in Nat : m >= i + 1 => Dark(row, m)
    <3> SUFFICES ASSUME NEW m \in Nat, m >= i + 1
                 PROVE  Dark(row, m)
      OBVIOUS
    <3>0. i + 1 \in Nat
      BY <1>3
    <3>1. CharAt(Frame0, row, m) = BLANK
      <4>1. InFrame(Frame0, Seen(a), NL, other, row, i + 1) /\ other \in BOOLEAN
        BY <1>4, <2>1
      <4>2. ~other => Begins(Seen(a), Frame0)
        BY <1>3, <1>4, TheFrames, ReadSoFar
      <4> HIDE DEF other, row, i
      <4> QED
        BY <1>3, <3>0, <4>1, <4>2, TheFrames, RowEmpty, ZenonT(60)
    <3>2. CharAt(Frame1, row, m) = BLANK
      <4> DEFINE y == seen'[Current][b]
      <4>1. InFrame(Frame1, y, NL, over, row, i + 1) /\ over \in BOOLEAN
        BY <1>6, <2>1
      <4>2. ~over => Begins(y, Frame1)
        <5> SUFFICES ASSUME ~over PROVE Begins(y, Frame1)
          OBVIOUS
        <5>1. /\ b \in opened'[Current] /\ Stream' /\ Typed' /\ Current' = Current /\ Live' = Live
              /\ Current \in Live /\ Current \in Pids /\ b \in Fds
          BY <1>3, <1>4, <1>6, <1>15, Running, StaysCurrent, MineAre DEF FilesInv, Describes
        <5> DEFINE h == files'[Current][b]
        <5>2. Told(h, y) /\ h \in Descriptors
          <6>1. h \in Descriptors
            BY <5>1 DEF Typed
          <6>2. \A p \in Live' : \A fd \in opened'[p] : Told(files'[p][fd], seen'[p][fd])
            BY <5>1, Zenon DEF Stream, Told
          <6>3. Told(h, y)
            BY <5>1, <6>2, Zenon
          <6> QED
            BY <6>1, <6>3
        <5>3. h.ops = "file" /\ h.ops = dentries[k].file_type /\ h.inode = dentries[k].inode_num
          BY <1>6, TheFrames
        <5> HIDE DEF h, y, k
        <5>4. y \in Seq(Chars) /\ Continues(y, k)
          BY <5>2, <5>3, TheFrames, FileRest DEF k
        <5> QED
          BY <5>4, TheFrames DEF Begins, Continues, k
      <4> HIDE DEF over, row, i, y
      <4> QED
        BY <1>3, <3>0, <4>1, <4>2, TheFrames, RowEmpty, ZenonT(60)
    <3> QED
      BY <3>1, <3>2 DEF Dark
  <2>4. Before(row + 1, 0) = S
    <3>1. i + 1 \in Nat
      BY <1>3
    <3> HIDE DEF row
    <3> QED
      BY <1>3, <2>3, <3>1, BeforeRow
  <2>5. Shown(Before(Now.row + 1, 0))'
    BY <1>12, <1>13, <1>16, <2>4 DEF Shown, Covers, Before
  <2>6. FishClosing0'
    BY <1>16, <1>17, <1>18, <2>1, <2>2, <2>5 DEF FishClosing0, RowOver
  <2>7. Inside'
    BY <1>1, <1>11, <1>13, <2>1, <2>6 DEF Inside, At, Places
  <2> QED
    BY <1>13, <2>7 DEF ProgramsInv
<1> QED
  BY <1>20, <1>21

\* fish closes a frame whose file has ended.
LEMMA CloseEffect ==
    ASSUME FilesInv, NEW m, NEW q, CloseAtEof(m, q)
    PROVE  /\ FilesInv' /\ stack' = stack /\ OnlyAt(q) /\ Mine \ {q} \subseteq opened'[Current]
           /\ m \notin Now.eof => Alone
<1>1. CASE m \in Now.eof
  <2>1. close(q)
    BY <1>1 DEF CloseAtEof
  <2>2. FilesInv' /\ stack' = stack /\ (Refused("close", q) \/ HasClosed(q))
    BY <2>1, CloseOutcome
  <2> QED
    BY <1>1, <2>2 DEF Refused, HasClosed, Alone, OnlyAt, Mine
<1>2. CASE m \notin Now.eof
  <2>1. Answers(0)
    BY <1>2 DEF CloseAtEof
  <2>2. FilesInv' /\ stack' = stack
    BY <2>1, AnswerOutcome
  <2> QED
    BY <2>1, <2>2 DEF Answers, Alone, OnlyAt, Mine
<1> QED
  BY <1>1, <1>2

\* A call that changes no descriptor leaves what they describe.
LEMMA AloneDescribes ==
    ASSUME Alone, stack' = stack, NEW q, NEW k, Describes(q, k)
    PROVE  Describes(q, k)' /\ seen'[Current][q] = Seen(q)
  BY StaysCurrent DEF Alone, Describes, File, Seen, Mine

\* The next row of a frame begins.
LEMMA RowBegins ==
    ASSUME NEW frame \in Seq(Chars), NEW text, NEW ended \in BOOLEAN, NEW row \in Nat,
           RowOver(frame, text, ended, row)
    PROVE  InFrame(frame, text, IF ended THEN NL ELSE "0", ended, row + 1, 0)
<1> DEFINE m == Lines(frame)
           l == Lines(text)
<1>1. m \in Texts(Chars)
  BY LineLengths
<1>2. Len(m) \in Nat
  BY <1>1 DEF Texts
<1>3. CASE ended
  <2>1. Len(m) <= row + 1
    BY <1>3 DEF RowOver
  <2> HIDE DEF m
  <2>2. Len(m) <= (row + 1) + 1 /\ Len(m) # (row + 1) + 1
    BY <1>2, <2>1
  <2> QED
    BY <1>3, <2>2 DEF InFrame, m
<1>4. CASE ~ended
  <2>1. Len(l) = row + 2 /\ Last(l) = <<>>
    BY <1>4 DEF RowOver
  <2> HIDE DEF l
  <2>2. Len(l) = (row + 1) + 1 /\ Len(Last(l)) = 0
    BY <2>1
  <2>3. "0" # NL
    BY DEF NL
  <2> QED
    BY <1>4, <2>2, <2>3 DEF InFrame, l
<1> QED
  BY <1>3, <1>4

\* The end of a row of the first frame keeps ProgramsInv.
LEMMA FishClose0Step ==
    ASSUME ProgramsInv, FishClose0
    PROVE  ProgramsInv'
<1>1. Kept /\ Task = "fish" /\ FishClosing0
  BY TaskAt DEF ProgramsInv, FishClose0, Owner, Inside
<1>2. PICK a, b : a = Now.fd0 /\ b = Now.fd1
  OBVIOUS
<1> DEFINE j == EntryNamed(Name0)
           k == EntryNamed(Name1)
           row == Now.row
           ended == 0 \in Now.eof
           other == 1 \in Now.eof
<1>3. /\ FilesInv /\ IsLocals(Now) /\ Out \in Seq(Printed) /\ UNCHANGED <<args, out, cmd>>
      /\ CloseAtEof(0, a) /\ row \in Nat
  BY <1>1, <1>2, RunningProgram DEF FishClose0, IsLocals
<1>4. /\ a # b /\ (~ended => Describes(a, j)) /\ (~other => Describes(b, k))
      /\ RowOver(Frame0, Seen(a), ended, row) /\ RowOver(Frame1, Seen(b), other, row)
      /\ Covers(Out, Before(row + 1, 0)) /\ Now.i = 0
  BY <1>1, <1>2 DEF FishClosing0, BothFrames, Frames, Shown, Covers, EntryNamed, Name0, Name1
<1>5. /\ FilesInv' /\ stack' = stack /\ OnlyAt(a) /\ Mine \ {a} \subseteq opened'[Current]
      /\ ~ended => Alone
  BY <1>3, CloseEffect
<1> DEFINE c == IF ended THEN NL ELSE "0"
           r == [Now EXCEPT !.pc = "fish close1", !.c0 = c]
<1>6. Become(r)
  BY DEF FishClose0, RowStart
<1>7. c \in Chars
  BY WordsWritten DEF Words
<1> HIDE DEF c
<1>8. /\ IsLocals(r) /\ r.pc = "fish close1" /\ r.c0 = c /\ r.eof = Now.eof /\ r.row = row
      /\ r.i = Now.i /\ r.fd0 = a /\ r.fd1 = b
  BY <1>2, <1>3, <1>7 DEF IsLocals
<1> HIDE DEF r
<1>9. Move(r, Out)
  BY <1>1, <1>3, <1>5, <1>6, SilentMove
<1>10. Kept' /\ Now' = r /\ Out' = Out /\ Task' = Task /\ Current' = Current /\ Args' = Args
  BY <1>1, <1>3, <1>5, <1>8, <1>9, Moved DEF Owner
<1>11. ~other => Describes(b, k)' /\ seen'[Current][b] = Seen(b)
  <2> HIDE DEF other, k
  <2> QED
    BY <1>3, <1>4, <1>5, Beside
<1>12. ~ended => Describes(a, j)' /\ seen'[Current][a] = Seen(a)
  <2> HIDE DEF ended, j
  <2> QED
    BY <1>3, <1>4, <1>5, AloneDescribes
<1>13. BothFrames'
  <2>1. Frames(Now.fd0, <<"frame0">>, 0)'
    BY <1>8, <1>10, <1>12 DEF Frames, EntryNamed, Name0
  <2>2. Frames(Now.fd1, <<"frame1">>, 1)'
    BY <1>8, <1>10, <1>11 DEF Frames, EntryNamed, Name1
  <2> QED
    BY <1>4, <1>8, <1>10, <2>1, <2>2 DEF BothFrames
<1>14. /\ Seen(Now.fd0)' = seen'[Current][a] /\ Seen(Now.fd1)' = seen'[Current][b]
       /\ Frame0' = Frame0 /\ Frame1' = Frame1
  BY <1>8, <1>10 DEF Seen, Frame0, Frame1
<1>15. ended \in BOOLEAN /\ other \in BOOLEAN
  OBVIOUS
<1>16. InFrame(Frame0, seen'[Current][a], c, ended, row + 1, 0)
  <2> HIDE DEF ended, row
  <2>1. RowOver(Frame0, seen'[Current][a], ended, row)
    BY <1>4, <1>12, <1>15, SameFrame
  <2> QED
    BY <1>3, <1>15, <2>1, TheFrames, RowBegins DEF c
<1>17. RowOver(Frame1, seen'[Current][b], other, row)
  <2> HIDE DEF other, row
  <2> QED
    BY <1>4, <1>11, <1>15, SameFrame
<1>18. In0(Now.c0, Now.row + 1, 0)'
  BY <1>8, <1>10, <1>14, <1>16 DEF In0, InFrame
<1>19. RowOver(Frame1, Seen(Now.fd1), 1 \in Now.eof, Now.row)'
  BY <1>8, <1>10, <1>14, <1>17 DEF RowOver
<1>20. Shown(Before(Now.row + 1, 0))'
  BY <1>4, <1>8, <1>10 DEF Shown, Covers, Before
<1>21. FishClosing1'
  BY <1>4, <1>8, <1>10, <1>13, <1>18, <1>19, <1>20 DEF FishClosing1
<1>22. Inside'
  BY <1>1, <1>8, <1>10, <1>21 DEF Inside, At, Places
<1> QED
  BY <1>10, <1>22 DEF ProgramsInv

\* Below its last row a frame has no character.
LEMMA BelowEmpty ==
    ASSUME NEW frame \in Seq(Chars), NEW row \in Nat, Len(Lines(frame)) <= row, NEW m \in Nat, m >= row,
           NEW col \in Nat
    PROVE  CharAt(frame, m, col) = BLANK
<1> DEFINE l == Lines(frame)
<1>1. l \in Texts(Chars)
  BY LineLengths
<1>2. Len(l) \in Nat
  BY <1>1 DEF Texts
<1> HIDE DEF l
<1>3. ~(m < Len(l))
  BY <1>2 DEF l
<1> QED
  BY <1>3 DEF CharAt, l

\* Nothing is left of a frame whose file has ended with the row before.
LEMMA DoneBelow ==
    ASSUME NEW frame \in Seq(Chars), NEW text, NEW row \in Nat, InFrame(frame, text, NL, TRUE, row, 0),
           NEW m \in Nat, m >= row, NEW col \in Nat
    PROVE  CharAt(frame, m, col) = BLANK
<1>1. CASE m = row
  <2>1. TRUE \in BOOLEAN /\ 0 \in Nat /\ col >= 0
    OBVIOUS
  <2> QED
    BY <1>1, <2>1, RowEmpty
<1>2. CASE m # row
  <2>1. Len(Lines(frame)) <= row + 1
    BY DEF InFrame
  <2>2. m >= row + 1 /\ row + 1 \in Nat
    BY <1>2
  <2> QED
    BY <2>1, <2>2, BelowEmpty
<1> QED
  BY <1>1, <1>2

\* The end of a row of the second frame keeps ProgramsInv: either the next row begins
\* or all the cells of both frames are shown.
LEMMA FishClose1Step ==
    ASSUME ProgramsInv, FishClose1
    PROVE  ProgramsInv'
<1>1. Kept /\ Task = "fish" /\ FishClosing1
  BY TaskAt DEF ProgramsInv, FishClose1, Owner, Inside
<1>2. PICK a, b : a = Now.fd0 /\ b = Now.fd1
  OBVIOUS
<1> DEFINE j == EntryNamed(Name0)
           k == EntryNamed(Name1)
           row == Now.row
           c0 == Now.c0
           ended == 1 \in Now.eof
           other == 0 \in Now.eof
<1>3. /\ FilesInv /\ IsLocals(Now) /\ Out \in Seq(Printed) /\ UNCHANGED <<args, out, cmd>>
      /\ CloseAtEof(1, b) /\ row \in Nat /\ row + 1 \in Nat /\ Now.eof \subseteq {0, 1}
  <2>1. /\ FilesInv /\ IsLocals(Now) /\ Out \in Seq(Printed)
    BY <1>1, RunningProgram
  <2>2. row \in Nat /\ Now.eof \subseteq {0, 1}
    BY <2>1 DEF IsLocals
  <2>3. row + 1 \in Nat
    BY <2>2
  <2> QED
    BY <1>2, <2>1, <2>2, <2>3 DEF FishClose1
<1>4. /\ a # b /\ (~ended => Describes(b, k)) /\ (~other => Describes(a, j))
      /\ InFrame(Frame0, Seen(a), c0, other, row + 1, 0) /\ RowOver(Frame1, Seen(b), ended, row)
      /\ Covers(Out, Before(row + 1, 0)) /\ Now.i = 0
  BY <1>1, <1>2 DEF FishClosing1, BothFrames, Frames, Shown, Covers, EntryNamed, Name0, Name1, In0
<1>5. /\ FilesInv' /\ stack' = stack /\ OnlyAt(b) /\ Mine \ {b} \subseteq opened'[Current]
      /\ ~ended => Alone
  BY <1>3, CloseEffect
<1> DEFINE c == IF ended THEN NL ELSE "0"
           pc == IF FramesEnd THEN "fish rate" ELSE "fish read0"
           r == [Now EXCEPT !.pc = pc, !.c1 = c, !.row = row + 1]
<1>6. Become(r)
  BY DEF FishClose1, RowStart
<1>7. c \in Chars
  BY WordsWritten DEF Words
<1> HIDE DEF c, pc
<1>8. /\ IsLocals(r) /\ r.pc = pc /\ r.c0 = c0 /\ r.c1 = c /\ r.eof = Now.eof /\ r.row = row + 1
      /\ r.i = Now.i /\ r.fd0 = a /\ r.fd1 = b
  BY <1>2, <1>3, <1>7 DEF IsLocals
<1> HIDE DEF r
<1>9. Move(r, Out)
  BY <1>1, <1>3, <1>5, <1>6, SilentMove
<1>10. Kept' /\ Now' = r /\ Out' = Out /\ Task' = Task /\ Current' = Current /\ Args' = Args
  <2>1. Owner(r.pc) = Task
    BY <1>1, <1>8 DEF Owner, pc
  <2> QED
    BY <1>1, <1>3, <1>5, <1>8, <1>9, <2>1, Moved
<1>11. CASE ~FramesEnd
  <2>1. ~other => Describes(a, j)' /\ seen'[Current][a] = Seen(a)
    <3> HIDE DEF other, j
    <3> QED
      BY <1>3, <1>4, <1>5, Beside
  <2>2. ~ended => Describes(b, k)' /\ seen'[Current][b] = Seen(b)
    <3> HIDE DEF ended, k
    <3> QED
      BY <1>3, <1>4, <1>5, AloneDescribes
  <2>3. BothFrames'
    <3>1. Frames(Now.fd0, <<"frame0">>, 0)'
      BY <1>8, <1>10, <2>1 DEF Frames, EntryNamed, Name0
    <3>2. Frames(Now.fd1, <<"frame1">>, 1)'
      BY <1>8, <1>10, <2>2 DEF Frames, EntryNamed, Name1
    <3> QED
      BY <1>4, <1>8, <1>10, <3>1, <3>2 DEF BothFrames
  <2>4. /\ Seen(Now.fd0)' = seen'[Current][a] /\ Seen(Now.fd1)' = seen'[Current][b]
        /\ Frame0' = Frame0 /\ Frame1' = Frame1
    BY <1>8, <1>10 DEF Seen, Frame0, Frame1
  <2>5. ended \in BOOLEAN /\ other \in BOOLEAN
    OBVIOUS
  <2>6. InFrame(Frame1, seen'[Current][b], c, ended, row + 1, 0)
    <3> HIDE DEF ended, row
    <3>1. RowOver(Frame1, seen'[Current][b], ended, row)
      BY <1>4, <2>2, <2>5, SameFrame
    <3> QED
      BY <1>3, <2>5, <3>1, TheFrames, RowBegins DEF c
  <2>7. InFrame(Frame0, seen'[Current][a], c0, other, row + 1, 0)
    <3> HIDE DEF other, row
    <3> QED
      BY <1>4, <2>1, <2>5, SameFrame
  <2>8. In0(Now.c0, Now.row, Now.i)' /\ In1(Now.c1, Now.row, Now.i)'
    BY <1>4, <1>8, <1>10, <2>4, <2>6, <2>7 DEF In0, In1, InFrame
  <2>9. Shown(Before(Now.row, Now.i))'
    BY <1>4, <1>8, <1>10 DEF Shown, Covers, Before
  <2>10. FishReading0'
    BY <2>3, <2>8, <2>9 DEF FishReading0
  <2>11. Inside'
    BY <1>1, <1>8, <1>10, <1>11, <2>10 DEF Inside, At, Places, pc
  <2> QED
    BY <1>10, <2>11 DEF ProgramsInv
<1>12. CASE FramesEnd
  <2>1. ended /\ other /\ pc = "fish rate"
    BY <1>12 DEF FramesEnd, pc
  <2>2. Len(Lines(Frame1)) <= row + 1
    BY <1>4, <2>1 DEF RowOver
  <2>3. \A m, col \in Nat : m >= row + 1 => Dark(m, col)
    <3>1. c0 = NL
      BY <1>4, <2>1 DEF InFrame
    <3>2. InFrame(Frame0, Seen(a), NL, TRUE, row + 1, 0)
      <4>1. other = TRUE
        BY <2>1
      <4> QED
        BY <1>4, <3>1, <4>1
    <3> DEFINE n == row + 1
    <3> HIDE DEF row, n
    <3>3. \A m, col \in Nat : m >= n => CharAt(Frame0, m, col) = BLANK
      BY <1>3, <3>2, TheFrames, DoneBelow DEF n
    <3>4. \A m, col \in Nat : m >= n => CharAt(Frame1, m, col) = BLANK
      BY <1>3, <2>2, TheFrames, BelowEmpty DEF n
    <3> QED
      BY <3>3, <3>4 DEF Dark, n
  <2>4. Before(row + 1, 0) = FishCells
    <3> HIDE DEF row
    <3> QED
      BY <1>3, <2>3, BeforeEnd
  <2>5. FishShown'
    BY <1>4, <1>10, <2>4 DEF FishShown, Shown, Covers
  <2>6. Inside'
    BY <1>1, <1>8, <1>10, <2>1, <2>5 DEF Inside, At, Places
  <2> QED
    BY <1>10, <2>6 DEF ProgramsInv
<1> QED
  BY <1>11, <1>12

\* vidmap of fish's own variable succeeds and keeps ProgramsInv.
LEMMA FishVideoStep ==
    ASSUME ProgramsInv, FishVideo
    PROVE  ProgramsInv'
<1>1. Kept /\ Task = "fish"
  BY TaskAt DEF ProgramsInv, FishVideo, Owner
<1>2. Now = Fresh("fish") /\ Mine = {} /\ Out = <<>>
  BY DEF ProgramsInv, Inside, Starting, At, FishVideo, Places
<1>3. /\ FilesInv /\ IsLocals(Now) /\ Out \in Seq(Printed) /\ UNCHANGED <<args, out, cmd>>
  BY <1>1, RunningProgram DEF FishVideo
<1>4. Answers(0)
  <2>1. ~(VIRTUAL_START = 0 \/ VIRTUAL_START < VIRTUAL_START \/ VIRTUAL_START > VIRTUAL_END)
    BY SMT DEF VIRTUAL_START, VIRTUAL_END
  <2> QED
    BY <2>1 DEF FishVideo, vidmap
<1>5. FilesInv' /\ stack' = stack /\ result'.value = 0 /\ Alone
  BY <1>3, <1>4, AnswerOutcome
<1> DEFINE r == [Now EXCEPT !.pc = "fish clock"]
<1>6. Become(r)
  <2>1. ~Failed
    BY <1>5, SMT DEF Failed
  <2>2. Goto("fish clock")
    BY <2>1, Zenon DEF FishVideo
  <2> QED
    BY <2>2 DEF Goto
<1>7. /\ IsLocals(r) /\ r.pc = "fish clock" /\ r.i = 0 /\ r.row = 0 /\ r.eof = {} /\ r.c0 = "0"
      /\ r.c1 = "0"
  BY <1>2, <1>3 DEF IsLocals, Fresh
<1> HIDE DEF r
<1>8. Move(r, Out)
  BY <1>1, <1>3, <1>5, <1>6, SilentMove
<1>9. Kept' /\ Now' = r /\ Out' = Out /\ Task' = Task /\ Current' = Current /\ Args' = Args
  BY <1>1, <1>3, <1>5, <1>7, <1>8, Moved DEF Owner
<1>10. FishClock'
  BY <1>2, <1>5, <1>7, <1>9 DEF FishClock, FishFresh, Alone, Mine
<1>11. Inside'
  BY <1>1, <1>7, <1>9, <1>10 DEF Inside, At, Places
<1> QED
  BY <1>9, <1>11 DEF ProgramsInv

\* The open() of the clock keeps ProgramsInv, whether it succeeds or not.
LEMMA FishOpenClockStep ==
    ASSUME ProgramsInv, FishOpenClock
    PROVE  ProgramsInv'
<1> DEFINE name == <<"rtc">>
           g == result'.value
<1>1. Kept /\ Task = "fish" /\ FishClock
  BY TaskAt DEF ProgramsInv, FishOpenClock, Owner, Inside
<1>2. /\ FilesInv /\ IsLocals(Now) /\ Out \in Seq(Printed) /\ UNCHANGED <<args, out, cmd>>
      /\ open(name)
  BY <1>1, RunningProgram DEF FishOpenClock
<1>3. FishFresh /\ Mine = {}
  BY <1>1 DEF FishClock
<1>4. FilesInv' /\ stack' = stack /\ (NotOpened(name) \/ \E fd \in Given : Opened(fd, name))
  <2> HIDE DEF name
  <2> QED
    BY <1>2, OpenOutcome
<1>5. g \in -1..MAX_FILES-1 /\ opened'[Current] \subseteq {g}
  <2>1. CASE NotOpened(name)
    BY <1>3, <2>1, FilesAssumption DEF NotOpened, Alone, Mine
  <2>2. ASSUME NEW fd \in Given, Opened(fd, name)
        PROVE  g \in -1..MAX_FILES-1 /\ opened'[Current] \subseteq {g}
    BY <1>3, <2>2, FilesAssumption DEF Opened, Given
  <2> QED
    BY <1>4, <2>1, <2>2
<1> DEFINE r == [Now EXCEPT !.pc = "fish open0", !.fd = g]
<1>6. Become(r)
  BY DEF FishOpenClock
<1> HIDE DEF g
<1>7. /\ IsLocals(r) /\ r.pc = "fish open0" /\ r.fd = g /\ r.i = Now.i /\ r.row = Now.row
      /\ r.eof = Now.eof /\ r.c0 = Now.c0 /\ r.c1 = Now.c1
  BY <1>2, <1>5 DEF IsLocals
<1> HIDE DEF r
<1>8. Move(r, Out)
  BY <1>1, <1>2, <1>4, <1>6, SilentMove
<1>9. Kept' /\ Now' = r /\ Out' = Out /\ Task' = Task /\ Current' = Current /\ Args' = Args
  BY <1>1, <1>2, <1>4, <1>7, <1>8, Moved DEF Owner
<1>10. FishOpening0'
  BY <1>3, <1>5, <1>7, <1>9 DEF FishOpening0, FishFresh, Mine
<1>11. Inside'
  BY <1>1, <1>7, <1>9, <1>10 DEF Inside, At, Places
<1> QED
  BY <1>9, <1>11 DEF ProgramsInv

\* open() of a frame succeeds: with at most two descriptors taken one is left.
LEMMA FrameOpened ==
    ASSUME FilesInv, NEW name \in {Name0, Name1}, NEW x, NEW y, Mine \subseteq {x, y}, open(name)
    PROVE  /\ FilesInv' /\ stack' = stack
           /\ \E g \in Given :
                 /\ result'.value = g /\ g # -1 /\ g \notin Mine /\ opened'[Current] = Mine \cup {g}
                 /\ files'[Current][g].ops = "file" /\ seen'[Current][g] = <<>>
                 /\ files'[Current][g].inode = dentries[EntryNamed(name)].inode_num
                 /\ OnlyAt(g)
<1>0. name \in {<<"frame0">>, <<"frame1">>}
  BY DEF Name0, Name1
<1>1. FilesInv' /\ stack' = stack /\ (NotOpened(name) \/ \E g \in Given : Opened(g, name))
  BY OpenOutcome
<1>2. ~NotOpened(name)
  <2>1. Mine # Given
    <3>1. 2 \in Given /\ 3 \in Given /\ 4 \in Given
      BY SlotFree
    <3> QED
      BY <3>1
  <2> QED
    BY <1>0, <2>1, FrameFound DEF NotOpened, EntryNamed
<1>3. PICK g \in Given : Opened(g, name)
  BY <1>1, <1>2
<1>4. g # -1
  BY FilesAssumption DEF Given
<1>5. dentries[EntryNamed(name)].file_type = "file"
  BY <1>0, FrameFound
<1> QED
  BY <1>1, <1>3, <1>4, <1>5 DEF Opened, EntryNamed

\* The open() of the first frame keeps ProgramsInv.
LEMMA FishOpen0Step ==
    ASSUME ProgramsInv, FishOpen0
    PROVE  ProgramsInv'
<1>1. Kept /\ Task = "fish" /\ FishOpening0
  BY TaskAt DEF ProgramsInv, FishOpen0, Owner, Inside
<1>2. /\ FilesInv /\ IsLocals(Now) /\ Out \in Seq(Printed) /\ UNCHANGED <<args, out, cmd>>
      /\ open(Name0)
  BY <1>1, RunningProgram DEF FishOpen0, Name0
<1>3. FishFresh /\ Mine \subseteq {Now.fd, Now.fd}
  BY <1>1 DEF FishOpening0
<1>4. /\ FilesInv' /\ stack' = stack
      /\ \E g \in Given :
            /\ result'.value = g /\ g # -1 /\ g \notin Mine /\ opened'[Current] = Mine \cup {g}
            /\ files'[Current][g].ops = "file" /\ seen'[Current][g] = <<>>
            /\ files'[Current][g].inode = dentries[EntryNamed(Name0)].inode_num
            /\ OnlyAt(g)
  BY <1>2, <1>3, FrameOpened
<1>5. PICK g \in Given :
        /\ result'.value = g /\ g # -1 /\ g \notin Mine /\ opened'[Current] = Mine \cup {g}
        /\ files'[Current][g].ops = "file" /\ seen'[Current][g] = <<>>
        /\ files'[Current][g].inode = dentries[EntryNamed(Name0)].inode_num
        /\ OnlyAt(g)
  BY <1>4
<1> DEFINE r == [Now EXCEPT !.pc = "fish open1", !.fd0 = g]
<1>6. Become(r)
  BY <1>5 DEF FishOpen0, Failed
<1>7. /\ IsLocals(r) /\ r.pc = "fish open1" /\ r.fd = Now.fd /\ r.fd0 = g /\ r.i = Now.i
      /\ r.row = Now.row /\ r.eof = Now.eof /\ r.c0 = Now.c0 /\ r.c1 = Now.c1
  BY <1>2 DEF IsLocals
<1> HIDE DEF r
<1>8. Move(r, Out)
  BY <1>1, <1>2, <1>4, <1>6, SilentMove
<1>9. Kept' /\ Now' = r /\ Out' = Out /\ Task' = Task /\ Current' = Current /\ Args' = Args
  BY <1>1, <1>2, <1>4, <1>7, <1>8, Moved DEF Owner
<1>10. Describes(g, EntryNamed(Name0))'
  BY <1>5, <1>9, TheFrames DEF Describes, File, Seen, Mine
<1>11. FishOpening1'
  <2>1. Describes(Now.fd0, read_dentry_by_name(<<"frame0">>))'
    BY <1>7, <1>9, <1>10 DEF EntryNamed, Name0
  <2>2. Mine' \subseteq {Now'.fd, Now'.fd0} /\ Seen(Now.fd0)' = <<>>
    BY <1>3, <1>5, <1>7, <1>9 DEF Mine, Seen
  <2>3. FishFresh'
    BY <1>3, <1>7, <1>9 DEF FishFresh
  <2> QED
    BY <2>1, <2>2, <2>3 DEF FishOpening1
<1>12. Inside'
  BY <1>1, <1>7, <1>9, <1>11 DEF Inside, At, Places
<1> QED
  BY <1>9, <1>12 DEF ProgramsInv

\* Before the first character.
LEMMA FrameStarts ==
    ASSUME NEW frame
    PROVE  InFrame(frame, <<>>, "0", FALSE, 0, 0)
<1> DEFINE e == <<>>
           one == << <<>> >>
<1>1. Len(one) = 1 /\ one[1] = e /\ Len(e) = 0
  OBVIOUS
<1>2. Lines(e) = one
  BY LinesOfNothing
<1>3. "0" # NL
  BY DEF NL
<1> HIDE DEF e, one
<1>4. Len(Lines(e)) = 0 + 1 /\ Len(Last(Lines(e))) = 0
  BY <1>1, <1>2 DEF Last
<1> QED
  BY <1>3, <1>4 DEF InFrame, e

\* The open() of the second frame keeps ProgramsInv: it is another descriptor.
LEMMA FishOpen1Step ==
    ASSUME ProgramsInv, FishOpen1
    PROVE  ProgramsInv'
<1>1. Kept /\ Task = "fish" /\ FishOpening1
  BY TaskAt DEF ProgramsInv, FishOpen1, Owner, Inside
<1>2. PICK a : a = Now.fd0
  OBVIOUS
<1>3. /\ FilesInv /\ IsLocals(Now) /\ Out \in Seq(Printed) /\ UNCHANGED <<args, out, cmd>>
      /\ open(Name1)
  BY <1>1, RunningProgram DEF FishOpen1, Name1
<1>4. /\ FishFresh /\ Mine \subseteq {Now.fd, a} /\ Describes(a, EntryNamed(Name0))
      /\ Seen(a) = <<>>
  BY <1>1, <1>2 DEF FishOpening1, EntryNamed, Name0
<1>5. /\ FilesInv' /\ stack' = stack
      /\ \E g \in Given :
            /\ result'.value = g /\ g # -1 /\ g \notin Mine /\ opened'[Current] = Mine \cup {g}
            /\ files'[Current][g].ops = "file" /\ seen'[Current][g] = <<>>
            /\ files'[Current][g].inode = dentries[EntryNamed(Name1)].inode_num
            /\ OnlyAt(g)
  BY <1>3, <1>4, FrameOpened
<1>6. PICK g \in Given :
        /\ result'.value = g /\ g # -1 /\ g \notin Mine /\ opened'[Current] = Mine \cup {g}
        /\ files'[Current][g].ops = "file" /\ seen'[Current][g] = <<>>
        /\ files'[Current][g].inode = dentries[EntryNamed(Name1)].inode_num
        /\ OnlyAt(g)
  BY <1>5
<1> DEFINE r == [Now EXCEPT !.pc = "fish read0", !.fd1 = g]
<1>7. Become(r)
  BY <1>6 DEF FishOpen1, Failed
<1>8. /\ IsLocals(r) /\ r.pc = "fish read0" /\ r.fd0 = a /\ r.fd1 = g /\ r.i = 0
      /\ r.row = 0 /\ r.eof = {} /\ r.c0 = "0" /\ r.c1 = "0" /\ Out = <<>>
  BY <1>2, <1>3, <1>4 DEF IsLocals, FishFresh
<1> HIDE DEF r
<1>9. Move(r, Out)
  BY <1>1, <1>3, <1>5, <1>7, SilentMove
<1>10. Kept' /\ Now' = r /\ Out' = Out /\ Task' = Task /\ Current' = Current /\ Args' = Args
  BY <1>1, <1>3, <1>5, <1>8, <1>9, Moved DEF Owner
<1>11. Describes(g, EntryNamed(Name1))'
  BY <1>6, <1>10, TheFrames DEF Describes, File, Seen, Mine
<1>12. a # g
  BY <1>4, <1>6 DEF Describes
<1>13. Describes(a, EntryNamed(Name0))' /\ seen'[Current][a] = <<>>
  <2>1. Mine \ {g} \subseteq opened'[Current] /\ OnlyAt(g)
    BY <1>6
  <2> QED
    BY <1>3, <1>4, <1>5, <1>12, <2>1, Beside
<1>14. BothFrames'
  <2>1. Frames(Now.fd0, <<"frame0">>, 0)'
    BY <1>8, <1>10, <1>13 DEF Frames, EntryNamed, Name0
  <2>2. Frames(Now.fd1, <<"frame1">>, 1)'
    BY <1>8, <1>10, <1>11 DEF Frames, EntryNamed, Name1
  <2> QED
    BY <1>8, <1>10, <1>12, <2>1, <2>2 DEF BothFrames
<1>15. In0(Now.c0, Now.row, Now.i)' /\ In1(Now.c1, Now.row, Now.i)'
  <2>1. Seen(Now.fd0)' = <<>> /\ Seen(Now.fd1)' = <<>> /\ Frame0' = Frame0 /\ Frame1' = Frame1
    BY <1>6, <1>8, <1>10, <1>13 DEF Seen, Frame0, Frame1
  <2>2. /\ InFrame(Frame0, <<>>, "0", FALSE, 0, 0) /\ InFrame(Frame1, <<>>, "0", FALSE, 0, 0)
    BY FrameStarts
  <2>3. ~(0 \in Now'.eof) /\ ~(1 \in Now'.eof)
    BY <1>8, <1>10
  <2> QED
    BY <1>8, <1>10, <2>1, <2>2, <2>3 DEF In0, In1, InFrame
<1>16. Shown(Before(Now.row, Now.i))'
  <2>1. Covers(<<>>, Before(0, 0))
    BY CoversNone, BeforeStart
  <2> QED
    BY <1>8, <1>10, <2>1 DEF Shown, Covers, Before
<1>17. FishReading0'
  BY <1>14, <1>15, <1>16 DEF FishReading0
<1>18. Inside'
  BY <1>1, <1>8, <1>10, <1>17 DEF Inside, At, Places
<1> QED
  BY <1>10, <1>18 DEF ProgramsInv

\* The clock changes nothing of what is shown.
LEMMA FishWaits ==
    ASSUME ProgramsInv, Task = "fish", FishShown, FilesInv', stack' = stack, NEW r,
           IsLocals(r), Become(r), UNCHANGED <<args, out, cmd>>,
           r.pc \in {"fish rate", "fish wait", "fish close", "halt"}
    PROVE  ProgramsInv'
<1>1. Kept /\ Out \in Seq(Printed)
  BY RunningProgram DEF ProgramsInv
<1>2. Move(r, Out)
  BY <1>1, SilentMove
<1>3. r.pc = "halt" \/ Owner(r.pc) = Task
  BY DEF Owner
<1>4. Kept' /\ Now' = r /\ Out' = Out /\ Task' = Task /\ Current' = Current /\ Args' = Args
  BY <1>1, <1>2, <1>3, Moved
<1>5. FishShown'
  BY <1>4 DEF FishShown, Shown
<1>6. Inside'
  BY <1>4, <1>5 DEF Inside, Finished, At, Places
<1> QED
  BY <1>4, <1>6 DEF ProgramsInv

\* Setting the rate keeps ProgramsInv.
LEMMA FishRateStep ==
    ASSUME ProgramsInv, FishRate
    PROVE  ProgramsInv'
<1>1. Kept /\ Task = "fish" /\ FishShown
  BY TaskAt DEF ProgramsInv, FishRate, Owner, Inside, At
<1>2. FilesInv /\ IsLocals(Now) /\ UNCHANGED <<args, out, cmd>> /\ write(Now.fd)
  BY <1>1, RunningProgram DEF FishRate
<1>3. FilesInv' /\ stack' = stack
  BY <1>2, WriteOutcome
<1> DEFINE r == [Now EXCEPT !.pc = "fish wait"]
<1>4. Become(r) /\ IsLocals(r) /\ r.pc = "fish wait"
  BY <1>2 DEF FishRate, Goto, IsLocals
<1> HIDE DEF r
<1> QED
  BY <1>1, <1>2, <1>3, <1>4, FishWaits

\* Waiting for a tick keeps ProgramsInv.
LEMMA FishWaitStep ==
    ASSUME ProgramsInv, FishWait
    PROVE  ProgramsInv'
<1>1. Kept /\ Task = "fish" /\ FishShown
  BY TaskAt DEF ProgramsInv, FishWait, Owner, Inside, At
<1>2. FilesInv /\ IsLocals(Now) /\ UNCHANGED <<args, out, cmd>> /\ read(Now.fd, 4)
  BY <1>1, RunningProgram DEF FishWait
<1>3. FilesInv' /\ stack' = stack
  BY <1>2, Sizes, ReadOutcome
<1> DEFINE n == Now.cnt + 1
           pc == IF n < WAIT THEN "fish wait" ELSE "fish close"
           r == [Now EXCEPT !.cnt = n, !.pc = pc]
<1>4. n \in Nat
  BY <1>2 DEF IsLocals
<1>5. Become(r)
  BY DEF FishWait
<1>6. pc \in {"fish wait", "fish close"}
  OBVIOUS
<1> HIDE DEF n, pc
<1>7. IsLocals(r) /\ r.pc = pc
  BY <1>2, <1>4 DEF IsLocals
<1> HIDE DEF r
<1> QED
  BY <1>1, <1>2, <1>3, <1>5, <1>6, <1>7, FishWaits

\* The end of fish keeps ProgramsInv.
LEMMA FishEndStep ==
    ASSUME ProgramsInv, FishEnd
    PROVE  ProgramsInv'
<1>1. Kept /\ Task = "fish" /\ FishShown
  BY TaskAt DEF ProgramsInv, FishEnd, Owner, Inside, At
<1>2. FilesInv /\ IsLocals(Now) /\ UNCHANGED <<args, out, cmd>> /\ close(Now.fd)
  BY <1>1, RunningProgram DEF FishEnd
<1>3. FilesInv' /\ stack' = stack
  BY <1>2, CloseOutcome
<1> DEFINE r == [Now EXCEPT !.pc = "halt", !.status = 0]
<1>4. Become(r)
  BY DEF FishEnd, Exit
<1>5. IsLocals(r) /\ r.pc = "halt"
  <2>1. 0 \in -1..255
    OBVIOUS
  <2> QED
    BY <1>2, <2>1 DEF IsLocals
<1> HIDE DEF r
<1> QED
  BY <1>1, <1>2, <1>3, <1>4, <1>5, FishWaits

-----------------------------------------------------------------------------
(***************************************************************************)
(* The theorems                                                            *)
(***************************************************************************)
\* At boot, before its first prompt, the first shell has neither arguments nor output.
LEMMA InitProcesses ==
    ASSUME InitPrograms
    PROVE  ProgramsInv
<1>1. FilesInv
  BY InitFiles DEF InitPrograms
<1>2. stack = <<0>> /\ Len(stack) = 1 /\ stack[1] = 0 /\ 0 \in Pids
  BY FilesAssumption DEF InitPrograms, Init
<1>3. Current = 0 /\ Live = {0}
  BY <1>2 DEF Current, Live
<1>4. IsLocals(Fresh("shell")) /\ Fresh("shell").pc = "shell"
  BY FreshLocals
<1>5. /\ DOMAIN proc = Pids
      /\ \A p \in Pids : /\ proc[p] = Fresh("shell") /\ args[p] = <<>> /\ out[p] = <<>>
                         /\ cmd[p] = <<"shell">>
  BY DEF InitPrograms
<1>6. TypedPrograms
  <2>1. args \in [Pids -> Seq(Chars)] /\ out \in [Pids -> Seq(Printed)]
    BY WordsWritten DEF InitPrograms
  <2>2. cmd \in [Pids -> Seq(Chars)]
    BY ShellsName DEF InitPrograms
  <2> QED
    BY <1>4, <1>5, <2>1, <2>2 DEF TypedPrograms
<1>7. \A p \in Pids : Program(p) = "shell"
  BY <1>5, ShellsName DEF Program
<1>8. Placed
  <2>1. \A p \in Pids : proc[p].pc # "halt" => Owner(proc[p].pc) = Program(p)
    BY <1>4, <1>5, <1>7 DEF Owner
  <2>2. \A i \in 1..Len(stack)-1 : proc[stack[i]].pc = "wait"
    BY <1>2
  <2> QED
    BY <1>4, <1>5, <2>1, <2>2 DEF Placed
<1>9. ArgsDelivered
  BY <1>2, <1>3, <1>5, ShellsName DEF ArgsDelivered
<1>10. Inside
  <2>1. Now.pc = "shell" /\ Task = "shell"
    BY <1>2, <1>3, <1>4, <1>5, <1>7 DEF Now, Task
  <2> QED
    BY <2>1 DEF Inside, At, Places
<1> QED
  BY <1>1, <1>6, <1>8, <1>9, <1>10 DEF ProgramsInv, Kept

\* A step that changes no variable.
LEMMA NothingMoves ==
    ASSUME ProgramsInv, UNCHANGED allVars
    PROVE  ProgramsInv'
<1>1. /\ stack' = stack /\ files' = files /\ rtc_opens' = rtc_opens /\ opened' = opened
      /\ seen' = seen /\ args' = args /\ proc' = proc /\ out' = out /\ cmd' = cmd
  BY DEF allVars, vars, programVars
<1>2. FilesInv'
  BY <1>1, FilesIdle DEF ProgramsInv, Kept
<1>3. Current' = Current /\ Live' = Live /\ Now' = Now /\ Out' = Out /\ Task' = Task
  BY <1>1, StaysCurrent DEF Now, Out, Task, Program
<1>4. Kept'
  BY <1>1, <1>2, <1>3
     DEF ProgramsInv, Kept, TypedPrograms, Placed, ArgsDelivered, Program
<1>5. Inside'
  <2>1. Starting => Starting'
    BY <1>1 DEF Starting,
                Now, Current, Mine, Out, Args, File, Seen
  <2>2. CatReading => CatReading'
    BY <1>1 DEF CatReading, Describes,
                Now, Current, Mine, Out, Args, File, Seen
  <2>3. LsReading => LsReading'
    BY <1>1 DEF LsReading, IsDir,
                Now, Current, Mine, Out, Args, File, Seen
  <2>4. GrepListing => GrepListing'
    BY <1>1 DEF GrepListing, IsDir, Lucky, Entry0,
                Now, Current, Mine, Out, Args, File, Seen
  <2>5. GrepOpening => GrepOpening'
    BY <1>1 DEF GrepOpening, Searchable, IsDir, Lucky, Entry0,
                Now, Current, Mine, Out, Args, File, Seen
  <2>6. GrepReading => GrepReading'
    BY <1>1 DEF GrepReading, Searchable, IsDir, Lucky, Entry0, Describes, Searching,
                Now, Current, Mine, Out, Args, File, Seen
  <2>7. GrepClosing => GrepClosing'
    BY <1>1 DEF GrepClosing, Searchable, IsDir, Lucky, Entry0, Describes,
                Now, Current, Mine, Out, Args, File, Seen
  <2>8. Counting => Counting'
    BY <1>1 DEF Counting,
                Now, Current, Mine, Out, Args, File, Seen
  <2>9. Testing => Testing'
    BY <1>1 DEF Testing,
                Now, Current, Mine, Out, Args, File, Seen
  <2>10. FishClock => FishClock'
    BY <1>1 DEF FishClock, FishFresh,
                Now, Current, Mine, Out, Args, File, Seen
  <2>11. FishOpening0 => FishOpening0'
    BY <1>1 DEF FishOpening0, FishFresh,
                Now, Current, Mine, Out, Args, File, Seen
  <2>12. FishOpening1 => FishOpening1'
    BY <1>1 DEF FishOpening1, FishFresh, Describes,
                Now, Current, Mine, Out, Args, File, Seen
  <2>13. FishReading0 => FishReading0'
    BY <1>1 DEF FishReading0, BothFrames, Frames, Describes, In0, In1, Shown,
                Now, Current, Mine, Out, Args, File, Seen
  <2>14. FishReading1 => FishReading1'
    BY <1>1 DEF FishReading1, BothFrames, Frames, Describes, In0, In1, Shown,
                Now, Current, Mine, Out, Args, File, Seen
  <2>15. FishClosing0 => FishClosing0'
    BY <1>1 DEF FishClosing0, BothFrames, Frames, Describes, Shown,
                Now, Current, Mine, Out, Args, File, Seen
  <2>16. FishClosing1 => FishClosing1'
    BY <1>1 DEF FishClosing1, BothFrames, Frames, Describes, In0, Shown,
                Now, Current, Mine, Out, Args, File, Seen
  <2>17. FishShown => FishShown'
    BY <1>1 DEF FishShown, Shown,
                Now, Current, Mine, Out, Args, File, Seen
  <2>18. Finished => Finished'
    BY <1>1 DEF Finished, CatDone, LsDone, GrepDone, CountDone, FishShown, Shown, Lucky, Task, Program,
                Now, Current, Mine, Out, Args, File, Seen
  <2>19. Inside
    BY DEF ProgramsInv
  <2>20. (Now.pc \notin Places \cup {"shell"} => Starting)'
    BY <1>3, <2>1, <2>19 DEF Inside
  <2>21. /\ (At("cat read") => CatReading)'
         /\ (At("ls read") => LsReading)'
         /\ (At("grep dir") => GrepListing)'
         /\ (At("grep open") => GrepOpening)'
         /\ (At("grep read") => GrepReading)'
         /\ (At("grep close") => GrepClosing)'
    BY <1>3, <2>2, <2>3, <2>4, <2>5, <2>6, <2>7, <2>19 DEF Inside, At
  <2>22. /\ (At("count") => Counting)'
         /\ (At("test") => Testing)'
         /\ (At("halt") => Finished)'
    BY <1>3, <2>8, <2>9, <2>18, <2>19 DEF Inside, At
  <2>23. /\ (At("fish clock") => FishClock)'
         /\ (At("fish open0") => FishOpening0)'
         /\ (At("fish open1") => FishOpening1)'
         /\ (At("fish read0") => FishReading0)'
         /\ (At("fish read1") => FishReading1)'
         /\ (At("fish close0") => FishClosing0)'
         /\ (At("fish close1") => FishClosing1)'
    BY <1>3, <2>10, <2>11, <2>12, <2>13, <2>14, <2>15, <2>16, <2>19 DEF Inside, At
  <2>24. /\ (Now.pc \in {"fish rate", "fish wait", "fish close"} => FishShown)'
         /\ (Task = "syserr" => Out \in Seq({"PASS"}))'
    BY <1>3, <2>17, <2>19 DEF Inside
  <2> QED
    BY <2>20, <2>21, <2>22, <2>23, <2>24 DEF Inside
<1> QED
  BY <1>4, <1>5 DEF ProgramsInv

\* Every step of the shell and of the programs keeps ProgramsInv.
LEMMA NextProcesses == ProgramsInv /\ [NextPrograms]_allVars => ProgramsInv'
<1> SUFFICES ASSUME ProgramsInv, [NextPrograms]_allVars
             PROVE  ProgramsInv'
  OBVIOUS
<1>1. Kept
  BY DEF ProgramsInv
<1>2. CASE Shell
  BY <1>1, <1>2, ShellReadStep, ExecuteExitStep, ExecuteFailsStep, ShellReportStep,
     ExecuteProgramStep DEF Shell
<1>3. CASE CatOpen \/ CatRead \/ LsOpen \/ LsRead
  BY <1>3, CatOpenStep, CatReadStep, LsOpenStep, LsReadStep
<1>4. CASE GrepStart \/ GrepDir \/ GrepOpen \/ GrepRead \/ GrepClose
  BY <1>4, GrepStartStep, GrepDirStep, GrepOpenStep, GrepReadStep, GrepCloseStep
<1>5. CASE FishVideo \/ FishOpenClock \/ FishOpen0 \/ FishOpen1 \/ FishRead0 \/ FishRead1
  BY <1>5, FishVideoStep, FishOpenClockStep, FishOpen0Step, FishOpen1Step, FishRead0Step,
     FishRead1Step
<1>6. CASE FishClose0 \/ FishClose1 \/ FishRate \/ FishWait \/ FishEnd
  BY <1>6, FishClose0Step, FishClose1Step, FishRateStep, FishWaitStep, FishEndStep
<1>7. CASE \E line \in Replies : CounterRead(line) \/ HelloRead(line) \/ SyserrRead(line)
  BY <1>7, CounterReadStep, HelloReadStep, SyserrReadStep
<1>8. CASE Count \/ TestCall \/ TestEnd
  BY <1>8, CountStep, TestCallStep, TestEndStep
<1>9. CASE HaltProgram
  BY <1>1, <1>9, HaltProgramStep
<1>10. CASE UNCHANGED allVars
  BY <1>10, NothingMoves
<1> QED
  BY <1>2, <1>3, <1>4, <1>5, <1>6, <1>7, <1>8, <1>9, <1>10 DEF NextPrograms, Run
-----------------------------------------------------------------------------
\* ProgramsInv is an invariant of the shell and the programs.
THEOREM ProgramsKeep == SpecPrograms => []ProgramsInv
  BY InitProcesses, NextProcesses, PTL DEF SpecPrograms

\* Every variable of the processes holds a value of its kind, a status fits in a
\* byte or is -1, and the shells below the program that runs wait for it.
THEOREM ProgramsTyped == SpecPrograms => []TypeOKPrograms
<1>1. ProgramsInv => TypeOKPrograms
  BY FilesTyped DEF ProgramsInv, Kept, TypedPrograms, IsLocals, Placed, TypeOKPrograms
<1> QED
  BY <1>1, ProgramsKeep, PTL

\* getargs() gives a program what followed the first blank of its own command, and
\* nothing when there was none, whatever the last program in its PCB was given.
THEOREM ArgumentsDelivered == SpecPrograms => []ArgsDelivered
<1>1. ProgramsInv => ArgsDelivered
  BY DEF ProgramsInv, Kept
<1> QED
  BY <1>1, ProgramsKeep, PTL

\* A live process that is not the one that runs is a shell that waits.
LEMMA OthersWait ==
    ASSUME Kept, NEW p \in Live, p # Current
    PROVE  proc[p].pc = "wait" /\ Program(p) = "shell"
<1>1. FilesInv /\ Placed /\ Live \subseteq Pids
  BY RunningProgram
<1>2. stack \in Seq(Pids) /\ Len(stack) \in Nat
  BY <1>1 DEF FilesInv, Typed
<1>3. PICK i \in 1..Len(stack) : stack[i] = p
  BY DEF Live
<1>4. i \in 1..Len(stack)-1
  BY <1>2, <1>3 DEF Current
<1>5. proc[p].pc = "wait"
  BY <1>1, <1>3, <1>4 DEF Placed
<1>6. Owner(proc[p].pc) = Program(p)
  BY <1>1, <1>5 DEF Placed
<1> QED
  BY <1>5, <1>6 DEF Owner

\* The name of a program of one word is that word.
LEMMA OneWord ==
    ASSUME NEW p, NEW name, CommandName(cmd[p]) = <<name>>
    PROVE  Program(p) = name
  BY DEF Program

\* Every test of syserr prints PASS: the calls that have to fail do, for every
\* number of descriptors and every directory.
THEOREM SyserrPasses == SpecPrograms => []TestsPass
<1>1. ProgramsInv => TestsPass
  <2> SUFFICES ASSUME ProgramsInv, NEW p \in Live, CommandName(cmd[p]) = <<"syserr">>
               PROVE  "FAIL" \notin Range(out[p])
    BY DEF TestsPass
  <2>1. Kept /\ Inside
    BY DEF ProgramsInv
  <2>2. Program(p) = "syserr"
    BY OneWord
  <2>3. p = Current
    BY <2>1, <2>2, OthersWait
  <2>4. Out \in Seq({"PASS"})
    BY <2>1, <2>2, <2>3 DEF Inside, Task
  <2>5. out[p] \in Seq({"PASS"})
    BY <2>3, <2>4 DEF Out
  <2> QED
    BY <2>5 DEF Range
<1> QED
  BY <1>1, ProgramsKeep, PTL

\* What cat, ls, grep, fish and counter have written when they halt is what the
\* image and their command say, for every image, every text of its files and
\* every size of their buffers.
THEOREM OutputRight == SpecPrograms => []RightOutput
<1>1. ProgramsInv => RightOutput
  <2> SUFFICES ASSUME ProgramsInv
               PROVE  RightOutput
    OBVIOUS
  <2>1. Kept /\ Inside
    BY DEF ProgramsInv
  <2>2. ASSUME NEW p \in Live, NEW name, proc[p].pc = "halt", CommandName(cmd[p]) = <<name>>
        PROVE  /\ p = Current /\ Finished /\ Task = name
               /\ args[p] = Args /\ out[p] = Out /\ proc[p] = Now
    <3>1. p = Current
      BY <2>1, <2>2, OthersWait
    <3>2. Finished
      BY <2>1, <2>2, <3>1 DEF Inside, At, Now
    <3> QED
      BY <2>2, <3>1, <3>2, OneWord DEF Task, Args, Out, Now
  <2>3. DOMAIN dentries = 1..num_dir_entries
    BY Entries
  <2>4. ASSUME NEW p \in Live, proc[p].pc = "halt", CommandName(cmd[p]) = <<"cat">>,
               args[p] # <<>>
        PROVE  LET found == read_dentry_by_name(args[p]) IN
               IF found = 0 THEN proc[p].status = 2
               ELSE /\ proc[p].status = 0
                    /\ out[p] = IF dentries[found].file_type = "dir"
                                THEN AllOf(LAMBDA d : d.file_name) ELSE Bytes(dentries[found])
    <3>1. CatDone /\ args[p] = Args /\ out[p] = Out /\ proc[p] = Now
      BY <2>2, <2>4 DEF Finished
    <3> QED
      BY <2>4, <3>1 DEF CatDone, Whole
  <2>5. ASSUME NEW p \in Live, proc[p].pc = "halt", CommandName(cmd[p]) = <<"ls">>
        PROVE  out[p] = AllOf(LAMBDA d : Append(d.file_name, NL))
    <3>1. LsDone /\ out[p] = Out
      BY <2>2, <2>5 DEF Finished
    <3> QED
      BY <2>3, <3>1 DEF LsDone, Listed, AllOf
  <2>6. ASSUME NEW p \in Live, proc[p].pc = "halt", CommandName(cmd[p]) = <<"grep">>,
               args[p] # <<>>, LinesFit, ~proc[p].unlucky
        PROVE  out[p] = AllOf(LAMBDA d : Report(d.file_name, Lines(Bytes(d)), args[p]))
    <3>1. GrepDone /\ args[p] = Args /\ out[p] = Out /\ proc[p] = Now
      BY <2>2, <2>6 DEF Finished
    <3>2. out[p] = Reported(args[p], num_dir_entries)
      BY <2>6, <3>1 DEF GrepDone, Lucky
    <3> QED
      BY <2>3, <3>2 DEF Reported, Searched, AllOf
  <2>7. ASSUME NEW p \in Live, proc[p].pc = "halt", CommandName(cmd[p]) = <<"fish">>
        PROVE  Range(out[p]) = FishCells /\ Len(out[p]) = Cardinality(FishCells)
    <3>1. FishShown /\ out[p] = Out
      BY <2>2, <2>7 DEF Finished
    <3> QED
      BY <3>1 DEF FishShown, Shown
  <2>8. ASSUME NEW p \in Live, proc[p].pc = "halt", CommandName(cmd[p]) = <<"counter">>,
               proc[p].i > 0
        PROVE  /\ Len(Lines(out[p])) = proc[p].chosen + 1
               /\ \A k \in 1..proc[p].chosen : NumberOf(Lines(out[p])[k]) = k
    <3>1. CountDone /\ out[p] = Out /\ proc[p] = Now
      BY <2>2, <2>8 DEF Finished
    <3>2. Now.i > 0
      BY <2>8, <3>1
    <3>3. Now.i = Now.chosen /\ Counted(Out, Now.i)
      BY <3>1, <3>2 DEF CountDone
    <3> QED
      BY <3>1, <3>3 DEF Counted
  <2> QED
    BY <2>4, <2>5, <2>6, <2>7, <2>8 DEF RightOutput
<1> QED
  BY <1>1, ProgramsKeep, PTL
=============================================================================
