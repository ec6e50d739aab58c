----------------------------- MODULE FilesProofs ----------------------------
(***************************************************************************)
(* File descriptors and the data read through them, for every image, size  *)
(* of the tables, set of processes and sequence of calls.  FilesInv is     *)
(* inductive: what the properties say, and that a process is once on the   *)
(* stack and that one which is not has nothing open.  Every system call    *)
(* that succeeds is an instance of Call, one descriptor written; execute   *)
(* and halt write whole tables.                                            *)
(*                                                                         *)
(* The first part is about the image: a file's bytes, found through the    *)
(* block numbers one by one as read_data does, are the file's blocks put   *)
(* one after the other.                                                    *)
(***************************************************************************)
EXTENDS Files, Induction, FiniteSetTheorems

\* A descriptor that some open left behind, what reads may return, and the
\* descriptors open gives.
Inodes == {0} \cup {dentries[i].inode_num : i \in 1..num_dir_entries}
Descriptors ==
    {f \in [flags : {0, 1}, ops : Types \cup {"stdin", "stdout", "fail"},
            inode : Inodes, pos : Nat] : f.ops = "file" => f.inode \in DOMAIN inodes}
Returned == Visible \cup {" "} \cup {dentries[i].file_name : i \in 1..num_dir_entries}
Given == 2..MAX_FILES - 1

\* Every variable but rtc_opens, which RtcBalance defines.
Typed ==
    /\ stack \in Seq(Pids) /\ Len(stack) > 0
    /\ files \in [Pids -> [Fds -> Descriptors]]
    /\ opened \in [Pids -> SUBSET Given]
    /\ seen \in [Pids -> [Fds -> Seq(Returned)]]

\* A process is on the stack once, and one that is not has nothing open.
Lives ==
    /\ \A i, j \in 1..Len(stack) : stack[i] = stack[j] => i = j
    /\ \A p \in Pids : p \notin Live => opened[p] = {}

\* The inductive invariant.
FilesInv == Typed /\ Lives /\ OwnDescriptors /\ RtcBalance /\ Stream
-----------------------------------------------------------------------------
\* Rows of equal length, one after the other.
LEMMA RowEnd ==
    ASSUME NEW b \in Nat, NEW i \in Nat, NEW j \in Nat, j < i
    PROVE  j * b + b <= i * b /\ j * b \in Nat /\ i * b \in Nat
<1>1. j + 1 <= i /\ i - j - 1 \in Nat
  OBVIOUS
<1>2. (i - j - 1) * b >= 0 /\ j * b \in Nat /\ i * b \in Nat
  BY <1>1
<1>3. (i - j - 1) * b = i * b - j * b - b
  OBVIOUS
<1> QED
  BY <1>2, <1>3

\* The next row starts b further on.
LEMMA RowNext ==
    ASSUME NEW b \in Nat, NEW i \in Nat
    PROVE  (i + 1) * b = i * b + b /\ i * b \in Nat
  OBVIOUS

\* Quotient and remainder.
LEMMA Division ==
    ASSUME NEW b \in Nat \ {0}, NEW x \in Nat
    PROVE  \E q \in Nat, r \in 0..b - 1 : x = q * b + r /\ x \div b = q /\ x % b = r
<1> DEFINE P(n, q, r) == n = q * b + r
           S == {n \in Nat : \E q \in Nat, r \in 0..b - 1 : P(n, q, r)}
<1>1. 0 \in S
  <2>1. P(0, 0, 0) /\ 0 \in 0..b - 1
    OBVIOUS
  <2> HIDE DEF P
  <2> QED
    BY <2>1
<1>2. ASSUME NEW n \in Nat, n \in S
      PROVE  n + 1 \in S
  <2>1. PICK q \in Nat, r \in 0..b - 1 : P(n, q, r)
    BY <1>2
  <2>2. CASE r + 1 \in 0..b - 1
    <3>1. P(n + 1, q, r + 1)
      BY <2>1
    <3> HIDE DEF P
    <3> QED
      BY <2>2, <3>1
  <2>3. CASE r + 1 = b
    <3>1. P(n + 1, q + 1, 0)
      BY <2>1, <2>3, RowNext
    <3>2. q + 1 \in Nat /\ 0 \in 0..b - 1
      OBVIOUS
    <3> HIDE DEF P
    <3> QED
      BY <3>1, <3>2
  <2> QED
    BY <2>2, <2>3
<1>3. x \in S
  <2> HIDE DEF S
  <2> QED
    BY <1>1, <1>2, SetInduction
<1>4. PICK q \in Nat, r \in 0..b - 1 : x = q * b + r
  BY <1>3
<1>5. (q * b + r) \div b = q /\ (q * b + r) % b = r
  OBVIOUS
<1>6. x \div b = q /\ x % b = r
  BY ONLY <1>4, <1>5, Zenon
<1> QED
  BY <1>4, <1>6, Zenon

\* f puts the elements of s together, one after the other.
Flattens(f, s, n) ==
    /\ f[1] = s[1]
    /\ \A i \in 2..n : f[i] = f[i - 1] \o s[i]
    /\ FlattenSeq(s) = f[n]

\* What FlattenSeq computes.
LEMMA Flatten ==
    ASSUME NEW V, NEW n \in Nat \ {0}, NEW s \in [1..n -> Seq(V)]
    PROVE  \E f \in [1..n -> Seq(V)] : Flattens(f, s, n)
<1> DEFINE F == [i \in 1..n |-> s[i]]
           Eq(f) == f = [i \in 1..n |-> IF i = 1 THEN s[i] ELSE f[i - 1] \o s[i]]
           pred == [i \in Nat |-> i - 1]
           step == [i \in Nat |-> [v \in Seq(V) |->
                      IF i \in 2..n THEN v \o s[i] ELSE s[1]]]
           base == [i \in Nat |-> s[1]]
<1>0. s \in Seq(Seq(V)) /\ Len(s) = n
  OBVIOUS
<1>1. step \in [Nat -> [Seq(V) -> Seq(V)]] /\ base \in [Nat -> Seq(V)]
  OBVIOUS
<1>2. PICK h \in [Nat -> Seq(V)] : Computes(h, Nat, pred, step, base)
  <2> HIDE DEF step, base, pred
  <2> QED
    BY <1>1, RecursiveFunction
<1> DEFINE g == [i \in 1..n |-> h[i]]
<1>3. h[1] = s[1]
  <2>1. pred[1] = 0 /\ 0 \in 0..(1 - 1)
    OBVIOUS
  <2>2. h[1] = step[1][h[0]]
    <3> HIDE DEF pred, step, base
    <3> QED
      BY <1>2, <2>1 DEF Computes
  <2>3. h[0] \in Seq(V) /\ 1 \notin 2..n
    OBVIOUS
  <2> QED
    BY <2>2, <2>3
<1>4. \A i \in 2..n : h[i] = h[i - 1] \o s[i]
  <2> SUFFICES ASSUME NEW i \in 2..n
               PROVE  h[i] = h[i - 1] \o s[i]
    OBVIOUS
  <2>1. pred[i] = i - 1 /\ pred[i] \in 0..(i - 1) /\ i \in Nat
    OBVIOUS
  <2>2. h[i] = step[i][h[i - 1]]
    <3> HIDE DEF pred, step, base
    <3> QED
      BY <1>2, <2>1 DEF Computes
  <2>3. h[i - 1] \in Seq(V)
    OBVIOUS
  <2>4. step[i][h[i - 1]] = h[i - 1] \o s[i]
    BY <2>1, <2>3
  <2> QED
    BY <2>2, <2>4
<1>5. Eq(g)
  <2> SUFFICES ASSUME NEW i \in 1..n
               PROVE  g[i] = IF i = 1 THEN s[i] ELSE g[i - 1] \o s[i]
    OBVIOUS
  <2>1. CASE i = 1
    BY <1>3, <2>1
  <2>2. CASE i \in 2..n /\ i - 1 \in 1..n
    <3>1. h[i] = h[i - 1] \o s[i]
      BY <1>4, <2>2
    <3>2. g[i] = h[i] /\ g[i - 1] = h[i - 1] /\ i # 1
      BY <2>2
    <3> HIDE DEF g
    <3> QED
      BY <3>1, <3>2
  <2> QED
    BY <2>1, <2>2
<1>6. \E f : Eq(f)
  <2> HIDE DEF Eq, g
  <2> QED
    BY <1>5
<1>7. Eq(CHOOSE f : Eq(f))
  <2> HIDE DEF Eq
  <2> QED
    BY <1>6
<1> DEFINE c == CHOOSE f : Eq(f)
<1>8. FlattenSeq(s) = c[n]
  BY <1>0 DEF FlattenSeq
<1>9. Eq(c)
  BY <1>7
<1> HIDE DEF c
<1>10. /\ c[1] = s[1]
       /\ \A i \in 2..n : c[i] = c[i - 1] \o s[i]
  <2>1. \A i \in 1..n : c[i] = IF i = 1 THEN s[i] ELSE c[i - 1] \o s[i]
    BY <1>9
  <2>2. 1 \in 1..n /\ \A i \in 2..n : i \in 1..n /\ i # 1
    OBVIOUS
  <2> HIDE DEF Eq
  <2> QED
    BY <2>1, <2>2
<1> DEFINE S == {i \in Nat : i \in 1..n => c[i] \in Seq(V)}
<1>11. 0 \in S
  OBVIOUS
<1>12. ASSUME NEW i \in Nat, i \in S
       PROVE  i + 1 \in S
  <2>1. CASE i + 1 \in 2..n
    <3>0. c[i + 1] = c[(i + 1) - 1] \o s[i + 1]
      BY <1>10, <2>1, Zenon
    <3>1. c[i + 1] = c[i] \o s[i + 1] /\ i \in 1..n
      BY <2>1, <3>0
    <3>2. c[i] \in Seq(V) /\ s[i + 1] \in Seq(V)
      BY <1>12, <3>1, <2>1
    <3>3. c[i + 1] \in Seq(V)
      BY <3>1, <3>2
    <3> QED
      BY <3>3
  <2>2. CASE i + 1 = 1
    BY <1>10, <2>2
  <2> QED
    BY <2>1, <2>2
<1>13. Nat \subseteq S
  <2> HIDE DEF S
  <2> QED
    BY <1>11, <1>12, SetInduction
<1>14. \A i \in 1..n : c[i] \in Seq(V)
  BY <1>13
<1>15. c = [i \in 1..n |-> c[i]]
  BY <1>9
<1>16. c \in [1..n -> Seq(V)]
  BY <1>14, <1>15
<1> QED
  BY <1>8, <1>10, <1>16 DEF Flattens

\* The elements of one sequence, then those of the other.
IsJoin(z, u, w) ==
    /\ Len(z) = Len(u) + Len(w)
    /\ \A k \in 1..Len(u) : z[k] = u[k]
    /\ \A k \in 1..Len(w) : z[Len(u) + k] = w[k]

\* Concatenation joins.
LEMMA Joined ==
    ASSUME NEW V, NEW u \in Seq(V), NEW w \in Seq(V)
    PROVE  IsJoin(u \o w, u, w)
<1>1. Len(u) \in Nat /\ Len(w) \in Nat /\ Len(u \o w) = Len(u) + Len(w)
  OBVIOUS
<1>2. \A k \in 1..Len(u) : (u \o w)[k] = u[k]
  OBVIOUS
<1>3. ASSUME NEW k \in 1..Len(w)
      PROVE  (u \o w)[Len(u) + k] = w[k]
  BY <1>1
<1> QED
  BY <1>1, <1>2, <1>3 DEF IsJoin

\* f has the elements of n blocks of b elements, the last of which may be shorter:
\* element r of block j is number j * b + r.
IsBlocks(f, s, n, b) ==
    /\ Len(f) = (n - 1) * b + Len(s[n])
    /\ \A j \in 0..n - 1 : \A r \in 1..Len(s[j + 1]) : f[j * b + r] = s[j + 1][r]

\* FlattenSeq puts blocks together.
LEMMA FlattenBlocks ==
    ASSUME NEW V, NEW n \in Nat \ {0}, NEW b \in Nat \ {0},
           NEW s \in [1..n -> Seq(V)], \A i \in 1..n - 1 : Len(s[i]) = b
    PROVE  FlattenSeq(s) \in Seq(V) /\ IsBlocks(FlattenSeq(s), s, n, b)
<1>0. PICK f \in [1..n -> Seq(V)] : Flattens(f, s, n)
  BY Flatten
<1>1. /\ f[1] = s[1]
      /\ \A i \in 2..n : f[i] = f[i - 1] \o s[i]
      /\ FlattenSeq(s) = f[n]
  BY <1>0 DEF Flattens
<1> DEFINE Put(i) == /\ Len(f[i + 1]) = i * b + Len(s[i + 1])
                     /\ \A j \in 0..i : \A r \in 1..Len(s[j + 1]) :
                           f[i + 1][j * b + r] = s[j + 1][r]
           S == {i \in Nat : i \in 0..n - 1 => Put(i)}
<1>2. 0 \in S
  <2>1. 0 * b = 0
    OBVIOUS
  <2> DEFINE l == Len(s[1])
  <2>2. l \in Nat /\ Len(f[1]) = l
    BY <1>1
  <2> HIDE DEF l
  <2>3. 0 + 1 = 1 /\ Len(f[1]) = 0 * b + l
    BY <2>1, <2>2
  <2>4. ASSUME NEW j \in 0..0, NEW r \in 1..Len(s[j + 1])
        PROVE  f[1][j * b + r] = s[j + 1][r]
    <3>1. j = 0 /\ j * b + r = r
      BY <2>1
    <3> QED
      BY <1>1, <3>1
  <2>5. Put(0)
    BY <2>3, <2>4 DEF l
  <2> HIDE DEF Put
  <2> QED
    BY <2>5
<1>3. ASSUME NEW i \in Nat, i \in S
      PROVE  i + 1 \in S
  <2> SUFFICES ASSUME i + 1 \in 0..n - 1
               PROVE  Put(i + 1)
    OBVIOUS
  <2>1. Put(i)
    <3> HIDE DEF Put
    <3> QED
      BY <1>3
  <2>2. f[i + 2] = f[i + 1] \o s[i + 2]
    <3>1. i + 2 \in 2..n /\ (i + 2) - 1 = i + 1
      OBVIOUS
    <3>2. f[i + 2] = f[(i + 2) - 1] \o s[i + 2]
      BY <1>1, <3>1, Zenon
    <3> QED
      BY <3>1, <3>2
  <2>3. i + 1 \in 1..n - 1 /\ i + 2 \in 1..n /\ (i + 1) + 1 = i + 2
    OBVIOUS
  <2>4. Len(s[i + 1]) = b
    BY <2>3
  <2> DEFINE m == i * b
             x == f[i + 1]
             y == s[i + 2]
  <2>5. m \in Nat /\ (i + 1) * b = m + b
    BY RowNext
  <2>6. x \in Seq(V) /\ y \in Seq(V) /\ Len(x) = m + b
    BY <2>1, <2>3, <2>4, <2>5
  <2> HIDE DEF m, x, y
  <2>7. /\ Len(x \o y) = m + b + Len(y)
        /\ \A k \in 1..m + b : (x \o y)[k] = x[k]
        /\ \A k \in 1..Len(y) : (x \o y)[m + b + k] = y[k]
    <3>1. IsJoin(x \o y, x, y)
      BY <2>6, Joined
    <3> QED
      BY ONLY <2>6, <3>1, Zenon DEF IsJoin
  <2>8. f[i + 2] = x \o y
    BY <2>2 DEF x, y
  <2>9. Len(f[i + 2]) = (i + 1) * b + Len(s[i + 2])
    BY <2>5, <2>7, <2>8 DEF y
  <2>10. ASSUME NEW j \in 0..i + 1, NEW r \in 1..Len(s[j + 1])
         PROVE  f[i + 2][j * b + r] = s[j + 1][r]
    <3>1. CASE j = i + 1
      <4>1. r \in 1..Len(y) /\ s[j + 1] = y /\ j * b + r = m + b + r
        BY <2>3, <2>5, <3>1 DEF y
      <4> QED
        BY <2>7, <2>8, <4>1
    <3>2. CASE j \in 0..i
      <4>1. Len(s[j + 1]) = b
        BY <2>3, <3>2
      <4>2. j * b \in Nat /\ j * b <= m
        <5>1. CASE j = i
          BY <2>5, <5>1 DEF m
        <5>2. CASE j < i
          BY <3>2, <5>2, RowEnd DEF m
        <5> QED
          BY <3>2, <5>1, <5>2
      <4>3. j * b + r \in 1..m + b
        <5> DEFINE z == j * b
        <5>1. z \in Nat /\ z <= m /\ r \in 1..b
          BY <4>1, <4>2
        <5> HIDE DEF z
        <5>2. z + r \in 1..m + b
          BY <2>5, <5>1
        <5> QED
          BY <5>2 DEF z
      <4>4. x[j * b + r] = s[j + 1][r]
        BY <2>1, <3>2 DEF x
      <4> QED
        BY <2>7, <2>8, <4>3, <4>4
    <3> QED
      BY <3>1, <3>2
  <2> QED
    BY <2>3, <2>9, <2>10
<1>4. Put(n - 1)
  <2>1. Nat \subseteq S
    <3> HIDE DEF S
    <3> QED
      BY <1>2, <1>3, SetInduction
  <2>2. n - 1 \in Nat /\ n - 1 \in 0..n - 1
    OBVIOUS
  <2> HIDE DEF Put
  <2> QED
    BY <2>1, <2>2
<1>5. (n - 1) + 1 = n /\ f[n] \in Seq(V)
  OBVIOUS
<1>6. /\ Len(f[n]) = (n - 1) * b + Len(s[n])
      /\ \A j \in 0..n - 1 : \A r \in 1..Len(s[j + 1]) : f[n][j * b + r] = s[j + 1][r]
  BY <1>4, <1>5
<1> QED
  BY ONLY <1>1, <1>5, <1>6, Zenon DEF IsBlocks

\* The quotient is monotonic.
LEMMA Quotients ==
    ASSUME NEW b \in Nat \ {0}, NEW q \in Nat, NEW r \in 0..b - 1,
           NEW p \in Nat, NEW t \in 0..b - 1, q * b + r <= p * b + t
    PROVE  q <= p
<1>1. SUFFICES ASSUME p < q
               PROVE  FALSE
  OBVIOUS
<1> DEFINE x == p * b
           y == q * b
<1>2. x + b <= y /\ x \in Nat /\ y \in Nat
  BY <1>1, RowEnd
<1>3. y + r <= x + t
  OBVIOUS
<1> HIDE DEF x, y
<1> QED
  BY <1>2, <1>3

\* The reference of a file's bytes and the way the driver finds a byte, through
\* the block numbers, agree.
LEMMA FileAt ==
    ASSUME NEW n \in DOMAIN inodes
    PROVE  FileBytes(n) = [i \in 1..inodes[n].length |-> ByteAt(inodes[n], i - 1)]
<1> DEFINE node == inodes[n]
           bn == node.data_block_num
           B == BLOCK_SIZE
           L == node.length
           N == 1 + (L \div B)
           V == {data_blocks[bn[j]][k] : j \in DOMAIN bn, k \in 0..B - 1}
           row(j) == [k \in 1..B |-> data_blocks[bn[j - 1]][k - 1]]
           s == [j \in 1..N |-> IF j - 1 \in DOMAIN bn THEN row(j) ELSE <<>>]
<1>1. B \in Nat \ {0} /\ L \in Nat /\ \A i \in 0..L - 1 : i \div B \in DOMAIN bn
  BY ImageAssumption
<1>2. FileBytes(n) = SubSeq(FlattenSeq(s), 1, L)
  BY DEF FileBytes
<1>3. ASSUME NEW j, j - 1 \in DOMAIN bn
      PROVE  /\ row(j) \in Seq(V) /\ Len(row(j)) = B
             /\ \A k \in 1..B : row(j)[k] = data_blocks[bn[j - 1]][k - 1]
  <2>1. \A k \in 1..B : k - 1 \in 0..B - 1
    BY <1>1
  <2>2. \A k \in 1..B : data_blocks[bn[j - 1]][k - 1] \in V
    BY <1>3, <2>1
  <2> HIDE DEF V
  <2> QED
    BY <1>1, <2>2
<1>4. PICK p \in Nat, t \in 0..B - 1 : L = p * B + t /\ L \div B = p
  BY <1>1, Division
<1> HIDE DEF row, V, B, bn, L
<1>5. N = p + 1 /\ N \in Nat \ {0} /\ N - 1 = p
  BY <1>4
<1>6. s \in [1..N -> Seq(V)]
  BY <1>3
<1> HIDE DEF N
<1>7. ASSUME NEW x \in 0..L - 1
      PROVE  \E q \in Nat, r \in 0..B - 1 :
                /\ x = q * B + r /\ x \div B = q /\ x % B = r
                /\ q \in 0..N - 1 /\ q \in DOMAIN bn /\ s[q + 1] = row(q + 1)
  <2>1. PICK q \in Nat, r \in 0..B - 1 : x = q * B + r /\ x \div B = q /\ x % B = r
    BY <1>1, Division
  <2>2. q <= p
    <3>1. q * B + r <= p * B + t
      BY <1>1, <1>4, <2>1
    <3> QED
      BY <1>1, <1>4, <3>1, Quotients
  <2>3. q \in DOMAIN bn
    BY <1>1, <2>1
  <2>4. q \in 0..N - 1 /\ q + 1 \in 1..N /\ (q + 1) - 1 = q
    BY <1>5, <2>2
  <2>5. s[q + 1] = row(q + 1)
    BY <2>3, <2>4
  <2> HIDE DEF s
  <2> QED
    BY <2>1, <2>3, <2>4, <2>5
<1>8. \A i \in 1..N - 1 : Len(s[i]) = B
  <2> SUFFICES ASSUME NEW i \in 1..N - 1
               PROVE  Len(s[i]) = B
    OBVIOUS
  <2> DEFINE j == i - 1
             x == j * B
             y == p * B
  <2>1. j \in Nat /\ j < p /\ i \in 1..N
    BY <1>5
  <2>2. x + B <= y /\ x \in Nat /\ y \in Nat
    BY <1>1, <1>4, <2>1, RowEnd
  <2>3. (j * B + 0) \div B = j
    BY <1>1, <2>1
  <2>4. x \div B = j
    BY <2>2, <2>3
  <2>5. x \in 0..L - 1
    <3> HIDE DEF x
    <3>1. L = y + t
      BY <1>4
    <3> HIDE DEF y
    <3> QED
      BY <1>1, <1>4, <2>2, <3>1
  <2>6. j \in DOMAIN bn
    <3> HIDE DEF x, j
    <3> QED
      BY <1>1, <2>4, <2>5
  <2>7. s[i] = row(i)
    BY <2>1, <2>6
  <2> QED
    BY <1>3, <2>6, <2>7
<1> DEFINE F == FlattenSeq(s)
<1> HIDE DEF s
<1>9. /\ F \in Seq(V)
      /\ Len(F) = (N - 1) * B + Len(s[N])
      /\ \A j \in 0..N - 1 : \A r \in 1..Len(s[j + 1]) : F[j * B + r] = s[j + 1][r]
  <2>1. F \in Seq(V) /\ IsBlocks(F, s, N, B)
    BY <1>1, <1>5, <1>6, <1>8, FlattenBlocks
  <2> QED
    BY <2>1 DEF IsBlocks
<1>10. ASSUME NEW i \in 1..L
       PROVE  F[i] = ByteAt(node, i - 1)
  <2> DEFINE x == i - 1
  <2>1. x \in 0..L - 1 /\ i = x + 1
    BY <1>1
  <2> HIDE DEF x
  <2>2. PICK q \in Nat, r \in 0..B - 1 :
                /\ x = q * B + r /\ x \div B = q /\ x % B = r
                /\ q \in 0..N - 1 /\ q \in DOMAIN bn /\ s[q + 1] = row(q + 1)
    BY <1>7, <2>1
  <2>3. (q + 1) - 1 = q /\ r + 1 \in 1..B /\ (r + 1) - 1 = r
    BY <1>1
  <2>4. /\ Len(row(q + 1)) = B
        /\ row(q + 1)[r + 1] = data_blocks[bn[q]][r]
    BY <1>3, <2>2, <2>3
  <2>5. F[q * B + (r + 1)] = s[q + 1][r + 1]
    BY <1>9, <2>2, <2>3, <2>4
  <2>6. q * B + (r + 1) = i
    BY <1>1, <2>1, <2>2
  <2>7. F[i] = data_blocks[bn[q]][r]
    BY <2>2, <2>4, <2>5, <2>6
  <2>8. ByteAt(node, x) = data_blocks[bn[q]][r]
    BY <2>2 DEF ByteAt, bn, B
  <2> QED
    BY <2>7, <2>8 DEF x
<1>11. Len(F) >= L /\ Len(F) \in Nat
  <2> DEFINE y == p * B
  <2>1. y \in Nat /\ L = y + t /\ Len(F) = y + Len(s[N]) /\ Len(s[N]) \in Nat
    BY <1>1, <1>4, <1>5, <1>6, <1>9
  <2>2. CASE t = 0
    <3> HIDE DEF y
    <3> QED
      BY <2>1, <2>2
  <2>3. CASE t > 0
    <3>1. y \in 0..L - 1
      <4> HIDE DEF y
      <4> QED
        BY <1>4, <2>1, <2>3
    <3>2. (p * B + 0) \div B = p
      BY <1>1
    <3>3. p \in DOMAIN bn
      BY <1>1, <2>1, <3>1, <3>2
    <3>4. s[N] = row(N)
      BY <1>5, <3>3 DEF s
    <3>5. Len(s[N]) = B
      BY <1>3, <1>5, <3>3, <3>4
    <3> HIDE DEF y
    <3> QED
      BY <1>1, <2>1, <3>5
  <2> QED
    BY <1>4, <2>2, <2>3
<1>12. SubSeq(F, 1, L) = [i \in 1..L |-> F[i]]
  <2> HIDE DEF F
  <2> QED
    BY <1>1, <1>9, <1>11
<1> QED
  BY <1>2, <1>10, <1>12 DEF L

\* The first pos bytes of a file, as file_read shows them.
LEMMA FileShown ==
    ASSUME NEW n \in DOMAIN inodes, NEW pos \in Nat, pos <= inodes[n].length
    PROVE  ShowAll(SubSeq(FileBytes(n), 1, pos))
              = [k \in 1..pos |-> Show(ByteAt(inodes[n], k - 1))]
<1> DEFINE L == inodes[n].length
           at(i) == ByteAt(inodes[n], i - 1)
           V == {at(i) : i \in 1..L}
           F == [i \in 1..L |-> at(i)]
<1>1. L \in Nat
  BY ImageAssumption
<1>2. FileBytes(n) = F
  BY FileAt
<1> HIDE DEF at, L
<1>3. F \in Seq(V) /\ Len(F) = L /\ \A i \in 1..L : F[i] = at(i)
  BY <1>1
<1> HIDE DEF F, V
<1>4. SubSeq(F, 1, pos) = [i \in 1..pos |-> F[i]]
  BY <1>1, <1>3 DEF L
<1>5. [i \in 1..pos |-> F[i]] = [i \in 1..pos |-> at(i)]
  BY <1>1, <1>3 DEF L
<1>6. ShowAll([i \in 1..pos |-> at(i)]) = [i \in 1..pos |-> Show(at(i))]
  BY DEF ShowAll
<1> QED
  BY <1>2, <1>4, <1>5, <1>6 DEF at

\* read_dentry_by_name returns the number of an entry, or 0.
LEMMA LookUp ==
    ASSUME NEW name, read_dentry_by_name(name) # 0
    PROVE  read_dentry_by_name(name) \in 1..num_dir_entries
<1> DEFINE I == {i \in 1..Len(dentries) :
                   Cut(name, FILE_NAME_LENGTH) = dentries[i].file_name}
<1>1. read_dentry_by_name(name) = IF I # {} THEN Min(I) ELSE 0
  BY DEF read_dentry_by_name, SelectInSeq
<1>2. I # {} /\ read_dentry_by_name(name) = Min(I)
  BY <1>1
<1>3. I \in SUBSET Nat /\ I \subseteq 1..num_dir_entries
  BY ImageAssumption DEF num_dir_entries
<1> HIDE DEF I
<1>4. \E m \in I : \A i \in I : m <= i
  BY <1>2, <1>3, LeastNatural
<1>5. Min(I) \in I
  BY <1>4 DEF Min
<1> QED
  BY <1>2, <1>3, <1>5
-----------------------------------------------------------------------------
\* The process that runs.
LEMMA Running ==
    ASSUME Typed
    PROVE  /\ Len(stack) \in 1..Len(stack) /\ Current = stack[Len(stack)]
           /\ Current \in Live /\ Current \in Pids /\ Live \subseteq Pids
  BY DEF Typed, Current, Live

\* create_pcb() gives a process standard input and output.
LEMMA NewTableTyped ==
    /\ NewTable \in [Fds -> Descriptors]
    /\ NewTable[0] = Entry(1, "stdin") /\ NewTable[1] = Entry(1, "stdout")
    /\ \A fd \in Fds : /\ NewTable[fd].flags = 1 <=> fd \in {0, 1}
                       /\ NewTable[fd].ops # "rtc"
<1>1. 0 \in Fds /\ 1 \in Fds /\ Fds \subseteq Nat
  BY FilesAssumption DEF Fds
<1>2. 0 \in Inodes
  BY DEF Inodes
<1>3. /\ Entry(1, "stdin") \in Descriptors /\ Entry(1, "stdout") \in Descriptors
      /\ Entry(0, "fail") \in Descriptors
  BY <1>2 DEF Entry, Descriptors
<1>4. /\ Entry(1, "stdin").flags = 1 /\ Entry(1, "stdin").ops = "stdin"
      /\ Entry(1, "stdout").flags = 1 /\ Entry(1, "stdout").ops = "stdout"
      /\ Entry(0, "fail").flags = 0 /\ Entry(0, "fail").ops = "fail"
  BY DEF Entry
<1>5. /\ NewTable = [fd \in Fds |-> NewTable[fd]]
      /\ \A fd \in Fds : NewTable[fd] = IF fd = 0 THEN Entry(1, "stdin")
                                       ELSE IF fd = 1 THEN Entry(1, "stdout")
                                       ELSE Entry(0, "fail")
  BY <1>1 DEF NewTable
<1> HIDE DEF NewTable, Entry, Descriptors
<1>6. NewTable \in [Fds -> Descriptors]
  BY <1>3, <1>5
<1> QED
  BY <1>1, <1>4, <1>5, <1>6

\* What Stream says of one descriptor: x is what its reads have returned.
Told(f, x) ==
    /\ f.ops = "file" =>
          /\ f.pos <= inodes[f.inode].length
          /\ x = ShowAll(SubSeq(FileBytes(f.inode), 1, f.pos))
    /\ f.ops = "dir" => x = [i \in 1..f.pos |-> dentries[i].file_name]

\* The rtc descriptors of live processes, and whether a descriptor is one.
Clocks ==
    {d \in Live \X Fds : IsOpen(d[1], d[2]) /\ files[d[1]][d[2]].ops = "rtc"}
OnClock(f) == IF f.flags = 1 /\ f.ops = "rtc" THEN 1 ELSE 0

\* A call of the process that runs that leaves e in descriptor fd.
Call(fd, e, x) ==
    /\ stack' = stack
    /\ fd \in Given /\ e \in Descriptors /\ x \in Seq(Returned)
    /\ files' = [files EXCEPT ![Current][fd] = e]
    /\ seen' = [seen EXCEPT ![Current][fd] = x]
    /\ opened' = [opened EXCEPT ![Current] = IF e.flags = 1 THEN @ \cup {fd} ELSE @ \ {fd}]
    /\ rtc_opens' = rtc_opens + OnClock(e) - OnClock(files[Current][fd])
    /\ e.flags = 1 => Told(e, x)

\* Before the first call.
LEMMA InitFiles == Init => FilesInv
<1> SUFFICES ASSUME Init
             PROVE  FilesInv
  OBVIOUS
<1>1. stack = <<0>> /\ Len(stack) = 1 /\ stack[1] = 0 /\ 0 \in Pids
  BY FilesAssumption DEF Init
<1>2. Live = {0}
  BY <1>1 DEF Live
<1>3. files[0] = NewTable /\ opened[0] = {}
  BY <1>1 DEF Init
<1>4. Typed
  <2>1. NothingSeen \in [Fds -> Seq(Returned)]
    BY DEF NothingSeen
  <2>2. stack \in Seq(Pids) /\ Len(stack) > 0
    BY <1>1
  <2>3. files \in [Pids -> [Fds -> Descriptors]]
    BY NewTableTyped DEF Init
  <2>4. opened \in [Pids -> SUBSET Given] /\ seen \in [Pids -> [Fds -> Seq(Returned)]]
    BY <2>1 DEF Init
  <2> QED
    BY <2>2, <2>3, <2>4 DEF Typed
<1>5. Lives
  BY <1>1 DEF Lives, Init
<1>6. OwnDescriptors
  <2>1. 0 \in Fds /\ 1 \in Fds
    BY FilesAssumption DEF Fds
  <2>2. {fd \in Fds : IsOpen(0, fd)} = {0, 1}
    BY <1>3, <2>1, NewTableTyped DEF IsOpen
  <2> QED
    BY <1>2, <1>3, <2>2, NewTableTyped DEF OwnDescriptors
<1>7. RtcBalance
  <2>1. \A d \in Live \X Fds : d[1] = 0 /\ d[2] \in Fds
    BY <1>2
  <2>2. Clocks = {}
    BY <1>3, <2>1, NewTableTyped DEF Clocks
  <2> QED
    BY <2>2, FS_EmptySet DEF Init, RtcBalance, Clocks
<1>8. Stream
  BY <1>2, <1>3 DEF Stream
<1> QED
  BY <1>4, <1>5, <1>6, <1>7, <1>8 DEF FilesInv

\* The rtc descriptors are finitely many.
LEMMA ClocksFinite ==
    ASSUME Typed
    PROVE  IsFiniteSet(Clocks)
<1>1. Len(stack) \in Nat /\ IsFiniteSet(1..Len(stack)) /\ IsFiniteSet(Fds)
  BY FS_Interval, FilesAssumption DEF Typed, Fds
<1> DEFINE img == {stack[i] : i \in 1..Len(stack)}
<1>2. IsFiniteSet(img)
  <2> DEFINE f == [i \in 1..Len(stack) |-> stack[i]]
  <2>1. f \in Surjection(1..Len(stack), img)
    BY DEF Surjection
  <2> HIDE DEF f, img
  <2> QED
    BY <1>1, <2>1, FS_Surjection
<1>3. IsFiniteSet(Live \X Fds)
  BY <1>1, <1>2, FS_Product DEF Live
<1> QED
  BY <1>3, FS_Subset DEF Clocks

\* What such a call leaves alone.
LEMMA CallFacts ==
    ASSUME Typed, NEW fd, NEW e, NEW x, Call(fd, e, x)
    PROVE  /\ Live' = Live /\ Current' = Current /\ fd \in Fds
           /\ files'[Current][fd] = e /\ seen'[Current][fd] = x
           /\ \A q \in Pids, g \in Fds : q # Current \/ g # fd =>
                 files'[q][g] = files[q][g] /\ seen'[q][g] = seen[q][g]
           /\ \A q \in Pids : q # Current => opened'[q] = opened[q]
           /\ e.flags = 1 => opened'[Current] = opened[Current] \cup {fd}
           /\ e.flags = 0 => opened'[Current] = opened[Current] \ {fd}
           /\ Typed'
<1>1. Live' = Live /\ Current' = Current /\ fd \in Fds
  BY FilesAssumption DEF Call, Live, Current, Given, Fds
<1>2. Current \in Pids
  BY Running
<1>3. /\ files \in [Pids -> [Fds -> Descriptors]] /\ opened \in [Pids -> SUBSET Given]
      /\ seen \in [Pids -> [Fds -> Seq(Returned)]]
      /\ files' = [files EXCEPT ![Current][fd] = e] /\ e \in Descriptors
      /\ seen' = [seen EXCEPT ![Current][fd] = x] /\ x \in Seq(Returned)
      /\ opened' = [opened EXCEPT ![Current] = IF e.flags = 1 THEN opened[Current] \cup {fd}
                                                 ELSE opened[Current] \ {fd}]
      /\ fd \in Given
  BY DEF Typed, Call
<1> HIDE DEF Descriptors
<1>4. /\ files' \in [Pids -> [Fds -> Descriptors]]
      /\ files'[Current][fd] = e
      /\ \A q \in Pids, g \in Fds : q # Current \/ g # fd => files'[q][g] = files[q][g]
  BY <1>1, <1>2, <1>3
<1>5. /\ seen' \in [Pids -> [Fds -> Seq(Returned)]]
      /\ seen'[Current][fd] = x
      /\ \A q \in Pids, g \in Fds : q # Current \/ g # fd => seen'[q][g] = seen[q][g]
  BY <1>1, <1>2, <1>3
<1>6. /\ opened' \in [Pids -> SUBSET Given]
      /\ \A q \in Pids : q # Current => opened'[q] = opened[q]
      /\ e.flags = 1 => opened'[Current] = opened[Current] \cup {fd}
      /\ e.flags = 0 => opened'[Current] = opened[Current] \ {fd}
  BY <1>2, <1>3
<1>7. Typed'
  BY <1>4, <1>5, <1>6 DEF Typed, Call
<1> QED
  BY <1>1, <1>4, <1>5, <1>6, <1>7

\* The balance of the clock after a call.
LEMMA CallBalance ==
    ASSUME Typed, RtcBalance, NEW fd, NEW e, NEW x, Call(fd, e, x)
    PROVE  RtcBalance'
<1> DEFINE d0 == <<Current, fd>>
           old == files[Current][fd]
<1>1. /\ Live' = Live /\ fd \in Fds /\ Current \in Live /\ Live \subseteq Pids
      /\ files'[Current][fd] = e
      /\ \A q \in Pids, g \in Fds : q # Current \/ g # fd => files'[q][g] = files[q][g]
  BY CallFacts, Running
<1>2. rtc_opens = Cardinality(Clocks) /\ IsFiniteSet(Clocks) /\ Cardinality(Clocks) \in Nat
  BY ClocksFinite, FS_CardinalityType DEF RtcBalance, Clocks
<1>3. rtc_opens' = rtc_opens + OnClock(e) - OnClock(old)
  BY DEF Call
<1>4. d0 \in Clocks <=> OnClock(old) = 1
  BY <1>1 DEF Clocks, OnClock, IsOpen
<1>5. OnClock(old) \in {0, 1} /\ OnClock(e) \in {0, 1}
  BY DEF OnClock
<1>6. d0 \in Clocks' <=> OnClock(e) = 1
  BY <1>1 DEF Clocks, OnClock, IsOpen
<1>7. ASSUME NEW d, d # d0
      PROVE  d \in Clocks' <=> d \in Clocks
  <2>1. ASSUME NEW q \in Live, NEW g \in Fds, d = <<q, g>>
        PROVE  files'[d[1]][d[2]] = files[d[1]][d[2]]
    BY <1>1, <1>7, <2>1
  <2>2. d \in Live \X Fds => files'[d[1]][d[2]] = files[d[1]][d[2]]
    BY <2>1
  <2>3. Fds' = Fds
    BY DEF Fds
  <2> QED
    BY <1>1, <2>2, <2>3 DEF Clocks, IsOpen
<1> HIDE DEF d0, old
<1>8. RtcBalance' <=> rtc_opens' = Cardinality(Clocks')
  BY DEF RtcBalance, Clocks
<1>9. CASE OnClock(e) = 1
  <2>1. Clocks' = Clocks \cup {d0}
    BY <1>6, <1>7, <1>9
  <2> QED
    BY <1>2, <1>3, <1>4, <1>5, <1>8, <1>9, <2>1, FS_AddElement
<1>10. CASE OnClock(e) = 0
  <2>1. Clocks' = Clocks \ {d0}
    BY <1>6, <1>7, <1>10
  <2> QED
    BY <1>2, <1>3, <1>4, <1>5, <1>8, <1>10, <2>1, FS_RemoveElement
<1> QED
  BY <1>5, <1>9, <1>10

\* A call keeps the invariant.
LEMMA CallKeeps ==
    ASSUME FilesInv, NEW fd, NEW e, NEW x, Call(fd, e, x)
    PROVE  FilesInv'
<1>0. Typed /\ Lives /\ OwnDescriptors /\ RtcBalance /\ Stream
  BY DEF FilesInv
<1>1. /\ Live' = Live /\ Current' = Current /\ fd \in Fds
      /\ files'[Current][fd] = e /\ seen'[Current][fd] = x
      /\ \A q \in Pids, g \in Fds : q # Current \/ g # fd =>
            files'[q][g] = files[q][g] /\ seen'[q][g] = seen[q][g]
      /\ \A q \in Pids : q # Current => opened'[q] = opened[q]
      /\ e.flags = 1 => opened'[Current] = opened[Current] \cup {fd}
      /\ e.flags = 0 => opened'[Current] = opened[Current] \ {fd}
      /\ Typed'
  BY <1>0, CallFacts
<1>2. Current \in Live /\ Current \in Pids /\ Live \subseteq Pids
  BY <1>0, Running
<1>3. /\ fd \in Given /\ e.flags \in {0, 1} /\ stack' = stack /\ fd \notin {0, 1}
      /\ 0 \in Fds /\ 1 \in Fds /\ Given \subseteq Fds
      /\ e.flags = 1 => Told(e, x)
  BY FilesAssumption DEF Call, Descriptors, Given, Fds
<1>4. Lives'
  BY <1>0, <1>1, <1>2, <1>3 DEF Lives
<1>5. OwnDescriptors'
  <2> SUFFICES ASSUME NEW p \in Live
               PROVE  /\ files'[p][0] = Entry(1, "stdin") /\ files'[p][1] = Entry(1, "stdout")
                      /\ \A g \in Fds : files'[p][g].flags = 1 <=> g \in {0, 1} \cup opened'[p]
                      /\ opened'[p] \subseteq Fds
    <3>1. Fds' = Fds /\ Entry(1, "stdin")' = Entry(1, "stdin")
          /\ Entry(1, "stdout")' = Entry(1, "stdout")
      BY DEF Fds, Entry
    <3> QED
      BY <1>1, <1>3, <3>1 DEF OwnDescriptors, IsOpen
  <2>1. /\ files[p][0] = Entry(1, "stdin") /\ files[p][1] = Entry(1, "stdout")
        /\ \A g \in Fds : files[p][g].flags = 1 <=> g \in {0, 1} \cup opened[p]
        /\ opened[p] \subseteq Fds /\ p \in Pids
    BY <1>0, <1>2, <1>3 DEF OwnDescriptors, IsOpen, Typed
  <2>2. /\ files'[p][0] = Entry(1, "stdin") /\ files'[p][1] = Entry(1, "stdout")
    BY <1>1, <1>2, <1>3, <2>1
  <2>3. CASE p # Current
    BY <1>1, <2>1, <2>2, <2>3
  <2>4. CASE p = Current
    <3>1. ASSUME NEW g \in Fds
          PROVE  files'[p][g].flags = 1 <=> g \in {0, 1} \cup opened'[p]
      <4>1. CASE g = fd
        BY <1>1, <1>3, <2>4, <4>1
      <4>2. CASE g # fd
        <5>1. files'[p][g] = files[p][g] /\ (g \in opened'[p] <=> g \in opened[p])
          BY <1>1, <1>3, <2>1, <2>4, <4>2
        <5> QED
          BY <2>1, <5>1
      <4> QED
        BY <4>1, <4>2
    <3>2. opened'[p] \subseteq Fds
      BY <1>1, <1>3, <2>1, <2>4
    <3> QED
      BY <2>2, <3>1, <3>2
  <2> QED
    BY <2>3, <2>4
<1>6. RtcBalance'
  BY <1>0, CallBalance
<1>7. Stream'
  <2> SUFFICES ASSUME NEW p \in Live, NEW g \in opened'[p]
               PROVE  Told(files'[p][g], seen'[p][g])
    BY <1>1 DEF Stream, Told
  <2>0. p \in Pids /\ opened[p] \subseteq Fds
    BY <1>0, <1>2, <1>3 DEF Typed
  <2>1. CASE p = Current /\ g = fd
    <3>1. e.flags = 1
      BY <1>1, <1>3, <2>1
    <3> QED
      BY <1>1, <1>3, <2>1, <3>1
  <2>2. CASE p # Current \/ g # fd
    <3>1. g \in opened[p]
      BY <1>1, <1>3, <2>0, <2>2
    <3>2. Told(files[p][g], seen[p][g])
      BY <1>0, <3>1 DEF Stream, Told
    <3> QED
      BY <1>1, <2>0, <2>2, <3>1, <3>2
  <2> QED
    BY <2>1, <2>2
<1> QED
  BY <1>1, <1>4, <1>5, <1>6, <1>7 DEF FilesInv
-----------------------------------------------------------------------------
\* A descriptor of the process that runs.
LEMMA Descriptor ==
    ASSUME FilesInv, NEW fd \in Fds
    PROVE  /\ files[Current][fd] \in Descriptors
           /\ IsOpen(Current, fd) <=> fd \in {0, 1} \cup opened[Current]
           /\ fd = 0 => files[Current][fd].ops = "stdin"
           /\ fd = 1 => files[Current][fd].ops = "stdout"
           /\ opened[Current] \subseteq Given
           /\ fd \in opened[Current] => Told(files[Current][fd], seen[Current][fd])
           /\ seen[Current][fd] \in Seq(Returned)
<1>1. Current \in Live /\ Current \in Pids
  BY Running DEF FilesInv
<1>2. /\ files[Current][fd] \in Descriptors /\ opened[Current] \subseteq Given
      /\ seen[Current][fd] \in Seq(Returned)
  BY <1>1 DEF FilesInv, Typed
<1>3. fd \in opened[Current] => Told(files[Current][fd], seen[Current][fd])
  BY <1>1 DEF FilesInv, Stream, Told
<1>4. IsOpen(Current, fd) <=> fd \in {0, 1} \cup opened[Current]
  BY <1>1 DEF FilesInv, OwnDescriptors
<1>5. /\ fd = 0 => files[Current][fd].ops = "stdin"
      /\ fd = 1 => files[Current][fd].ops = "stdout"
  BY <1>1 DEF FilesInv, OwnDescriptors, Entry
<1> QED
  BY <1>2, <1>3, <1>4, <1>5

\* A descriptor that is just opened has told nothing.
LEMMA NothingTold ==
    ASSUME NEW f \in Descriptors, f.pos = 0
    PROVE  Told(f, <<>>)
<1>1. ASSUME f.ops = "file"
      PROVE  f.pos <= inodes[f.inode].length
             /\ <<>> = ShowAll(SubSeq(FileBytes(f.inode), 1, f.pos))
  <2>1. f.inode \in DOMAIN inodes /\ f.pos \in Nat /\ f.pos <= inodes[f.inode].length
    BY <1>1, ImageAssumption DEF Descriptors
  <2>2. ShowAll(SubSeq(FileBytes(f.inode), 1, f.pos))
           = [k \in 1..f.pos |-> Show(ByteAt(inodes[f.inode], k - 1))]
    BY <2>1, FileShown
  <2> QED
    BY <2>1, <2>2
<1>2. <<>> = [i \in 1..f.pos |-> dentries[i].file_name]
  OBVIOUS
<1> QED
  BY <1>1, <1>2 DEF Told

\* open() of a name that is found.
LEMMA OpenCall ==
    ASSUME FilesInv, NEW name, Open(name)
    PROVE  \E fd, e, x : Call(fd, e, x)
<1> DEFINE k == read_dentry_by_name(name)
           d == dentries[k]
           p == Current
<1>1. PICK fd \in Fds :
          /\ FirstFree(p, fd)
          /\ IF d.file_type \in Types
             THEN /\ files' = [files EXCEPT ![p][fd] =
                                 [flags |-> 1, ops |-> d.file_type,
                                  inode |-> d.inode_num, pos |-> 0]]
                  /\ opened' = [opened EXCEPT ![p] = @ \cup {fd}]
                  /\ seen' = [seen EXCEPT ![p][fd] = <<>>]
                  /\ rtc_opens' = rtc_opens + (IF d.file_type = "rtc" THEN 1 ELSE 0)
             ELSE /\ files' = [files EXCEPT ![p][fd].pos = 0]
                  /\ UNCHANGED <<opened, seen, rtc_opens>>
  BY DEF Open
<1>2. stack' = stack /\ k # 0
  BY DEF Open
<1>3. k \in 1..num_dir_entries
  BY <1>2, LookUp
<1> DEFINE f == files[p][fd]
<1>4. /\ f \in Descriptors /\ fd \in Given /\ f.flags = 0 /\ fd \notin opened[p]
      /\ seen[p][fd] \in Seq(Returned) /\ p \in Pids
  BY <1>1, Descriptor, Running DEF FirstFree, IsOpen, Given, Descriptors, FilesInv
<1>5. OnClock(f) = 0 /\ rtc_opens \in Int
  <2>1. rtc_opens = Cardinality(Clocks) /\ Cardinality(Clocks) \in Nat
    BY ClocksFinite, FS_CardinalityType DEF FilesInv, RtcBalance, Clocks
  <2> QED
    BY <1>4, <2>1 DEF OnClock
<1>6. CASE d.file_type \in Types
  <2> DEFINE e == [flags |-> 1, ops |-> d.file_type, inode |-> d.inode_num, pos |-> 0]
  <2>1. e \in Descriptors /\ e.pos = 0 /\ e.flags = 1 /\ e.ops = d.file_type
    <3>1. d.inode_num \in Inodes /\ (d.file_type = "file" => d.inode_num \in DOMAIN inodes)
      BY <1>3, ImageAssumption DEF Inodes
    <3> HIDE DEF d
    <3> QED
      BY <1>6, <3>1 DEF Descriptors
  <2>2. /\ files' = [files EXCEPT ![p][fd] = e]
        /\ seen' = [seen EXCEPT ![p][fd] = <<>>]
        /\ opened' = [opened EXCEPT ![p] = @ \cup {fd}]
        /\ rtc_opens' = rtc_opens + (IF d.file_type = "rtc" THEN 1 ELSE 0)
    BY <1>1, <1>6
  <2>3. rtc_opens' = rtc_opens + OnClock(e) - OnClock(f)
    <3> HIDE DEF d
    <3> QED
      BY <1>5, <2>1, <2>2 DEF OnClock
  <2>4. Told(e, <<>>) /\ <<>> \in Seq(Returned)
    BY <2>1, NothingTold
  <2> HIDE DEF e
  <2>5. Call(fd, e, <<>>)
    BY <1>2, <1>4, <2>1, <2>2, <2>3, <2>4 DEF Call
  <2> QED
    BY <2>5
<1>7. CASE d.file_type \notin Types
  <2> DEFINE e == [f EXCEPT !.pos = 0]
             x == seen[p][fd]
  <2>1. e \in Descriptors /\ e.flags = 0
    BY <1>4 DEF Descriptors
  <2>2. files' = [files EXCEPT ![p][fd] = e] /\ UNCHANGED <<opened, seen, rtc_opens>>
    BY <1>1, <1>7
  <2>3. /\ opened \in [Pids -> SUBSET Given] /\ seen \in [Pids -> [Fds -> Seq(Returned)]]
    BY DEF FilesInv, Typed
  <2>4. seen' = [seen EXCEPT ![p][fd] = x]
    BY <1>4, <2>2, <2>3
  <2>5. opened' = [opened EXCEPT ![p] = IF e.flags = 1 THEN @ \cup {fd} ELSE @ \ {fd}]
    <3>1. opened' = [opened EXCEPT ![p] = @ \ {fd}] /\ e.flags # 1
      BY <1>4, <2>1, <2>2, <2>3
    <3> HIDE DEF e
    <3> QED
      BY <3>1
  <2>6. rtc_opens' = rtc_opens + OnClock(e) - OnClock(f)
    BY <1>5, <2>1, <2>2 DEF OnClock
  <2>7. x \in Seq(Returned) /\ e.flags # 1
    BY <1>4, <2>1
  <2> HIDE DEF e, x
  <2>8. Call(fd, e, x)
    BY <1>2, <1>4, <2>1, <2>2, <2>4, <2>5, <2>6, <2>7 DEF Call
  <2> QED
    BY <2>8
<1> QED
  BY <1>6, <1>7

\* close() of a descriptor whose table has a close operation.
LEMMA CloseCall ==
    ASSUME FilesInv, NEW fd \in Fds, Close(fd)
    PROVE  \E e, x : Call(fd, e, x)
<1> DEFINE p == Current
           f == files[p][fd]
           e == [f EXCEPT !.flags = 0]
<1>1. /\ f \in Descriptors /\ f.flags = 1 /\ f.ops \in Types
      /\ files' = [files EXCEPT ![p][fd].flags = 0] /\ stack' = stack
      /\ rtc_opens' = rtc_opens - (IF f.ops = "rtc" THEN 1 ELSE 0)
      /\ opened' = [opened EXCEPT ![p] = @ \ {fd}]
      /\ seen' = [seen EXCEPT ![p][fd] = <<>>]
  BY Descriptor DEF Close, IsOpen, Supported, Types
<1>2. fd \in Given
  <2>1. fd # 0 /\ fd # 1
    BY <1>1, Descriptor DEF Types
  <2> QED
    BY <2>1, FilesAssumption DEF Fds, Given
<1>3. e \in Descriptors /\ e.flags = 0
  BY <1>1 DEF Descriptors
<1>4. rtc_opens' = rtc_opens + OnClock(e) - OnClock(f)
  <2>1. rtc_opens = Cardinality(Clocks) /\ Cardinality(Clocks) \in Nat
    BY ClocksFinite, FS_CardinalityType DEF FilesInv, RtcBalance, Clocks
  <2> QED
    BY <1>1, <1>3, <2>1 DEF OnClock
<1>5. files' = [files EXCEPT ![p][fd] = e] /\ <<>> \in Seq(Returned) /\ e.flags # 1
  BY <1>1, <1>3
<1> HIDE DEF e
<1>7. opened' = [opened EXCEPT ![p] = IF e.flags = 1 THEN @ \cup {fd} ELSE @ \ {fd}]
  BY <1>1, <1>5
<1>6. Call(fd, e, <<>>)
  BY <1>1, <1>2, <1>3, <1>4, <1>5, <1>7 DEF Call
<1> QED
  BY <1>6

\* How much read_data copies, when it does not run off.
LEMMA ReadLength ==
    ASSUME NEW f \in Descriptors, f.ops = "file", NEW n \in Int, ~RunsOff(f, n),
           f.pos <= inodes[f.inode].length
    PROVE  /\ read_length(f.inode, f.pos, n) \in Nat
           /\ f.pos + read_length(f.inode, f.pos, n) <= inodes[f.inode].length
<1> DEFINE l == read_length(f.inode, f.pos, n)
           L == inodes[f.inode].length
           m == n % UINT
<1>1. f.inode \in DOMAIN inodes /\ L \in Nat /\ f.pos \in Nat /\ f.pos <= L
  BY ImageAssumption DEF Descriptors
<1>2. m \in Nat
  BY ImageAssumption
<1>3. l = IF (f.pos + m) % UINT > L THEN L - f.pos ELSE m
  BY DEF read_length
<1>4. ~(f.pos + l > L)
  BY DEF RunsOff
<1> HIDE DEF l, L, m
<1>5. l \in Nat
  BY <1>1, <1>2, <1>3
<1>6. f.pos + l <= L
  BY <1>1, <1>4, <1>5
<1> QED
  BY <1>5, <1>6 DEF l, L

\* One more read of a file: what it returns goes on where the last one stopped.
LEMMA MoreTold ==
    ASSUME NEW node \in DOMAIN inodes, NEW pos \in Nat, NEW l \in Nat,
           pos + l <= inodes[node].length
    PROVE  ShowAll(SubSeq(FileBytes(node), 1, pos))
              \o ShowAll([k \in 1..l |-> ByteAt(inodes[node], pos + k - 1)])
              = ShowAll(SubSeq(FileBytes(node), 1, pos + l))
<1> DEFINE at(i) == Show(ByteAt(inodes[node], i - 1))
           V == Visible \cup {" "}
           u == [k \in 1..pos |-> at(k)]
           w == [k \in 1..l |-> at(pos + k)]
           z == [k \in 1..(pos + l) |-> at(k)]
<1>1. inodes[node].length \in Nat /\ pos + l \in Nat /\ pos <= inodes[node].length
  BY ImageAssumption
<1>2. /\ ShowAll(SubSeq(FileBytes(node), 1, pos)) = u
      /\ ShowAll(SubSeq(FileBytes(node), 1, pos + l)) = z
  BY <1>1, FileShown
<1>3. ShowAll([k \in 1..l |-> ByteAt(inodes[node], pos + k - 1)]) = w
  BY DEF ShowAll
<1>4. \A i : at(i) \in V
  BY DEF Show
<1> HIDE DEF at, V
<1>5. u \in Seq(V) /\ w \in Seq(V) /\ z \in Seq(V) /\ Len(u) = pos /\ Len(w) = l
      /\ Len(z) = pos + l
  BY <1>4
<1>6. u \o w \in Seq(V) /\ Len(u \o w) = pos + l
  BY <1>5
<1>7. ASSUME NEW k \in 1..(pos + l)
      PROVE  (u \o w)[k] = z[k]
  <2>1. CASE k \in 1..pos
    BY <1>5, <2>1
  <2>2. CASE k - pos \in 1..l
    BY <1>5, <2>2
  <2> QED
    BY <2>1, <2>2
<1> HIDE DEF u, w, z
<1>8. u \o w = z
  BY <1>5, <1>6, <1>7, SMTT(20)
<1> QED
  BY <1>2, <1>3, <1>8

\* A read only moves the position, and adds what it returns.
LEMMA ReadMoves ==
    ASSUME FilesInv, NEW fd \in opened[Current], fd \in Fds, NEW i \in Nat, NEW x \in Seq(Returned),
           stack' = stack, UNCHANGED <<rtc_opens, opened>>,
           files' = [files EXCEPT ![Current][fd].pos = @ + i],
           seen' = [seen EXCEPT ![Current][fd] = x],
           Told([files[Current][fd] EXCEPT !.pos = @ + i], x)
    PROVE  \E e : Call(fd, e, x)
<1> DEFINE f == files[Current][fd]
           e == [f EXCEPT !.pos = @ + i]
<1>1. f \in Descriptors /\ f.flags = 1 /\ fd \in Given
  BY Descriptor DEF IsOpen
<1>2. e \in Descriptors /\ e.flags = 1 /\ e.ops = f.ops
  BY <1>1 DEF Descriptors
<1>3. files' = [files EXCEPT ![Current][fd] = e]
  OBVIOUS
<1>4. opened' = [opened EXCEPT ![Current] = @ \cup {fd}]
  BY Running DEF FilesInv, Typed
<1>5. rtc_opens' = rtc_opens + OnClock(e) - OnClock(f)
  <2>1. rtc_opens = Cardinality(Clocks) /\ Cardinality(Clocks) \in Nat
    BY ClocksFinite, FS_CardinalityType DEF FilesInv, RtcBalance, Clocks
  <2>2. OnClock(e) = OnClock(f) /\ OnClock(f) \in {0, 1}
    BY <1>1, <1>2 DEF OnClock
  <2> HIDE DEF e, f
  <2> QED
    BY <2>1, <2>2
<1>6. Told(e, x)
  OBVIOUS
<1> HIDE DEF e
<1>7. opened' = [opened EXCEPT ![Current] = IF e.flags = 1 THEN @ \cup {fd} ELSE @ \ {fd}]
  BY <1>2, <1>4
<1>8. Call(fd, e, x)
  BY <1>1, <1>2, <1>3, <1>5, <1>6, <1>7 DEF Call
<1> QED
  BY <1>8

\* file_read
LEMMA ReadFileCall ==
    ASSUME FilesInv, NEW fd \in Fds, NEW n \in Int, ReadFile(fd, n)
    PROVE  \E e, x : Call(fd, e, x)
<1> DEFINE f == files[Current][fd]
           l == read_length(f.inode, f.pos, n)
           bytes == ShowAll(read_data(f.inode, f.pos, n))
           x == seen[Current][fd] \o bytes
           e == [f EXCEPT !.pos = @ + l]
<1>1. /\ IsOpen(Current, fd) /\ f.ops = "file" /\ ~RunsOff(f, n)
      /\ stack' = stack /\ UNCHANGED <<rtc_opens, opened>>
      /\ files' = [files EXCEPT ![Current][fd].pos = @ + Len(bytes)]
      /\ seen' = [seen EXCEPT ![Current][fd] = @ \o bytes]
  BY DEF ReadFile
<1>2. /\ fd \in opened[Current] /\ f \in Descriptors /\ n \in Int
      /\ Told(f, seen[Current][fd]) /\ seen[Current][fd] \in Seq(Returned)
  BY <1>1, Descriptor, FilesAssumption
<1>3. /\ f.pos <= inodes[f.inode].length /\ f.inode \in DOMAIN inodes /\ f.pos \in Nat
      /\ seen[Current][fd] = ShowAll(SubSeq(FileBytes(f.inode), 1, f.pos))
  BY <1>1, <1>2 DEF Told, Descriptors
<1>4. l \in Nat /\ f.pos + l <= inodes[f.inode].length
  BY <1>1, <1>2, <1>3, ReadLength
<1>5. bytes = ShowAll([k \in 1..l |-> ByteAt(inodes[f.inode], f.pos + k - 1)])
  BY DEF read_data
<1> HIDE DEF l
<1>6. bytes \in Seq(Returned) /\ Len(bytes) = l
  <2> DEFINE at(k) == ByteAt(inodes[f.inode], f.pos + k - 1)
  <2>1. bytes = [k \in 1..l |-> Show(at(k))]
    BY <1>5 DEF ShowAll
  <2>2. \A k \in 1..l : Show(at(k)) \in Returned
    BY DEF Show, Returned
  <2> HIDE DEF at, bytes
  <2> QED
    BY <1>4, <2>1, <2>2
<1>7. x \in Seq(Returned)
  <2> HIDE DEF bytes
  <2> QED
    BY <1>2, <1>6
<1>8. x = ShowAll(SubSeq(FileBytes(f.inode), 1, f.pos + l))
  BY <1>3, <1>4, <1>5, MoreTold
<1> HIDE DEF bytes
<1>9. e.ops = "file" /\ e.pos = f.pos + l /\ e.inode = f.inode
  BY <1>1, <1>2 DEF Descriptors
<1>10. Told(e, x)
  <2> HIDE DEF e, x
  <2> QED
    BY <1>4, <1>8, <1>9 DEF Told
<1>11. /\ files' = [files EXCEPT ![Current][fd].pos = @ + l]
       /\ seen' = [seen EXCEPT ![Current][fd] = x]
  BY <1>1, <1>6
<1> HIDE DEF x
<1> QED
  BY <1>1, <1>2, <1>4, <1>7, <1>10, <1>11, ReadMoves

\* dir_read, before the end of the directory.
LEMMA ReadDirCall ==
    ASSUME FilesInv, NEW fd \in Fds, NEW n, ReadDir(fd, n),
           files[Current][fd].pos < num_dir_entries
    PROVE  \E e, x : Call(fd, e, x)
<1> DEFINE f == files[Current][fd]
           name == dentries[f.pos + 1].file_name
           x == Append(seen[Current][fd], name)
           e == [f EXCEPT !.pos = @ + 1]
<1>1. /\ IsOpen(Current, fd) /\ f.ops = "dir"
      /\ stack' = stack /\ UNCHANGED <<rtc_opens, opened>>
  BY DEF ReadDir
<1>2. /\ fd \in opened[Current] /\ f \in Descriptors /\ f.pos \in Nat
      /\ Told(f, seen[Current][fd]) /\ seen[Current][fd] \in Seq(Returned)
  BY <1>1, Descriptor DEF Descriptors
<1>3. /\ files' = [files EXCEPT ![Current][fd].pos = @ + 1]
      /\ seen' = [seen EXCEPT ![Current][fd] = x]
  <2>1. ~(f.pos >= num_dir_entries)
    BY <1>2, ImageAssumption
  <2> QED
    BY <2>1 DEF ReadDir
<1>4. seen[Current][fd] = [i \in 1..f.pos |-> dentries[i].file_name]
  BY <1>1, <1>2 DEF Told
<1>5. name \in Returned
  <2>1. f.pos + 1 \in 1..num_dir_entries
    BY <1>2, ImageAssumption, SMTT(30)
  <2> QED
    BY <2>1 DEF Returned
<1>6. x \in Seq(Returned)
  <2> HIDE DEF name
  <2> QED
    BY <1>2, <1>5
<1>7. x = [i \in 1..f.pos + 1 |-> dentries[i].file_name]
  BY <1>2, <1>4
<1>8. e.ops = "dir" /\ e.pos = f.pos + 1
  BY <1>1, <1>2 DEF Descriptors
<1>9. Told(e, x)
  <2> HIDE DEF e, x
  <2> QED
    BY <1>7, <1>8 DEF Told
<1> HIDE DEF x
<1> QED
  BY <1>1, <1>2, <1>3, <1>6, <1>9, ReadMoves
-----------------------------------------------------------------------------
\* A process q is given a new table: it is a table of the right kind, and what was
\* true of the other processes stays.
LEMMA GivenTable ==
    ASSUME Typed, NEW q \in Pids, files' = [files EXCEPT ![q] = NewTable]
    PROVE  /\ files' \in [Pids -> [Fds -> Descriptors]]
           /\ files'[q] = NewTable
           /\ \A p \in Pids : p # q => files'[p] = files[p]
<1>1. files \in [Pids -> [Fds -> Descriptors]] /\ NewTable \in [Fds -> Descriptors]
  BY NewTableTyped DEF Typed
<1> HIDE DEF NewTable, Descriptors
<1> QED
  BY <1>1

\* The process that is given a table has nothing open but what create_pcb() opens.
LEMMA FreshTable ==
    ASSUME NEW q, files'[q] = NewTable, opened'[q] = {}
    PROVE  /\ files'[q][0] = Entry(1, "stdin") /\ files'[q][1] = Entry(1, "stdout")
           /\ {fd \in Fds : files'[q][fd].flags = 1} = {0, 1} \cup opened'[q]
           /\ \A fd \in Fds : files'[q][fd].ops # "rtc"
<1>1. 0 \in Fds /\ 1 \in Fds
  BY FilesAssumption DEF Fds
<1> HIDE DEF NewTable, Entry
<1> QED
  BY <1>1, NewTableTyped

\* execute()
LEMMA ExecuteStep ==
    ASSUME FilesInv, NEW q \in Pids, Execute(q)
    PROVE  FilesInv'
<1>0. Typed /\ Lives /\ OwnDescriptors /\ RtcBalance /\ Stream
  BY DEF FilesInv
<1>1. /\ q \notin Live /\ stack' = Append(stack, q)
      /\ files' = [files EXCEPT ![q] = NewTable]
      /\ UNCHANGED <<rtc_opens, opened, seen>>
  BY DEF Execute, Live
<1>2. stack \in Seq(Pids) /\ Len(stack) \in Nat /\ Live \subseteq Pids
  BY <1>0, Running DEF Typed
<1>3. /\ Len(stack') = Len(stack) + 1 /\ stack' \in Seq(Pids)
      /\ stack'[Len(stack) + 1] = q
      /\ \A i \in 1..Len(stack) : stack'[i] = stack[i] /\ stack[i] # q
  BY <1>1, <1>2 DEF Live
<1>4. Live' = Live \cup {q}
  <2>1. \A i \in 1..Len(stack') : i \in 1..Len(stack) \/ i = Len(stack) + 1
    BY <1>2, <1>3
  <2>2. \A i \in 1..Len(stack) : i \in 1..Len(stack')
    BY <1>2, <1>3
  <2>3. Len(stack) + 1 \in 1..Len(stack')
    BY <1>2, <1>3
  <2> QED
    BY <1>3, <2>1, <2>2, <2>3 DEF Live
<1>5. /\ files' \in [Pids -> [Fds -> Descriptors]] /\ files'[q] = NewTable
      /\ \A p \in Pids : p # q => files'[p] = files[p]
  BY <1>0, <1>1, GivenTable
<1>6. opened'[q] = {}
  BY <1>0, <1>1 DEF Lives
<1>7. /\ files'[q][0] = Entry(1, "stdin") /\ files'[q][1] = Entry(1, "stdout")
      /\ {fd \in Fds : files'[q][fd].flags = 1} = {0, 1} \cup opened'[q]
      /\ \A fd \in Fds : files'[q][fd].ops # "rtc"
  BY <1>5, <1>6, FreshTable
<1>8. Typed'
  BY <1>0, <1>1, <1>2, <1>3, <1>5 DEF Typed
<1>9. Lives'
  <2>1. ASSUME NEW i \in 1..Len(stack'), NEW j \in 1..Len(stack'), stack'[i] = stack'[j]
        PROVE  i = j
    <3>1. /\ i \in 1..Len(stack) \/ i = Len(stack) + 1
          /\ j \in 1..Len(stack) \/ j = Len(stack) + 1
      BY <1>2, <1>3
    <3> QED
      BY <1>0, <1>3, <2>1, <3>1 DEF Lives
  <2>2. \A p \in Pids : p \notin Live' => opened'[p] = {}
    BY <1>0, <1>1, <1>4 DEF Lives
  <2> QED
    BY <2>1, <2>2 DEF Lives
<1>10. OwnDescriptors'
  <2>1. ASSUME NEW p \in Live
        PROVE  /\ files'[p][0] = Entry(1, "stdin") /\ files'[p][1] = Entry(1, "stdout")
               /\ {fd \in Fds : files'[p][fd].flags = 1} = {0, 1} \cup opened'[p]
    <3>1. files'[p] = files[p] /\ opened'[p] = opened[p]
      BY <1>1, <1>2, <1>5
    <3> QED
      BY <1>0, <3>1 DEF OwnDescriptors, IsOpen
  <2> QED
    BY <1>4, <1>7, <2>1 DEF OwnDescriptors, IsOpen, Fds, Entry
<1>11. RtcBalance'
  <2>1. ASSUME NEW d
        PROVE  d \in Clocks' <=> d \in Clocks
    <3>1. CASE d \in Live \X Fds
      <4>1. d[1] \in Live /\ d[1] # q /\ d[1] \in Pids
        BY <1>1, <1>2, <3>1
      <4>2. files'[d[1]] = files[d[1]]
        BY <1>5, <4>1
      <4> QED
        BY <1>4, <3>1, <4>2 DEF Clocks, IsOpen, Fds
    <3>2. CASE d \notin Live \X Fds
      <4>1. d \in Live' \X Fds => d[1] = q /\ d[2] \in Fds
        BY <1>4, <3>2
      <4> QED
        BY <1>7, <3>2, <4>1 DEF Clocks, IsOpen, Fds
    <3> QED
      BY <3>1, <3>2
  <2>2. Clocks' = Clocks
    BY <2>1
  <2> QED
    BY <1>0, <1>1, <2>2 DEF RtcBalance, Clocks
<1>12. Stream'
  <2> SUFFICES ASSUME NEW p \in Live', NEW g \in opened'[p]
               PROVE  Told(files'[p][g], seen'[p][g])
    BY DEF Stream, Told
  <2>1. p \in Live /\ files'[p] = files[p] /\ opened'[p] = opened[p] /\ seen'[p] = seen[p]
    BY <1>1, <1>2, <1>4, <1>5, <1>6
  <2> QED
    BY <1>0, <2>1 DEF Stream, Told
<1> QED
  BY <1>8, <1>9, <1>10, <1>11, <1>12 DEF FilesInv

\* The rtc descriptors of the process that halts are as many as halt() closes.
LEMMA HaltClocks ==
    ASSUME Typed, OwnDescriptors
    PROVE  /\ {d \in Clocks : d[1] = Current} = {Current} \X OpenRtcs(Current)
           /\ Cardinality(Clocks \ ({Current} \X OpenRtcs(Current)))
                 = Cardinality(Clocks) - Cardinality(OpenRtcs(Current))
           /\ Cardinality(Clocks) \in Nat /\ Cardinality(OpenRtcs(Current)) \in Nat
<1> DEFINE S == OpenRtcs(Current)
           P == {Current} \X S
<1>1. Current \in Live /\ Live \subseteq Pids
  BY Running
<1>2. ASSUME NEW fd \in Fds, IsOpen(Current, fd), files[Current][fd].ops = "rtc"
      PROVE  fd \in S
  <2>1. fd # 0 /\ fd # 1
    BY <1>1, <1>2 DEF OwnDescriptors, Entry
  <2>2. fd \in 2..MAX_FILES - 1
    BY <2>1, FilesAssumption DEF Fds
  <2> QED
    BY <1>2, <2>2 DEF OpenRtcs
<1>3. ASSUME NEW fd \in S
      PROVE  fd \in Fds /\ IsOpen(Current, fd) /\ files[Current][fd].ops = "rtc"
  BY FilesAssumption DEF OpenRtcs, Fds
<1> HIDE DEF S
<1>4. {d \in Clocks : d[1] = Current} = P
  <2>1. ASSUME NEW d \in Clocks, d[1] = Current
        PROVE  d \in P
    <3>1. d \in Live \X Fds /\ IsOpen(d[1], d[2]) /\ files[d[1]][d[2]].ops = "rtc"
      BY DEF Clocks
    <3>2. d = <<Current, d[2]>> /\ d[2] \in S
      BY <1>2, <2>1, <3>1
    <3> QED
      BY <3>2
  <2>2. ASSUME NEW d \in P
        PROVE  d \in Clocks /\ d[1] = Current
    <3>1. d[1] = Current /\ d[2] \in S /\ d = <<d[1], d[2]>>
      OBVIOUS
    <3>2. d \in Live \X Fds /\ IsOpen(d[1], d[2]) /\ files[d[1]][d[2]].ops = "rtc"
      BY <1>1, <1>3, <3>1
    <3> QED
      BY <3>1, <3>2 DEF Clocks
  <2> HIDE DEF P
  <2> QED
    BY <2>1, <2>2
<1>5. IsFiniteSet(S) /\ Cardinality(S) \in Nat
  <2>1. IsFiniteSet(Fds) /\ S \in SUBSET Fds
    BY <1>3, FS_Interval, FilesAssumption DEF Fds
  <2> QED
    BY <2>1, FS_Subset, FS_CardinalityType
<1>6. Cardinality(P) = Cardinality(S)
  <2>1. IsFiniteSet({Current}) /\ Cardinality({Current}) = 1
    BY FS_Singleton
  <2>2. Cardinality(P) = Cardinality({Current}) * Cardinality(S)
    BY <1>5, <2>1, FS_Product
  <2> HIDE DEF P
  <2> QED
    BY <1>5, <2>1, <2>2
<1>7. IsFiniteSet(Clocks) /\ Cardinality(Clocks) \in Nat
  BY ClocksFinite, FS_CardinalityType
<1>8. Cardinality(Clocks \ P) = Cardinality(Clocks) - Cardinality(P)
  <2>1. P \subseteq Clocks
    BY <1>4
  <2> HIDE DEF P
  <2>2. Clocks \cap P = P /\ IsFiniteSet(P)
    BY <1>7, <2>1, FS_Subset
  <2> QED
    BY <1>7, <2>2, FS_Difference
<1> QED
  BY <1>4, <1>5, <1>6, <1>7, <1>8 DEF S

\* What halt() leaves of the process.
LEMMA HaltCleans ==
    ASSUME Typed, opened' = [opened EXCEPT ![Current] = {}],
           seen' = [seen EXCEPT ![Current] = NothingSeen]
    PROVE  /\ opened' \in [Pids -> SUBSET Given] /\ seen' \in [Pids -> [Fds -> Seq(Returned)]]
           /\ opened'[Current] = {}
           /\ \A p \in Pids : p # Current => opened'[p] = opened[p] /\ seen'[p] = seen[p]
<1>1. NothingSeen \in [Fds -> Seq(Returned)] /\ Current \in Pids
  BY Running DEF NothingSeen
<1>2. opened \in [Pids -> SUBSET Given] /\ seen \in [Pids -> [Fds -> Seq(Returned)]]
  BY DEF Typed
<1> HIDE DEF NothingSeen
<1> QED
  BY <1>1, <1>2

\* halt() of a process that has a parent.
LEMMA HaltToParent ==
    ASSUME FilesInv, Halt, Len(stack) > 1
    PROVE  FilesInv'
<1>0. Typed /\ Lives /\ OwnDescriptors /\ RtcBalance /\ Stream
  BY DEF FilesInv
<1> DEFINE c == Current
           n == Len(stack)
<1>1. /\ stack' = SubSeq(stack, 1, n - 1) /\ files' = files
      /\ opened' = [opened EXCEPT ![c] = {}]
      /\ seen' = [seen EXCEPT ![c] = NothingSeen]
      /\ rtc_opens' = rtc_opens - Cardinality(OpenRtcs(c))
  BY DEF Halt, Front
<1>2. /\ stack \in Seq(Pids) /\ n \in Nat /\ n - 1 \in Nat /\ n - 1 > 0 /\ c = stack[n]
      /\ c \in Live /\ c \in Pids /\ Live \subseteq Pids
  BY <1>0, Running DEF Typed
<1>3. /\ stack' \in Seq(Pids) /\ Len(stack') = n - 1
      /\ \A i \in 1..n - 1 : stack'[i] = stack[i] /\ i \in 1..n /\ i # n
  BY <1>1, <1>2
<1>4. /\ opened' \in [Pids -> SUBSET Given] /\ seen' \in [Pids -> [Fds -> Seq(Returned)]]
      /\ opened'[c] = {}
      /\ \A p \in Pids : p # c => opened'[p] = opened[p] /\ seen'[p] = seen[p]
  BY <1>0, <1>1, HaltCleans
<1>5. Live' = Live \ {c}
  <2>1. \A i \in 1..n - 1 : stack[i] # c
    BY <1>0, <1>2, <1>3 DEF Lives
  <2>2. \A i \in 1..n : i \in 1..n - 1 \/ i = n
    BY <1>2
  <2> QED
    BY <1>2, <1>3, <2>1, <2>2 DEF Live
<1> HIDE DEF c, n
<1>6. Typed'
  BY <1>0, <1>1, <1>2, <1>3, <1>4 DEF Typed
<1>7. Lives'
  <2>1. \A i, j \in 1..Len(stack') : stack'[i] = stack'[j] => i = j
    BY <1>0, <1>3 DEF Lives, n
  <2>2. \A p \in Pids : p \notin Live' => opened'[p] = {}
    BY <1>0, <1>4, <1>5 DEF Lives
  <2> QED
    BY <2>1, <2>2 DEF Lives
<1>8. OwnDescriptors'
  <2>1. \A p \in Live' : p \in Live /\ opened'[p] = opened[p] /\ files'[p] = files[p]
    BY <1>1, <1>2, <1>4, <1>5
  <2> QED
    BY <1>0, <2>1 DEF OwnDescriptors, IsOpen, Fds, Entry
<1>9. RtcBalance'
  <2> DEFINE P == {c} \X OpenRtcs(c)
  <2>1. /\ {d \in Clocks : d[1] = c} = P
        /\ Cardinality(Clocks \ P) = Cardinality(Clocks) - Cardinality(OpenRtcs(c))
    BY <1>0, HaltClocks DEF c
  <2> HIDE DEF P
  <2>2. ASSUME NEW d
        PROVE  d \in Clocks' <=> d \in Clocks /\ d[1] # c
    <3>1. d \in Live' \X Fds <=> d \in Live \X Fds /\ d[1] # c
      BY <1>5
    <3> QED
      BY <1>1, <3>1 DEF Clocks, IsOpen, Fds
  <2>3. Clocks' = Clocks \ P
    BY <2>1, <2>2
  <2> QED
    BY <1>0, <1>1, <2>1, <2>3 DEF RtcBalance, Clocks
<1>10. Stream'
  <2>1. \A p \in Live' : p \in Live /\ opened'[p] = opened[p] /\ files'[p] = files[p]
                          /\ seen'[p] = seen[p]
    BY <1>1, <1>2, <1>4, <1>5
  <2> QED
    BY <1>0, <2>1 DEF Stream
<1> QED
  BY <1>6, <1>7, <1>8, <1>9, <1>10 DEF FilesInv

\* halt() of the last process of a terminal, which a new shell replaces.
LEMMA HaltToShell ==
    ASSUME FilesInv, Halt, ~(Len(stack) > 1)
    PROVE  FilesInv'
<1>0. Typed /\ Lives /\ OwnDescriptors /\ RtcBalance /\ Stream
  BY DEF FilesInv
<1> DEFINE c == Current
<1>1. PICK q \in Pids : /\ stack' = <<q>>
                       /\ files' = [files EXCEPT ![q] = NewTable]
                       /\ opened' = [opened EXCEPT ![c] = {}]
                       /\ seen' = [seen EXCEPT ![c] = NothingSeen]
                       /\ rtc_opens' = rtc_opens - Cardinality(OpenRtcs(c))
  BY DEF Halt
<1>2. c \in Live /\ c \in Pids /\ Live \subseteq Pids /\ Len(stack) = 1
  <2>1. Len(stack) \in Nat /\ Len(stack) > 0
    BY <1>0 DEF Typed
  <2>2. Len(stack) = 1
    <3> DEFINE n == Len(stack)
    <3>1. n \in Nat /\ n > 0 /\ ~(n > 1)
      BY <2>1
    <3> HIDE DEF n
    <3>2. n = 1
      BY ONLY <3>1
    <3> QED
      BY <3>2 DEF n
  <2> QED
    BY <1>0, <2>2, Running
<1>3. Live = {c} /\ Live' = {q} /\ stack' \in Seq(Pids) /\ Len(stack') = 1
  BY <1>0, <1>1, <1>2 DEF Live, Current, Typed
<1>4. /\ opened' \in [Pids -> SUBSET Given] /\ seen' \in [Pids -> [Fds -> Seq(Returned)]]
      /\ opened'[c] = {}
      /\ \A p \in Pids : p # c => opened'[p] = opened[p] /\ seen'[p] = seen[p]
  BY <1>0, <1>1, HaltCleans
<1>5. /\ files' \in [Pids -> [Fds -> Descriptors]] /\ files'[q] = NewTable
  BY <1>0, <1>1, GivenTable
<1>6. \A p \in Pids : opened'[p] = {}
  BY <1>0, <1>3, <1>4 DEF Lives
<1>7. /\ files'[q][0] = Entry(1, "stdin") /\ files'[q][1] = Entry(1, "stdout")
      /\ {fd \in Fds : files'[q][fd].flags = 1} = {0, 1} \cup opened'[q]
      /\ \A fd \in Fds : files'[q][fd].ops # "rtc"
  BY <1>5, <1>6, FreshTable
<1>8. Typed'
  BY <1>3, <1>4, <1>5 DEF Typed
<1>9. Lives'
  BY <1>3, <1>6 DEF Lives
<1>10. OwnDescriptors'
  BY <1>3, <1>7 DEF OwnDescriptors, IsOpen, Fds, Entry
<1>11. RtcBalance'
  <2> DEFINE P == {c} \X OpenRtcs(c)
  <2>1. /\ {d \in Clocks : d[1] = c} = P
        /\ Cardinality(Clocks \ P) = Cardinality(Clocks) - Cardinality(OpenRtcs(c))
    BY <1>0, HaltClocks
  <2> HIDE DEF P
  <2>2. Clocks' = {}
    <3>1. \A d \in Live' \X Fds : d[1] = q /\ d[2] \in Fds
      BY <1>3
    <3> QED
      BY <1>7, <3>1 DEF Clocks, Fds
  <2>3. Clocks \ P = {}
    <3>1. \A d \in Clocks : d[1] = c
      BY <1>3 DEF Clocks
    <3> QED
      BY <2>1, <3>1
  <2> QED
    BY <1>0, <1>1, <2>1, <2>2, <2>3 DEF RtcBalance, Clocks
<1>12. Stream'
  BY <1>3, <1>6 DEF Stream
<1> QED
  BY <1>8, <1>9, <1>10, <1>11, <1>12 DEF FilesInv

\* A call that fails, or finds the end of a directory, or uses the clock, changes
\* nothing of this.
LEMMA FilesIdle ==
    ASSUME FilesInv, UNCHANGED <<stack, files, rtc_opens, opened, seen>>
    PROVE  FilesInv'
<1>1. Live' = Live
  BY DEF Live
<1> QED
  <2>1. Typed'
    BY DEF FilesInv, Typed, Descriptors, Inodes
  <2>2. Lives'
    BY <1>1 DEF FilesInv, Lives
  <2>3. OwnDescriptors'
    BY <1>1 DEF FilesInv, OwnDescriptors, IsOpen
  <2>4. RtcBalance'
    BY <1>1 DEF FilesInv, RtcBalance, IsOpen
  <2>5. Stream'
    BY <1>1 DEF FilesInv, Stream
  <2> QED
    BY <2>1, <2>2, <2>3, <2>4, <2>5 DEF FilesInv

\* Every step keeps the invariant.
LEMMA NextFiles == FilesInv /\ [Next]_vars => FilesInv'
<1> SUFFICES ASSUME FilesInv, [Next]_vars
             PROVE  FilesInv'
  OBVIOUS
<1>1. ASSUME NEW name \in FileNames, Open(name)
      PROVE  FilesInv'
  BY <1>1, OpenCall, CallKeeps
<1>2. ASSUME NEW fd \in Fds, Close(fd)
      PROVE  FilesInv'
  BY <1>2, CloseCall, CallKeeps
<1>3. ASSUME NEW fd \in Fds, NEW n \in ReadSizes, ReadFile(fd, n)
      PROVE  FilesInv'
  BY <1>3, FilesAssumption, ReadFileCall, CallKeeps
<1>4. ASSUME NEW fd \in Fds, NEW n \in ReadSizes, ReadDir(fd, n)
      PROVE  FilesInv'
  <2>1. CASE files[Current][fd].pos < num_dir_entries
    BY <1>4, <2>1, ReadDirCall, CallKeeps
  <2>2. CASE files[Current][fd].pos >= num_dir_entries
    <3>1. UNCHANGED <<stack, files, rtc_opens, opened, seen>>
      BY <1>4, <2>2 DEF ReadDir
    <3> QED
      BY <3>1, FilesIdle
  <2>3. files[Current][fd].pos \in Nat /\ num_dir_entries \in Nat
    BY Descriptor, ImageAssumption DEF Descriptors
  <2> QED
    BY <2>1, <2>2, <2>3
<1>5. CASE Halt
  BY <1>5, HaltToParent, HaltToShell
<1>6. CASE UNCHANGED <<stack, files, rtc_opens, opened, seen>>
  BY <1>6, FilesIdle
<1>7. ASSUME NEW q \in Pids, Execute(q)
      PROVE  FilesInv'
  BY <1>7, ExecuteStep
<1> QED
  BY <1>1, <1>2, <1>3, <1>4, <1>5, <1>6, <1>7
     DEF Next, vars, ReadFaults, UseRtc, OpenFails, CallFails
-----------------------------------------------------------------------------
\* FilesInv is an invariant of the descriptors.
THEOREM Invariant == Spec => []FilesInv
  BY InitFiles, NextFiles, PTL DEF Spec

\* The types of the descriptors, the processes and rtc_opens follow from FilesInv.
LEMMA FilesTyped == FilesInv => TypeOK
<1> SUFFICES ASSUME FilesInv
             PROVE  TypeOK
  OBVIOUS
<1>1. rtc_opens \in Nat
  BY ClocksFinite, FS_CardinalityType DEF FilesInv, RtcBalance, Clocks
<1>2. Live \subseteq Pids
  BY Running DEF FilesInv
<1>3. \A p \in Pids : opened[p] \subseteq Fds
  BY FilesAssumption DEF FilesInv, Typed, Given, Fds
<1>4. \A p \in Pids, fd \in Fds : files[p][fd] \in Descriptors
  BY DEF FilesInv, Typed
<1> QED
  BY <1>1, <1>2, <1>3, <1>4 DEF TypeOK, Descriptors

\* Every variable holds a value of its kind; rtc_opens never goes below zero.
THEOREM TypeCorrect == Spec => []TypeOK
  BY FilesTyped, Invariant, PTL

\* A process has open standard input and output and exactly what it opened
\* itself, whatever its parent or the last user of its PCB had open.
THEOREM Ownership == Spec => []OwnDescriptors
<1>1. FilesInv => OwnDescriptors
  BY DEF FilesInv
<1> QED
  BY <1>1, Invariant, PTL

\* Every rtc_open of a process is undone by one rtc_close, by close or by halt.
THEOREM Balance == Spec => []RtcBalance
<1>1. FilesInv => RtcBalance
  BY DEF FilesInv
<1> QED
  BY <1>1, Invariant, PTL

\* What the reads of a descriptor return, put together, is the file up to the
\* position, whatever the size of the blocks and of the reads.
THEOREM Streams == Spec => []Stream
<1>1. FilesInv => Stream
  BY DEF FilesInv
<1> QED
  BY <1>1, Invariant, PTL
=============================================================================
