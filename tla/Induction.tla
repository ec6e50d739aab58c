------------------------------ MODULE Induction -----------------------------
(***************************************************************************)
(* Induction over the naturals and recursive functions, stated with sets   *)
(* and functions in the place of predicates and operators: these instances *)
(* are the ones first-order provers find.  The proof modules use them for  *)
(* what the recursive definitions of the model compute.                    *)
(***************************************************************************)
EXTENDS Integers, WellFoundedInduction, TLAPS

\* A nonempty set of naturals has a least element.
LEMMA LeastNatural ==
    ASSUME NEW S \in SUBSET Nat, S # {}
    PROVE  \E m \in S : \A n \in S : m <= n
<1> DEFINE R == {p \in Nat \X Nat : p[1] < p[2]}
<1>1. IsWellFoundedOn(R, Nat)
  BY NatLessThanWellFounded DEF OpToRel
<1> HIDE DEF R
<1>2. PICK m \in S : \A n \in S : <<n, m>> \notin R
  BY <1>1, WFMin
<1>3. \A n \in S : ~(n < m)
  BY <1>2 DEF R
<1> QED
  BY <1>3

\* A set that holds zero and is closed under successor holds every natural.
LEMMA SetInduction ==
    ASSUME NEW S, 0 \in S, \A n \in Nat : n \in S => n + 1 \in S
    PROVE  Nat \subseteq S
<1>1. SUFFICES ASSUME Nat \ S # {}
               PROVE  FALSE
  OBVIOUS
<1>2. PICK m \in Nat \ S : \A n \in Nat \ S : m <= n
  BY <1>1, LeastNatural
<1>3. m - 1 \in Nat /\ m - 1 \in S
  BY <1>2
<1> QED
  BY <1>3, (m - 1) + 1 = m

\* h is computed on D by recursion: from its own value at pred[n] where that is
\* a smaller number, and by base[n] elsewhere.
Computes(h, D, pred, step, base) ==
    \A n \in D : h[n] = IF pred[n] \in 0..(n - 1) THEN step[n][h[pred[n]]] ELSE base[n]

\* Such a function exists: a recursive definition of that form defines what its
\* equation says, with values of the kind its step returns.
LEMMA RecursiveFunction ==
    ASSUME NEW V, NEW pred, NEW step \in [Nat -> [V -> V]], NEW base \in [Nat -> V]
    PROVE  \E h \in [Nat -> V] : Computes(h, Nat, pred, step, base)
<1> DEFINE Approximates(g, n) == Computes(g, 0..n, pred, step, base)
           Upto(n) == {g \in [0..n -> V] : Approximates(g, n)}
           S == {n \in Nat : Upto(n) # {}}
<1>1. Upto(0) # {}
  <2>1. [i \in 0..0 |-> base[i]] \in Upto(0)
    BY DEF Computes
  <2> QED
    BY <2>1
<1>2. ASSUME NEW n \in Nat, Upto(n) # {}
      PROVE  Upto(n + 1) # {}
  <2>1. PICK g \in [0..n -> V] : Approximates(g, n)
    BY <1>2
  <2> DEFINE last == IF pred[n + 1] \in 0..n THEN step[n + 1][g[pred[n + 1]]] ELSE base[n + 1]
             h == [i \in 0..(n + 1) |-> IF i = n + 1 THEN last ELSE g[i]]
  <2>2. last \in V
    OBVIOUS
  <2>3. h \in [0..(n + 1) -> V]
    BY <2>2
  <2>4. ASSUME NEW i \in 0..(n + 1)
        PROVE  h[i] = IF pred[i] \in 0..(i - 1) THEN step[i][h[pred[i]]] ELSE base[i]
    <3>1. CASE i = n + 1
      BY <3>1
    <3>2. CASE i \in 0..n
      BY <3>2, <2>1 DEF Computes
    <3> QED
      BY <3>1, <3>2
  <2>5. h \in Upto(n + 1)
    BY <2>3, <2>4 DEF Computes
  <2> QED
    BY <2>5
<1>3. \A n \in Nat : Upto(n) # {}
  <2>1. 0 \in S /\ \A n \in Nat : n \in S => n + 1 \in S
    BY <1>1, <1>2
  <2>2. Nat \subseteq S
    <3> HIDE DEF S
    <3> QED
      BY <2>1, SetInduction
  <2> QED
    BY <2>2
<1>4. ASSUME NEW m \in Nat, NEW n \in Nat, m <= n,
             NEW g \in [0..m -> V], NEW h \in [0..n -> V],
             Approximates(g, m), Approximates(h, n)
      PROVE  \A j \in 0..m : g[j] = h[j]
  <2> DEFINE D == {i \in 0..m : g[i] # h[i]}
  <2>1. SUFFICES ASSUME D # {}
                 PROVE  FALSE
    OBVIOUS
  <2>2. D \in SUBSET Nat
    OBVIOUS
  <2>3. PICK i \in D : \A k \in D : i <= k
    <3> HIDE DEF D
    <3> QED
      BY <2>1, <2>2, LeastNatural
  <2>4. i \in 0..m /\ i \in 0..n /\ g[i] # h[i]
    BY <2>3, <1>4
  <2>5. \A k \in 0..(i - 1) : g[k] = h[k]
    BY <2>3, <2>4
  <2>6. /\ g[i] = IF pred[i] \in 0..(i - 1) THEN step[i][g[pred[i]]] ELSE base[i]
        /\ h[i] = IF pred[i] \in 0..(i - 1) THEN step[i][h[pred[i]]] ELSE base[i]
    BY <2>4, <1>4 DEF Computes
  <2> QED
    BY <2>4, <2>5, <2>6
<1> DEFINE F(n) == CHOOSE g \in [0..n -> V] : Approximates(g, n)
           H == [n \in Nat |-> F(n)[n]]
<1>5. \A n \in Nat : F(n) \in [0..n -> V] /\ Approximates(F(n), n)
  BY <1>3
<1>6. ASSUME NEW n \in Nat
      PROVE  \A i \in 0..n : F(n)[i] = F(i)[i]
  <2> HIDE DEF F, Approximates
  <2> SUFFICES ASSUME NEW i \in 0..n
               PROVE  F(n)[i] = F(i)[i]
    OBVIOUS
  <2>1. i \in Nat /\ i <= n /\ i \in 0..i
    OBVIOUS
  <2>2. /\ F(i) \in [0..i -> V] /\ Approximates(F(i), i)
        /\ F(n) \in [0..n -> V] /\ Approximates(F(n), n)
    BY <2>1, <1>5
  <2>3. \A j \in 0..i : F(i)[j] = F(n)[j]
    BY <2>1, <2>2, <1>4
  <2> QED
    BY <2>1, <2>3
<1> HIDE DEF F
<1>7. H \in [Nat -> V]
  BY <1>5
<1>8. Computes(H, Nat, pred, step, base)
  <2> SUFFICES ASSUME NEW n \in Nat
               PROVE  H[n] = IF pred[n] \in 0..(n - 1) THEN step[n][H[pred[n]]] ELSE base[n]
    BY DEF Computes
  <2>1. F(n)[n] = IF pred[n] \in 0..(n - 1) THEN step[n][F(n)[pred[n]]] ELSE base[n]
    BY <1>5 DEF Computes
  <2>2. pred[n] \in 0..(n - 1) => F(n)[pred[n]] = H[pred[n]]
    BY <1>6
  <2> QED
    BY <2>1, <2>2
<1> QED
  BY <1>7, <1>8
=============================================================================
