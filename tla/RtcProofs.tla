------------------------------ MODULE RtcProofs -----------------------------
(***************************************************************************)
(* What the clock driver guarantees for any number of terminals, clients,  *)
(* descriptors and frequencies.  The first part computes the rate loop of  *)
(* rtc_write; the second proves the invariants that hold whoever uses the  *)
(* clock; the third those of a program that has it for itself, for which   *)
(* the frequencies written must be ones the chip has a rate for.           *)
(***************************************************************************)
EXTENDS Rtc, Induction

\* Halvings is the function its recursive definition describes.
LEMMA HalvingsDef ==
    /\ Halvings \in [Nat -> Nat]
    /\ \A f \in Nat : Halvings[f] = IF f > 1 THEN 1 + Halvings[f \div 2] ELSE 0
<1> DEFINE pred == [f \in Nat |-> IF f > 1 THEN f \div 2 ELSE f]
           step == [f \in Nat |-> [v \in Nat |-> 1 + v]]
           base == [f \in Nat |-> 0]
<1>1. step \in [Nat -> [Nat -> Nat]] /\ base \in [Nat -> Nat]
  OBVIOUS
<1>2. PICK h \in [Nat -> Nat] : Computes(h, Nat, pred, step, base)
  <2> HIDE DEF pred, step, base
  <2> QED
    BY <1>1, RecursiveFunction
<1>3. \A f \in Nat : h[f] = IF f > 1 THEN 1 + h[f \div 2] ELSE 0
  <2> SUFFICES ASSUME NEW f \in Nat
               PROVE  h[f] = IF f > 1 THEN 1 + h[f \div 2] ELSE 0
    OBVIOUS
  <2>1. h[f] = IF pred[f] \in 0..(f - 1) THEN step[f][h[pred[f]]] ELSE base[f]
    <3> HIDE DEF pred, step, base
    <3> QED
      BY <1>2 DEF Computes
  <2>2. f > 1 => pred[f] = f \div 2 /\ f \div 2 \in 0..(f - 1)
    OBVIOUS
  <2>3. ~(f > 1) => pred[f] \notin 0..(f - 1)
    OBVIOUS
  <2>4. base[f] = 0 /\ \A v \in Nat : step[f][v] = 1 + v
    OBVIOUS
  <2> QED
    BY <2>1, <2>2, <2>3, <2>4
<1>4. h = [f \in Nat |-> IF f > 1 THEN 1 + h[f \div 2] ELSE 0]
  BY <1>3
<1>5. Halvings = [f \in Nat |-> IF f > 1 THEN 1 + Halvings[f \div 2] ELSE 0]
  BY <1>4 DEF Halvings
<1> HIDE DEF Halvings
<1>6. \A f \in Nat : Halvings[f] = IF f > 1 THEN 1 + Halvings[f \div 2] ELSE 0
  BY <1>5
<1>7. \A f \in Nat : Halvings[f] \in Nat
  <2> DEFINE D == {f \in Nat : Halvings[f] \notin Nat}
  <2>1. SUFFICES ASSUME D # {}
                 PROVE  FALSE
    OBVIOUS
  <2>2. PICK f \in D : \A k \in D : f <= k
    <3>1. D \in SUBSET Nat
      OBVIOUS
    <3> HIDE DEF D
    <3> QED
      BY <2>1, <3>1, LeastNatural
  <2>3. f > 1 => f \div 2 \in Nat /\ f \div 2 < f
    OBVIOUS
  <2> QED
    BY <2>2, <2>3, <1>6
<1> QED
  BY <1>5, <1>6, <1>7

\* The frequencies the driver can set: zero, and those from 2 Hz up to the last
\* that is rounded down to 8192 Hz, the fastest of the chip's frequencies.
Settable == {f \in Nat : f # 1 /\ f < 16384}

\* The frequencies of the rates from 15 down to 3.
Power == [k \in 1..13 |-> 2 ^ k]

\* These frequencies go from 2 Hz to 8192 Hz, each twice the one before.
LEMMA Powers ==
    /\ Power \in [1..13 -> Nat]
    /\ Power[1] = 2 /\ Power[13] = 8192
    /\ \A k \in 1..12 : Power[k + 1] = 2 * Power[k]
<1>1. Power[1] = 2
  <2>1. 2 ^ 1 = 2
    OBVIOUS
  <2> QED
    BY <2>1 DEF Power
<1>2. Power[2] = 4
  <2>1. 2 ^ 2 = 4
    OBVIOUS
  <2> QED
    BY <2>1 DEF Power
<1>3. Power[3] = 8
  <2>1. 2 ^ 3 = 8
    OBVIOUS
  <2> QED
    BY <2>1 DEF Power
<1>4. Power[4] = 16
  <2>1. 2 ^ 4 = 16
    OBVIOUS
  <2> QED
    BY <2>1 DEF Power
<1>5. Power[5] = 32
  <2>1. 2 ^ 5 = 32
    OBVIOUS
  <2> QED
    BY <2>1 DEF Power
<1>6. Power[6] = 64
  <2>1. 2 ^ 6 = 64
    OBVIOUS
  <2> QED
    BY <2>1 DEF Power
<1>7. Power[7] = 128
  <2>1. 2 ^ 7 = 128
    OBVIOUS
  <2> QED
    BY <2>1 DEF Power
<1>8. Power[8] = 256
  <2>1. 2 ^ 8 = 256
    OBVIOUS
  <2> QED
    BY <2>1 DEF Power
<1>9. Power[9] = 512
  <2>1. 2 ^ 9 = 512
    OBVIOUS
  <2> QED
    BY <2>1 DEF Power
<1>10. Power[10] = 1024
  <2>1. 2 ^ 10 = 1024
    OBVIOUS
  <2> QED
    BY <2>1 DEF Power
<1>11. Power[11] = 2048
  <2>1. 2 ^ 11 = 2048
    OBVIOUS
  <2> QED
    BY <2>1 DEF Power
<1>12. Power[12] = 4096
  <2>1. 2 ^ 12 = 4096
    OBVIOUS
  <2> QED
    BY <2>1 DEF Power
<1>13. Power[13] = 8192
  <2>1. 2 ^ 13 = 8192
    OBVIOUS
  <2> QED
    BY <2>1 DEF Power
<1>14. \A k \in 1..13 : Power[k] \in Nat
  BY ONLY <1>1, <1>2, <1>3, <1>4, <1>5, <1>6, <1>7, <1>8, <1>9, <1>10, <1>11, <1>12, <1>13
<1>15. Power \in [1..13 -> Nat]
  BY <1>14 DEF Power
<1>16. \A k \in 1..12 : Power[k + 1] = 2 * Power[k]
  BY ONLY <1>1, <1>2, <1>3, <1>4, <1>5, <1>6, <1>7, <1>8, <1>9, <1>10, <1>11, <1>12, <1>13
<1> QED
  BY <1>1, <1>13, <1>15, <1>16

\* A frequency between the k-th power of two and the next is halved k times by
\* rtc_write's loop.
LEMMA HalvingsOfPower ==
    ASSUME NEW k \in 1..13, NEW f \in Power[k]..(2 * Power[k] - 1)
    PROVE  Halvings[f] = k
<1> DEFINE S == {n \in Nat : n + 1 \in 1..13 =>
                    \A g \in Power[n + 1]..(2 * Power[n + 1] - 1) : Halvings[g] = n + 1}
<1>1. 0 \in S
  <2> SUFFICES ASSUME NEW g \in 2..3
               PROVE  Halvings[g] = 1
    BY Powers
  <2>1. g \in Nat /\ g > 1 /\ g \div 2 = 1
    OBVIOUS
  <2> QED
    BY <2>1, HalvingsDef
<1>2. ASSUME NEW n \in Nat, n \in S
      PROVE  n + 1 \in S
  <2> SUFFICES ASSUME n + 2 \in 1..13, NEW g \in Power[n + 2]..(2 * Power[n + 2] - 1)
               PROVE  Halvings[g] = n + 2
    BY (n + 1) + 1 = n + 2
  <2>1. n + 1 \in 1..12 /\ n + 1 \in 1..13
    OBVIOUS
  <2>2. Power[n + 1] \in Nat /\ Power[n + 2] = 2 * Power[n + 1]
    BY <2>1, Powers, (n + 1) + 1 = n + 2
  <2>3. g \in Nat /\ g \div 2 \in Power[n + 1]..(2 * Power[n + 1] - 1)
    BY <2>2
  <2>4. Halvings[g \div 2] = n + 1
    BY <2>1, <2>3, <1>2
  <2>5. g > 1
    BY <2>2, <2>3, <2>4, HalvingsDef
  <2> QED
    BY <2>3, <2>4, <2>5, HalvingsDef
<1>3. k - 1 \in S
  <2> HIDE DEF S
  <2> QED
    BY <1>1, <1>2, SetInduction
<1> QED
  BY <1>3, (k - 1) + 1 = k

\* r is the rate of f: the chip's frequency is f rounded down to a power of two.
RateSets(r, f) ==
    /\ r \in {0} \cup 3..15
    /\ r = 0 <=> f = 0
    /\ r # 0 => Power[16 - r] <= f /\ f < 2 * Power[16 - r]

\* rtc_write's loop finds the rate of the largest power of two that is not above
\* the frequency, and that rate has four bits.
LEMMA RateOfSettable ==
    ASSUME NEW f \in Settable
    PROVE  RateSets(RateOf(f), f)
<1>1. CASE f = 0
  BY <1>1, HalvingsDef DEF RateOf, RateSets
<1>2. CASE f \in Nat /\ 2 <= f /\ f < 16384
  <2> DEFINE S == {k \in 1..13 : f < 2 * Power[k]}
  <2>1. 13 \in S /\ S \in SUBSET Nat
    BY <1>2, Powers
  <2>2. PICK k \in S : \A n \in S : k <= n
    <3> HIDE DEF S
    <3> QED
      BY <2>1, LeastNatural
  <2>3. k \in 1..13 /\ Power[k] \in Nat /\ f < 2 * Power[k]
    BY <2>2, Powers
  <2>4. Power[k] <= f
    <3>1. CASE k = 1
      BY <3>1, <1>2, Powers
    <3>2. CASE k # 1
      <4>1. k - 1 \in 1..12 /\ k - 1 \notin S
        BY <3>2, <2>2, <2>3
      <4>2. Power[k] = 2 * Power[k - 1] /\ Power[k - 1] \in Nat
        BY <4>1, Powers, (k - 1) + 1 = k
      <4> QED
        BY <4>1, <4>2, <1>2
    <3> QED
      BY <3>1, <3>2
  <2>5. Halvings[f] = k
    BY <2>3, <2>4, <1>2, HalvingsOfPower
  <2>6. RateOf(f) = 16 - k
    BY <2>5, <1>2 DEF RateOf
  <2>7. 16 - RateOf(f) = k
    BY <2>3, <2>6
  <2> QED
    BY <2>3, <2>4, <2>6, <2>7, <1>2 DEF RateSets
<1> QED
  BY <1>1, <1>2 DEF Settable
-----------------------------------------------------------------------------
(***************************************************************************)
(* The inductive invariant.                                                *)
(***************************************************************************)
\* A process inside a call has the descriptor of that call open.
InCall == \A t \in Terminals : pc[t] # "run" => opens[t] > 0

\* A tick that a read may still consume came after every process's last open or
\* read: whoever forgets a tick clears int_occur for all.
Fresh ==
    /\ int_occur = 1 => \A t \in Terminals : ticked[t]
    /\ FreshTick

\* A close has masked the line in slave_mask, and in the PIC.
PastOutMask == {"select", "inprev", "reselect", "outrate"}
PastMask == PastOutMask \cup {"load", "outmask"}

\* t has a descriptor for which its own close has not yet masked the line.
Holds(t) == opens[t] > IF pc[t] \in PastMask THEN 1 ELSE 0

\* slave_mask masks the line unless somebody holds it; that is not so of the PIC,
\* whose mask may be what a close loaded before another one.
Held == (\A t \in Terminals : ~Holds(t)) => slave_mask = Masked

\* A program alone with the clock loads the mask it has just set, and keeps the
\* line masked to the end of rtc_close and as long as it has no descriptor.
AloneHeld ==
    \A t \in Terminals : clients = {t} =>
        /\ pc[t] \in PastMask \/ opens[t] = 0 => slave_mask = Masked
        /\ pc[t] = "outmask" => loaded[t] = Masked
        /\ pc[t] \in PastOutMask \/ opens[t] = 0 => pic_mask = Masked

\* Hence no handler selects register C between the steps of its rtc_close.
AloneClose ==
    \A t \in Terminals : clients = {t} =>
        /\ divider = "on" /\ prev[t] = "on"
        /\ pc[t] \in {"inprev", "outrate"} => index = "A"

\* The rate is that of the frequency a program alone asked for last.
AloneRate == Alone => RateSets(rate, freq)

IInv == TypeOK /\ InCall /\ Fresh /\ Held /\ AloneHeld
AloneInv == IInv /\ AloneClose /\ AloneRate
-----------------------------------------------------------------------------
\* What rtc_write leaves in the low bits of register A is a number of four bits.
LEMMA RateTyped ==
    ASSUME NEW f \in Nat
    PROVE  RateOf(f) % 16 \in 0..15
<1>1. RateOf(f) \in Int
  BY HalvingsDef DEF RateOf
<1> QED
  BY <1>1

\* The state rtc_init leaves satisfies the invariant ...
LEMMA InitInv == Init => IInv
<1> SUFFICES ASSUME Init
             PROVE  IInv
  OBVIOUS
<1>1. TypeOK
  <2>1. /\ periodic \in BOOLEAN /\ pending \in BOOLEAN
        /\ ticked \in [Terminals -> BOOLEAN] /\ closed \in [Terminals -> BOOLEAN]
    BY Zenon DEF Init
  <2>2. opens \in [Terminals -> 0..MAX_OPENS] /\ rate \in 0..15 /\ freq \in Nat
    BY RtcAssumption DEF Init
  <2>3. /\ clients \in ClientSets /\ front \in Terminals
        /\ pc = [t \in Terminals |-> "run"] /\ prev = [t \in Terminals |-> "on"]
        /\ loaded = [t \in Terminals |-> 1]
        /\ int_occur = 0 /\ slave_mask = 1 /\ pic_mask = 1 /\ index = "A" /\ divider = "on"
    BY DEF Init, Masked
  <2> QED
    BY <2>1, <2>2, <2>3 DEF TypeOK
<1>2. InCall /\ Fresh /\ Held /\ AloneHeld
  BY DEF Init, InCall, Fresh, FreshTick, Held, AloneHeld, PastMask, PastOutMask, Masked
<1> QED
  BY <1>1, <1>2 DEF IInv

\* ... and every step of the chip, the handler and the calls keeps it.
LEMMA NextInv == IInv /\ [Next]_vars => IInv'
<1> SUFFICES ASSUME IInv, [Next]_vars
             PROVE  IInv'
  OBVIOUS
<1>0. TypeOK /\ InCall /\ Fresh /\ Held /\ AloneHeld
  BY DEF IInv
<1> USE RtcAssumption DEF TypeOK, localVars, chipVars, Masked, Unmasked, Running, Goto, IsOpen, Alone
<1>a. CASE UNCHANGED vars
  BY <1>0, <1>a DEF vars, IInv, InCall, Fresh, FreshTick, Held, Holds, AloneHeld
<1>1. CASE Tick
  <2>1. TypeOK'
    BY <1>0, <1>1 DEF Tick
  <2>2. InCall'
    BY <1>0, <1>1 DEF Tick, InCall
  <2>3. Fresh'
    BY <1>0, <1>1 DEF Tick, Fresh, FreshTick
  <2>4. Held'
    BY <1>0, <1>1 DEF Tick, InCall, Held, Holds, PastMask, PastOutMask
  <2>5. AloneHeld'
    BY <1>0, <1>1 DEF Tick, InCall, AloneHeld, PastMask, PastOutMask
  <2> QED
    BY <2>1, <2>2, <2>3, <2>4, <2>5 DEF IInv
<1>2. CASE Handler
  <2>1. TypeOK'
    BY <1>0, <1>2 DEF Handler
  <2>2. InCall'
    BY <1>0, <1>2 DEF Handler, InCall
  <2>3. Fresh'
    BY <1>0, <1>2 DEF Handler, Fresh, FreshTick
  <2>4. Held'
    BY <1>0, <1>2 DEF Handler, InCall, Held, Holds, PastMask, PastOutMask
  <2>5. AloneHeld'
    BY <1>0, <1>2 DEF Handler, InCall, AloneHeld, PastMask, PastOutMask
  <2> QED
    BY <2>1, <2>2, <2>3, <2>4, <2>5 DEF IInv
<1>3. CASE Open
  <2>1. TypeOK'
    BY <1>0, <1>3 DEF Open, OpenLeaving
  <2>2. InCall'
    BY <1>0, <1>3 DEF Open, OpenLeaving, InCall
  <2>3. Fresh'
    BY <1>0, <1>3 DEF Open, OpenLeaving, Fresh, FreshTick
  <2>4. Held'
    BY <1>0, <1>3 DEF Open, OpenLeaving, InCall, Held, Holds, PastMask, PastOutMask
  <2>5. AloneHeld'
    BY <1>0, <1>3 DEF Open, OpenLeaving, InCall, AloneHeld, PastMask, PastOutMask
  <2> QED
    BY <2>1, <2>2, <2>3, <2>4, <2>5 DEF IInv
<1>4. ASSUME NEW f \in Freqs, Write(f)
      PROVE  IInv'
  <2>1. TypeOK'
    BY <1>0, <1>4, RateTyped DEF Write
  <2>2. InCall'
    BY <1>0, <1>4 DEF Write, InCall
  <2>3. Fresh'
    BY <1>0, <1>4 DEF Write, Fresh, FreshTick
  <2>4. Held'
    BY <1>0, <1>4 DEF Write, InCall, Held, Holds, PastMask, PastOutMask
  <2>5. AloneHeld'
    BY <1>0, <1>4 DEF Write, InCall, AloneHeld, PastMask, PastOutMask
  <2> QED
    BY <2>1, <2>2, <2>3, <2>4, <2>5 DEF IInv
<1>5. CASE Read
  <2>1. TypeOK'
    BY <1>0, <1>5 DEF Read
  <2>2. InCall'
    BY <1>0, <1>5 DEF Read, InCall
  <2>3. Fresh'
    BY <1>0, <1>5 DEF Read, Fresh, FreshTick
  <2>4. Held'
    BY <1>0, <1>5 DEF Read, InCall, Held, Holds, PastMask, PastOutMask
  <2>5. AloneHeld'
    BY <1>0, <1>5 DEF Read, InCall, AloneHeld, PastMask, PastOutMask
  <2> QED
    BY <2>1, <2>2, <2>3, <2>4, <2>5 DEF IInv
<1>6. CASE Close
  <2>1. TypeOK'
    BY <1>0, <1>6 DEF Close
  <2>2. InCall'
    BY <1>0, <1>6 DEF Close, InCall
  <2>3. Fresh'
    BY <1>0, <1>6 DEF Close, Fresh, FreshTick
  <2>4. Held'
    BY <1>0, <1>6 DEF Close, InCall, Held, Holds, PastMask, PastOutMask
  <2>5. AloneHeld'
    BY <1>0, <1>6 DEF Close, InCall, AloneHeld, PastMask, PastOutMask
  <2> QED
    BY <2>1, <2>2, <2>3, <2>4, <2>5 DEF IInv
<1>7. CASE SpinEnds
  <2>1. TypeOK'
    BY <1>0, <1>7 DEF SpinEnds
  <2>2. InCall'
    BY <1>0, <1>7 DEF SpinEnds, InCall
  <2>3. Fresh'
    BY <1>0, <1>7 DEF SpinEnds, Fresh, FreshTick
  <2>4. Held'
    BY <1>0, <1>7 DEF SpinEnds, InCall, Held, Holds, PastMask, PastOutMask
  <2>5. AloneHeld'
    BY <1>0, <1>7 DEF SpinEnds, InCall, AloneHeld, PastMask, PastOutMask
  <2> QED
    BY <2>1, <2>2, <2>3, <2>4, <2>5 DEF IInv
<1>8. CASE ClearOccur
  <2>1. TypeOK'
    BY <1>0, <1>8 DEF ClearOccur
  <2>2. InCall'
    BY <1>0, <1>8 DEF ClearOccur, InCall
  <2>3. Fresh'
    BY <1>0, <1>8 DEF ClearOccur, Fresh, FreshTick
  <2>4. Held'
    BY <1>0, <1>8 DEF ClearOccur, InCall, Held, Holds, PastMask, PastOutMask
  <2>5. AloneHeld'
    BY <1>0, <1>8 DEF ClearOccur, InCall, AloneHeld, PastMask, PastOutMask
  <2> QED
    BY <2>1, <2>2, <2>3, <2>4, <2>5 DEF IInv
<1>9. CASE CloseMask
  <2>1. TypeOK'
    BY <1>0, <1>9 DEF CloseMask
  <2>2. InCall'
    BY <1>0, <1>9 DEF CloseMask, InCall
  <2>3. Fresh'
    BY <1>0, <1>9 DEF CloseMask, Fresh, FreshTick
  <2>4. Held'
    BY <1>0, <1>9 DEF CloseMask, InCall, Held, Holds, PastMask, PastOutMask
  <2>5. AloneHeld'
    BY <1>0, <1>9 DEF CloseMask, InCall, AloneHeld, PastMask, PastOutMask
  <2> QED
    BY <2>1, <2>2, <2>3, <2>4, <2>5 DEF IInv
<1>10. CASE CloseOutMask
  <2>1. TypeOK'
    BY <1>0, <1>10 DEF CloseOutMask
  <2>2. InCall'
    BY <1>0, <1>10 DEF CloseOutMask, InCall
  <2>3. Fresh'
    BY <1>0, <1>10 DEF CloseOutMask, Fresh, FreshTick
  <2>4. Held'
    BY <1>0, <1>10 DEF CloseOutMask, InCall, Held, Holds, PastMask, PastOutMask
  <2>5. AloneHeld'
    BY <1>0, <1>10 DEF CloseOutMask, InCall, AloneHeld, PastMask, PastOutMask
  <2> QED
    BY <2>1, <2>2, <2>3, <2>4, <2>5 DEF IInv
<1>11. CASE CloseSelect
  <2>1. TypeOK'
    BY <1>0, <1>11 DEF CloseSelect, SelectA
  <2>2. InCall'
    BY <1>0, <1>11 DEF CloseSelect, SelectA, InCall
  <2>3. Fresh'
    BY <1>0, <1>11 DEF CloseSelect, SelectA, Fresh, FreshTick
  <2>4. Held'
    BY <1>0, <1>11 DEF CloseSelect, SelectA, InCall, Held, Holds, PastMask, PastOutMask
  <2>5. AloneHeld'
    BY <1>0, <1>11 DEF CloseSelect, SelectA, InCall, AloneHeld, PastMask, PastOutMask
  <2> QED
    BY <2>1, <2>2, <2>3, <2>4, <2>5 DEF IInv
<1>12. CASE CloseIn
  <2>1. TypeOK'
    BY <1>0, <1>12 DEF CloseIn
  <2>2. InCall'
    BY <1>0, <1>12 DEF CloseIn, InCall
  <2>3. Fresh'
    BY <1>0, <1>12 DEF CloseIn, Fresh, FreshTick
  <2>4. Held'
    BY <1>0, <1>12 DEF CloseIn, InCall, Held, Holds, PastMask, PastOutMask
  <2>5. AloneHeld'
    BY <1>0, <1>12 DEF CloseIn, InCall, AloneHeld, PastMask, PastOutMask
  <2> QED
    BY <2>1, <2>2, <2>3, <2>4, <2>5 DEF IInv
<1>13. CASE CloseOut
  <2>1. TypeOK'
    BY <1>0, <1>13 DEF CloseOut, InCall
  <2>2. InCall'
    BY <1>0, <1>13 DEF CloseOut, InCall
  <2>3. Fresh'
    BY <1>0, <1>13 DEF CloseOut, Fresh, FreshTick
  <2>4. Held'
    BY <1>0, <1>13 DEF CloseOut, InCall, Held, Holds, PastMask, PastOutMask
  <2>5. AloneHeld'
    BY <1>0, <1>13 DEF CloseOut, InCall, AloneHeld, PastMask, PastOutMask
  <2> QED
    BY <2>1, <2>2, <2>3, <2>4, <2>5 DEF IInv
<1>14. CASE Halt
  <2>1. TypeOK'
    BY <1>0, <1>14 DEF Halt
  <2>2. InCall'
    BY <1>0, <1>14 DEF Halt, InCall
  <2>3. Fresh'
    BY <1>0, <1>14 DEF Halt, Fresh, FreshTick
  <2>4. Held'
    BY <1>0, <1>14 DEF Halt, InCall, Held, Holds, PastMask, PastOutMask
  <2>5. AloneHeld'
    BY <1>0, <1>14 DEF Halt, InCall, AloneHeld, PastMask, PastOutMask
  <2> QED
    BY <2>1, <2>2, <2>3, <2>4, <2>5 DEF IInv
<1>15. ASSUME NEW t \in Terminals, Switch(t)
      PROVE  IInv'
  <2>1. TypeOK'
    BY <1>0, <1>15 DEF Switch
  <2>2. InCall'
    BY <1>0, <1>15 DEF Switch, InCall
  <2>3. Fresh'
    BY <1>0, <1>15 DEF Switch, Fresh, FreshTick
  <2>4. Held'
    BY <1>0, <1>15 DEF Switch, InCall, Held, Holds, PastMask, PastOutMask
  <2>5. AloneHeld'
    BY <1>0, <1>15 DEF Switch, InCall, AloneHeld, PastMask, PastOutMask
  <2> QED
    BY <2>1, <2>2, <2>3, <2>4, <2>5 DEF IInv
<1>16. CASE CloseLoad
  <2>1. TypeOK'
    BY <1>0, <1>16 DEF CloseLoad
  <2>2. InCall'
    BY <1>0, <1>16 DEF CloseLoad, InCall
  <2>3. Fresh'
    BY <1>0, <1>16 DEF CloseLoad, Fresh, FreshTick
  <2>4. Held'
    BY <1>0, <1>16 DEF CloseLoad, InCall, Held, Holds, PastMask, PastOutMask
  <2>5. AloneHeld'
    BY <1>0, <1>16 DEF CloseLoad, InCall, AloneHeld, PastMask, PastOutMask
  <2> QED
    BY <2>1, <2>2, <2>3, <2>4, <2>5 DEF IInv
<1> QED
  BY <1>a, <1>1, <1>2, <1>3, <1>4, <1>5, <1>6, <1>7, <1>8, <1>9, <1>10, <1>11, <1>12, <1>13,
     <1>14, <1>15, <1>16 DEF Next, WriteRefused, rtc_read, rtc_close
-----------------------------------------------------------------------------
\* The rates the driver and the chip start with are those of 1024 Hz, of 2 Hz and
\* of no ticks.
LEMMA FixedRates ==
    RateSets(6, 1024) /\ RateSets(15, 2) /\ RateSets(0, 0)
<1>1. 2 ^ 10 = 1024
  OBVIOUS
<1>2. Power[10] = 1024
  BY <1>1 DEF Power
<1> QED
  BY <1>2, Powers DEF RateSets

\* What holds of a program alone with the clock holds at first ...
LEMMA InitAlone == Init => AloneInv
<1> SUFFICES ASSUME Init
             PROVE  AloneInv
  OBVIOUS
<1>1. AloneClose
  BY DEF Init, AloneClose, PastMask, PastOutMask
<1>2. AloneRate
  BY FixedRates DEF Init, AloneRate
<1> QED
  BY <1>1, <1>2, InitInv DEF AloneInv

\* ... and after every step.
LEMMA NextAlone ==
    ASSUME Freqs \subseteq Settable
    PROVE  AloneInv /\ [Next]_vars => AloneInv'
<1> SUFFICES ASSUME AloneInv, [Next]_vars
             PROVE  AloneClose' /\ AloneRate'
  BY NextInv DEF AloneInv
<1>0. TypeOK /\ AloneHeld /\ AloneClose /\ AloneRate
  BY DEF AloneInv, IInv
<1>w. \A f \in Freqs : RateOf(f) \in 0..15 /\ RateSets(RateOf(f), f) /\ RateOf(f) % 16 = RateOf(f)
  BY RateOfSettable DEF RateSets
<1> USE RtcAssumption DEF TypeOK, localVars, chipVars, Masked, Unmasked, Running, Goto, IsOpen
<1>a. CASE UNCHANGED vars
  BY <1>0, <1>a DEF vars, AloneClose, AloneRate, Alone
<1>1. CASE Tick
  <2>1. AloneClose'
    BY <1>0, <1>1 DEF Tick, AloneClose, AloneHeld, PastMask, PastOutMask
  <2>2. AloneRate'
    BY <1>0, <1>1, FixedRates DEF Tick, AloneRate, Alone, AloneClose
  <2> QED
    BY <2>1, <2>2
<1>2. CASE Handler
  <2>1. AloneClose'
    BY <1>0, <1>2 DEF Handler, AloneClose, AloneHeld, PastMask, PastOutMask
  <2>2. AloneRate'
    BY <1>0, <1>2, FixedRates DEF Handler, AloneRate, Alone, AloneClose
  <2> QED
    BY <2>1, <2>2
<1>3. CASE Open
  <2>1. AloneClose'
    BY <1>0, <1>3 DEF Open, OpenLeaving, AloneClose, AloneHeld, PastMask, PastOutMask
  <2>2. AloneRate'
    BY <1>0, <1>3, FixedRates DEF Open, OpenLeaving, AloneRate, Alone, AloneClose
  <2> QED
    BY <2>1, <2>2
<1>4. ASSUME NEW f \in Freqs, Write(f)
      PROVE  AloneClose' /\ AloneRate'
  <2>1. AloneClose'
    BY <1>0, <1>4, <1>w DEF Write, AloneClose, AloneHeld, PastMask, PastOutMask
  <2>2. AloneRate'
    BY <1>0, <1>4, FixedRates, <1>w DEF Write, AloneRate, Alone, AloneClose
  <2> QED
    BY <2>1, <2>2
<1>5. CASE Read
  <2>1. AloneClose'
    BY <1>0, <1>5 DEF Read, AloneClose, AloneHeld, PastMask, PastOutMask
  <2>2. AloneRate'
    BY <1>0, <1>5, FixedRates DEF Read, AloneRate, Alone, AloneClose
  <2> QED
    BY <2>1, <2>2
<1>6. CASE Close
  <2>1. AloneClose'
    BY <1>0, <1>6 DEF Close, AloneClose, AloneHeld, PastMask, PastOutMask
  <2>2. AloneRate'
    BY <1>0, <1>6, FixedRates DEF Close, AloneRate, Alone, AloneClose
  <2> QED
    BY <2>1, <2>2
<1>7. CASE SpinEnds
  <2>1. AloneClose'
    BY <1>0, <1>7 DEF SpinEnds, AloneClose, AloneHeld, PastMask, PastOutMask
  <2>2. AloneRate'
    BY <1>0, <1>7, FixedRates DEF SpinEnds, AloneRate, Alone, AloneClose
  <2> QED
    BY <2>1, <2>2
<1>8. CASE ClearOccur
  <2>1. AloneClose'
    BY <1>0, <1>8 DEF ClearOccur, AloneClose, AloneHeld, PastMask, PastOutMask
  <2>2. AloneRate'
    BY <1>0, <1>8, FixedRates DEF ClearOccur, AloneRate, Alone, AloneClose
  <2> QED
    BY <2>1, <2>2
<1>9. CASE CloseMask
  <2>1. AloneClose'
    BY <1>0, <1>9 DEF CloseMask, AloneClose, AloneHeld, PastMask, PastOutMask
  <2>2. AloneRate'
    BY <1>0, <1>9, FixedRates DEF CloseMask, AloneRate, Alone, AloneClose
  <2> QED
    BY <2>1, <2>2
<1>10. CASE CloseOutMask
  <2>1. AloneClose'
    BY <1>0, <1>10 DEF CloseOutMask, AloneClose, AloneHeld, PastMask, PastOutMask
  <2>2. AloneRate'
    BY <1>0, <1>10, FixedRates DEF CloseOutMask, AloneRate, Alone, AloneClose
  <2> QED
    BY <2>1, <2>2
<1>11. CASE CloseSelect
  <2>1. AloneClose'
    BY <1>0, <1>11 DEF CloseSelect, SelectA, AloneClose, AloneHeld, PastMask, PastOutMask
  <2>2. AloneRate'
    BY <1>0, <1>11, FixedRates DEF CloseSelect, SelectA, AloneRate, Alone, AloneClose
  <2> QED
    BY <2>1, <2>2
<1>12. CASE CloseIn
  <2>1. AloneClose'
    BY <1>0, <1>12 DEF CloseIn, AloneClose, AloneHeld, PastMask, PastOutMask
  <2>2. AloneRate'
    BY <1>0, <1>12, FixedRates DEF CloseIn, AloneRate, Alone, AloneClose
  <2> QED
    BY <2>1, <2>2
<1>13. CASE CloseOut
  <2>1. AloneClose'
    BY <1>0, <1>13 DEF CloseOut, AloneClose, AloneHeld, PastMask, PastOutMask
  <2>2. AloneRate'
    BY <1>0, <1>13, FixedRates DEF CloseOut, AloneRate, Alone, AloneClose
  <2> QED
    BY <2>1, <2>2
<1>14. CASE Halt
  <2>1. AloneClose'
    BY <1>0, <1>14 DEF Halt, AloneClose, AloneHeld, PastMask, PastOutMask
  <2>2. AloneRate'
    BY <1>0, <1>14, FixedRates DEF Halt, AloneRate, Alone, AloneClose
  <2> QED
    BY <2>1, <2>2
<1>15. ASSUME NEW t \in Terminals, Switch(t)
      PROVE  AloneClose' /\ AloneRate'
  <2>1. AloneClose'
    BY <1>0, <1>15 DEF Switch, AloneClose, AloneHeld, PastMask, PastOutMask
  <2>2. AloneRate'
    BY <1>0, <1>15, FixedRates DEF Switch, AloneRate, Alone, AloneClose
  <2> QED
    BY <2>1, <2>2
<1>16. CASE CloseLoad
  <2>1. AloneClose'
    BY <1>0, <1>16 DEF CloseLoad, AloneClose, AloneHeld, PastMask, PastOutMask
  <2>2. AloneRate'
    BY <1>0, <1>16, FixedRates DEF CloseLoad, AloneRate, Alone, AloneClose
  <2> QED
    BY <2>1, <2>2
<1> QED
  BY <1>a, <1>1, <1>2, <1>3, <1>4, <1>5, <1>6, <1>7, <1>8, <1>9, <1>10, <1>11, <1>12, <1>13,
     <1>14, <1>15, <1>16 DEF Next, WriteRefused, rtc_read, rtc_close
-----------------------------------------------------------------------------
\* IInv is an invariant of the driver.
LEMMA Inductive == Spec => []IInv
  BY InitInv, NextInv, PTL DEF Spec

\* AloneInv is too, when programs write frequencies a rate can express.
LEMMA InductiveAlone ==
    ASSUME Freqs \subseteq Settable
    PROVE  Spec => []AloneInv
<1>1. AloneInv /\ [Next]_vars => AloneInv'
  BY NextAlone
<1> QED
  BY <1>1, InitAlone, PTL DEF Spec

\* Every variable of the driver, the PIC and the chip always holds a value of its
\* kind; the rate rtc_write computes never leaves its four bits.
THEOREM TypeCorrect == Spec => []TypeOK
<1>1. IInv => TypeOK
  BY DEF IInv
<1> QED
  BY <1>1, Inductive, PTL

\* rtc_read never returns for a tick that came before the descriptor was opened or
\* that an earlier read of the same process returned for.
THEOREM FreshReads == Spec => []FreshTick
<1>1. IInv => FreshTick
  BY DEF IInv, Fresh
<1> QED
  BY <1>1, Inductive, PTL

\* When the last descriptor is closed IRQ 8 is masked in slave_mask, however the
\* closes of several processes mix with the opens of others, and in the PIC when a
\* program was alone with the clock.
THEOREM Quiet == Spec => []MaskedWhenClosed
<1>1. IInv => MaskedWhenClosed
  <2> SUFFICES ASSUME IInv, \A t \in Terminals : opens[t] = 0
               PROVE  slave_mask = Masked /\ (Alone => pic_mask = Masked)
    BY DEF MaskedWhenClosed, AllClosed
  <2>1. \A t \in Terminals : ~Holds(t)
    <3> SUFFICES ASSUME NEW t \in Terminals
                 PROVE  ~Holds(t)
      OBVIOUS
    <3>1. opens[t] = 0 /\ ~(0 > 0) /\ ~(0 > 1)
      OBVIOUS
    <3> QED
      BY <3>1, Zenon DEF Holds
  <2>2. slave_mask = Masked
    BY <2>1 DEF IInv, Held
  <2>3. Alone => pic_mask = Masked
    BY DEF IInv, AloneHeld, Alone
  <2> QED
    BY <2>2, <2>3
<1> QED
  BY <1>1, Inductive, PTL

\* rtc_close's read and write of register A never lose the divider of a program
\* that is alone with the clock.
THEOREM DividerAlone ==
    ASSUME Freqs \subseteq Settable
    PROVE  Spec => []AloneDividerKept
<1>1. AloneInv => AloneDividerKept
  BY DEF AloneInv, AloneClose, AloneDividerKept, DividerKept, Alone
<1> QED
  BY <1>1, InductiveAlone, PTL

\* The chip ticks at the frequency a program alone with the clock wrote last,
\* rounded down to a power of two, and not at all after its close.
THEOREM Frequency ==
    ASSUME Freqs \subseteq Settable
    PROVE  Spec => []FrequencySet
<1>1. AloneInv => FrequencySet
  <2> SUFFICES ASSUME AloneInv, Alone
               PROVE  IF freq = 0 THEN HardwareFreq = 0
                      ELSE HardwareFreq <= freq /\ freq < 2 * HardwareFreq
    BY DEF FrequencySet
  <2>1. RateSets(rate, freq)
    BY DEF AloneInv, AloneRate
  <2>2. CASE rate = 0
    BY <2>1, <2>2 DEF RateSets, HardwareFreq
  <2>3. CASE rate # 0
    <3>1. 16 - rate \in 1..13 /\ rate # 1 /\ rate # 2 /\ freq # 0
      BY <2>1, <2>3 DEF RateSets
    <3>2. HardwareFreq = Power[16 - rate]
      BY <3>1, <2>3 DEF HardwareFreq, Power
    <3> QED
      BY <3>1, <3>2, <2>1, <2>3 DEF RateSets
  <2> QED
    BY <2>2, <2>3
<1> QED
  BY <1>1, InductiveAlone, PTL
=============================================================================
