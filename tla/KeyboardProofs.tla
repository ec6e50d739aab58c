--------------------------- MODULE KeyboardProofs ---------------------------
(***************************************************************************)
(* The line editor and terminal_read(), for every number of terminals,     *)
(* every size of the buffer and every user.                                *)
(*                                                                         *)
(* Typed is the type invariant in the shape the provers want.  Above it    *)
(* stand four invariants: KeysInBounds and NoCrossTalk, inductive as they  *)
(* are; LinesInv, what a terminal's read, lines, buffer, position and      *)
(* pending Enter have to do with each other at every step of               *)
(* terminal_read(), for a careful user; and CursorInv, the same for the    *)
(* cursor of a user at the prompt.  LinesInv and CursorInv are stated for  *)
(* one terminal's values, in front or saved, so that a step of one         *)
(* terminal says nothing about another (Background, SwitchKeeps).          *)
(***************************************************************************)
EXTENDS Keyboard, TLAPS

\* The places terminal_read() can be at, and the state of a read.
Pcs == {"idle", "wait", "take", "copy", "rewind", "bound", "zero", "done"}

Reads == [pc : Pcs, i : Nat, nbytes : Nat, bytes : Seq(Chars)]

\* TypeOK, in three parts, with the domains of the functions.
TypedEdit ==
    /\ user \in Users
    /\ term_cur \in Terminals
    /\ buffer \in [Terminals -> [Slots -> Chars \cup {NUL}]]
    /\ key_buffer_pos \in 0..UINT-1
    /\ saved_pos \in [Terminals -> 0..UINT-1]
    /\ screen_x \in Int
    /\ saved_x \in [Terminals -> Int]
    /\ enter_pressed \in {0, 1}
    /\ right_bound \in Int
TypedReader == reader \in [Terminals -> Reads]
TypedLines ==
    /\ line \in [Terminals -> Seq(Chars)]
    /\ entered \in [Terminals -> Seq(Seq(Chars))]
    /\ wrapped \subseteq Terminals

Typed == TypedEdit /\ TypedReader /\ TypedLines

-----------------------------------------------------------------------------
\* A user presses keys of the keyboard, in the terminal in front.
LEMMA UserTyped ==
    ASSUME user \in Users
    PROVE  /\ user.letters \subseteq Letters
           /\ \A c \in user.letters : <<term_cur, c>> \in {term_cur} \X Letters
<1>1. user \in Behaviours
  BY KeyboardAssumption
<1>2. user.letters \subseteq Letters
  BY <1>1 DEF Behaviours
<1> QED
  BY <1>2

\* The arithmetic of the uint32_t key_buffer_pos stays in its range, ...
LEMMA Wraps ==
    ASSUME NEW n \in Int
    PROVE  n % UINT \in 0..UINT-1
  BY KeyboardAssumption

\* ... and is that of the numbers inside it.
LEMMA NoWrap ==
    ASSUME NEW m \in Nat, NEW n \in Nat, n < m
    PROVE  n % m = n
  OBVIOUS

\* Typed holds at the start.
LEMMA InitTyped == Init => Typed
<1> SUFFICES ASSUME Init
             PROVE  Typed
  OBVIOUS
<1>1. Idle \in Reads
  BY DEF Idle, NoBytes, Reads, Pcs
<1>2. TypedEdit
  BY KeyboardAssumption DEF Init, TypedEdit
<1>3. TypedReader /\ TypedLines
  BY <1>1 DEF Init, TypedReader, TypedLines, NoBytes
<1> QED
  BY <1>2, <1>3 DEF Typed

\* A store to key_buffer leaves a buffer.
LEMMA StoreTyped ==
    ASSUME TypedEdit, NEW i, NEW c \in Chars \cup {NUL}
    PROVE  Store(i, c) \in [Terminals -> [Slots -> Chars \cup {NUL}]]
  BY DEF TypedEdit, Store

\* The line being edited keeps its type, key by key and step by step.
LEMMA EditTyped == Typed /\ [Next]_vars => TypedEdit'
<1> SUFFICES ASSUME Typed, [Next]_vars
             PROVE  TypedEdit'
  OBVIOUS
<1>0. TypedEdit
  BY DEF Typed
<1>m. (key_buffer_pos - 1) % UINT \in 0..UINT-1 /\ (key_buffer_pos + 1) % UINT \in 0..UINT-1
  BY <1>0, Wraps DEF TypedEdit
<1> USE <1>0, KeyboardAssumption DEF TypedEdit, editVars, At, Goto
<1>a. CASE UNCHANGED vars
  BY <1>a DEF vars
<1>1. ASSUME NEW c \in user.letters, PressChar(<<term_cur, c>>)
      PROVE  TypedEdit'
  <2>1. buffer' \in [Terminals -> [Slots -> Chars \cup {NUL}]]
    <3>1. <<term_cur, c>> \in Chars
      BY <1>1, UserTyped DEF Chars
    <3>2. Store(key_buffer_pos, <<term_cur, c>>) \in [Terminals -> [Slots -> Chars \cup {NUL}]]
      BY <1>0, <3>1, StoreTyped
    <3> QED
      BY ONLY <1>1, <3>2 DEF PressChar
  <2>2. key_buffer_pos' \in 0..UINT-1 /\ right_bound' \in Int /\ screen_x' \in Int
    BY <1>1 DEF PressChar, ColumnAfter, HasRoom
  <2> QED
    BY <1>1, <2>1, <2>2 DEF PressChar
<1>2. CASE PressCtrlL
  BY <1>2 DEF PressCtrlL
<1>3. CASE PressEnter
  BY <1>3 DEF PressEnter
<1>4. CASE PressBackspace
  <2>1. buffer' \in [Terminals -> [Slots -> Chars \cup {NUL}]]
    BY <1>0, <1>4, StoreTyped DEF PressBackspace
  <2>2. key_buffer_pos' \in 0..UINT-1 /\ right_bound' \in Int /\ screen_x' \in Int
    <3>1. /\ key_buffer_pos > 0 /\ key_buffer_pos' = key_buffer_pos - 1
          /\ right_bound' = right_bound - 1 /\ screen_x' = ColumnBefore(screen_x)
      BY ONLY <1>4 DEF PressBackspace, Erases
    <3> QED
      BY <3>1 DEF ColumnBefore
  <2> QED
    BY <1>4, <2>1, <2>2 DEF PressBackspace
<1>5. CASE PressLeft
  BY <1>5, <1>m DEF PressLeft
<1>6. CASE PressRight
  BY <1>6, <1>m DEF PressRight
<1>7. ASSUME NEW t \in Terminals, Switch(t)
      PROVE  TypedEdit'
  BY <1>7 DEF Switch, LoadedPosition
<1>8. CASE StartRead
  BY <1>8 DEF StartRead
<1>9. CASE SeeEnter
  BY <1>9 DEF SeeEnter
<1>10. CASE TakeEnter
  BY <1>10 DEF TakeEnter
<1>11. CASE CopyByte
  BY <1>11 DEF CopyByte
<1>12. CASE Rewind
  BY <1>12 DEF Rewind
<1>13. CASE ResetBound
  BY <1>13 DEF ResetBound
<1>14. CASE ZeroByte
  <2>1. buffer' \in [Terminals -> [Slots -> Chars \cup {NUL}]]
    BY <1>0, <1>14, StoreTyped DEF ZeroByte
  <2> QED
    BY <1>14, <2>1 DEF ZeroByte
<1>15. CASE Consume
  BY <1>15 DEF Consume
<1> QED
  BY <1>a, <1>1, <1>2, <1>3, <1>4, <1>5, <1>6, <1>7, <1>8, <1>9, <1>10, <1>11, <1>12, <1>13, <1>14, <1>15 DEF Next, Press, terminal_read

\* terminal_read keeps the type of its state.
LEMMA ReaderTyped == Typed /\ [Next]_vars => TypedReader'
<1> SUFFICES ASSUME Typed, [Next]_vars
             PROVE  TypedReader'
  OBVIOUS
<1>0. TypedReader /\ TypedEdit /\ term_cur \in Terminals /\ reader[term_cur] \in Reads
  BY DEF Typed, TypedReader, TypedEdit
<1>u. \A r \in Reads : [reader EXCEPT ![term_cur] = r] \in [Terminals -> Reads]
  BY <1>0 DEF TypedReader
<1>p. \A p \in Pcs : [reader EXCEPT ![term_cur].pc = p] \in [Terminals -> Reads]
  BY <1>0 DEF TypedReader, Reads
<1>a. CASE UNCHANGED vars
  BY <1>0, <1>a DEF vars, TypedReader
<1>1. ASSUME NEW c \in user.letters, PressChar(<<term_cur, c>>)
      PROVE  TypedReader'
  BY <1>1, <1>0 DEF PressChar, TypedReader
<1>2. CASE PressCtrlL
  BY <1>2, <1>0 DEF PressCtrlL, TypedReader
<1>3. CASE PressEnter
  BY <1>3, <1>0 DEF PressEnter, TypedReader
<1>4. CASE PressBackspace
  BY <1>4, <1>0 DEF PressBackspace, TypedReader
<1>5. CASE PressLeft
  BY <1>5, <1>0 DEF PressLeft, TypedReader
<1>6. CASE PressRight
  BY <1>6, <1>0 DEF PressRight, TypedReader
<1>7. ASSUME NEW t \in Terminals, Switch(t)
      PROVE  TypedReader'
  BY <1>7, <1>0 DEF Switch, TypedReader
<1>8. CASE StartRead
  <2>1. \A n \in ReadSizes : [pc |-> "wait", i |-> 0, nbytes |-> n, bytes |-> NoBytes] \in Reads
    BY KeyboardAssumption DEF Reads, Pcs, NoBytes
  <2> QED
    BY ONLY <1>8, <1>u, <2>1 DEF StartRead, TypedReader
<1>9. CASE SeeEnter
  BY <1>9, <1>p DEF SeeEnter, Goto, TypedReader, Pcs
<1>10. CASE TakeEnter
  BY <1>10, <1>p DEF TakeEnter, Goto, TypedReader, Pcs
<1>11. CASE CopyByte
  <2> DEFINE r == reader[term_cur]
  <2>1. [r EXCEPT !.pc = "rewind"] \in Reads
    BY <1>0 DEF Reads, Pcs
  <2>2. Byte(r.i) # NUL => [r EXCEPT !.i = @ + 1, !.bytes = Append(@, Byte(r.i))] \in Reads
    <3>1. Byte(r.i) # NUL => Byte(r.i) \in Chars
      BY <1>0 DEF Byte, TypedEdit
    <3>2. r.i + 1 \in Nat /\ (Byte(r.i) # NUL => Append(r.bytes, Byte(r.i)) \in Seq(Chars))
      BY <3>1, <1>0 DEF Reads
    <3> QED
      BY <3>2, <1>0 DEF Reads
  <2> QED
    BY <1>11, <1>u, <2>1, <2>2 DEF CopyByte, TypedReader
<1>12. CASE Rewind
  BY <1>12, <1>p DEF Rewind, Goto, TypedReader, Pcs
<1>13. CASE ResetBound
  BY <1>13, <1>0 DEF ResetBound, TypedReader, Reads, Pcs
<1>14. CASE ZeroByte
  <2>1. [reader EXCEPT ![term_cur].i = @ + 1] \in [Terminals -> Reads]
    <3> DEFINE r == reader[term_cur]
    <3>1. [r EXCEPT !.i = r.i + 1] \in Reads
      BY <1>0 DEF Reads
    <3>2. [reader EXCEPT ![term_cur].i = @ + 1]
             = [reader EXCEPT ![term_cur] = [r EXCEPT !.i = r.i + 1]]
      OBVIOUS
    <3> QED
      BY <1>u, <3>1, <3>2
  <2>2. [reader EXCEPT ![term_cur].pc = "done"] \in [Terminals -> Reads]
    BY <1>p DEF Pcs
  <2> QED
    BY <1>14, <2>1, <2>2 DEF ZeroByte, Goto, TypedReader
<1>15. CASE Consume
  <2>1. Idle \in Reads
    BY DEF Idle, NoBytes, Reads, Pcs
  <2> QED
    BY <1>15, <1>u, <2>1 DEF Consume, TypedReader
<1> QED
  BY <1>a, <1>1, <1>2, <1>3, <1>4, <1>5, <1>6, <1>7, <1>8, <1>9, <1>10, <1>11, <1>12, <1>13, <1>14, <1>15 DEF Next, Press, terminal_read

\* The history keeps its type.
LEMMA LinesTyped == Typed /\ [Next]_vars => TypedLines'
<1> SUFFICES ASSUME Typed, [Next]_vars
             PROVE  TypedLines'
  OBVIOUS
<1>0. TypedLines /\ TypedEdit /\ term_cur \in Terminals
      /\ line[term_cur] \in Seq(Chars) /\ entered[term_cur] \in Seq(Seq(Chars))
  BY DEF Typed, TypedLines, TypedEdit
<1>u. \A l \in Seq(Chars) : [line EXCEPT ![term_cur] = l] \in [Terminals -> Seq(Chars)]
  BY <1>0 DEF TypedLines
<1>e. \A l \in Seq(Seq(Chars)) : [entered EXCEPT ![term_cur] = l] \in [Terminals -> Seq(Seq(Chars))]
  BY <1>0 DEF TypedLines
<1>n. NoBytes \in Seq(Chars)
  BY DEF NoBytes
<1>a. CASE UNCHANGED vars
  BY <1>0, <1>a DEF vars, TypedLines
<1>1. ASSUME NEW c \in user.letters, PressChar(<<term_cur, c>>)
      PROVE  TypedLines'
  <2>1. <<term_cur, c>> \in Chars
    BY <1>0, <1>1, UserTyped DEF TypedEdit, Chars
  <2>2. Append(line[term_cur], <<term_cur, c>>) \in Seq(Chars)
    BY <1>0, <2>1
  <2> QED
    BY <1>1, <1>0, <1>u, <2>2 DEF PressChar, TypedLines
<1>2. CASE PressCtrlL
  <2>1. /\ line' = [line EXCEPT ![term_cur] = NoBytes] /\ entered' = entered
        /\ wrapped' = wrapped \ {term_cur}
    BY <1>2 DEF PressCtrlL
  <2> QED
    BY <2>1, <1>0, <1>u, <1>n DEF TypedLines
<1>3. CASE PressEnter
  <2>1. Append(entered[term_cur], line[term_cur]) \in Seq(Seq(Chars))
    BY <1>0
  <2>2. /\ line' = [line EXCEPT ![term_cur] = NoBytes]
        /\ entered' = [entered EXCEPT ![term_cur] = Append(@, line[term_cur])]
        /\ wrapped' = wrapped
    BY <1>3 DEF PressEnter
  <2> QED
    BY <2>1, <2>2, <1>0, <1>u, <1>e, <1>n DEF TypedLines
<1>4. CASE PressBackspace
  <2>1. line[term_cur] # NoBytes => SubSeq(line[term_cur], 1, Len(line[term_cur]) - 1) \in Seq(Chars)
    BY <1>0 DEF NoBytes
  <2> QED
    BY <1>4, <1>0, <1>u, <2>1 DEF PressBackspace, TypedLines
<1>5. CASE PressLeft
  BY <1>5, <1>0 DEF PressLeft, TypedLines
<1>6. CASE PressRight
  BY <1>6, <1>0 DEF PressRight, TypedLines
<1>7. ASSUME NEW t \in Terminals, Switch(t)
      PROVE  TypedLines'
  BY <1>7, <1>0 DEF Switch, TypedLines
<1>8. CASE StartRead
  BY <1>8, <1>0 DEF StartRead, TypedLines
<1>9. CASE SeeEnter
  BY <1>9, <1>0 DEF SeeEnter, TypedLines
<1>10. CASE TakeEnter
  BY <1>10, <1>0 DEF TakeEnter, TypedLines
<1>11. CASE CopyByte
  BY <1>11, <1>0 DEF CopyByte, TypedLines
<1>12. CASE Rewind
  BY <1>12, <1>0 DEF Rewind, TypedLines
<1>13. CASE ResetBound
  BY <1>13, <1>0 DEF ResetBound, TypedLines
<1>14. CASE ZeroByte
  BY <1>14, <1>0 DEF ZeroByte, TypedLines
<1>15. CASE Consume
  <2>1. entered[term_cur] # <<>> => Tail(entered[term_cur]) \in Seq(Seq(Chars))
    BY <1>0
  <2> QED
    BY <1>15, <1>0, <1>e, <2>1 DEF Consume, TypedLines
<1> QED
  BY <1>a, <1>1, <1>2, <1>3, <1>4, <1>5, <1>6, <1>7, <1>8, <1>9, <1>10, <1>11, <1>12, <1>13, <1>14, <1>15 DEF Next, Press, terminal_read

\* Typed is inductive.
LEMMA NextTyped == Typed /\ [Next]_vars => Typed'
  BY EditTyped, ReaderTyped, LinesTyped DEF Typed
-----------------------------------------------------------------------------
\* Only the arrow keys move the position past an end of the buffer: a character
\* needs room, Backspace a character, and a switch loads a saved position.
LEMMA NextInBounds == Typed /\ KeysInBounds /\ [Next]_vars => KeysInBounds'
<1> SUFFICES ASSUME Typed, KeysInBounds, [Next]_vars, ~UsesArrows'
             PROVE  InBounds'
  BY DEF KeysInBounds
<1>0. user' = user
  BY DEF Next, Press, PressChar, PressCtrlL, PressEnter, PressBackspace, PressLeft, PressRight,
         Switch, StartRead, terminal_read, SeeEnter, TakeEnter, CopyByte, Rewind, ResetBound,
         ZeroByte, Consume, vars
<1>1. InBounds /\ "left" \notin user.keys /\ "right" \notin user.keys
  BY <1>0 DEF KeysInBounds, UsesArrows, Arrows
<1>2. /\ key_buffer_pos \in Nat /\ KEY_BUFFER_SIZE \in Nat /\ term_cur \in Terminals
      /\ saved_pos \in [Terminals -> Nat]
  BY KeyboardAssumption DEF Typed, TypedEdit
<1>3. ASSUME NEW c \in user.letters, PressChar(<<term_cur, c>>)
      PROVE  InBounds'
  <2>1. key_buffer_pos < KEY_BUFFER_SIZE /\ key_buffer_pos' = key_buffer_pos + 1 /\ saved_pos' = saved_pos
    BY <1>3 DEF PressChar, HasRoom
  <2> QED
    BY <2>1, <1>1, <1>2 DEF InBounds
<1>4. CASE PressBackspace
  <2>1. key_buffer_pos' = key_buffer_pos - 1 /\ saved_pos' = saved_pos
    BY <1>4 DEF PressBackspace
  <2> QED
    BY <2>1, <1>1, <1>2 DEF InBounds
<1>5. CASE PressCtrlL \/ Rewind
  <2>1. key_buffer_pos' = 0 /\ saved_pos' = saved_pos
    BY <1>5 DEF PressCtrlL, Rewind
  <2> QED
    BY <2>1, <1>1, <1>2 DEF InBounds
<1>6. ASSUME NEW t \in Terminals, Switch(t)
      PROVE  InBounds'
  BY <1>6, <1>1, <1>2 DEF InBounds, Switch, LoadedPosition
<1>7. CASE PressLeft \/ PressRight
  BY <1>7, <1>1 DEF PressLeft, PressRight
<1>8. CASE \/ PressEnter \/ StartRead \/ SeeEnter \/ TakeEnter \/ CopyByte \/ ResetBound
           \/ ZeroByte \/ Consume \/ UNCHANGED vars
  BY <1>8, <1>1 DEF InBounds, PressEnter, StartRead, SeeEnter, TakeEnter, CopyByte, ResetBound,
                    ZeroByte, Consume, editVars, vars
<1> QED
  BY <1>3, <1>4, <1>5, <1>6, <1>7, <1>8 DEF Next, Press, terminal_read

\* A key is stored in the buffer of the terminal in front, and a read copies from
\* there only.
LEMMA NextNoCrossTalk == Typed /\ NoCrossTalk /\ [Next]_vars => NoCrossTalk'
<1> SUFFICES ASSUME Typed, NoCrossTalk, [Next]_vars
             PROVE  NoCrossTalk'
  OBVIOUS
<1> DEFINE OwnBuffer(b) == \A t \in Terminals : \A i \in Slots : b[t][i] \in OwnKeys(t) \cup {NUL}
           OwnBytes(r) == \A t \in Terminals : \A i \in 1..Len(r[t].bytes) : r[t].bytes[i] \in OwnKeys(t)
<1>0. /\ OwnBuffer(buffer) /\ OwnBytes(reader)
      /\ term_cur \in Terminals /\ reader \in [Terminals -> Reads]
      /\ buffer \in [Terminals -> [Slots -> Chars \cup {NUL}]]
  BY DEF NoCrossTalk, Typed, TypedEdit, TypedReader
<1>s. ASSUME NEW i, NEW c \in OwnKeys(term_cur) \cup {NUL}
      PROVE  OwnBuffer(Store(i, c))
  BY <1>0, <1>s DEF Store
<1>k. ASSUME NEW r \in [Terminals -> Reads],
             \A t \in Terminals : r[t].bytes = reader[t].bytes \/ r[t].bytes = NoBytes
      PROVE  OwnBytes(r)
  BY <1>0, <1>k DEF NoBytes
<1>t. reader' \in [Terminals -> Reads]
  BY ReaderTyped DEF TypedReader
<1> SUFFICES OwnBuffer(buffer') /\ OwnBytes(reader')
  <2>1. Slots' = Slots /\ \A t \in Terminals : OwnKeys(t)' = OwnKeys(t)
    BY DEF Slots, OwnKeys
  <2> QED
    BY <2>1 DEF NoCrossTalk
<1>1. ASSUME NEW c \in user.letters, PressChar(<<term_cur, c>>)
      PROVE  OwnBuffer(buffer') /\ OwnBytes(reader')
  <2>1. <<term_cur, c>> \in OwnKeys(term_cur)
    BY <1>1, UserTyped DEF Typed, TypedEdit, OwnKeys
  <2>2. buffer' = Store(key_buffer_pos, <<term_cur, c>>) /\ reader' = reader
    BY <1>1 DEF PressChar
  <2> HIDE DEF OwnBuffer, OwnBytes
  <2> QED
    BY <2>1, <2>2, <1>0, <1>s
<1>2. CASE PressBackspace
  <2>1. buffer' = Store(key_buffer_pos - 1, NUL) /\ reader' = reader
    BY <1>2 DEF PressBackspace
  <2> HIDE DEF OwnBuffer, OwnBytes
  <2> QED
    BY <2>1, <1>0, <1>s
<1>3. CASE ZeroByte
  <2>1. buffer' = Store(reader[term_cur].i, NUL) \/ buffer' = buffer
    BY <1>3 DEF ZeroByte
  <2>2. \A t \in Terminals : reader'[t].bytes = reader[t].bytes
    <3>1. reader' = [reader EXCEPT ![term_cur].i = @ + 1]
            \/ reader' = [reader EXCEPT ![term_cur].pc = "done"]
      BY <1>3 DEF ZeroByte, Goto
    <3>2. CASE reader' = [reader EXCEPT ![term_cur].i = @ + 1]
      BY <3>2, <1>0 DEF Reads
    <3>3. CASE reader' = [reader EXCEPT ![term_cur].pc = "done"]
      BY <3>3, <1>0 DEF Reads
    <3> QED
      BY <3>1, <3>2, <3>3
  <2> HIDE DEF OwnBuffer, OwnBytes
  <2> QED
    BY <2>1, <2>2, <1>0, <1>s, <1>k, <1>t
<1>4. CASE CopyByte
  <2>1. buffer' = buffer
    BY <1>4 DEF CopyByte, editVars
  <2> DEFINE r == reader[term_cur]
  <2>2. CASE Byte(r.i) # NUL /\ r.i < r.nbytes
    <3>1. Byte(r.i) \in OwnKeys(term_cur)
      BY <1>0, <2>2 DEF Byte
    <3>2. reader' = [reader EXCEPT ![term_cur] =
                        [r EXCEPT !.i = @ + 1, !.bytes = Append(@, Byte(r.i))]]
      BY <1>4, <2>2 DEF CopyByte
    <3>3. r \in Reads /\ r.bytes \in Seq(Chars)
      BY <1>0 DEF Reads
    <3>4. reader'[term_cur].bytes = Append(r.bytes, Byte(r.i))
      BY <3>2, <3>3, <1>0 DEF Reads
    <3>5. \A i \in 1..Len(reader'[term_cur].bytes) : reader'[term_cur].bytes[i] \in OwnKeys(term_cur)
      BY <3>1, <3>3, <3>4, <1>0
    <3>6. \A t \in Terminals \ {term_cur} : reader'[t] = reader[t]
      BY <3>2, <1>0
    <3> QED
      BY <3>5, <3>6, <2>1, <1>0
  <2>3. CASE ~(Byte(r.i) # NUL /\ r.i < r.nbytes)
    <3>1. reader' = [reader EXCEPT ![term_cur] = [r EXCEPT !.pc = "rewind"]]
      BY <1>4, <2>3 DEF CopyByte
    <3>2. \A t \in Terminals : reader'[t].bytes = reader[t].bytes
      BY <3>1, <1>0 DEF Reads
    <3> HIDE DEF OwnBuffer, OwnBytes
    <3> QED
      BY <3>2, <2>1, <1>0, <1>k, <1>t
  <2> QED
    BY <2>2, <2>3
<1>5. CASE StartRead \/ Consume
  <2>1. buffer' = buffer
    BY <1>5 DEF StartRead, Consume, editVars
  <2>2. \A t \in Terminals : reader'[t].bytes = reader[t].bytes \/ reader'[t].bytes = NoBytes
    <3>1. ASSUME NEW r, r.bytes = NoBytes, reader' = [reader EXCEPT ![term_cur] = r],
                 NEW t \in Terminals
          PROVE  reader'[t].bytes = reader[t].bytes \/ reader'[t].bytes = NoBytes
      BY <3>1, <1>0
    <3>2. CASE StartRead
      <4>1. PICK n \in ReadSizes :
               reader' = [reader EXCEPT ![term_cur] =
                            [pc |-> "wait", i |-> 0, nbytes |-> n, bytes |-> NoBytes]]
        BY <3>2 DEF StartRead
      <4>2. [pc |-> "wait", i |-> 0, nbytes |-> n, bytes |-> NoBytes].bytes = NoBytes
        OBVIOUS
      <4> QED
        BY <4>1, <4>2, <3>1
    <3>3. CASE Consume
      <4>1. Idle.bytes = NoBytes
        BY DEF Idle
      <4>2. reader' = [reader EXCEPT ![term_cur] = Idle]
        BY <3>3 DEF Consume
      <4> QED
        BY <4>1, <4>2, <3>1
    <3> QED
      BY <3>2, <3>3, <1>5
  <2> HIDE DEF OwnBuffer, OwnBytes
  <2> QED
    BY <2>1, <2>2, <1>0, <1>k, <1>t
<1>6. CASE SeeEnter \/ TakeEnter \/ Rewind \/ ResetBound
  <2>1. buffer' = buffer
    BY <1>6 DEF SeeEnter, TakeEnter, Rewind, ResetBound, editVars
  <2>2. \A t \in Terminals : reader'[t].bytes = reader[t].bytes
    <3>1. CASE ResetBound
      BY <3>1, <1>0 DEF ResetBound, Reads
    <3>2. CASE SeeEnter \/ TakeEnter \/ Rewind
      <4>1. \E p : reader' = [reader EXCEPT ![term_cur].pc = p]
        BY <3>2 DEF SeeEnter, TakeEnter, Rewind, Goto
      <4> QED
        BY <4>1, <1>0 DEF Reads
    <3> QED
      BY <3>1, <3>2, <1>6
  <2> HIDE DEF OwnBuffer, OwnBytes
  <2> QED
    BY <2>1, <2>2, <1>0, <1>k, <1>t
<1>7. CASE \/ PressCtrlL \/ PressEnter \/ PressLeft \/ PressRight
           \/ (\E t \in Terminals : Switch(t)) \/ UNCHANGED vars
  <2>1. buffer' = buffer /\ reader' = reader
    BY <1>7 DEF PressCtrlL, PressEnter, PressLeft, PressRight, Switch, vars, editVars
  <2> QED
    BY <2>1, <1>0
<1> QED
  BY <1>1, <1>2, <1>3, <1>4, <1>5, <1>6, <1>7 DEF Next, Press, terminal_read
-----------------------------------------------------------------------------
(***************************************************************************)
(* One terminal's share of the state, in front or saved.                   *)
(***************************************************************************)
\* The position in the line of t, its cursor column, and whether an Enter pressed
\* in t has not been taken by a read.
Pos(t) == IF t = term_cur THEN key_buffer_pos ELSE saved_pos[t]
Column(t) == IF t = term_cur THEN screen_x ELSE saved_x[t]
Pending(t) == IF t = term_cur THEN enter_pressed ELSE 0

\* 1 when the line of t has passed the right margin.
Wrapped(t) == IF t \in wrapped THEN 1 ELSE 0

\* The buffer b holds the line l and zeros after it.
Laid(b, l) ==
    /\ Len(l) <= KEY_BUFFER_SIZE
    /\ \A i \in Slots : b[i] = IF i < Len(l) THEN l[i + 1] ELSE NUL

\* Where a careful user may type, and where the buffer is being cleared.
Waiting == {"idle", "wait", "done"}
Clearing == {"rewind", "bound", "zero"}

\* What the read r, the lines e entered and not consumed, the line l being typed,
\* the buffer b, the position p and the pending Enter k of a terminal have to do
\* with each other when the user is careful.
LineKept(r, e, l, b, p, k) ==
    /\ Len(e) = (IF r.pc \in Clearing \cup {"copy", "done"} THEN 1 ELSE 0) + k
    /\ r.pc \in Waiting /\ k = 0 => Laid(b, l) /\ p = Len(l)
    /\ k = 1 => /\ r.pc \in Waiting \cup {"take"}
                /\ l = NoBytes
                /\ Laid(b, e[Len(e)]) /\ p = Len(e[Len(e)])
    /\ r.pc \in {"wait", "take"} => r.i = 0 /\ r.bytes = NoBytes
    /\ r.pc = "take" => k = 1
    /\ r.pc \in Clearing \cup {"copy"} => l = NoBytes
    /\ r.pc \in {"copy", "rewind"} => Laid(b, e[1])
    /\ r.pc = "copy" => /\ r.i <= Len(e[1]) /\ r.i <= r.nbytes
                        /\ r.bytes = SubSeq(e[1], 1, r.i)
    /\ r.pc \in Clearing \cup {"done"} => r.bytes = Cut(e[1], r.nbytes)
    /\ r.pc \in {"bound", "zero"} => p = 0
    /\ r.pc = "zero" => \A j \in Slots : j < r.i => b[j] = NUL

\* A user who waits for the read after Enter, in the same terminal, and uses no
\* special key.
Careful == user.types = "patient" /\ ~user.hops /\ user.keys = {}

\* The inductive invariant of his lines.
LinesInv ==
    Careful => \A t \in Terminals :
                  LineKept(reader[t], entered[t], line[t], buffer[t], Pos(t), Pending(t))

\* A user who types at prompts only, and does not leave them after Enter.
AtPrompt == user.types = "prompted" /\ ~user.hops

\* Then the column x and the position p move together while the read is at "wait",
\* unless the line has passed the margin (w), and the line is empty between two
\* reads.
CursorKept(pc, p, x, k, w) ==
    /\ k = 1 => pc \in {"wait", "take"}
    /\ pc = "take" => k = 1
    /\ pc \in {"idle", "bound", "zero", "done"} => p = 0
    /\ pc = "wait" /\ k = 0 => w = 1 \/ x = 7 + p

\* The inductive invariant of the cursor.  right_bound limits the right arrow, so
\* the position does not wrap around.
CursorInv ==
    AtPrompt =>
        /\ UsesArrows => right_bound <= 7 \/ right_bound <= MAX_BOUND
        /\ \A t \in Terminals : CursorKept(reader[t].pc, Pos(t), Column(t), Pending(t), Wrapped(t))
-----------------------------------------------------------------------------
\* No key and no step of a read touches the terminals in the background.
LEMMA Background ==
    ASSUME Typed, [Next]_vars, ~(\E t \in Terminals : Switch(t)),
           NEW t \in Terminals \ {term_cur}
    PROVE  /\ term_cur' = term_cur /\ user' = user
           /\ reader'[t] = reader[t] /\ entered'[t] = entered[t] /\ line'[t] = line[t]
           /\ buffer'[t] = buffer[t] /\ Pos(t)' = Pos(t) /\ Column(t)' = Column(t)
           /\ Pending(t)' = Pending(t) /\ Wrapped(t)' = Wrapped(t)
<1>0. /\ term_cur \in Terminals /\ reader \in [Terminals -> Reads]
      /\ buffer \in [Terminals -> [Slots -> Chars \cup {NUL}]]
      /\ line \in [Terminals -> Seq(Chars)] /\ entered \in [Terminals -> Seq(Seq(Chars))]
  BY DEF Typed, TypedEdit, TypedReader, TypedLines
<1>1. term_cur' = term_cur /\ user' = user /\ saved_pos' = saved_pos /\ saved_x' = saved_x
  BY DEF Next, Press, PressChar, PressCtrlL, PressEnter, PressBackspace, PressLeft, PressRight,
         StartRead, terminal_read, SeeEnter, TakeEnter, CopyByte, Rewind, ResetBound,
         ZeroByte, Consume, vars
<1>2. Pos(t)' = Pos(t) /\ Column(t)' = Column(t) /\ Pending(t)' = Pending(t)
  BY <1>1 DEF Pos, Column, Pending
<1>3. reader'[t] = reader[t]
  BY <1>0 DEF Next, Press, PressChar, PressCtrlL, PressEnter, PressBackspace, PressLeft, PressRight,
         StartRead, terminal_read, SeeEnter, TakeEnter, CopyByte, Rewind, ResetBound,
         ZeroByte, Consume, vars, Goto
<1>4. buffer'[t] = buffer[t]
  <2>1. ASSUME NEW i, NEW c
        PROVE  Store(i, c)[t] = buffer[t]
    <3>1. CASE i \in Slots
      <4>1. Store(i, c) = [buffer EXCEPT ![term_cur] = [buffer[term_cur] EXCEPT ![i] = c]]
        BY <3>1, <1>0 DEF Store
      <4> QED
        BY <4>1, <1>0
    <3>2. CASE i \notin Slots
      BY <3>2 DEF Store
    <3> QED
      BY <3>1, <3>2
  <2>2. \/ buffer' = buffer
        \/ \E c \in user.letters : buffer' = Store(key_buffer_pos, <<term_cur, c>>)
        \/ buffer' = Store(key_buffer_pos - 1, NUL)
        \/ buffer' = Store(reader[term_cur].i, NUL)
    BY DEF Next, Press, PressChar, PressCtrlL, PressEnter, PressBackspace, PressLeft,
         PressRight, StartRead, terminal_read, SeeEnter, TakeEnter, CopyByte, Rewind,
         ResetBound, ZeroByte, Consume, vars, editVars
  <2>3. ASSUME NEW c \in user.letters, buffer' = Store(key_buffer_pos, <<term_cur, c>>)
        PROVE  buffer'[t] = buffer[t]
    BY <2>3, <2>1, Zenon
  <2>4. CASE buffer' = Store(key_buffer_pos - 1, NUL)
    BY <2>4, <2>1, Zenon
  <2>5. CASE buffer' = Store(reader[term_cur].i, NUL)
    BY <2>5, <2>1, Zenon
  <2> QED
    BY <2>2, <2>3, <2>4, <2>5
<1>5. entered'[t] = entered[t] /\ line'[t] = line[t]
  BY <1>0 DEF Next, Press, PressChar, PressCtrlL, PressEnter, PressBackspace, PressLeft, PressRight,
         StartRead, terminal_read, SeeEnter, TakeEnter, CopyByte, Rewind, ResetBound,
         ZeroByte, Consume, vars
<1>6. Wrapped(t)' = Wrapped(t)
  <2>1. wrapped' \in {wrapped, wrapped \cup {term_cur}, wrapped \cup {}, wrapped \ {term_cur}}
    BY DEF Next, Press, PressChar, PressCtrlL, PressEnter, PressBackspace, PressLeft, PressRight,
         StartRead, terminal_read, SeeEnter, TakeEnter, CopyByte, Rewind, ResetBound,
         ZeroByte, Consume, vars
  <2> QED
    BY <2>1 DEF Wrapped
<1> QED
  BY <1>1, <1>2, <1>3, <1>4, <1>5, <1>6

\* Alt+Fn changes which terminal is in front, and no terminal's values.
LEMMA SwitchKeeps ==
    ASSUME Typed, NEW f \in Terminals, Switch(f), ~user.hops
    PROVE  /\ user' = user /\ right_bound' = right_bound /\ enter_pressed = 0
           /\ reader' = reader /\ entered' = entered /\ line' = line /\ buffer' = buffer
           /\ \A t \in Terminals : /\ Pos(t)' = Pos(t) /\ Column(t)' = Column(t)
                                   /\ Pending(t)' = 0 /\ Pending(t) = 0
                                   /\ Wrapped(t)' = Wrapped(t)
<1>1. /\ f # term_cur /\ term_cur' = f /\ enter_pressed' = enter_pressed /\ enter_pressed = 0
      /\ saved_pos' = [saved_pos EXCEPT ![term_cur] = key_buffer_pos]
      /\ key_buffer_pos' = saved_pos[f]
      /\ saved_x' = [saved_x EXCEPT ![term_cur] = screen_x]
      /\ screen_x' = saved_x[f]
      /\ user' = user /\ right_bound' = right_bound
      /\ reader' = reader /\ entered' = entered /\ line' = line /\ buffer' = buffer
      /\ wrapped' = wrapped
  BY DEF Switch, LoadedPosition
<1>2. saved_pos \in [Terminals -> 0..UINT-1] /\ saved_x \in [Terminals -> Int] /\ term_cur \in Terminals
  BY DEF Typed, TypedEdit
<1> QED
  BY <1>1, <1>2 DEF Pos, Column, Pending, Wrapped
-----------------------------------------------------------------------------
(***************************************************************************)
(* The line of a careful user, key by key and step by step.                *)
(***************************************************************************)
\* The provers are told what the first element of a nonempty sequence is, ...
LEMMA FirstElement ==
    ASSUME NEW S, NEW e \in Seq(S), Len(e) >= 1
    PROVE  e[1] \in S
  OBVIOUS

\* ... and the tail of two elements.
LEMMA TailOfTwo ==
    ASSUME NEW S, NEW e \in Seq(S), Len(e) = 2
    PROVE  Len(Tail(e)) = 1 /\ Tail(e)[1] = e[2]
  OBVIOUS

\* A character goes to the end of the line, in the buffer too.
LEMMA CharKept ==
    ASSUME NEW r \in Reads, NEW e \in Seq(Seq(Chars)), NEW l \in Seq(Chars),
           NEW b \in [Slots -> Chars \cup {NUL}], NEW p \in Nat, NEW k \in {0, 1},
           LineKept(r, e, l, b, p, k),
           k = 0, r.pc \in Waiting, p < KEY_BUFFER_SIZE, NEW c \in Chars
    PROVE  LineKept(r, e, Append(l, c), [b EXCEPT ![p] = c], p + 1, 0)
<1>1. Laid(b, l) /\ p = Len(l)
  BY DEF LineKept, Reads, Pcs, Waiting, Clearing, NoBytes
<1>2. Laid([b EXCEPT ![p] = c], Append(l, c)) /\ p + 1 = Len(Append(l, c))
  <2> DEFINE m == Append(l, c)
             d == [b EXCEPT ![p] = c]
  <2>1. /\ Len(m) = p + 1 /\ m[p + 1] = c
        /\ \A i \in 1..p : m[i] = l[i]
    BY <1>1
  <2>2. p \in Slots /\ Slots \subseteq Nat
    BY KeyboardAssumption DEF Slots
  <2>3. d[p] = c /\ \A i \in Slots : i # p => d[i] = b[i]
    BY <2>2
  <2> HIDE DEF m, d
  <2>4. \A i \in Slots : d[i] = IF i < p + 1 THEN m[i + 1] ELSE NUL
    <3> SUFFICES ASSUME NEW i \in Slots
                 PROVE  d[i] = IF i < p + 1 THEN m[i + 1] ELSE NUL
      OBVIOUS
    <3>1. b[i] = IF i < p THEN l[i + 1] ELSE NUL
      BY <1>1 DEF Laid
    <3>2. CASE i < p
      <4>1. i + 1 \in 1..p
        BY <2>2, <3>2
      <4> QED
        BY <2>1, <2>2, <2>3, <3>1, <3>2, <4>1
    <3>3. CASE i = p
      BY <2>1, <2>3, <3>3
    <3>4. CASE i > p
      BY <2>2, <2>3, <3>1, <3>4
    <3> QED
      BY <2>2, <3>2, <3>3, <3>4
  <2>5. p + 1 <= KEY_BUFFER_SIZE
    BY KeyboardAssumption
  <2>6. Laid(d, m) /\ p + 1 = Len(m)
    BY <2>1, <2>4, <2>5 DEF Laid
  <2> QED
    BY <2>6 DEF m, d
<1> QED
  BY <1>2 DEF LineKept, Reads, Pcs, Waiting, Clearing, NoBytes

\* Backspace takes the last one away.
LEMMA EraseKept ==
    ASSUME NEW r \in Reads, NEW e \in Seq(Seq(Chars)), NEW l \in Seq(Chars),
           NEW b \in [Slots -> Chars \cup {NUL}], NEW p \in Nat, NEW k \in {0, 1},
           LineKept(r, e, l, b, p, k),
           k = 0, r.pc \in Waiting, p > 0
    PROVE  /\ l # NoBytes /\ p <= KEY_BUFFER_SIZE
           /\ LineKept(r, e, SubSeq(l, 1, Len(l) - 1), [b EXCEPT ![p - 1] = NUL], p - 1, 0)
<1>1. Laid(b, l) /\ p = Len(l)
  BY DEF LineKept, Reads, Pcs, Waiting, Clearing, NoBytes
<1>2. l # NoBytes
  BY <1>1 DEF NoBytes
<1>3. /\ Laid([b EXCEPT ![p - 1] = NUL], SubSeq(l, 1, Len(l) - 1))
      /\ p - 1 = Len(SubSeq(l, 1, Len(l) - 1))
  BY <1>1, KeyboardAssumption DEF Laid, Slots
<1>4. p <= KEY_BUFFER_SIZE
  BY <1>1 DEF Laid
<1>5. LineKept(r, e, SubSeq(l, 1, Len(l) - 1), [b EXCEPT ![p - 1] = NUL], p - 1, 0)
  BY <1>2, <1>3 DEF LineKept, Reads, Pcs, Waiting, Clearing, NoBytes
<1> QED
  BY <1>2, <1>4, <1>5

\* Enter ends the line.
LEMMA EnterKept ==
    ASSUME NEW r \in Reads, NEW e \in Seq(Seq(Chars)), NEW l \in Seq(Chars),
           NEW b \in [Slots -> Chars \cup {NUL}], NEW p \in Nat, NEW k \in {0, 1},
           LineKept(r, e, l, b, p, k),
           k = 0, r.pc \in Waiting
    PROVE  LineKept(r, Append(e, l), NoBytes, b, p, 1)
<1>1. Laid(b, l) /\ p = Len(l)
  BY DEF LineKept, Reads, Pcs, Waiting, Clearing, NoBytes
<1>2. /\ Append(e, l)[Len(Append(e, l))] = l /\ Len(Append(e, l)) = Len(e) + 1
      /\ Len(e) # 0 => Append(e, l)[1] = e[1]
  OBVIOUS
<1> QED
  BY <1>1, <1>2 DEF LineKept, Reads, Pcs, Waiting, Clearing, NoBytes

\* A read starts with nothing copied.
LEMMA StartKept ==
    ASSUME NEW r \in Reads, NEW e \in Seq(Seq(Chars)), NEW l \in Seq(Chars),
           NEW b \in [Slots -> Chars \cup {NUL}], NEW p \in Nat, NEW k \in {0, 1},
           LineKept(r, e, l, b, p, k),
           r.pc = "idle", NEW n \in Nat
    PROVE  LineKept([pc |-> "wait", i |-> 0, nbytes |-> n, bytes |-> NoBytes], e, l, b, p, k)
  BY DEF LineKept, Reads, Pcs, Waiting, Clearing, NoBytes

\* It sees Enter, ...
LEMMA SeeKept ==
    ASSUME NEW r \in Reads, NEW e \in Seq(Seq(Chars)), NEW l \in Seq(Chars),
           NEW b \in [Slots -> Chars \cup {NUL}], NEW p \in Nat, NEW k \in {0, 1},
           LineKept(r, e, l, b, p, k),
           r.pc = "wait", k = 1
    PROVE  LineKept([r EXCEPT !.pc = "take"], e, l, b, p, k)
  BY DEF LineKept, Reads, Pcs, Waiting, Clearing, NoBytes

\* ... takes it, ...
LEMMA TakeKept ==
    ASSUME NEW r \in Reads, NEW e \in Seq(Seq(Chars)), NEW l \in Seq(Chars),
           NEW b \in [Slots -> Chars \cup {NUL}], NEW p \in Nat, NEW k \in {0, 1},
           LineKept(r, e, l, b, p, k),
           r.pc = "take"
    PROVE  LineKept([r EXCEPT !.pc = "copy"], e, l, b, p, 0)
<1> DEFINE q == [r EXCEPT !.pc = "copy"]
<1>1. k = 1 /\ Len(e) = 1 /\ Laid(b, e[1]) /\ l = NoBytes /\ r.i = 0 /\ r.bytes = NoBytes
  BY DEF LineKept, Reads, Pcs, Waiting, Clearing, NoBytes
<1>2. e[1] \in Seq(Chars)
  <2>1. e \in Seq(Seq(Chars)) /\ Len(e) >= 1
    BY <1>1
  <2> QED
    BY ONLY <2>1, FirstElement
<1>3. NoBytes = SubSeq(e[1], 1, 0) /\ 0 <= Len(e[1])
  BY <1>2 DEF NoBytes
<1>4. /\ q.pc = "copy" /\ q.i = 0 /\ q.bytes = NoBytes /\ q.nbytes = r.nbytes
      /\ r.nbytes \in Nat
  BY <1>1 DEF Reads
<1> HIDE DEF q
<1>5. LineKept(q, e, l, b, p, 0)
  BY <1>1, <1>2, <1>3, <1>4 DEF LineKept, Waiting, Clearing
<1> QED
  BY <1>5 DEF q

\* key_buffer[i] of the buffer b; the byte after it is zero.
ByteOf(b, i) == IF i \in Slots THEN b[i] ELSE NUL

\* ... copies the bytes up to the end of the line or of the caller's buffer, ...
LEMMA CopiedSoFar ==
    ASSUME NEW r \in Reads, NEW e \in Seq(Seq(Chars)), NEW l \in Seq(Chars),
           NEW b \in [Slots -> Chars \cup {NUL}], NEW p \in Nat, NEW k \in {0, 1},
           LineKept(r, e, l, b, p, k),
           r.pc = "copy"
    PROVE  /\ Len(e) = 1 /\ k = 0 /\ Laid(b, e[1]) /\ l = NoBytes
           /\ ByteOf(b, r.i) # NUL /\ r.i < r.nbytes =>
                 /\ r.i + 1 <= Len(e[1]) /\ r.i + 1 <= r.nbytes
                 /\ Append(r.bytes, ByteOf(b, r.i)) = SubSeq(e[1], 1, r.i + 1)
           /\ ~(ByteOf(b, r.i) # NUL /\ r.i < r.nbytes) => r.bytes = Cut(e[1], r.nbytes)
<1>1. /\ Len(e) = 1 /\ k = 0 /\ e[1] \in Seq(Chars) /\ Laid(b, e[1]) /\ l = NoBytes
      /\ r.i \in Nat /\ r.nbytes \in Nat /\ r.i <= Len(e[1]) /\ r.i <= r.nbytes
      /\ r.bytes = SubSeq(e[1], 1, r.i)
  BY DEF LineKept, Reads, Pcs, Waiting, Clearing, NoBytes
<1>2. ByteOf(b, r.i) # NUL <=> r.i < Len(e[1])
  <2>1. CASE r.i < Len(e[1])
    <3>1. r.i \in Slots /\ b[r.i] = e[1][r.i + 1]
      BY <1>1, <2>1, KeyboardAssumption DEF Laid, Slots
    <3>2. e[1][r.i + 1] \in Chars
      BY <1>1, <2>1
    <3> QED
      BY <2>1, <3>1, <3>2, KeyboardAssumption DEF ByteOf
  <2>2. CASE ~(r.i < Len(e[1]))
    <3>1. r.i \in Slots => b[r.i] = NUL
      BY <1>1, <2>2, KeyboardAssumption DEF Laid, Slots
    <3> QED
      BY <2>2, <3>1 DEF ByteOf
  <2> QED
    BY <2>1, <2>2
<1>3. CASE r.i < Len(e[1]) /\ r.i < r.nbytes
  <2>1. ByteOf(b, r.i) = e[1][r.i + 1]
    BY <1>1, <1>3, KeyboardAssumption DEF Laid, Slots, ByteOf
  <2>2. Append(r.bytes, ByteOf(b, r.i)) = SubSeq(e[1], 1, r.i + 1)
    BY <1>1, <1>3, <2>1
  <2>3. r.i + 1 <= Len(e[1]) /\ r.i + 1 <= r.nbytes
    BY <1>1, <1>3
  <2> QED
    BY <1>1, <1>2, <1>3, <2>2, <2>3, Zenon
<1>4. CASE ~(r.i < Len(e[1]) /\ r.i < r.nbytes)
  <2>1. r.bytes = Cut(e[1], r.nbytes)
    BY <1>1, <1>4 DEF Cut
  <2> QED
    BY <1>1, <1>2, <1>4, <2>1
<1> QED
  BY <1>3, <1>4

\* ... one byte a turn, ...
LEMMA CopyKept ==
    ASSUME NEW r \in Reads, NEW e \in Seq(Seq(Chars)), NEW l \in Seq(Chars),
           NEW b \in [Slots -> Chars \cup {NUL}], NEW p \in Nat, NEW k \in {0, 1},
           LineKept(r, e, l, b, p, k), NEW q,
           r.pc = "copy",
           ByteOf(b, r.i) # NUL /\ r.i < r.nbytes =>
              q.pc = "copy" /\ q.i = r.i + 1 /\ q.bytes = Append(r.bytes, ByteOf(b, r.i)),
           ~(ByteOf(b, r.i) # NUL /\ r.i < r.nbytes) => q.pc = "rewind" /\ q.bytes = r.bytes,
           q.nbytes = r.nbytes
    PROVE  LineKept(q, e, l, b, p, k)
<1>1. /\ Len(e) = 1 /\ k = 0 /\ Laid(b, e[1]) /\ l = NoBytes
      /\ ByteOf(b, r.i) # NUL /\ r.i < r.nbytes =>
            /\ r.i + 1 <= Len(e[1]) /\ r.i + 1 <= r.nbytes
            /\ Append(r.bytes, ByteOf(b, r.i)) = SubSeq(e[1], 1, r.i + 1)
      /\ ~(ByteOf(b, r.i) # NUL /\ r.i < r.nbytes) => r.bytes = Cut(e[1], r.nbytes)
  BY CopiedSoFar
<1> QED
  BY <1>1 DEF LineKept, Waiting, Clearing

\* ... and starts to clear the buffer once the line is copied: the position first, ...
LEMMA RewindKept ==
    ASSUME NEW r \in Reads, NEW e \in Seq(Seq(Chars)), NEW l \in Seq(Chars),
           NEW b \in [Slots -> Chars \cup {NUL}], NEW p \in Nat, NEW k \in {0, 1},
           LineKept(r, e, l, b, p, k), NEW q,
           r.pc = "rewind", q.pc = "bound", q.nbytes = r.nbytes, q.bytes = r.bytes
    PROVE  LineKept(q, e, l, b, 0, k)
  BY DEF LineKept, Reads, Pcs, Waiting, Clearing, NoBytes

\* ... then the bound, ...
LEMMA BoundKept ==
    ASSUME NEW r \in Reads, NEW e \in Seq(Seq(Chars)), NEW l \in Seq(Chars),
           NEW b \in [Slots -> Chars \cup {NUL}], NEW p \in Nat, NEW k \in {0, 1},
           LineKept(r, e, l, b, p, k), NEW q,
           r.pc = "bound", q.pc = "zero", q.i = 0, q.nbytes = r.nbytes, q.bytes = r.bytes
    PROVE  LineKept(q, e, l, b, p, k)
  BY KeyboardAssumption DEF LineKept, Reads, Pcs, Waiting, Clearing, NoBytes, Slots

\* ... then every byte of the buffer, after which it is that of an empty line.
LEMMA ZeroKept ==
    ASSUME NEW r \in Reads, NEW e \in Seq(Seq(Chars)), NEW l \in Seq(Chars),
           NEW b \in [Slots -> Chars \cup {NUL}], NEW p \in Nat, NEW k \in {0, 1},
           LineKept(r, e, l, b, p, k), NEW q,
           r.pc = "zero", q.nbytes = r.nbytes, q.bytes = r.bytes
    PROVE  /\ (r.i < KEY_BUFFER_SIZE /\ q.pc = "zero" /\ q.i = r.i + 1)
                 => LineKept(q, e, l, [b EXCEPT ![r.i] = NUL], p, k)
           /\ (~(r.i < KEY_BUFFER_SIZE) /\ q.pc = "done") => LineKept(q, e, l, b, p, k)
<1>1. ASSUME r.i < KEY_BUFFER_SIZE, q.pc = "zero", q.i = r.i + 1
      PROVE  LineKept(q, e, l, [b EXCEPT ![r.i] = NUL], p, k)
  BY <1>1, KeyboardAssumption DEF LineKept, Reads, Pcs, Waiting, Clearing, NoBytes, Slots
<1>2. ASSUME ~(r.i < KEY_BUFFER_SIZE), q.pc = "done"
      PROVE  LineKept(q, e, l, b, p, k)
  <2>1. Laid(b, NoBytes)
    BY <1>2, KeyboardAssumption DEF LineKept, Reads, Pcs, Waiting, Clearing, NoBytes, Slots, Laid
  <2> QED
    BY <1>2, <2>1 DEF LineKept, Reads, Pcs, Waiting, Clearing, NoBytes
<1> QED
  BY <1>1, <1>2

\* The program takes the line.
LEMMA ConsumeKept ==
    ASSUME NEW r \in Reads, NEW e \in Seq(Seq(Chars)), NEW l \in Seq(Chars),
           NEW b \in [Slots -> Chars \cup {NUL}], NEW p \in Nat, NEW k \in {0, 1},
           LineKept(r, e, l, b, p, k),
           r.pc = "done"
    PROVE  LineKept(Idle, IF e = <<>> THEN e ELSE Tail(e), l, b, p, k)
<1>1. e # <<>> /\ Len(e) = 1 + k /\ Len(Tail(e)) = k
  BY DEF LineKept, Reads, Pcs, Waiting, Clearing, NoBytes
<1>2. k = 1 => Len(e) = 2 /\ Len(Tail(e)) = 1 /\ Tail(e)[1] = e[2]
  BY <1>1, TailOfTwo
<1> QED
  BY <1>1, <1>2 DEF LineKept, Reads, Pcs, Waiting, Clearing, NoBytes, Idle

\* A store inside key_buffer changes one byte of the buffer in front.
LEMMA StoreInside ==
    ASSUME Typed, NEW i \in Slots, NEW c
    PROVE  Store(i, c)[term_cur] = [buffer[term_cur] EXCEPT ![i] = c]
<1>1. /\ term_cur \in Terminals
      /\ buffer \in [Terminals -> [Slots -> Chars \cup {NUL}]]
  BY DEF Typed, TypedEdit
<1>2. Store(i, c) = [buffer EXCEPT ![term_cur] = [buffer[term_cur] EXCEPT ![i] = c]]
  BY <1>1 DEF Store
<1> QED
  BY <1>1, <1>2

\* The first line is empty.
LEMMA InitLines == Init => LinesInv
<1> SUFFICES ASSUME Init, NEW t \in Terminals
             PROVE  LineKept(reader[t], entered[t], line[t], buffer[t], Pos(t), Pending(t))
  BY DEF LinesInv
<1>1. /\ reader[t] = Idle /\ entered[t] = <<>> /\ line[t] = NoBytes
      /\ buffer[t] = [i \in Slots |-> NUL] /\ Pos(t) = 0 /\ Pending(t) = 0
  BY DEF Init, Pos, Pending
<1>2. Laid([i \in Slots |-> NUL], NoBytes)
  BY KeyboardAssumption DEF Laid, NoBytes, Slots
<1>3. LineKept(Idle, <<>>, NoBytes, [i \in Slots |-> NUL], 0, 0)
  BY <1>2 DEF LineKept, Idle, NoBytes, Waiting, Clearing
<1> QED
  BY <1>1, <1>3

\* The line of a careful user: LinesInv is inductive.  A switch moves a terminal's
\* values between the shared variables and its own copies, and a key or a step of
\* terminal_read changes those of the terminal in front, one lemma above for each.
LEMMA NextLines == Typed /\ LinesInv /\ [Next]_vars => LinesInv'
<1> SUFFICES ASSUME Typed, LinesInv, [Next]_vars, Careful', NEW t \in Terminals
             PROVE  LineKept(reader'[t], entered'[t], line'[t], buffer'[t], Pos(t)', Pending(t)')
  BY DEF LinesInv
<1>0. user' = user
  BY DEF Next, Press, PressChar, PressCtrlL, PressEnter, PressBackspace, PressLeft, PressRight,
         Switch, StartRead, terminal_read, SeeEnter, TakeEnter, CopyByte, Rewind, ResetBound,
         ZeroByte, Consume, vars
<1>1. Careful
  BY <1>0 DEF Careful
<1>2. LineKept(reader[t], entered[t], line[t], buffer[t], Pos(t), Pending(t))
  BY <1>1 DEF LinesInv
<1>3. ASSUME NEW f \in Terminals, Switch(f)
      PROVE  LineKept(reader'[t], entered'[t], line'[t], buffer'[t], Pos(t)', Pending(t)')
  BY <1>1, <1>2, <1>3, SwitchKeeps DEF Careful
<1>4. CASE ~(\E f \in Terminals : Switch(f)) /\ t # term_cur
  BY <1>2, <1>4, Background
<1>5. CASE ~(\E f \in Terminals : Switch(f)) /\ t = term_cur
  <2> DEFINE r == reader[t]
             e == entered[t]
             l == line[t]
             b == buffer[t]
             p == key_buffer_pos
             k == enter_pressed
             Kept == LineKept(reader'[t], entered'[t], line'[t], buffer'[t], key_buffer_pos', enter_pressed')
  <2>0. /\ r \in Reads /\ e \in Seq(Seq(Chars)) /\ l \in Seq(Chars)
        /\ b \in [Slots -> Chars \cup {NUL}] /\ p \in Nat /\ k \in {0, 1}
        /\ LineKept(r, e, l, b, p, k)
    BY <1>2, <1>5, KeyboardAssumption DEF Typed, TypedEdit, TypedReader, TypedLines, Pos, Pending
  <2>1. /\ reader \in [Terminals -> Reads] /\ term_cur \in Terminals
        /\ line \in [Terminals -> Seq(Chars)] /\ entered \in [Terminals -> Seq(Seq(Chars))]
    BY DEF Typed, TypedEdit, TypedReader, TypedLines
  <2>2. term_cur' = term_cur
    BY <1>5 DEF Next, Press, PressChar, PressCtrlL, PressEnter, PressBackspace, PressLeft,
         PressRight, StartRead, terminal_read, SeeEnter, TakeEnter, CopyByte, Rewind,
         ResetBound, ZeroByte, Consume, vars
  <2>3. SUFFICES Kept
    BY <1>5, <2>2 DEF Pos, Pending
  <2>4. MayType => k = 0 /\ r.pc \in Waiting
    BY <1>1, <1>5 DEF MayType, Careful, Waiting
  <2>5. ASSUME NEW c \in user.letters, PressChar(<<term_cur, c>>)
        PROVE  Kept
    <3>1. <<term_cur, c>> \in Chars
      BY <2>1, <2>5, UserTyped DEF Typed, TypedEdit, Chars
    <3>2. p < KEY_BUFFER_SIZE /\ p \in Slots /\ MayType
      BY <2>0, <2>5, KeyboardAssumption DEF PressChar, HasRoom, Slots
    <3>3. buffer'[t] = [b EXCEPT ![p] = <<term_cur, c>>]
      BY <1>5, <2>5, <3>2, StoreInside DEF PressChar
    <3>4. /\ reader'[t] = r /\ entered'[t] = e /\ line'[t] = Append(l, <<term_cur, c>>)
          /\ key_buffer_pos' = p + 1 /\ enter_pressed' = k
      BY <1>5, <2>1, <2>5 DEF PressChar
    <3> HIDE DEF r, e, l, b, p, k
    <3>k. LineKept(r, e, Append(l, <<term_cur, c>>), [b EXCEPT ![p] = <<term_cur, c>>], p + 1, 0)
      BY <2>0, <2>4, <3>1, <3>2, <3>3, <3>4, CharKept
    <3> QED
      BY <2>4, <3>2, <3>3, <3>4, <3>k
  <2>6. CASE PressEnter
    <3>1. /\ reader'[t] = r /\ entered'[t] = Append(e, l) /\ line'[t] = NoBytes
          /\ buffer'[t] = b /\ key_buffer_pos' = p /\ enter_pressed' = 1 /\ MayType
      BY <1>5, <2>1, <2>6 DEF PressEnter
    <3> HIDE DEF r, e, l, b, p, k
    <3> QED
      BY <2>0, <2>4, <3>1, EnterKept
  <2>7. CASE PressBackspace
    <3>1. p > 0 /\ MayType
      BY <2>7 DEF PressBackspace, Erases
    <3>2. l # NoBytes /\ LineKept(r, e, SubSeq(l, 1, Len(l) - 1), [b EXCEPT ![p - 1] = NUL], p - 1, 0)
      <4> HIDE DEF r, e, l, b, p, k
      <4> QED
        BY <2>0, <2>4, <3>1, EraseKept
    <3>3. p - 1 \in Slots
      <4>1. p <= KEY_BUFFER_SIZE
        <5> HIDE DEF r, e, l, b, p, k
        <5> QED
          BY <2>0, <2>4, <3>1, EraseKept
      <4> QED
        BY <4>1, <3>1, <2>0, KeyboardAssumption DEF Slots
    <3>4. buffer'[t] = [b EXCEPT ![p - 1] = NUL]
      BY <1>5, <2>7, <3>3, StoreInside DEF PressBackspace
    <3>5. /\ reader'[t] = r /\ entered'[t] = e /\ line'[t] = SubSeq(l, 1, Len(l) - 1)
          /\ key_buffer_pos' = p - 1 /\ enter_pressed' = k
      BY <1>5, <2>1, <2>7, <3>2 DEF PressBackspace
    <3> HIDE DEF r, e, l, b, p
    <3> QED
      BY <2>4, <3>1, <3>2, <3>4, <3>5
  <2>8. CASE PressCtrlL \/ PressLeft \/ PressRight
    BY <1>1, <2>8 DEF PressCtrlL, PressLeft, PressRight, Careful
  <2>9. CASE StartRead
    <3>1. PICK n \in ReadSizes :
             reader' = [reader EXCEPT ![term_cur] =
                          [pc |-> "wait", i |-> 0, nbytes |-> n, bytes |-> NoBytes]]
      BY <2>9 DEF StartRead
    <3>2. /\ r.pc = "idle" /\ n \in Nat
          /\ reader'[t] = [pc |-> "wait", i |-> 0, nbytes |-> n, bytes |-> NoBytes]
      BY <1>5, <2>1, <2>9, <3>1, KeyboardAssumption DEF StartRead, At
    <3>3. /\ entered'[t] = e /\ line'[t] = l /\ buffer'[t] = b
          /\ key_buffer_pos' = p /\ enter_pressed' = k
      BY <2>9 DEF StartRead
    <3> HIDE DEF r, e, l, b, p, k
    <3> QED
      BY <2>0, <3>2, <3>3, StartKept
  <2>10. CASE SeeEnter
    <3>1. /\ r.pc = "wait" /\ k = 1 /\ reader'[t] = [r EXCEPT !.pc = "take"]
          /\ entered'[t] = e /\ line'[t] = l /\ buffer'[t] = b
          /\ key_buffer_pos' = p /\ enter_pressed' = k
      BY <1>5, <2>1, <2>10 DEF SeeEnter, At, Goto, EnterSeen, editVars
    <3> HIDE DEF r, e, l, b, p, k
    <3>k. LineKept([r EXCEPT !.pc = "take"], e, l, b, p, k)
      BY <2>0, <3>1, SeeKept
    <3> QED
      BY <3>1, <3>k
  <2>11. CASE TakeEnter
    <3>1. /\ r.pc = "take" /\ reader'[t] = [r EXCEPT !.pc = "copy"]
          /\ entered'[t] = e /\ line'[t] = l /\ buffer'[t] = b
          /\ key_buffer_pos' = p /\ enter_pressed' = 0
      BY <1>5, <2>1, <2>11 DEF TakeEnter, At, Goto, editVars
    <3> HIDE DEF r, e, l, b, p, k
    <3> QED
      BY <2>0, <3>1, TakeKept
  <2> DEFINE q == reader'[t]
  <2>12. CASE CopyByte
    <3> DEFINE y == ByteOf(b, r.i)
    <3>1. y = Byte(r.i)
      BY <1>5 DEF Byte, ByteOf
    <3>2. /\ r.pc = "copy"
          /\ reader'[t] = IF y # NUL /\ r.i < r.nbytes
                          THEN [r EXCEPT !.i = @ + 1, !.bytes = Append(@, y)]
                          ELSE [r EXCEPT !.pc = "rewind"]
      <4> HIDE DEF y
      <4> QED
        BY <1>5, <2>1, <2>12, <3>1 DEF CopyByte, At
    <3>3. /\ y # NUL /\ r.i < r.nbytes =>
                q.pc = "copy" /\ q.i = r.i + 1 /\ q.bytes = Append(r.bytes, y)
          /\ ~(y # NUL /\ r.i < r.nbytes) => q.pc = "rewind" /\ q.bytes = r.bytes
          /\ q.nbytes = r.nbytes
      <4> HIDE DEF y, r
      <4> QED
        BY <2>0, <3>2 DEF Reads
    <3>4. /\ entered'[t] = e /\ line'[t] = l /\ buffer'[t] = b
          /\ key_buffer_pos' = p /\ enter_pressed' = k
      BY <2>12 DEF CopyByte, editVars
    <3>5. LineKept(q, e, l, b, p, k)
      <4>1. /\ ByteOf(b, r.i) # NUL /\ r.i < r.nbytes =>
                  q.pc = "copy" /\ q.i = r.i + 1 /\ q.bytes = Append(r.bytes, ByteOf(b, r.i))
            /\ ~(ByteOf(b, r.i) # NUL /\ r.i < r.nbytes) => q.pc = "rewind" /\ q.bytes = r.bytes
            /\ q.nbytes = r.nbytes /\ r.pc = "copy"
        BY <3>2, <3>3
      <4> HIDE DEF r, e, l, b, p, k, q
      <4> QED
        BY ONLY <2>0, <4>1, CopyKept
    <3> QED
      BY <3>4, <3>5
  <2>13. CASE Rewind
    <3>1. /\ r.pc = "rewind" /\ reader'[t] = [r EXCEPT !.pc = "bound"]
          /\ entered'[t] = e /\ line'[t] = l /\ buffer'[t] = b
          /\ key_buffer_pos' = 0 /\ enter_pressed' = k
      BY <1>5, <2>1, <2>13 DEF Rewind, At, Goto
    <3>2. q.pc = "bound" /\ q.nbytes = r.nbytes /\ q.bytes = r.bytes
      BY <2>0, <3>1 DEF Reads
    <3>3. LineKept(q, e, l, b, 0, k)
      <4> HIDE DEF r, e, l, b, p, k, q
      <4> QED
        BY <2>0, <3>1, <3>2, RewindKept
    <3> QED
      BY <3>1, <3>3
  <2>14. CASE ResetBound
    <3>1. /\ r.pc = "bound" /\ reader'[t] = [r EXCEPT !.pc = "zero", !.i = 0]
          /\ entered'[t] = e /\ line'[t] = l /\ buffer'[t] = b
          /\ key_buffer_pos' = p /\ enter_pressed' = k
      BY <1>5, <2>1, <2>14 DEF ResetBound, At
    <3>2. q.pc = "zero" /\ q.i = 0 /\ q.nbytes = r.nbytes /\ q.bytes = r.bytes
      BY <2>0, <3>1 DEF Reads
    <3>3. LineKept(q, e, l, b, p, k)
      <4> HIDE DEF r, e, l, b, p, k, q
      <4> QED
        BY <2>0, <3>1, <3>2, BoundKept
    <3> QED
      BY <3>1, <3>3
  <2>15. CASE ZeroByte
    <3>1. /\ r.pc = "zero" /\ entered'[t] = e /\ line'[t] = l
          /\ key_buffer_pos' = p /\ enter_pressed' = k
      BY <1>5, <2>15 DEF ZeroByte, At
    <3>2. CASE r.i < KEY_BUFFER_SIZE
      <4>1. r.i \in Slots
        BY <2>0, <3>2, KeyboardAssumption DEF Reads, Slots
      <4>2. buffer'[t] = [b EXCEPT ![r.i] = NUL]
        BY <1>5, <2>15, <3>2, <4>1, StoreInside DEF ZeroByte, MoreToZero
      <4>3. q = [r EXCEPT !.i = @ + 1]
        BY <1>5, <2>1, <2>15, <3>2 DEF ZeroByte, MoreToZero
      <4>4. q.pc = "zero" /\ q.i = r.i + 1 /\ q.nbytes = r.nbytes /\ q.bytes = r.bytes
        BY <2>0, <3>1, <4>3 DEF Reads
      <4>5. LineKept(q, e, l, [b EXCEPT ![r.i] = NUL], p, k)
        <5> HIDE DEF r, e, l, b, p, k, q
        <5> QED
          BY <2>0, <3>1, <3>2, <4>4, ZeroKept, ZenonT(40)
      <4> QED
        BY <3>1, <4>2, <4>5
    <3>3. CASE ~(r.i < KEY_BUFFER_SIZE)
      <4>1. buffer'[t] = b /\ q = [r EXCEPT !.pc = "done"]
        BY <1>5, <2>1, <2>15, <3>3 DEF ZeroByte, MoreToZero, Goto
      <4>2. q.pc = "done" /\ q.nbytes = r.nbytes /\ q.bytes = r.bytes
        BY <2>0, <3>1, <4>1 DEF Reads
      <4>3. LineKept(q, e, l, b, p, k)
        <5> HIDE DEF r, e, l, b, p, k, q
        <5> QED
          BY <2>0, <3>1, <3>3, <4>2, ZeroKept
      <4> QED
        BY <3>1, <4>1, <4>3
    <3> QED
      BY <3>2, <3>3
  <2>16. CASE Consume
    <3>1. /\ r.pc = "done" /\ reader'[t] = Idle
          /\ entered'[t] = IF e = <<>> THEN e ELSE Tail(e)
          /\ line'[t] = l /\ buffer'[t] = b /\ key_buffer_pos' = p /\ enter_pressed' = k
      BY <1>5, <2>1, <2>16 DEF Consume, At, editVars
    <3> HIDE DEF r, e, l, b, p, k
    <3> QED
      BY <2>0, <3>1, ConsumeKept
  <2>17. CASE UNCHANGED vars
    BY <2>0, <2>17 DEF vars, editVars
  <2> QED
    BY <1>5, <2>5, <2>6, <2>7, <2>8, <2>9, <2>10, <2>11, <2>12, <2>13, <2>14, <2>15, <2>16, <2>17
       DEF Next, Press, terminal_read
<1> QED
  BY <1>3, <1>4, <1>5
-----------------------------------------------------------------------------
(***************************************************************************)
(* The cursor of a user at the prompt.                                     *)
(***************************************************************************)
\* At the start no read waits.
LEMMA InitCursor == Init => CursorInv
<1> SUFFICES ASSUME Init, NEW t \in Terminals
             PROVE  /\ right_bound <= 7
                    /\ CursorKept(reader[t].pc, Pos(t), Column(t), Pending(t), Wrapped(t))
  BY KeyboardAssumption DEF CursorInv
<1>1. reader[t] = Idle /\ Pos(t) = 0 /\ Pending(t) = 0 /\ right_bound = 7
  BY DEF Init, Pos, Pending
<1>2. Idle.pc = "idle"
  BY DEF Idle
<1> QED
  BY <1>1, <1>2 DEF CursorKept

\* Only a key pressed while the read waits moves the cursor, and right_bound stays
\* below the bound up to which the arrows are followed.
LEMMA NextCursor ==
    ASSUME PromptColumns = {7}, MAX_BOUND < UINT + 7
    PROVE  Typed /\ CursorInv /\ [Next]_vars => CursorInv'
<1> SUFFICES ASSUME Typed, CursorInv, [Next]_vars, AtPrompt', NEW t \in Terminals
             PROVE  /\ UsesArrows' => right_bound' <= 7 \/ right_bound' <= MAX_BOUND
                    /\ CursorKept(reader'[t].pc, Pos(t)', Column(t)', Pending(t)', Wrapped(t)')
  BY KeyboardAssumption DEF CursorInv
<1>0. user' = user
  BY DEF Next, Press, PressChar, PressCtrlL, PressEnter, PressBackspace, PressLeft, PressRight,
         Switch, StartRead, terminal_read, SeeEnter, TakeEnter, CopyByte, Rewind, ResetBound,
         ZeroByte, Consume, vars
<1>1. AtPrompt /\ (UsesArrows' <=> UsesArrows)
  BY <1>0 DEF AtPrompt, UsesArrows
<1>2. /\ UsesArrows => right_bound <= 7 \/ right_bound <= MAX_BOUND
      /\ CursorKept(reader[t].pc, Pos(t), Column(t), Pending(t), Wrapped(t))
  BY <1>1 DEF CursorInv
<1>3. right_bound \in Int /\ MAX_BOUND \in Nat
  BY KeyboardAssumption DEF Typed, TypedEdit
<1>4. UsesArrows' => right_bound' <= 7 \/ right_bound' <= MAX_BOUND
  <2>1. CASE \E c \in user.letters : PressChar(<<term_cur, c>>)
    BY <1>1, <1>3, <2>1 DEF PressChar
  <2>2. CASE PressEnter \/ ResetBound
    BY <2>2 DEF PressEnter, ResetBound
  <2>3. CASE PressBackspace
    BY <1>1, <1>2, <1>3, <2>3 DEF PressBackspace
  <2>4. CASE right_bound' = right_bound
    BY <1>1, <1>2, <2>4
  <2> QED
    BY <2>1, <2>2, <2>3, <2>4
       DEF Next, Press, PressCtrlL, PressLeft, PressRight, Switch, StartRead, terminal_read,
           SeeEnter, TakeEnter, CopyByte, Rewind, ZeroByte, Consume, vars, editVars
<1>5. ASSUME NEW f \in Terminals, Switch(f)
      PROVE  CursorKept(reader'[t].pc, Pos(t)', Column(t)', Pending(t)', Wrapped(t)')
  BY <1>1, <1>2, <1>5, SwitchKeeps DEF AtPrompt
<1>6. CASE ~(\E f \in Terminals : Switch(f)) /\ t # term_cur
  BY <1>2, <1>4, <1>6, Background
<1>7. CASE ~(\E f \in Terminals : Switch(f)) /\ t = term_cur
  <2> DEFINE c == reader[t].pc
             d == reader'[t].pc
             p == key_buffer_pos
             x == screen_x
             k == enter_pressed
             w == Wrapped(t)
  <2>0. /\ c \in Pcs /\ p \in Nat /\ p < UINT /\ x \in Int /\ k \in {0, 1}
        /\ w \in {0, 1} /\ CursorKept(c, p, x, k, w)
    BY <1>2, <1>7, KeyboardAssumption
       DEF Typed, TypedEdit, TypedReader, Reads, Pos, Column, Pending, Wrapped
  <2>1. reader \in [Terminals -> Reads] /\ term_cur \in Terminals
    BY DEF Typed, TypedEdit, TypedReader
  <2>2. term_cur' = term_cur
    BY <1>7 DEF Next, Press, PressChar, PressCtrlL, PressEnter, PressBackspace, PressLeft,
         PressRight, StartRead, terminal_read, SeeEnter, TakeEnter, CopyByte, Rewind,
         ResetBound, ZeroByte, Consume, vars
  <2>3. SUFFICES CursorKept(d, p', x', k', w')
    BY <1>4, <1>7, <2>2 DEF Pos, Column, Pending
  <2>4. MayType => k = 0 /\ c = "wait" /\ (w = 1 \/ x = 7 + p)
    BY <1>1, <1>7, <2>0 DEF MayType, AtPrompt, CursorKept
  <2>w. wrapped' = wrapped => w' = w
    BY DEF Wrapped
  <2>5. ASSUME NEW y \in user.letters, PressChar(<<term_cur, y>>)
        PROVE  CursorKept(d, p', x', k', w')
    <3>1. /\ MayType /\ p' = p + 1 /\ x' = ColumnAfter(x) /\ k' = k /\ d = c
          /\ wrapped' = wrapped \cup IF AtMargin(x) THEN {term_cur} ELSE {}
      BY <2>5 DEF PressChar
    <3>2. CASE w = 1 \/ AtMargin(x)
      <4>1. w' = 1
        BY <1>7, <3>1, <3>2 DEF Wrapped
      <4> QED
        BY <2>4, <3>1, <4>1 DEF CursorKept
    <3>3. CASE w # 1 /\ ~AtMargin(x)
      <4>1. x' = x + 1 /\ w' = w
        BY <3>1, <3>3 DEF ColumnAfter, Wrapped
      <4> QED
        BY <2>0, <2>4, <3>1, <3>3, <4>1 DEF CursorKept
    <3> QED
      BY <3>2, <3>3
  <2>6. CASE PressCtrlL
    <3>1. MayType /\ p' = 0 /\ x' = 7 /\ k' = k /\ d = c
      BY <2>6 DEF PressCtrlL
    <3> QED
      BY <2>4, <3>1 DEF CursorKept
  <2>7. CASE PressEnter
    <3>1. MayType /\ k' = 1 /\ d = c
      BY <2>7 DEF PressEnter
    <3> QED
      BY <2>4, <3>1 DEF CursorKept
  <2>8. CASE PressBackspace
    <3>1. /\ MayType /\ p > 0 /\ p' = p - 1 /\ x' = ColumnBefore(x) /\ k' = k /\ d = c
          /\ w' = w
      BY <2>8, <2>w DEF PressBackspace, Erases
    <3>2. w # 1 => x' = x - 1
      BY <2>0, <2>4, <3>1 DEF ColumnBefore
    <3> QED
      BY <2>0, <2>4, <3>1, <3>2 DEF CursorKept
  <2>9. CASE PressLeft
    <3>1. /\ MayType /\ x # 7 /\ p' = (p - 1) % UINT /\ x' = x - 1 /\ k' = k /\ d = c
          /\ w' = w
      BY <2>9, <2>w DEF PressLeft
    <3>2. w # 1 => p' = p - 1
      <4> SUFFICES ASSUME w # 1
                   PROVE  p' = p - 1
        OBVIOUS
      <4>1. p - 1 \in Nat /\ p - 1 < UINT /\ UINT \in Nat
        BY <2>0, <2>4, <3>1, KeyboardAssumption
      <4> QED
        BY ONLY <3>1, <4>1, NoWrap
    <3> QED
      BY <2>0, <2>4, <3>1, <3>2 DEF CursorKept
  <2>10. CASE PressRight
    <3>1. /\ MayType /\ x < right_bound /\ p' = (p + 1) % UINT /\ x' = x + 1
          /\ k' = k /\ d = c /\ UsesArrows /\ w' = w
      BY <2>10, <2>w DEF PressRight, UsesArrows, Arrows
    <3>2. w # 1 => p' = p + 1
      <4> SUFFICES ASSUME w # 1
                   PROVE  p' = p + 1
        OBVIOUS
      <4>1. p + 1 < UINT
        BY <1>2, <1>3, <2>0, <2>4, <3>1, KeyboardAssumption
      <4>2. p + 1 \in Nat /\ UINT \in Nat
        BY <2>0, KeyboardAssumption
      <4> QED
        BY ONLY <3>1, <4>1, <4>2, NoWrap
    <3> QED
      BY <2>0, <2>4, <3>1, <3>2 DEF CursorKept
  <2>11. CASE StartRead
    <3>1. c = "idle" /\ d = "wait" /\ x' = 7 /\ p' = p /\ k' = k
      BY <1>7, <2>1, <2>11 DEF StartRead, At
    <3> QED
      BY <2>0, <3>1 DEF CursorKept
  <2>12. CASE SeeEnter
    <3>1. c = "wait" /\ k = 1 /\ d = "take" /\ k' = k
      BY <1>7, <2>1, <2>12 DEF SeeEnter, At, Goto, EnterSeen, editVars, Reads
    <3> QED
      BY <2>0, <3>1 DEF CursorKept
  <2>13. CASE TakeEnter
    <3>1. d = "copy" /\ k' = 0
      BY <1>7, <2>1, <2>13 DEF TakeEnter, At, Goto, editVars, Reads
    <3> QED
      BY <3>1 DEF CursorKept
  <2>14. CASE CopyByte
    <3>1. c = "copy" /\ d \in {"copy", "rewind"} /\ k' = k
      BY <1>7, <2>1, <2>14 DEF CopyByte, At, editVars, Reads
    <3> QED
      BY <2>0, <3>1 DEF CursorKept
  <2>15. CASE Rewind
    <3>1. c = "rewind" /\ d = "bound" /\ k' = k /\ p' = 0
      BY <1>7, <2>1, <2>15 DEF Rewind, At, Goto, Reads
    <3> QED
      BY <2>0, <3>1 DEF CursorKept
  <2>16. CASE ResetBound
    <3>1. c = "bound" /\ d = "zero" /\ k' = k /\ p' = p
      BY <1>7, <2>1, <2>16 DEF ResetBound, At, Reads
    <3> QED
      BY <2>0, <3>1 DEF CursorKept
  <2>17. CASE ZeroByte
    <3>1. c = "zero" /\ d \in {"zero", "done"} /\ k' = k /\ p' = p
      BY <1>7, <2>1, <2>17 DEF ZeroByte, At, Goto, Reads
    <3> QED
      BY <2>0, <3>1 DEF CursorKept
  <2>18. CASE Consume
    <3>1. c = "done" /\ d = "idle" /\ k' = k /\ p' = p
      BY <1>7, <2>1, <2>18 DEF Consume, At, Idle, editVars
    <3> QED
      BY <2>0, <3>1 DEF CursorKept
  <2>19. CASE UNCHANGED vars
    BY <2>0, <2>w, <2>19 DEF vars, editVars
  <2> QED
    BY <1>7, <2>5, <2>6, <2>7, <2>8, <2>9, <2>10, <2>11, <2>12, <2>13, <2>14, <2>15, <2>16,
       <2>17, <2>18, <2>19 DEF Next, Press, terminal_read
<1> QED
  BY <1>4, <1>5, <1>6, <1>7
-----------------------------------------------------------------------------
(***************************************************************************)
(* The theorems.                                                           *)
(***************************************************************************)
\* The buffers are empty and nothing has been read at the start.
LEMMA InitBuffers == Init => KeysInBounds /\ NoCrossTalk
<1> SUFFICES ASSUME Init
             PROVE  KeysInBounds /\ NoCrossTalk
  OBVIOUS
<1>1. KeysInBounds
  BY KeyboardAssumption DEF Init, KeysInBounds, InBounds
<1>2. Len(Idle.bytes) = 0
  BY DEF Idle, NoBytes
<1>3. NoCrossTalk
  <2> SUFFICES ASSUME NEW t \in Terminals
               PROVE  /\ \A i \in Slots : buffer[t][i] = NUL
                      /\ 1..Len(reader[t].bytes) = {}
    BY DEF NoCrossTalk
  <2> QED
    BY <1>2 DEF Init
<1> QED
  BY <1>1, <1>3

\* Every value stays of its kind: the position in 0..UINT-1, the buffers in their
\* terminals, whatever is typed and wherever terminal_read is interrupted.
THEOREM TypeCorrect == Spec => []TypeOK
<1>1. Typed => TypeOK
  BY DEF Typed, TypedEdit, TypedReader, TypedLines, TypeOK, Reads, Pcs
<1> QED
  BY <1>1, InitTyped, NextTyped, PTL DEF Spec

\* Without the arrow keys no store of the keyboard handler leaves key_buffer, for
\* every number of terminals and size of the buffer.
THEOREM BufferBounds == Spec => []KeysInBounds
  BY InitTyped, NextTyped, InitBuffers, NextInBounds, PTL DEF Spec

\* What is typed in one terminal never reaches the buffer or the read of another.
THEOREM NoMixing == Spec => []NoCrossTalk
  BY InitTyped, NextTyped, InitBuffers, NextNoCrossTalk, PTL DEF Spec

\* A careful user's reads return his lines one by one, each cut to the size of the
\* caller's buffer, for lines, buffers and numbers of terminals of every size.
THEOREM ReadsOneLine == Spec => []PatientOneLine
<1>1. Typed /\ LinesInv => PatientOneLine
  <2> SUFFICES ASSUME Typed, LinesInv, Careful, NEW t \in Terminals, reader[t].pc = "done"
               PROVE  /\ entered[t] # <<>>
                      /\ reader[t].bytes = Cut(Head(entered[t]), reader[t].nbytes)
    BY DEF PatientOneLine, OneLine, Careful
  <2>1. LineKept(reader[t], entered[t], line[t], buffer[t], Pos(t), Pending(t))
    BY DEF LinesInv
  <2>2. /\ entered[t] \in Seq(Seq(Chars)) /\ Pending(t) \in {0, 1}
        /\ reader[t].bytes = Cut(entered[t][1], reader[t].nbytes)
        /\ Len(entered[t]) = 1 + Pending(t)
    BY <2>1 DEF LineKept, Typed, TypedLines, TypedEdit, Pending
  <2>3. Head(entered[t]) = entered[t][1] /\ entered[t] # <<>>
    BY <2>2
  <2> QED
    BY <2>2, <2>3
<1> QED
  BY <1>1, InitTyped, NextTyped, InitLines, NextLines, PTL DEF Spec

\* At a prompt of 7 columns, the shell's, the cursor shows where the next edit
\* goes, whatever keys a prompted user presses in whichever terminal.
THEOREM CursorMoves ==
    ASSUME PromptColumns = {7}, MAX_BOUND < UINT + 7
    PROVE  Spec => []CursorAligned
<1>1. CursorInv => CursorAligned
  BY DEF CursorInv, CursorAligned, CursorKept, AtPrompt, Pos, Column, Pending, Wrapped
<1>2. Typed /\ CursorInv /\ [Next]_vars => CursorInv'
  BY NextCursor
<1> QED
  BY <1>1, <1>2, InitTyped, NextTyped, InitCursor, PTL DEF Spec
=============================================================================
