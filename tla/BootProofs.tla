----------------------------- MODULE BootProofs -----------------------------
(***************************************************************************)
(* The boot and the modifier keys, for every size of the line buffer and   *)
(* every user.  The stages entry has behind it say what is set up: BootInv *)
(* is inductive.                                                           *)
(***************************************************************************)
EXTENDS Boot, TLAPS

\* The stages from a step of entry on.
Typing == {"banner", "execute", "shell"}
FromPosition == {"position"} \cup Typing
FromBuffer == {"buffer"} \cup FromPosition
FromInit == {"init"} \cup FromBuffer
FromBlank == {"blank", "front"} \cup FromInit
FromTerminals == {"terminals", "map"} \cup FromBlank
FromKeyboard == {"keyboard", "paging"} \cup FromTerminals
FromPic == {"pic"} \cup FromKeyboard
Stages == Ended \cup FromPic \cup {"clear", "modules", "bits", "descriptors"}

\* The modifier keys and the flags of the handler.
ModTyped ==
    /\ user \in Behaviours
    /\ stage \in Stages
    /\ held \in SUBSET user.modifiers
    /\ shift_pressed \in {0, 1} /\ capslock_state \in {0, 1}
    /\ ctrl_pressed \in {0, 1} /\ alt_pressed \in {0, 1}
    /\ mixed \in BOOLEAN
    /\ keys_state \in 0..3
    /\ ctrl_pressed = 1 => "CTRL" \in user.modifiers

\* The line.
LineTyped ==
    /\ buffer \in [Slots -> Characters \cup {NUL}]
    /\ key_buffer_pos \in 0..UINT - 1
    /\ line \in Seq(Characters)
    /\ enter_pressed \in {0, 1}

\* What entry has set up by now.
MachineInv ==
    /\ pic \in [master : Nat, slave : Nat, lines : SUBSET Nat]
    /\ stage \in FromPic => "tss" \in gdt
    /\ stage \in FromKeyboard => pic.master = 32 /\ pic.slave = 40
    /\ pageDir = [e \in Entries |-> pageDir[e]]
    /\ stage \in FromTerminals =>
          /\ pageDir["low"] = Table(PageTable, FALSE)
          /\ pageDir["kernel"] = Block(KernelFrame, FALSE)
          /\ pageTable[VID_MEM_LOC] = Block(VIDEO, FALSE)
    /\ stage \in FromBlank =>
          /\ pageDir["TERM_MEM"] = Table(UserTable, TRUE)
          /\ \A p \in 1..3 : userTable[p] = Block(TermFrame(p), TRUE)
    /\ stage = "shell" => pageDir["VIRTUAL_START"] = Block(ProgramFrame(0), TRUE)

\* The terminal in front.
TermInv ==
    /\ term_cur \in 0..1 /\ init \subseteq {term_cur} /\ key_buffer \in 0..term_cur
    /\ term_cur = 0 => init = {}
    /\ stage \in FromInit => term_cur = 1
    /\ stage \in FromBuffer => init = {1}
    /\ stage \in FromPosition => key_buffer = 1

\* The line l is in the buffer b, and nothing is after it.
Holds(b, l) ==
    /\ Len(l) <= KEY_BUFFER_SIZE
    /\ \A i \in Slots : i < Len(l) => b[i] = l[i + 1]
Clean(b, l) == \A i \in Slots : i >= Len(l) => b[i] = NUL

\* The buffer holds the line from the moment terminal 1 has it; for whoever waits
\* and has no Ctrl key there is nothing else in it.
LineInv ==
    /\ stage \in Typing /\ user.types # "arrows" =>
          key_buffer_pos = Len(line) /\ Holds(buffer, line)
    /\ user.types = "waits" /\ "CTRL" \notin user.modifiers =>
          /\ stage \in Typing => Clean(buffer, line)
          /\ stage \notin Typing \cup Ended => \A i \in Slots : buffer[i] = NUL

BootInv == ModTyped /\ KeysState /\ LineTyped /\ MachineInv /\ TermInv /\ LineInv
-----------------------------------------------------------------------------
\* A stage is one string.
LEMMA StageSets ==
    /\ Typing \subseteq FromPosition /\ FromPosition \subseteq FromBuffer
    /\ FromBuffer \subseteq FromInit /\ FromInit \subseteq FromBlank
    /\ FromBlank \subseteq FromTerminals /\ FromTerminals \subseteq FromKeyboard
    /\ FromKeyboard \subseteq FromPic /\ FromPic \subseteq Stages
  BY DEF Typing, FromPosition, FromBuffer, FromInit, FromBlank, FromTerminals, FromKeyboard,
         FromPic, Stages

\* The boot loader's state.
LEMMA InitBoot == Init => BootInv
<1> SUFFICES ASSUME Init
             PROVE  BootInv
  OBVIOUS
<1>1. user \in Behaviours /\ held \in SUBSET user.modifiers /\ stage = "clear"
  BY BootAssumption DEF Init
<1>2. stage \in Stages /\ stage \notin FromPic \cup Ended
  BY <1>1 DEF Typing, FromPosition, FromBuffer, FromInit, FromBlank, FromTerminals,
              FromKeyboard, FromPic, Stages, Ended
<1>3. stage \notin FromKeyboard \cup FromTerminals \cup FromBlank \cup FromInit \cup FromBuffer
                    \cup FromPosition \cup Typing /\ stage # "shell"
  BY <1>1, <1>2, StageSets
<1>4. ModTyped
  BY <1>1, <1>2 DEF Init, ModTyped
<1>5. KeysState
  <2>1. mixed <=> held \cap Shifts # {}
    BY Zenon DEF Init
  <2> QED
    BY <2>1 DEF Init, KeysState, Bit
<1>6. LineTyped
  BY BootAssumption DEF Init, LineTyped
<1>7. MachineInv
  BY <1>2, <1>3 DEF Init, MachineInv, PagingOff
<1>8. TermInv
  BY <1>3 DEF Init, TermInv
<1>9. LineInv
  BY <1>3 DEF Init, LineInv
<1> QED
  BY <1>4, <1>5, <1>6, <1>7, <1>8, <1>9 DEF BootInv

\* The steps of entry leave the modifiers alone, and the keys the machine.
LEMMA Apart ==
    /\ entry => UNCHANGED <<user, modVars>>
    /\ keyboard_handler => UNCHANGED <<user, machine, pageVars, terms>>
  BY DEF entry, CheckMagic, LoadModules, CheckBits, LoadDescriptors, InitPic, InitKeyboard,
         InitPaging, ZeroTerminals, MapTerminals, BlankFrames, BringToFront, SetInit, SetBuffer,
         SetPosition, PrintBanner, ExecuteShell, Setup, KeepKeys, loadVars, modVars,
         keyboard_handler, ShiftDown, ShiftUp, CapsDown, CapsUp, Ctrl, Alt, PressFunction,
         PressWithCtrl, PressChar, PressEnter, PressBackspace, PressArrow, KeepRest, machine,
         pageVars, terms

\* The next step of entry, or the end of it.
LEMMA EntryStages ==
    ASSUME stage \in Stages, entry
    PROVE  /\ stage' \in Stages
           /\ stage' \in FromPic => stage \in FromPic \cup {"descriptors"}
           /\ stage' \in FromKeyboard => stage \in FromKeyboard \cup {"pic"}
           /\ stage' \in FromTerminals => stage \in FromTerminals \cup {"paging"}
           /\ stage' \in FromBlank => stage \in FromBlank \cup {"map"}
           /\ stage' \in FromInit => stage \in FromInit \cup {"front"}
           /\ stage' \in FromBuffer => stage \in FromBuffer \cup {"init"}
           /\ stage' \in FromPosition => stage \in FromPosition \cup {"buffer"}
           /\ stage' \in Typing => stage \in Typing \cup {"position"}
           /\ stage' = "shell" => stage = "execute"
           /\ stage \notin Ended
  BY DEF entry, CheckMagic, LoadModules, CheckBits, LoadDescriptors, InitPic, InitKeyboard,
         InitPaging, ZeroTerminals, MapTerminals, BlankFrames, BringToFront, SetInit, SetBuffer,
         SetPosition, PrintBanner, ExecuteShell, Setup, At, Then,
         Typing, FromPosition, FromBuffer, FromInit, FromBlank, FromTerminals,
         FromKeyboard, FromPic, Stages, Ended

\* A key leaves the stage, or ends the boot.
LEMMA KeyStages ==
    keyboard_handler => stage' = stage \/ stage' \in {"faulted", "away"}
  BY DEF keyboard_handler, ShiftDown, ShiftUp, CapsDown, CapsUp, Ctrl, Alt, PressFunction,
         PressWithCtrl, PressChar, PressEnter, PressBackspace, PressArrow, KeepLine, Faults

\* Who holds what: the modifier keys.
LEMMA ModStep ==
    ASSUME ModTyped, KeysState, [Next]_vars
    PROVE  ModTyped' /\ KeysState'
<1> USE DEF ModTyped, KeysState
<1>1. CASE entry
  <2>1. stage' \in Stages
    BY <1>1, EntryStages
  <2> QED
    BY <1>1, <2>1, Apart DEF modVars, Bit
<1>2. CASE UNCHANGED vars
  BY <1>2 DEF vars, modVars, loadVars, Bit
<1>3. CASE keyboard_handler
  <2>0. user' = user /\ stage' \in Stages
    BY <1>3, Apart, KeyStages DEF Stages, Ended
  <2>1. ASSUME NEW k \in Shifts, ShiftDown(k)
        PROVE  ModTyped' /\ KeysState'
    BY <2>0, <2>1 DEF ShiftDown, Down, Shifts, Bit
  <2>2. ASSUME NEW k \in Shifts, ShiftUp(k)
        PROVE  ModTyped' /\ KeysState'
    <3>1. (mixed' <=> held' \cap Shifts # {}) /\ mixed' \in BOOLEAN
      BY <2>2, Zenon DEF ShiftUp
    <3> QED
      BY <2>0, <2>2, <3>1 DEF ShiftUp, Up, Shifts, Bit, Unshifted
  <2>3. CASE CapsDown
    <3>1. (mixed' <=> held \cap Shifts # {}) /\ mixed' \in BOOLEAN
      BY <2>3, Zenon DEF CapsDown
    <3> QED
      BY <2>0, <2>3, <3>1 DEF CapsDown, Down, Shifts, Bit
  <2>4. CASE CapsUp
    BY <2>0, <2>4 DEF CapsUp, Up, Shifts, Bit
  <2>5. ASSUME NEW pressed \in {0, 1}, Ctrl(pressed)
        PROVE  ModTyped' /\ KeysState'
    BY <2>0, <2>5 DEF Ctrl, Up, Down, Shifts, Bit
  <2>6. ASSUME NEW pressed \in {0, 1}, Alt(pressed)
        PROVE  ModTyped' /\ KeysState'
    BY <2>0, <2>6 DEF Alt, Up, Down, Shifts, Bit
  <2>7. CASE UNCHANGED modVars
    BY <2>0, <2>7 DEF modVars, Bit
  <2>8. \/ \E k \in Shifts : ShiftDown(k) \/ ShiftUp(k)
        \/ CapsDown \/ CapsUp
        \/ \E pressed \in {0, 1} : Ctrl(pressed) \/ Alt(pressed)
        \/ UNCHANGED modVars
    BY <1>3 DEF keyboard_handler, PressFunction, PressWithCtrl, PressChar, PressEnter,
                PressBackspace, PressArrow, KeepMods
  <2> QED
    BY <2>1, <2>2, <2>3, <2>4, <2>5, <2>6, <2>7, <2>8
<1> QED
  BY <1>1, <1>2, <1>3 DEF Next

\* A letter key gives a character of its column.
LEMMA CharacterTyped ==
    ASSUME ModTyped, NEW k \in user.letters
    PROVE  key_scancodes[k][keys_state + 1] \in Characters
<1>1. k \in Letters /\ keys_state + 1 \in 1..4
  BY DEF ModTyped, Behaviours
<1> QED
  BY <1>1 DEF Characters

\* The keys that change the line, and what the others leave.
LEMMA LineKeys ==
    ASSUME keyboard_handler
    PROVE  \/ \E k \in user.letters : PressWithCtrl(k)
           \/ \E k \in user.letters : PressChar(k) /\ ~StoreFaults
           \/ PressEnter
           \/ PressBackspace /\ ~StoreFaults
           \/ \E step \in {-1, 1} : PressArrow(step)
           \/ UNCHANGED lineVars
  BY DEF keyboard_handler, ShiftDown, ShiftUp, CapsDown, CapsUp, Ctrl, Alt, PressFunction,
         PressChar, PressBackspace, KeepLine, Faults

\* The steps of entry that change the line.
LEMMA LineSteps ==
    ASSUME entry
    PROVE  InitKeyboard \/ ZeroTerminals \/ SetPosition \/ UNCHANGED lineVars
  BY DEF entry, CheckMagic, LoadModules, CheckBits, LoadDescriptors, InitPic,
         InitPaging, MapTerminals, BlankFrames, BringToFront, SetInit, SetBuffer,
         PrintBanner, ExecuteShell, Setup, KeepTerms

\* The line keeps its type.
LEMMA LineTypedStep ==
    ASSUME ModTyped, LineTyped, [Next]_vars
    PROVE  LineTyped'
<1> USE BootAssumption DEF LineTyped
<1>1. CASE UNCHANGED lineVars
  BY <1>1 DEF lineVars
<1>2. CASE InitKeyboard \/ ZeroTerminals \/ SetPosition
  <2>1. CASE InitKeyboard
    BY <2>1 DEF InitKeyboard
  <2>2. CASE ZeroTerminals
    BY <2>2 DEF ZeroTerminals
  <2>3. CASE SetPosition
    BY <2>3 DEF SetPosition, StartPosition
  <2> QED
    BY <1>2, <2>1, <2>2, <2>3
<1>3. ASSUME NEW k \in user.letters, PressWithCtrl(k)
      PROVE  LineTyped'
  BY <1>3 DEF PressWithCtrl
<1>4. ASSUME NEW k \in user.letters, PressChar(k), ~StoreFaults
      PROVE  LineTyped'
  <2> DEFINE c == key_scancodes[k][keys_state + 1]
  <2>1. c \in Characters
    BY CharacterTyped
  <2> HIDE DEF c
  <2>2. /\ key_buffer_pos < KEY_BUFFER_SIZE /\ key_buffer_pos' = key_buffer_pos + 1
        /\ buffer' = Stored(key_buffer_pos, c) /\ enter_pressed' = enter_pressed
        /\ line' = line \/ line' = Append(line, c)
    BY <1>4 DEF PressChar, c
  <2>3. buffer' \in [Slots -> Characters \cup {NUL}]
    BY <2>1, <2>2 DEF Stored
  <2>4. line' \in Seq(Characters)
    BY <2>1, <2>2
  <2> QED
    BY <2>2, <2>3, <2>4
<1>5. CASE PressEnter
  BY <1>5 DEF PressEnter
<1>6. CASE PressBackspace /\ ~StoreFaults
  <2>1. /\ key_buffer_pos > 0 /\ key_buffer_pos' = key_buffer_pos - 1
        /\ buffer' = Stored(key_buffer_pos - 1, NUL) /\ enter_pressed' = enter_pressed
        /\ line' = IF line = <<>> THEN line ELSE SubSeq(line, 1, Len(line) - 1)
    BY <1>6 DEF PressBackspace, Erases
  <2>2. buffer' \in [Slots -> Characters \cup {NUL}]
    BY <2>1 DEF Stored
  <2>3. line' \in Seq(Characters)
    BY <2>1
  <2> QED
    BY <2>1, <2>2, <2>3
<1>7. ASSUME NEW step \in {-1, 1}, PressArrow(step)
      PROVE  LineTyped'
  <2>1. (key_buffer_pos + step) % UINT \in 0..UINT - 1
    OBVIOUS
  <2> QED
    BY <1>7, <2>1 DEF PressArrow
<1> QED
  BY <1>1, <1>2, <1>3, <1>4, <1>5, <1>6, <1>7, LineKeys, LineSteps DEF Next, vars

\* Once entry has set up a part of the machine it stays.
LEMMA MachineStep ==
    ASSUME stage \in Stages, MachineInv, [Next]_vars
    PROVE  MachineInv'
<1> USE DEF MachineInv
<1>1. CASE UNCHANGED vars
  BY <1>1 DEF vars, machine, pageVars
<1>2. CASE keyboard_handler
  <2>1. stage' = stage \/ stage' \notin FromPic
    BY <1>2, KeyStages DEF Typing, FromPosition, FromBuffer, FromInit, FromBlank,
              FromTerminals, FromKeyboard, FromPic
  <2>2. stage' \notin FromPic => /\ stage' \notin FromKeyboard /\ stage' \notin FromTerminals
                                 /\ stage' \notin FromBlank /\ stage' # "shell"
    BY StageSets DEF Typing
  <2>3. UNCHANGED <<machine, pageVars>>
    BY <1>2, Apart
  <2> QED
    BY <2>1, <2>2, <2>3 DEF machine, pageVars
<1>3. CASE entry
  <2>0. /\ stage' \in FromPic => stage \in FromPic \cup {"descriptors"}
        /\ stage' \in FromKeyboard => stage \in FromKeyboard \cup {"pic"}
        /\ stage' \in FromTerminals => stage \in FromTerminals \cup {"paging"}
        /\ stage' \in FromBlank => stage \in FromBlank \cup {"map"}
        /\ stage' = "shell" => stage = "execute"
    BY <1>3, EntryStages
  <2>1. "descriptors" \notin FromPic /\ "pic" \notin FromKeyboard
        /\ "paging" \notin FromTerminals /\ "map" \notin FromBlank
    BY DEF Typing, FromPosition, FromBuffer, FromInit, FromBlank, FromTerminals,
           FromKeyboard, FromPic
  <2>2. /\ pic' \in [master : Nat, slave : Nat, lines : SUBSET Nat]
        /\ stage' \in FromKeyboard => pic'.master = 32 /\ pic'.slave = 40
    <3>1. CASE InitPic
      BY <3>1 DEF InitPic, i8259_init, Enabled, SLAVE_IRQ_LINE
    <3>2. CASE InitKeyboard
      <4>1. stage = "keyboard" /\ "keyboard" \in FromKeyboard
        BY <3>2 DEF InitKeyboard, At, FromKeyboard
      <4>2. pic' = [pic EXCEPT !.lines = pic.lines \cup {1}]
        BY <3>2 DEF InitKeyboard, enable_irq, Enabled, KEYBOARD_IRQ_LINE
      <4> QED
        BY <4>1, <4>2
    <3>3. CASE pic' = pic /\ stage # "pic"
      BY <2>0, <3>3
    <3> QED
      BY <1>3, <3>1, <3>2, <3>3
         DEF entry, CheckMagic, LoadModules, CheckBits, LoadDescriptors,
             InitPaging, ZeroTerminals, MapTerminals, BlankFrames, BringToFront, SetInit,
             SetBuffer, SetPosition, PrintBanner, ExecuteShell, Setup, At, machine
  <2>3. stage' \in FromPic => "tss" \in gdt'
    <3>1. CASE LoadDescriptors
      BY <3>1 DEF LoadDescriptors
    <3>2. CASE gdt' = gdt /\ stage # "descriptors"
      BY <2>0, <3>2
    <3> QED
      BY <1>3, <3>1, <3>2
         DEF entry, CheckMagic, LoadModules, CheckBits, InitPic, InitKeyboard,
             InitPaging, ZeroTerminals, MapTerminals, BlankFrames, BringToFront, SetInit,
             SetBuffer, SetPosition, PrintBanner, ExecuteShell, Setup, At, machine
  <2> DEFINE Pages ==
        /\ pageDir = [e \in Entries |-> pageDir[e]]
        /\ stage \in FromTerminals =>
              /\ pageDir["low"] = Table(PageTable, FALSE)
              /\ pageDir["kernel"] = Block(KernelFrame, FALSE)
              /\ pageTable[VID_MEM_LOC] = Block(VIDEO, FALSE)
        /\ stage \in FromBlank =>
              /\ pageDir["TERM_MEM"] = Table(UserTable, TRUE)
              /\ \A p \in 1..3 : userTable[p] = Block(TermFrame(p), TRUE)
        /\ stage = "shell" => pageDir["VIRTUAL_START"] = Block(ProgramFrame(0), TRUE)
  <2>4. Pages'
    <3>1. CASE InitPaging
      <4>1. stage = "paging" /\ stage' = "terminals"
        BY <3>1 DEF InitPaging, Setup, At, Then
      <4>2. stage' \notin FromBlank
        BY <2>0, <2>1, <4>1 DEF Typing, FromPosition, FromBuffer, FromInit, FromBlank
      <4>3. /\ pageDir' = [e \in Entries |->
                      CASE e = "low"    -> Table(PageTable, FALSE)
                        [] e = "kernel" -> Block(KernelFrame, FALSE)
                        [] OTHER        -> Absent]
            /\ pageTable' = [p \in {VID_MEM_LOC} |-> Block(VIDEO, FALSE)]
        BY <3>1 DEF InitPaging, init_paging
      <4>4. /\ pageDir'["low"] = Table(PageTable, FALSE)
            /\ pageDir'["kernel"] = Block(KernelFrame, FALSE)
            /\ pageTable'[VID_MEM_LOC] = Block(VIDEO, FALSE)
            /\ pageDir' = [e \in Entries |-> pageDir'[e]]
        BY <4>3 DEF Entries
      <4> QED
        BY <4>1, <4>2, <4>4
    <3>2. CASE MapTerminals
      <4>1. stage = "map" /\ stage' = "blank" /\ "map" \in FromTerminals
        BY <3>2 DEF MapTerminals, Setup, At, Then, FromTerminals
      <4>2. /\ pageDir' = [pageDir EXCEPT !["TERM_MEM"] = Table(UserTable, TRUE)]
            /\ pageTable' = pageTable
            /\ userTable' = [p \in 0..3 |-> IF p \in DOMAIN TerminalFrames
                                            THEN Block(TerminalFrames[p], TRUE)
                                            ELSE userTable[p]]
        BY <3>2 DEF MapTerminals, remapToPages
      <4>3. \A p \in 1..3 : userTable'[p] = Block(TermFrame(p), TRUE)
        <5>1. /\ DOMAIN TerminalFrames = 1..3
              /\ \A p \in 1..3 : TerminalFrames[p] = TermFrame(p)
          BY DEF TerminalFrames
        <5> SUFFICES ASSUME NEW p \in 1..3
                     PROVE  userTable'[p] = Block(TermFrame(p), TRUE)
          OBVIOUS
        <5>2. p \in 0..3 /\ p \in DOMAIN TerminalFrames /\ TerminalFrames[p] = TermFrame(p)
          BY <5>1
        <5>3. userTable' = [q \in 0..3 |-> IF q \in DOMAIN TerminalFrames
                                           THEN Block(TerminalFrames[q], TRUE)
                                           ELSE userTable[q]]
          BY <4>2
        <5> QED
          BY ONLY <5>2, <5>3
      <4>4. /\ pageDir'["TERM_MEM"] = Table(UserTable, TRUE)
            /\ pageDir'["low"] = pageDir["low"] /\ pageDir'["kernel"] = pageDir["kernel"]
            /\ pageDir' = [e \in Entries |-> pageDir'[e]]
        BY <4>2 DEF Entries
      <4> QED
        BY <4>1, <4>2, <4>3, <4>4
    <3>3. CASE ExecuteShell
      <4>1. stage = "execute" /\ "execute" \in FromTerminals /\ "execute" \in FromBlank
        BY <3>3 DEF ExecuteShell, Setup, At, Typing, FromPosition, FromBuffer, FromInit,
                    FromBlank, FromTerminals
      <4>2. \/ pageDir' = [pageDir EXCEPT !["VIRTUAL_START"] = Block(ProgramFrame(0), TRUE)]
            \/ pageDir' = pageDir /\ stage' # "shell"
        BY <3>3 DEF ExecuteShell, Setup, Then, remap, pageVars
      <4>3. pageTable' = pageTable /\ userTable' = userTable
        BY <3>3 DEF ExecuteShell, remap, pageVars
      <4>4. /\ pageDir'["TERM_MEM"] = pageDir["TERM_MEM"]
            /\ pageDir'["low"] = pageDir["low"] /\ pageDir'["kernel"] = pageDir["kernel"]
            /\ pageDir' = [e \in Entries |-> pageDir'[e]]
            /\ stage' = "shell" => pageDir'["VIRTUAL_START"] = Block(ProgramFrame(0), TRUE)
        BY <4>2 DEF Entries
      <4> QED
        BY <4>1, <4>3, <4>4
    <3>4. CASE UNCHANGED pageVars /\ stage # "paging" /\ stage # "map" /\ stage # "execute"
      BY <2>0, <3>4 DEF pageVars
    <3> QED
      BY <1>3, <3>1, <3>2, <3>3, <3>4
         DEF entry, CheckMagic, LoadModules, CheckBits, LoadDescriptors, InitPic, InitKeyboard,
             ZeroTerminals, BlankFrames, BringToFront, SetInit,
             SetBuffer, SetPosition, PrintBanner, Setup, At, pageVars
  <2> QED
    BY <2>2, <2>3, <2>4
<1> QED
  BY <1>1, <1>2, <1>3 DEF Next

\* The terminal in front, and its buffer.
LEMMA TermStep ==
    ASSUME stage \in Stages, TermInv, [Next]_vars
    PROVE  TermInv'
<1> USE DEF TermInv
<1>1. CASE UNCHANGED vars
  BY <1>1 DEF vars, terms
<1>2. CASE keyboard_handler
  <2>1. stage' = stage \/ (stage' \notin FromInit /\ stage' \notin FromBuffer /\ stage' \notin FromPosition)
    BY <1>2, KeyStages DEF Typing, FromPosition, FromBuffer, FromInit
  <2> QED
    BY <1>2, <2>1, Apart DEF terms
<1>3. CASE entry
  <2>0. /\ stage' \in FromInit => stage \in FromInit \cup {"front"}
        /\ stage' \in FromBuffer => stage \in FromBuffer \cup {"init"}
        /\ stage' \in FromPosition => stage \in FromPosition \cup {"buffer"}
    BY <1>3, EntryStages
  <2>1. CASE ZeroTerminals
    <3>1. stage = "terminals" /\ init' = {} /\ term_cur' = term_cur /\ key_buffer' = key_buffer
      BY <2>1 DEF ZeroTerminals, At
    <3>2. stage \notin FromInit \cup {"front"}
      BY <3>1 DEF Typing, FromPosition, FromBuffer, FromInit
    <3>3. stage' \notin FromInit /\ stage' \notin FromBuffer /\ stage' \notin FromPosition
      BY <2>0, <3>2 DEF FromInit, FromBuffer
    <3> QED
      BY <3>1, <3>3
  <2>2. CASE BringToFront
    <3>1. /\ stage = "front" /\ term_cur' = 1 /\ init' = init /\ key_buffer' = key_buffer
          /\ stage' = "init"
      BY <2>2 DEF BringToFront, At, Then
    <3>2. stage' \notin FromBuffer /\ stage' \notin FromPosition
      BY <3>1 DEF Typing, FromPosition, FromBuffer
    <3> QED
      BY <3>1, <3>2
  <2>3. CASE SetInit
    <3>1. /\ stage = "init" /\ term_cur' = term_cur /\ init' = init \cup {term_cur}
          /\ key_buffer' = key_buffer /\ stage' = "buffer"
      BY <2>3 DEF SetInit, At, Then
    <3>2. stage' \notin FromPosition /\ stage \in FromInit
      BY <3>1 DEF Typing, FromPosition, FromInit
    <3>3. term_cur = 1 /\ init' = {1}
      BY <3>1, <3>2
    <3> QED
      BY <3>1, <3>2, <3>3
  <2>4. CASE SetBuffer
    <3>1. /\ stage = "buffer" /\ term_cur' = term_cur /\ init' = init
          /\ key_buffer' = term_cur /\ stage' = "position"
      BY <2>4 DEF SetBuffer, At, Then
    <3>2. stage \in FromBuffer /\ stage \in FromInit
      BY <3>1 DEF FromBuffer, FromInit
    <3> QED
      BY <3>1, <3>2
  <2>5. CASE UNCHANGED terms /\ stage # "front" /\ stage # "init" /\ stage # "buffer"
    BY <2>0, <2>5 DEF terms
  <2> QED
    BY <1>3, <2>1, <2>2, <2>3, <2>4, <2>5
       DEF entry, CheckMagic, LoadModules, CheckBits, LoadDescriptors, InitPic, InitKeyboard,
           InitPaging, MapTerminals, BlankFrames,
           SetPosition, PrintBanner, ExecuteShell, Setup, At, KeepTerms
<1> QED
  BY <1>1, <1>2, <1>3 DEF Next

\* A character goes to the end of the line, ...
LEMMA CharHeld ==
    ASSUME NEW b \in [Slots -> Characters \cup {NUL}], NEW l \in Seq(Characters),
           Len(l) < KEY_BUFFER_SIZE, Holds(b, l), NEW c \in Characters
    PROVE  /\ Holds([b EXCEPT ![Len(l)] = c], Append(l, c))
           /\ Clean(b, l) => Clean([b EXCEPT ![Len(l)] = c], Append(l, c))
           /\ Len(Append(l, c)) = Len(l) + 1
  BY BootAssumption DEF Holds, Clean, Slots

\* ... from where Backspace takes it.
LEMMA EraseHeld ==
    ASSUME NEW b \in [Slots -> Characters \cup {NUL}], NEW l \in Seq(Characters),
           Len(l) > 0, Holds(b, l)
    PROVE  /\ Len(l) - 1 \in Slots
           /\ Holds([b EXCEPT ![Len(l) - 1] = NUL], SubSeq(l, 1, Len(l) - 1))
           /\ Clean(b, l) => Clean([b EXCEPT ![Len(l) - 1] = NUL], SubSeq(l, 1, Len(l) - 1))
           /\ Len(SubSeq(l, 1, Len(l) - 1)) = Len(l) - 1
<1> DEFINE n == Len(l) - 1
           s == SubSeq(l, 1, n)
           a == [b EXCEPT ![n] = NUL]
<1>1. n \in Nat /\ n < KEY_BUFFER_SIZE /\ n \in Slots
  BY BootAssumption DEF Holds, Slots
<1>2. Len(s) = n /\ \A i \in 1..n : s[i] = l[i]
  BY <1>1
<1>3. \A i \in Slots : (i # n => a[i] = b[i]) /\ a[n] = NUL
  BY <1>1
<1>4. Slots \subseteq Int /\ n + 1 = Len(l)
  BY <1>1 DEF Slots
<1> HIDE DEF n, s, a
<1>5. Holds(a, s)
  <2>1. ASSUME NEW i \in Slots, i < n
        PROVE  a[i] = s[i + 1]
    <3>1. i # n /\ i + 1 \in 1..n /\ i < Len(l)
      BY <1>1, <1>4, <2>1 DEF Slots
    <3>2. a[i] = b[i] /\ b[i] = l[i + 1] /\ s[i + 1] = l[i + 1]
      BY <1>2, <1>3, <3>1 DEF Holds
    <3> QED
      BY <3>2
  <2> QED
    BY <1>1, <1>2, <2>1, BootAssumption DEF Holds
<1>6. ASSUME Clean(b, l)
      PROVE  Clean(a, s)
  <2>1. ASSUME NEW i \in Slots, i >= n
        PROVE  a[i] = NUL
    BY <1>1, <1>3, <1>4, <1>6, <2>1 DEF Clean
  <2> QED
    BY <1>2, <2>1 DEF Clean
<1> QED
  BY <1>1, <1>2, <1>5, <1>6 DEF n, s, a

\* The line and the buffer, from the moment terminal 1 has it.
LEMMA LineStep ==
    ASSUME ModTyped, LineTyped, TermInv, LineInv, [Next]_vars
    PROVE  LineInv'
<1> DEFINE Waits == user.types = "waits" /\ "CTRL" \notin user.modifiers
           Here == key_buffer_pos = Len(line) /\ Holds(buffer, line)
           Tidy == Clean(buffer, line)
           Empty == \A i \in Slots : buffer[i] = NUL
<1>0. /\ stage \in Typing /\ user.types # "arrows" => Here
      /\ Waits /\ stage \in Typing => Tidy
      /\ Waits /\ stage \notin Typing \cup Ended => Empty
  BY DEF LineInv
<1>1. user' = user /\ stage \in Stages /\ user.types \in {"waits", "early", "arrows"}
  BY Apart DEF Next, ModTyped, Behaviours, vars, loadVars
<1>2. /\ stage' \in Typing => stage \in Typing \cup {"position"}
      /\ stage' \notin Typing \cup Ended => stage \notin Typing \cup Ended
  <2>1. CASE entry
    <3>1. stage' \notin Typing \cup Ended => stage \notin Typing
      BY <2>1 DEF entry, CheckMagic, LoadModules, CheckBits, LoadDescriptors, InitPic,
         InitKeyboard, InitPaging, ZeroTerminals, MapTerminals, BlankFrames, BringToFront,
         SetInit, SetBuffer, SetPosition, PrintBanner, ExecuteShell, Setup, At, Then,
         Typing, Ended
    <3> QED
      BY <1>1, <2>1, <3>1, EntryStages
  <2>2. CASE keyboard_handler
    BY <2>2, KeyStages DEF Typing, Ended
  <2>3. CASE UNCHANGED vars
    BY <2>3 DEF vars
  <2> QED
    BY <2>1, <2>2, <2>3 DEF Next
<1> DEFINE Goal == /\ stage' \in Typing /\ user.types # "arrows" => Here'
                   /\ Waits /\ stage' \in Typing => Tidy'
                   /\ Waits /\ stage' \notin Typing \cup Ended => Empty'
<1>3. SUFFICES Goal
  BY <1>1 DEF LineInv
<1> USE DEF LineTyped
<1>4. CASE UNCHANGED lineVars /\ stage # "position"
  BY <1>0, <1>2, <1>4 DEF lineVars
<1>5. CASE SetPosition
  <2>1. stage = "position" /\ key_buffer_pos' = 0 /\ line' = <<>> /\ buffer' = buffer
    BY <1>5 DEF SetPosition, At, StartPosition
  <2>2. stage \notin Typing \cup Ended
    BY <2>1 DEF Typing, Ended
  <2> QED
    BY <1>0, <2>1, <2>2, BootAssumption, SMTT(30) DEF Holds, Clean
<1>6. CASE ZeroTerminals
  <2>1. stage = "terminals" /\ \A i \in Slots : buffer'[i] = NUL
    BY <1>6 DEF ZeroTerminals, At
  <2>2. stage' \notin Typing
    BY <1>2, <2>1 DEF Typing
  <2> QED
    BY <2>1, <2>2
<1>7. CASE InitKeyboard
  <2>1. stage = "keyboard" /\ buffer' = buffer /\ line' = line
    BY <1>7 DEF InitKeyboard, At
  <2>2. stage' \notin Typing
    BY <1>2, <2>1 DEF Typing
  <2> QED
    BY <1>0, <1>2, <2>1, <2>2
<1>8. MayType => (user.types = "waits" => stage \in Typing)
  BY DEF MayType, Typing
<1>9. ASSUME NEW k \in user.letters, PressWithCtrl(k)
      PROVE  Goal
  <2>1. /\ key_buffer_pos' = 0 /\ line' = <<>> /\ buffer' = buffer /\ ctrl_pressed = 1 /\ MayType
        /\ stage' = stage
    BY <1>9 DEF PressWithCtrl
  <2>2. ~Waits
    BY <2>1 DEF ModTyped
  <2> QED
    BY <2>1, <2>2, BootAssumption DEF Holds
<1>10. ASSUME NEW k \in user.letters, PressChar(k), ~StoreFaults
       PROVE  Goal
  <2> DEFINE c == key_scancodes[k][keys_state + 1]
  <2>1. c \in Characters
    BY CharacterTyped
  <2> HIDE DEF c
  <2>2. /\ MayType /\ key_buffer_pos < KEY_BUFFER_SIZE /\ key_buffer_pos' = key_buffer_pos + 1
        /\ buffer' = Stored(key_buffer_pos, c) /\ stage' = stage
        /\ user.types # "arrows" => line' = Append(line, c)
    BY <1>10 DEF PressChar, c
  <2>3. key_buffer_pos \in Slots
    BY <2>2, BootAssumption DEF Slots
  <2>4. CASE stage \in Typing /\ user.types # "arrows"
    <3>1. key_buffer = 1
      BY <2>4 DEF TermInv, FromPosition
    <3>2. buffer' = [buffer EXCEPT ![key_buffer_pos] = c]
      BY <2>2, <2>3, <3>1 DEF Stored
    <3>3. Here /\ (Waits => Tidy)
      BY <1>0, <2>4
    <3>4. line' = Append(line, c) /\ buffer' = [buffer EXCEPT ![Len(line)] = c]
          /\ Len(line) < KEY_BUFFER_SIZE
      BY <2>2, <2>4, <3>2, <3>3
    <3>5. Here' /\ (Waits => Tidy')
      BY <2>1, <2>2, <3>3, <3>4, CharHeld
    <3> QED
      BY <2>2, <2>4, <3>5
  <2>5. CASE ~(stage \in Typing /\ user.types # "arrows")
    <3>1. ~Waits
      BY <1>8, <2>2, <2>5
    <3> QED
      BY <2>2, <2>5, <3>1
  <2> QED
    BY <2>4, <2>5
<1>11. CASE PressEnter
  BY <1>0, <1>11 DEF PressEnter
<1>12. CASE PressBackspace /\ ~StoreFaults
  <2>1. /\ MayType /\ key_buffer_pos > 0 /\ key_buffer_pos' = key_buffer_pos - 1
        /\ buffer' = Stored(key_buffer_pos - 1, NUL) /\ stage' = stage
        /\ line' = IF line = <<>> THEN line ELSE SubSeq(line, 1, Len(line) - 1)
    BY <1>12 DEF PressBackspace, Erases
  <2>4. CASE stage \in Typing /\ user.types # "arrows"
    <3>1. key_buffer = 1
      BY <2>4 DEF TermInv, FromPosition
    <3>3. Here /\ (Waits => Tidy)
      BY <1>0, <2>4
    <3>4. Len(line) > 0 /\ line # <<>> /\ key_buffer_pos - 1 = Len(line) - 1
      BY <2>1, <3>3
    <3>5. /\ Len(line) - 1 \in Slots
          /\ Holds([buffer EXCEPT ![Len(line) - 1] = NUL], SubSeq(line, 1, Len(line) - 1))
          /\ Tidy => Clean([buffer EXCEPT ![Len(line) - 1] = NUL],
                           SubSeq(line, 1, Len(line) - 1))
          /\ Len(SubSeq(line, 1, Len(line) - 1)) = Len(line) - 1
      BY <3>3, <3>4, EraseHeld
    <3>6. /\ buffer' = [buffer EXCEPT ![Len(line) - 1] = NUL]
          /\ line' = SubSeq(line, 1, Len(line) - 1)
      BY <2>1, <3>1, <3>4, <3>5 DEF Stored
    <3>7. Here' /\ (Waits => Tidy')
      BY <2>1, <3>3, <3>4, <3>5, <3>6
    <3> QED
      BY <2>1, <2>4, <3>7
  <2>5. CASE ~(stage \in Typing /\ user.types # "arrows")
    <3>1. ~Waits
      BY <1>8, <2>1, <2>5
    <3> QED
      BY <2>1, <2>5, <3>1
  <2> QED
    BY <2>4, <2>5
<1>13. ASSUME NEW step \in {-1, 1}, PressArrow(step)
       PROVE  Goal
  <2>1. user.types = "arrows"
    BY <1>13 DEF PressArrow
  <2> QED
    BY <1>8, <1>13, <2>1 DEF PressArrow
<1>14. entry => SetPosition \/ stage # "position"
  BY DEF entry, CheckMagic, LoadModules, CheckBits, LoadDescriptors, InitPic,
         InitKeyboard, InitPaging, ZeroTerminals, MapTerminals, BlankFrames, BringToFront,
         SetInit, SetBuffer, PrintBanner, ExecuteShell, Setup, At
<1>15. CASE UNCHANGED lineVars /\ stage = "position" /\ stage' \notin Typing
  BY <1>0, <1>2, <1>15 DEF lineVars
<1>16. (keyboard_handler \/ UNCHANGED vars) /\ stage = "position" => stage' \notin Typing
  BY KeyStages DEF vars, Typing
<1> QED
  BY <1>4, <1>5, <1>6, <1>7, <1>9, <1>10, <1>11, <1>12, <1>13, <1>14, <1>15, <1>16,
     LineKeys, LineSteps DEF Next, vars
-----------------------------------------------------------------------------
\* Every step of the boot, and every key, keeps the invariant.
LEMMA NextBoot == BootInv /\ [Next]_vars => BootInv'
<1> SUFFICES ASSUME BootInv, [Next]_vars
             PROVE  BootInv'
  OBVIOUS
<1>1. stage \in Stages
  BY DEF BootInv, ModTyped
<1> QED
  BY <1>1, ModStep, LineTypedStep, MachineStep, TermStep, LineStep DEF BootInv

\* BootInv is an invariant of the boot.
THEOREM Invariant == Spec => []BootInv
  BY InitBoot, NextBoot, PTL DEF Spec

\* Every variable holds a value of its kind, whatever is typed while entry runs.
THEOREM TypeCorrect == Spec => []TypeOK
<1>1. BootInv => TypeOK
  <2> SUFFICES ASSUME BootInv
               PROVE  TypeOK
    OBVIOUS
  <2>1. stage \in Ended \cup {"clear", "modules", "bits", "descriptors", "pic", "keyboard",
                             "paging", "terminals", "map", "blank", "front", "init",
                             "buffer", "position", "banner", "execute"}
    BY DEF BootInv, ModTyped, Stages, Ended, Typing, FromPosition, FromBuffer, FromInit,
           FromBlank, FromTerminals, FromKeyboard, FromPic
  <2>2. held \subseteq Modifiers
    BY DEF BootInv, ModTyped, Behaviours
  <2> QED
    BY <2>1, <2>2 DEF BootInv, ModTyped, LineTyped, TermInv, TypeOK
<1> QED
  BY <1>1, Invariant, PTL

\* keys_state and the modifier flags follow the keys that are held, in whatever
\* order they are pressed, repeated and released.
THEOREM ModifierKeys == Spec => []KeysState
<1>1. BootInv => KeysState
  BY DEF BootInv
<1> QED
  BY <1>1, Invariant, PTL

\* The tables of the kernel lead where they should when the first shell runs.
LEMMA Mapping ==
    ASSUME MachineInv, stage = "shell"
    PROVE  /\ Reach("low", VID_MEM_LOC, FALSE) = VIDEO
           /\ \A p \in 1..3 : Reach("TERM_MEM", p, FALSE) = TermFrame(p)
           /\ Reach("VIRTUAL_START", 0, TRUE) = ProgramFrame(0)
           /\ {Reach("low", VID_MEM_LOC, TRUE), Reach("kernel", 0, TRUE)} = {Nowhere}
<1>1. stage \in FromTerminals /\ stage \in FromBlank
  BY DEF FromTerminals, FromBlank, FromInit, FromBuffer, FromPosition, Typing
<1>2. /\ pageDir["low"] = Table(PageTable, FALSE)
      /\ pageDir["kernel"] = Block(KernelFrame, FALSE)
      /\ pageTable[VID_MEM_LOC] = Block(VIDEO, FALSE)
      /\ pageDir["TERM_MEM"] = Table(UserTable, TRUE)
      /\ \A p \in 1..3 : userTable[p] = Block(TermFrame(p), TRUE)
      /\ pageDir["VIRTUAL_START"] = Block(ProgramFrame(0), TRUE)
  BY <1>1 DEF MachineInv
<1>3. Reach("low", VID_MEM_LOC, FALSE) = VIDEO
  BY <1>2 DEF Reach, Table, Block, PageTable, UserTable
<1>4. \A p \in 1..3 : Reach("TERM_MEM", p, FALSE) = TermFrame(p)
  BY <1>2 DEF Reach, Table, Block, PageTable, UserTable
<1>5. Reach("VIRTUAL_START", 0, TRUE) = ProgramFrame(0)
  BY <1>2 DEF Reach, Table, Block, PageTable, UserTable
<1>6. Reach("low", VID_MEM_LOC, TRUE) = Nowhere
  BY <1>2 DEF Reach, Table, Block, PageTable, UserTable
<1>7. Reach("kernel", 0, TRUE) = Nowhere
  BY <1>2 DEF Reach, Table, Block, PageTable, UserTable
<1> QED
  BY <1>3, <1>4, <1>5, <1>6, <1>7

\* When the first shell runs its terminal, the interrupt lines and the page tables
\* are ready for it, whatever was typed during the boot.
THEOREM ReadyShell == Spec => []FirstShell
<1>1. BootInv => FirstShell
  <2> SUFFICES ASSUME BootInv, stage = "shell"
               PROVE  FirstShell
    BY DEF FirstShell
  <2>1. /\ stage \in Typing /\ stage \in FromBuffer /\ stage \in FromInit
        /\ stage \in FromPosition /\ stage \in FromKeyboard /\ stage \in FromPic
    BY DEF FromPic, FromKeyboard, FromTerminals, FromBlank, FromInit, FromBuffer,
           FromPosition, Typing
  <2>2. term_cur = 1 /\ init = {1} /\ key_buffer = 1
    BY <2>1 DEF BootInv, TermInv
  <2>3. /\ user.types # "arrows" => key_buffer_pos = Len(line) /\ Holds(buffer, line)
        /\ user.types = "waits" /\ "CTRL" \notin user.modifiers => Clean(buffer, line)
    BY <2>1 DEF BootInv, LineInv
  <2>4. pic.master = 32 /\ pic.slave = 40 /\ "tss" \in gdt
    BY <2>1 DEF BootInv, MachineInv
  <2>5. VectorOf(KEYBOARD_IRQ_LINE) = 33 /\ VectorOf(RTC_IRQ_LINE) = 40
    BY <2>4 DEF VectorOf, KEYBOARD_IRQ_LINE, RTC_IRQ_LINE
  <2>6. /\ Handler(VectorOf(KEYBOARD_IRQ_LINE)) = "handle_keyboard"
        /\ Handler(VectorOf(RTC_IRQ_LINE)) = "handle_rtc"
    BY <2>5 DEF Handler
  <2> QED
    BY <2>2, <2>3, <2>4, <2>6, Mapping DEF BootInv, FirstShell, Holds, Clean
<1> QED
  BY <1>1, Invariant, PTL
=============================================================================
