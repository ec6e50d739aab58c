-------------------------------- MODULE Rtc --------------------------------
(***************************************************************************)
(* The real-time clock driver (student-distrib/rtc.c), its interrupt line  *)
(* on the slave PIC (i8259.c) and the clock chip as the driver uses it.    *)
(*                                                                         *)
(* One process per terminal, and the one in front runs.  rtc_open,         *)
(* rtc_write and rtc_handler run with interrupts disabled and are one      *)
(* action each; rtc_read and rtc_close run with interrupts enabled and are *)
(* split at every access to shared state, except for the rtc_close that    *)
(* halt() calls after its cli().                                           *)
(***************************************************************************)
EXTENDS Integers

CONSTANTS
    Terminals,     \* the open terminals, each with one process
    ClientSets,    \* the sets of terminals whose processes use the clock
    Freqs,         \* the frequencies programs write
    MAX_OPENS      \* bound: rtc descriptors of one process

ASSUME RtcAssumption ==
    /\ ClientSets \subseteq SUBSET Terminals /\ ClientSets # {}
    /\ Freqs \subseteq Nat
    /\ MAX_OPENS \in Nat

VARIABLES
    clients,      \* the terminals whose processes use the clock
    front,        \* the terminal in front
    pc,           \* where each process is
    prev,         \* rtc_close's local variable, each process's
    loaded,       \* the mask disable_irq has loaded for its outb, each process's
    opens,        \* rtc descriptors open, each process's
    int_occur,
    slave_mask,   \* the variable of i8259.c, bit 0 (IRQ 8); 1 is masked
    pic_mask,     \* the PIC's own mask register, the same bit
    index,        \* the chip register RTC_PORT selects
    divider,      \* register A, high bits: "on" is the chip's running divider
    rate,         \* register A, low bits
    periodic,     \* register B, periodic interrupt enabled
    pending,      \* register C: a tick raised and not yet acknowledged
    freq,         \* history: the frequency last asked for
    ticked,       \* history: an interrupt came since the last open or read
    closed        \* history: a descriptor has been closed since the last open

localVars == <<prev, loaded>>
chipVars == <<index, divider, rate, periodic>>
vars == <<clients, front, pc, localVars, opens, int_occur, slave_mask, pic_mask, chipVars,
          pending, freq, ticked, closed>>

\* What enable_irq and disable_irq make of a line's bit in slave_mask.
Unmasked == 0
Masked == 1

Init ==
    /\ clients \in ClientSets
    /\ front \in Terminals
    /\ pc = [t \in Terminals |-> "run"]
    /\ prev = [t \in Terminals |-> "on"]
    /\ loaded = [t \in Terminals |-> Masked]
    /\ opens = [t \in Terminals |-> 0]
    /\ int_occur = 0
    /\ slave_mask = Masked
    /\ pic_mask = Masked
    /\ index = "A"
    /\ divider = "on"
    /\ rate = 6
    /\ periodic = FALSE
    /\ pending = FALSE
    /\ freq = 1024
    /\ ticked = [t \in Terminals |-> FALSE]
    /\ closed = [t \in Terminals |-> FALSE]
-----------------------------------------------------------------------------
(***************************************************************************)
(* The chip and its interrupt.                                             *)
(***************************************************************************)
\* The chip raises a tick while the divider and the rate are set; it raises no
\* further one before register C has been read.
Tick ==
    /\ periodic /\ divider = "on" /\ rate # 0
    /\ ~pending
    /\ pending' = TRUE
    /\ UNCHANGED <<clients, front, pc, localVars, opens, int_occur, slave_mask,
                   pic_mask, chipVars, freq, ticked, closed>>

\* rtc_handler(), which leaves register C selected.
Handler ==
    /\ pending
    /\ pic_mask = Unmasked
    /\ int_occur' = 1
    /\ index' = "C"
    /\ pending' = FALSE
    /\ ticked' = [t \in Terminals |-> TRUE]
    /\ UNCHANGED <<clients, front, pc, localVars, opens, slave_mask, pic_mask, divider,
                   rate, periodic, freq, closed>>
-----------------------------------------------------------------------------
(***************************************************************************)
(* System calls of the process in front.                                   *)
(***************************************************************************)
Running(where) == front \in clients /\ pc[front] = where

Goto(where) == pc' = [pc EXCEPT ![front] = where]

\* Mutant: the call does not look whether the descriptor is open.
NeedNotBeOpen == TRUE

\* The descriptor of a call is open.
IsOpen == opens[front] > 0

\* rtc_open(): enable, 2 Hz, forget old ticks, enable_irq; mask and occur are
\* what it leaves in slave_mask and int_occur.
OpenLeaving(mask, occur) ==
    /\ Running("run")
    /\ opens[front] < MAX_OPENS
    /\ opens' = [opens EXCEPT ![front] = @ + 1]
    /\ periodic' = TRUE
    /\ rate' = 15
    /\ index' = "A"
    /\ int_occur' = occur
    /\ slave_mask' = mask
    /\ pic_mask' = slave_mask'
    /\ freq' = 2
    /\ ticked' = [ticked EXCEPT ![front] = FALSE]
    /\ closed' = [closed EXCEPT ![front] = FALSE]
    /\ UNCHANGED <<clients, front, pc, localVars, divider, pending>>

\* Mutants: an old tick is not forgotten; the interrupt line is not enabled.
OpenKeepsTick == OpenLeaving(Unmasked, int_occur)
OpenMasked == OpenLeaving(slave_mask, 0)

Open == OpenLeaving(Unmasked, 0)

\* The loop of rtc_write: how often f can be halved before it is at most 1.
Halvings[f \in Nat] == IF f > 1 THEN 1 + Halvings[f \div 2] ELSE 0

\* Mutant: the rate is one too small.
RateLow(f) == (IF f = 0 THEN 0 ELSE 15) - Halvings[f]

RateOf(f) == (IF f = 0 THEN 0 ELSE 16) - Halvings[f]

\* rtc_write() of a valid buffer; a rate that is not of 4 bits reaches into the
\* divider.
Write(f) ==
    /\ Running("run")
    /\ IsOpen
    /\ index' = "A"
    /\ rate' = RateOf(f) % 16
    /\ divider' = IF RateOf(f) \in 0..15 THEN divider ELSE "off"
    /\ freq' = f
    /\ UNCHANGED <<clients, front, pc, localVars, opens, int_occur, slave_mask,
                   pic_mask, periodic, pending, ticked, closed>>

\* rtc_write() without a buffer, or of fewer than four bytes, returns -1 and
\* changes nothing.
WriteRefused ==
    /\ Running("run")
    /\ IsOpen
    /\ UNCHANGED vars

\* rtc_read(): enter the loop ...
Read ==
    /\ Running("run")
    /\ IsOpen
    /\ Goto("spin")
    /\ UNCHANGED <<clients, front, localVars, opens, int_occur, slave_mask, pic_mask,
                   chipVars, pending, freq, ticked, closed>>

\* ... leave it ...
SpinEnds ==
    /\ Running("spin")
    /\ int_occur = 1
    /\ Goto("clear")
    /\ UNCHANGED <<clients, front, localVars, opens, int_occur, slave_mask, pic_mask,
                   chipVars, pending, freq, ticked, closed>>

\* ... and int_occur = 0.
ClearOccur ==
    /\ Running("clear")
    /\ int_occur' = 0
    /\ ticked' = [ticked EXCEPT ![front] = FALSE]
    /\ Goto("run")
    /\ UNCHANGED <<clients, front, localVars, opens, slave_mask, pic_mask, chipVars,
                   pending, freq, closed>>

\* The close system call reaches rtc_close().
Close ==
    /\ Running("run")
    /\ IsOpen
    /\ closed' = [closed EXCEPT ![front] = TRUE]
    /\ Goto("mask")
    /\ UNCHANGED <<clients, front, localVars, opens, int_occur, slave_mask, pic_mask,
                   chipVars, pending, freq, ticked>>

\* disable_irq(): the bit is set in the variable, ...
CloseMask ==
    /\ Running("mask")
    /\ slave_mask' = Masked
    /\ Goto("load")
    /\ UNCHANGED <<clients, front, localVars, opens, int_occur, pic_mask, chipVars, pending,
                   freq, ticked, closed>>

\* ... the variable is loaded again for outb (the build does not optimise, and
\* interrupts are enabled), unmasked again if another process has opened the clock
\* since, ...
CloseLoad ==
    /\ Running("load")
    /\ loaded' = [loaded EXCEPT ![front] = slave_mask]
    /\ Goto("outmask")
    /\ UNCHANGED <<clients, front, prev, opens, int_occur, slave_mask, pic_mask, chipVars,
                   pending, freq, ticked, closed>>

\* ... and what was loaded goes to the port.
CloseOutMask ==
    /\ Running("outmask")
    /\ pic_mask' = loaded[front]
    /\ Goto("select")
    /\ UNCHANGED <<clients, front, localVars, opens, int_occur, slave_mask, chipVars,
                   pending, freq, ticked, closed>>

\* Mutant: register A is selected before the write only.
SelectOnce == IF pc[front] = "select" THEN index ELSE "A"

SelectA == "A"

\* outb(RTC_REG_A, RTC_PORT), before the read and again before the write.
CloseSelect ==
    /\ Running("select") \/ Running("reselect")
    /\ index' = SelectA
    /\ Goto(IF pc[front] = "select" THEN "inprev" ELSE "outrate")
    /\ UNCHANGED <<clients, front, localVars, opens, int_occur, slave_mask, pic_mask,
                   divider, rate, periodic, pending, freq, ticked, closed>>

\* prev = inb(CMOS_PORT): whichever register is selected now.  Reading register
\* C acknowledges a tick, and its bits are not the divider's.
CloseIn ==
    /\ Running("inprev")
    /\ prev' = [prev EXCEPT ![front] = IF index = "A" THEN divider ELSE "off"]
    /\ pending' = (pending /\ index = "A")
    /\ Goto("reselect")
    /\ UNCHANGED <<clients, front, loaded, opens, int_occur, slave_mask, pic_mask,
                   chipVars, freq, ticked, closed>>

\* The last outb, which register C ignores, and close() clears the descriptor.
CloseOut ==
    /\ Running("outrate")
    /\ divider' = IF index = "A" THEN prev[front] ELSE divider
    /\ rate' = IF index = "A" THEN 0 ELSE rate
    /\ freq' = 0
    /\ opens' = [opens EXCEPT ![front] = @ - 1]
    /\ Goto("run")
    /\ UNCHANGED <<clients, front, localVars, int_occur, slave_mask, pic_mask, index,
                   periodic, pending, ticked, closed>>

\* Mutant: halt() forgets the descriptors.
HaltWithoutClose ==
    /\ Running("run")
    /\ IsOpen
    /\ opens' = [opens EXCEPT ![front] = 0]
    /\ UNCHANGED <<clients, front, pc, localVars, int_occur, slave_mask, pic_mask,
                   chipVars, pending, freq, ticked, closed>>

\* halt() closes the process's descriptors with interrupts disabled.
Halt ==
    /\ Running("run")
    /\ IsOpen
    /\ opens' = [opens EXCEPT ![front] = 0]
    /\ slave_mask' = Masked
    /\ pic_mask' = slave_mask'
    /\ index' = "A"
    /\ rate' = 0
    /\ freq' = 0
    /\ UNCHANGED <<clients, front, pc, localVars, int_occur, divider, periodic, pending,
                   ticked, closed>>

\* Alt+Fn
Switch(t) ==
    /\ t # front
    /\ front' = t
    /\ UNCHANGED <<clients, pc, localVars, opens, int_occur, slave_mask, pic_mask,
                   chipVars, pending, freq, ticked, closed>>

rtc_read == SpinEnds \/ ClearOccur
rtc_close ==
    CloseMask \/ CloseLoad \/ CloseOutMask \/ CloseSelect \/ CloseIn \/ CloseOut

Next ==
    \/ Tick
    \/ Handler
    \/ Open
    \/ \E f \in Freqs : Write(f)
    \/ WriteRefused
    \/ Read
    \/ Close
    \/ rtc_read
    \/ rtc_close
    \/ Halt
    \/ \E t \in Terminals : Switch(t)

\* The chip ticks, the processor takes interrupts and runs the process in front.
Fairness ==
    /\ WF_vars(Tick)
    /\ WF_vars(Handler)
    /\ WF_vars(rtc_read)
    /\ WF_vars(rtc_close)

Spec == Init /\ [][Next]_vars /\ Fairness
-----------------------------------------------------------------------------
(***************************************************************************)
(* Properties                                                              *)
(***************************************************************************)
\* Every variable holds a value of its kind.
TypeOK ==
    /\ clients \in ClientSets
    /\ front \in Terminals
    /\ pc \in [Terminals -> {"run", "spin", "clear", "mask", "load", "outmask",
                             "select", "inprev", "reselect", "outrate"}]
    /\ prev \in [Terminals -> {"on", "off"}]
    /\ loaded \in [Terminals -> {0, 1}]
    /\ opens \in [Terminals -> 0..MAX_OPENS]
    /\ int_occur \in {0, 1}
    /\ slave_mask \in {0, 1} /\ pic_mask \in {0, 1}
    /\ index \in {"A", "C"}
    /\ divider \in {"on", "off"}
    /\ rate \in 0..15
    /\ periodic \in BOOLEAN /\ pending \in BOOLEAN
    /\ freq \in Nat
    /\ ticked \in [Terminals -> BOOLEAN]
    /\ closed \in [Terminals -> BOOLEAN]

\* A read that is about to return has seen an interrupt that came after the
\* descriptor was opened and after the previous read: no process is woken by a
\* tick it has already consumed, whatever the others open, read and close.
FreshTick == \A t \in Terminals : pc[t] = "clear" => ticked[t]

\* Only one program uses the clock.
Alone == \E t \in Terminals : clients = {t}

AllClosed == \A t \in Terminals : opens[t] = 0

\* "Stop interrupts on close": when nobody has the clock open IRQ 8 is masked, in
\* slave_mask however the steps of disable_irq mix with the opens and closes of
\* other processes; in the PIC for a program alone with the clock, whichever of its
\* descriptors it closes and whether by close or by halt.  With two programs the
\* PIC may stay unmasked: see CloseLoad.
MaskedWhenClosed ==
    AllClosed => slave_mask = Masked /\ (Alone => pic_mask = Masked)

\* What the chip makes of the rate: a power of two, the two fastest rates
\* excepted, which are slow ones again.
HardwareFreq ==
    CASE rate = 0 -> 0
      [] rate = 1 -> 256
      [] rate = 2 -> 128
      [] OTHER -> 2 ^ (16 - rate)

\* The frequency the chip ticks at is the one a program alone with the clock
\* asked for last, rounded down to a power of two.
FrequencySet ==
    Alone => IF freq = 0 THEN HardwareFreq = 0
             ELSE HardwareFreq <= freq /\ freq < 2 * HardwareFreq

\* The driver only ever changes the rate of register A ("Set rate to 0"), never
\* the divider bits beside it.
DividerKept == divider = "on"

\* It does with a single program: no tick of its own comes between the steps of
\* rtc_close.
AloneDividerKept == Alone => DividerKept

\* A program alone with the clock that waits for a tick at a frequency it has set
\* gets it, as long as its terminal stays in front and it has closed no descriptor
\* since it last opened one: a close masks the line for its other descriptors too.
ReadReturns ==
    \A t \in Terminals :
        (Alone /\ front = t /\ pc[t] = "spin" /\ freq # 0 /\ ~closed[t])
            ~> (pc[t] # "spin" \/ front # t)

\* "Wait for RTC tick": a program that waits for a tick gets it, whatever
\* programs in other terminals have done with the clock.
WaitForTick ==
    \A t \in Terminals :
        (front = t /\ pc[t] = "spin") ~> (pc[t] # "spin" \/ front # t)
=============================================================================
