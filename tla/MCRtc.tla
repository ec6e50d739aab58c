------------------------------- MODULE MCRtc -------------------------------
(***************************************************************************)
(* Rtc for TLC: one program with the clock, or two in two terminals.       *)
(***************************************************************************)
EXTENDS Rtc

OneOrTwo == {{1}, {1, 2}}
JustTwo == {{1, 2}}

\* What the future depends on: rtc_close's locals only between their load and
\* their use, and the history of a program alone with the clock only, since no
\* action reads it.
ClockState ==
    <<clients, front, pc, opens, int_occur, slave_mask, pic_mask, chipVars, pending, ticked,
      [t \in {u \in Terminals : pc[u] = "outmask"} |-> loaded[t]],
      [t \in {u \in Terminals : pc[u] \in {"reselect", "outrate"}} |-> prev[t]],
      IF Alone THEN <<freq, closed>> ELSE <<>> >>
=============================================================================
