----------------------------- MODULE MCScreen -----------------------------
(***************************************************************************)
(* Screen for TLC.                                                         *)
(***************************************************************************)
EXTENDS Screen

MCBanner == <<Printable>>
MCPrompt == <<Printable>>
MCMessage == <<NEWLINE, Printable>>

\* The saved place of the terminal in front is written before it is read, and so
\* is its frame.  The history is of use for the prompted user only.
ScreenState ==
    <<user, term_cur, init, key_buffer_pos, enter_pressed, prog, pageVars, posVars,
      mem[VIDEO], IF user = "prompted" THEN alone ELSE <<>>,
      [t \in Terminals \ {term_cur} |-> <<mem[TermFrame(t)], saved[t]>>]>>
=============================================================================
