---------------------------- MODULE MCKeyboard ----------------------------
(***************************************************************************)
(* Keyboard for TLC.                                                       *)
(***************************************************************************)
EXTENDS Keyboard

CONSTANTS a, b

MCLetters == {a, b}

Behaviour(types, hops, keys, letters) ==
    [types |-> types, hops |-> hops, keys |-> keys, letters |-> letters]

Patient == Behaviour("patient", FALSE, {}, {a, b})
Hasty == Behaviour("hasty", TRUE, {"ctrl-l"}, {a})
Prompted == Behaviour("prompted", FALSE, {"ctrl-l", "left", "right"}, {a})

MCUsers == {Patient, Hasty, Prompted}
MCHopping == {Behaviour("patient", TRUE, {}, {a})}

\* What the future of the line depends on.  The saved position and column of the
\* terminal in front are written before they are read.  The cursor and right_bound
\* are read by the arrow keys only, which only the prompted user has, and the
\* history variables by the properties about patient and prompted users.
LineState ==
    <<user, term_cur, buffer, key_buffer_pos,
      [t \in Terminals \ {term_cur} |-> saved_pos[t]], enter_pressed, reader,
      CASE user = Patient -> <<line, entered>>
        [] user = Hasty -> <<>>
        [] user = Prompted ->
              <<screen_x, [t \in Terminals \ {term_cur} |-> saved_x[t]], right_bound,
                wrapped>> >>
=============================================================================
