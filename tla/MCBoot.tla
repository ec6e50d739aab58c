------------------------------- MODULE MCBoot -------------------------------
(***************************************************************************)
(* Boot for TLC: every loader, three users.                                *)
(***************************************************************************)
EXTENDS Boot

MCUsers ==
    {[types |-> "waits", modifiers |-> Shifts \cup {"CAPSLOCK"}, letters |-> Letters],
     [types |-> "early", modifiers |-> {"SHIFT_L", "CTRL", "ALT_L"}, letters |-> {"l"}],
     [types |-> "arrows", modifiers |-> {"CTRL", "CAPSLOCK"}, letters |-> {"l"}]}
=============================================================================
