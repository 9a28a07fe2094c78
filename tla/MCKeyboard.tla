----------------------------- MODULE MCKeyboard -----------------------------
(***************************************************************************)
(* A ring of three slots; a key with and one without a capital, one the    *)
(* driver has no character for, and the arrow up, whose scan code is the   *)
(* keypad's without the 0xE0.                                              *)
(***************************************************************************)
EXTENDS Keyboard

MCPlain == {"sc_a", "sc_tab", "sc_ctrl"}
MCNorm  == [sc_a |-> 97, sc_tab |-> 9, sc_ctrl |-> 0]
MCShft  == [sc_a |-> 65, sc_tab |-> 9, sc_ctrl |-> 0]
MCArrow == [sc_48 |-> 256]
=============================================================================
