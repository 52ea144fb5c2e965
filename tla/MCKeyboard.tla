----------------------------- MODULE MCKeyboard -----------------------------
(***************************************************************************)
(* Keyboard.tla for TLC: one key, every other kind of scan code, the       *)
(* timer beside the keyboard, and interrupts nested two deep.              *)
(***************************************************************************)
EXTENDS Keyboard
=============================================================================
