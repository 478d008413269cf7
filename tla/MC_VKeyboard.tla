---------------------------- MODULE MC_VKeyboard ----------------------------
(* Instances of VKeyboard for TLC: one key of each kind the bridge treats  *)
(* differently.                                                            *)
EXTENDS VKeyboard

\* A (letter: SDL text in the GUI), cursor up (SDL key events), left
\* shift (sticky, s_shift_active), HELP (no SDL keycode: dropped in the GUI).
MC_Keys == {\h20, \h4C, AK_LSH, \h5F}
MC_Pointers == {0, 1}
MC_OnePointer == {0}
=============================================================================
