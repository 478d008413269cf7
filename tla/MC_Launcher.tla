----------------------------- MODULE MC_Launcher -----------------------------
(* Instantiation of Launcher for TLC: two folders, so that a picked folder *)
(* can differ from a saved one and either can vanish.                     *)
EXTENDS Launcher

CONSTANTS P1, P2

MC_Folders == {P1, P2}

=============================================================================
