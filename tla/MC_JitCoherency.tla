-------------------------- MODULE MC_JitCoherency --------------------------
(* Instantiation of JitCoherency for TLC, with the bounds of MC_AndroidJit *)
(* and one caller thread: an instruction of two bytes, so that it fills a *)
(* whole page of the model.                                               *)
EXTENDS MC_AndroidJit, JitCoherency

MC_Code == {1}
=============================================================================
