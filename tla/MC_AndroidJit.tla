--------------------------- MODULE MC_AndroidJit ---------------------------
(* Instantiation of AndroidJit for TLC: two caller threads, three file     *)
(* descriptors, four pages of 2 bytes above the null page, a 3-bit size_t *)
(* so that the page round-up of the largest size wraps to 0.              *)
EXTENDS AndroidJit

MC_Threads == {"t1", "t2"}
MC_OneThread == {"t1"}
MC_Sizes == {0, 1, 3, SizeMax - 1}

Symmetry == Permutations(FdIds)
=============================================================================
