----------------------------- MODULE MCCounters -----------------------------
(* Counters on small sets, with the threads interchangeable. *)
EXTENDS Counters, TLC

\* A finite range of -3..3, so that a difference (-2 to 2) and a sum can leave it.
MCHandValues == {-1, 2}
MCAmounts == {-2, 2}

ThreadSymmetry == Permutations(Thread)
==============================================================================
