---------------------------- MODULE MCCategories ----------------------------
(* Categories on small sets, with the threads interchangeable. *)
EXTENDS Categories, TLC

MCHandle == 1..4

CategorySymmetry == Permutations(Thread) \cup Permutations(CatAgg) \cup Permutations(Bucket)
==============================================================================
