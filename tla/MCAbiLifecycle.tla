--------------------------- MODULE MCAbiLifecycle ---------------------------
(* Instances of AbiLifecycle for TLC. *)
EXTENDS AbiLifecycle, TLC

\* Calls of one kind, and goroutines, are interchangeable.
Symmetry ==
  Permutations(Inits) \cup Permutations(Registers)
  \cup Permutations(Uses) \cup Permutations(Shutdowns) \cup Permutations(Goroutines)
=============================================================================
