---------------------------- MODULE RunRegistryMC ----------------------------
(* Model-checking instances of RunRegistry. *)
EXTENDS RunRegistry, TLC

Symmetry == Permutations(Threads)

=============================================================================
