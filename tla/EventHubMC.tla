----------------------------- MODULE EventHubMC -----------------------------
(* Model-checking instances of EventHub. *)
EXTENDS EventHub, TLC

Symmetry == Permutations(Agents) \cup Permutations(Conns) \cup Permutations(Publishers)

=============================================================================
