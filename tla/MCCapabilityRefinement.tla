---------------------- MODULE MCCapabilityRefinement -----------------------
(* Instances of CapabilityRefinement for TLC. *)
EXTENDS CapabilityRefinement, TLC

Symmetry ==
  Permutations(CapabilityIds) \cup Permutations(RequestIds)
    \cup Permutations(Documents) \cup Permutations(Authenticators)
============================================================================
