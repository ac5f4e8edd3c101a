------------------------- MODULE MCCapabilityStore -------------------------
(* Instances of CapabilityStore for TLC. *)
EXTENDS CapabilityStore, TLC

Symmetry ==
  Permutations(CapabilityIds) \cup Permutations(RequestIds)
    \cup Permutations(Documents) \cup Permutations(Authenticators)
    \cup Permutations(CreateAuthorities)
============================================================================
