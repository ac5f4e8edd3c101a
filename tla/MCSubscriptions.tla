-------------------------- MODULE MCSubscriptions ---------------------------
(* Instances of Subscriptions for TLC: a root capability and one delegated  *)
(* from it.                                                                 *)
EXTENDS Subscriptions, TLC

CONSTANTS doc, root

MCDocumentOf == [c \in Capabilities |-> doc]
MCDescendants == [c \in Capabilities |-> IF c = root THEN Capabilities ELSE {c}]

Symmetry == Permutations(Connections) \cup Permutations(SubscriptionIds)
              \cup Permutations(Updates)
============================================================================
