--------------------------- MODULE MCUpdateStore ----------------------------
(* Instances of UpdateStore for TLC: a root capability and one delegated    *)
(* from it; records of one and of two ranges, one that names a third peer,  *)
(* and two that are malformed.                                              *)
EXTENDS UpdateRefinement, TLC

CONSTANTS root, leaf, n1, n2, p1, p2, p3

MCDescendants == [c \in Capabilities |-> IF c = root THEN Capabilities ELSE {c}]

MCRange(p, end) == [peer |-> p, start |-> 0, end |-> end]

MCRecords ==
  {[ranges |-> {MCRange(p1, 1)}, payload |-> 1],
   [ranges |-> {MCRange(p1, 2), MCRange(p2, 1)}, payload |-> 1],
   [ranges |-> {MCRange(p2, 1), MCRange(p3, 1)}, payload |-> 1],
   [ranges |-> {}, payload |-> 1],
   [ranges |-> {MCRange(p1, 1)}, payload |-> 0]}

V0 == [p \in Peers |-> 0]
V1 == [p \in Peers |-> IF p = p1 THEN 1 ELSE 0]

MCVersions == {V0, V1}

\* Two clients that enumerate with one capability, and one of them that asks
\* for what two versions lack.
MCQueries == {<<n1, leaf, Null>>, <<n2, leaf, Null>>, <<n1, leaf, V0>>, <<n1, leaf, V1>>}

Symmetry == Permutations(UpdateIds)
============================================================================
