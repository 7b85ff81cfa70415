----------------------------- MODULE SearchIndexMC ------------------------------
(* Manifests that each have a space of their own; the generation g3 belongs to *)
(* the second manifest, where there is one, and every other to the first.      *)
EXTENDS SearchIndex, TLC

OwnSpace == [m \in Manifests |-> ToString(m)]
OwnGenerations ==
  [g \in GenNames |-> {m \in Manifests : ToString(m) = "m2" <=>
                                           ToString(g) = "g3" /\ Cardinality(Manifests) > 1}]

ContentSymmetry == Permutations(Contents)
================================================================================
