---------------------------- MODULE SemanticStoreMC ----------------------------
(* SemanticStore for TLC.  Operations are interchangeable; the run with a  *)
(* liveness property does without the symmetry.                            *)
EXTENDS SemanticStore, TLC

OpSymmetry == Permutations(Ops)
================================================================================
