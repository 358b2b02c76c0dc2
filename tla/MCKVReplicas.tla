---------------------------- MODULE MCKVReplicas ----------------------------
(* Instances of KVReplicas for TLC.                                        *)
EXTENDS KVReplicas, TLC

(* Nodes and keys are interchangeable.  Values are not permuted: the value *)
(* a deletion carries is chosen.                                           *)
Symmetry == Permutations(Nodes) \cup Permutations(Keys)
=============================================================================
