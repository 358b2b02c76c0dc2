----------------------------- MODULE MCKVStore -----------------------------
(* Instances of KVStore for TLC.                                           *)
EXTENDS KVStore, TLC

(* Keys, values and goroutines are interchangeable: no definition tells    *)
(* one from another.                                                       *)
Symmetry == Permutations(Keys) \cup Permutations(Values) \cup Permutations(Procs)
=============================================================================
