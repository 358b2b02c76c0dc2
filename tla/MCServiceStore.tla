--------------------------- MODULE MCServiceStore ---------------------------
(* Instances of ServiceStore for TLC.                                      *)
EXTENDS ServiceStore, TLC

(* Services, clients and metadata values are interchangeable.              *)
Symmetry == Permutations(Names) \cup Permutations(Clients) \cup Permutations(MetaValues)

(* All combined queries, and none.                                         *)
AllFilters ==
    {[tags |-> T, meta |-> F] : T \in SUBSET Tags \ {{}}, F \in Metas \ {NoMeta}}
NoFilters == {}
=============================================================================
