----------------------------- MODULE KVEntries -----------------------------
(***************************************************************************)
(* The entries of Konsul's key-value store and what one critical section   *)
(* of the store does to them (internal/store/kv.go).  The same index and   *)
(* compare-and-swap logic is written out twice in the code: once for the   *)
(* standalone operations (Set, SetCAS, ...) and once for the *Local        *)
(* operations the Raft state machine calls.  Both translations use the     *)
(* operators of this module.                                               *)
(*                                                                         *)
(* kv.Data is a total function on Keys in which Absent marks a key that    *)
(* the Go map does not hold.                                               *)
(***************************************************************************)
EXTENDS Integers, FiniteSets

CONSTANTS
    Keys,      \* the keys clients use
    Values,    \* the values they store
    Flags,     \* the flag words they attach, the default 0 among them
    Absent     \* "no entry": the second result of kv.Data[key] is false

KVEntry == [value: Values, modifyIndex: Nat, createIndex: Nat, flags: Flags]
Slot == KVEntry \cup {Absent}

ASSUME KeysAssumption == IsFiniteSet(Keys)
ASSUME FlagsAssumption == 0 \in Flags
ASSUME AbsentAssumption == Absent \notin KVEntry

EmptyData == [k \in Keys |-> Absent]

(* The ModifyIndex a reader learns: the zero entry of a missing key has 0. *)
Index(e) == IF e = Absent THEN 0 ELSE e.modifyIndex

(* Mutant of ValueOf: an event carries the wrong field.                    *)
IndexAsValue(e) == IF e = Absent THEN Absent ELSE e.modifyIndex

(* The value a watch event or a snapshot of the keys carries for an entry. *)
ValueOf(e) == IF e = Absent THEN Absent ELSE e.value

(* Mutants of NewEntry: an update forgets CreateIndex, or draws no index.  *)
NewEntryForgetful(old, v, f, i) ==
    [value |-> v, modifyIndex |-> i, createIndex |-> i, flags |-> f]
NewEntryInPlace(old, v, f, i) ==
    [value       |-> v,
     modifyIndex |-> IF old = Absent THEN i ELSE old.modifyIndex,
     createIndex |-> IF old = Absent THEN i ELSE old.createIndex,
     flags       |-> f]

(* A write keeps the CreateIndex of the entry it replaces; a new key gets  *)
(* the index of the write itself.                                          *)
NewEntry(old, v, f, i) ==
    [value       |-> v,
     modifyIndex |-> i,
     createIndex |-> IF old = Absent THEN i ELSE old.createIndex,
     flags       |-> f]

(* Every write but SetWithFlags keeps the flags of the entry it replaces.  *)
KeptFlags(old) == IF old = Absent THEN 0 ELSE old.flags

(* The orders in which Go may iterate over a map with the keys S: the      *)
(* iteration order decides which key of a batch draws which index.         *)
Orders(S) ==
    {r \in [S -> 1 .. Cardinality(S)] : \A a, b \in S : r[a] = r[b] => a = b}

(* items: a function from the written keys to values; base: the value of   *)
(* globalIndex before the write.                                           *)
WriteItems(data, items, rank, base) ==
    [k \in Keys |->
        IF k \in DOMAIN items
        THEN NewEntry(data[k], items[k], KeptFlags(data[k]), base + rank[k])
        ELSE data[k]]

WriteFlagged(data, k, v, f, i) ==
    [data EXCEPT ![k] = NewEntry(data[k], v, f, i)]

Erase(data, S) == [k \in Keys |-> IF k \in S THEN Absent ELSE data[k]]

Present(data, S) == {k \in S : data[k] # Absent}

(* Mutant of SetVerdict: an entry newer than the expected one passes.      *)
SetVerdictLenient(slot, expected) ==
    IF expected = 0
    THEN IF slot = Absent THEN "ok" ELSE "conflict"
    ELSE IF slot = Absent THEN "notfound"
         ELSE IF slot.modifyIndex >= expected THEN "ok" ELSE "conflict"

(* The compare step of SetCAS, BatchSetCAS and their Local twins: expected *)
(* index 0 means "create only".                                            *)
SetVerdict(slot, expected) ==
    IF expected = 0
    THEN IF slot = Absent THEN "ok" ELSE "conflict"
    ELSE IF slot = Absent THEN "notfound"
         ELSE IF slot.modifyIndex = expected THEN "ok" ELSE "conflict"

(* Mutant of DeleteVerdict: an entry newer than the expected one passes.   *)
DeleteVerdictLenient(slot, expected) ==
    IF slot = Absent THEN "notfound"
    ELSE IF slot.modifyIndex >= expected THEN "ok" ELSE "conflict"

(* The compare step of DeleteCAS and BatchDeleteCAS: 0 has no special      *)
(* meaning here.                                                           *)
DeleteVerdict(slot, expected) ==
    IF slot = Absent THEN "notfound"
    ELSE IF slot.modifyIndex = expected THEN "ok" ELSE "conflict"

(* Mutant of IsLoadedIndex: the index of any entry will do.                *)
IsSomeIndex(data, m) == m \in {0} \cup {Index(data[k]) : k \in Keys}

(* m is the index the store continues from after it loaded the entries of  *)
(* data: the largest ModifyIndex among them, 0 if there are none.          *)
IsLoadedIndex(data, m) ==
    /\ m \in {0} \cup {Index(data[k]) : k \in Keys}
    /\ \A k \in Keys : Index(data[k]) <= m

(* Entries are versions: an index names one write of one key.              *)
WellFormed(e, bound) ==
    e # Absent => /\ 1 <= e.createIndex
                  /\ e.createIndex <= e.modifyIndex
                  /\ e.modifyIndex <= bound
=============================================================================
