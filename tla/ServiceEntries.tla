--------------------------- MODULE ServiceEntries ---------------------------
(***************************************************************************)
(* The entries of Konsul's service registry, its tag and metadata indexes  *)
(* and the queries answered from them (internal/store/service.go,          *)
(* service_index.go, service_query.go).                                    *)
(*                                                                         *)
(* s.Data is a total function on Names in which Absent marks a service     *)
(* the Go map does not hold; the metadata of a service is a total function *)
(* on MetaKeys in which Absent marks a key it does not have.  Address and  *)
(* port carry no control and are left out.  A list in MetaIndex is the     *)
(* function that counts each name in it: the code appends a name and takes *)
(* out its first occurrence, and no reader depends on the order.           *)
(***************************************************************************)
EXTENDS Integers

CONSTANTS Names, Tags, MetaKeys, MetaValues, Absent

Metas == [MetaKeys -> MetaValues \cup {Absent}]
NoMeta == [k \in MetaKeys |-> Absent]

ServiceEntry ==
    [tags: SUBSET Tags, meta: Metas, expiresAt: Nat, modifyIndex: Nat, createIndex: Nat]
Slot == ServiceEntry \cup {Absent}
TagIndexes == [Tags -> SUBSET Names]
MetaIndexes == [MetaKeys -> [MetaValues -> [Names -> Nat]]]

ASSUME AbsentAssumption == Absent \notin ServiceEntry /\ Absent \notin MetaValues

EmptyData == [n \in Names |-> Absent]
EmptyTagIndex == [t \in Tags |-> {}]
EmptyMetaIndex == [k \in MetaKeys |-> [v \in MetaValues |-> [n \in Names |-> 0]]]

HasTag(e, t) == e # Absent /\ t \in e.tags
HasMeta(e, k, v) == e # Absent /\ e.meta[k] = v
Index(e) == IF e = Absent THEN 0 ELSE e.modifyIndex

(* Mutant of NewEntry: a re-registration forgets CreateIndex.              *)
NewEntryForgetful(old, tags, meta, expires, i) ==
    [tags |-> tags, meta |-> meta, expiresAt |-> expires,
     modifyIndex |-> i, createIndex |-> i]

(* A registration keeps the CreateIndex of the entry it replaces.          *)
NewEntry(old, tags, meta, expires, i) ==
    [tags        |-> tags,
     meta        |-> meta,
     expiresAt   |-> expires,
     modifyIndex |-> i,
     createIndex |-> IF old = Absent THEN i ELSE old.createIndex]

-----------------------------------------------------------------------------
(* Index maintenance, for the services S as they are in data.              *)

addToTagIndex(tagIndex, data, S) ==
    [t \in Tags |-> tagIndex[t] \cup {n \in S : HasTag(data[n], t)}]

(* Mutant of removeFromTagIndex: the old tags stay.                        *)
removeNoTags(tagIndex, data, S) == tagIndex

removeFromTagIndex(tagIndex, data, S) ==
    [t \in Tags |-> {n \in tagIndex[t] : ~(n \in S /\ HasTag(data[n], t))}]

addToMetaIndex(metaIndex, data, S) ==
    [k \in MetaKeys |-> [v \in MetaValues |-> [n \in Names |->
        IF n \in S /\ HasMeta(data[n], k, v)
        THEN metaIndex[k][v][n] + 1 ELSE metaIndex[k][v][n]]]]

(* Mutant of removeFromMetaIndex: it does not look for the name first.     *)
removeUnchecked(metaIndex, data, S) ==
    [k \in MetaKeys |-> [v \in MetaValues |-> [n \in Names |->
        IF n \in S /\ data[n] # Absent
        THEN metaIndex[k][v][n] - 1 ELSE metaIndex[k][v][n]]]]

removeFromMetaIndex(metaIndex, data, S) ==
    [k \in MetaKeys |-> [v \in MetaValues |-> [n \in Names |->
        IF n \in S /\ HasMeta(data[n], k, v) /\ metaIndex[k][v][n] > 0
        THEN metaIndex[k][v][n] - 1 ELSE metaIndex[k][v][n]]]]

-----------------------------------------------------------------------------
(* Expiry.  At the very instant ExpiresAt an entry is no longer listed,    *)
(* still returned by Get, and not yet removed by CleanupExpired.           *)
Listed(e, now) == e # Absent /\ e.expiresAt > now
Gettable(e, now) == e # Absent /\ e.expiresAt >= now

(* Mutant of Expired: the cleanup grants one more second.                  *)
ExpiredLate(e, now) == e # Absent /\ e.expiresAt + 1 < now

Expired(e, now) == e # Absent /\ e.expiresAt < now

(* The compare step of RegisterCAS, of DeregisterCAS and of their twins.   *)
RegisterVerdict(slot, expected) ==
    IF expected = 0
    THEN IF slot = Absent THEN "ok" ELSE "conflict"
    ELSE IF slot = Absent THEN "notfound"
         ELSE IF slot.modifyIndex = expected THEN "ok" ELSE "conflict"

(* Mutant of DeregisterVerdict: the index is not compared.                 *)
DeregisterUnchecked(slot, expected) == IF slot = Absent THEN "notfound" ELSE "ok"

DeregisterVerdict(slot, expected) ==
    IF slot = Absent THEN "notfound"
    ELSE IF slot.modifyIndex = expected THEN "ok" ELSE "conflict"

(* m is the index the store continues from after it loaded data.           *)
IsLoadedIndex(data, m) ==
    /\ m \in {0} \cup {Index(data[n]) : n \in Names}
    /\ \A n \in Names : Index(data[n]) <= m

-----------------------------------------------------------------------------
(* Queries: the names of the services returned.  T is a non-empty set of   *)
(* tags, F a filter with at least one metadata pair.                       *)
List(data, now) == {n \in Names : Listed(data[n], now)}

(* Mutant of QueryByTags: expired services are not filtered out.           *)
QueryByTagsStale(tagIndex, data, now, T) ==
    {n \in Names : \A t \in T : n \in tagIndex[t]}

QueryByTags(tagIndex, data, now, T) ==
    {n \in Names : (\A t \in T : n \in tagIndex[t]) /\ Listed(data[n], now)}

QueryByMetadata(metaIndex, data, now, F) ==
    {n \in Names :
        /\ \A k \in MetaKeys : F[k] # Absent => metaIndex[k][F[k]][n] > 0
        /\ Listed(data[n], now)}

(* What the queries mean: all tags, all pairs, not expired.                *)
Matches(e, T, F) ==
    /\ e # Absent
    /\ T \subseteq e.tags
    /\ \A k \in MetaKeys : F[k] # Absent => e.meta[k] = F[k]
=============================================================================
