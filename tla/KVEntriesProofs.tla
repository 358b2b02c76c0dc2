-------------------------- MODULE KVEntriesProofs --------------------------
(***************************************************************************)
(* Lemmas about the operators of KVEntries, which the proofs about the     *)
(* standalone store and about the replicated one share.                    *)
(***************************************************************************)
EXTENDS KVEntries, FiniteSetTheorems, TLAPS

(* An iteration order gives every key of a finite set a rank of its own    *)
(* (the map iteration of BatchSet, kv.go:458).                             *)
LEMMA OrderFacts ==
    ASSUME NEW S \in SUBSET Keys, NEW rank \in Orders(S)
    PROVE  /\ Cardinality(S) \in Nat
           /\ rank \in [S -> 1 .. Cardinality(S)]
           /\ \A a, b \in S : rank[a] = rank[b] => a = b
<1>1. IsFiniteSet(S)
  BY KeysAssumption, FS_Subset
<1>2. Cardinality(S) \in Nat
  BY <1>1, FS_CardinalityType
<1> QED
  BY <1>2 DEF Orders

(* A new entry is an entry, whatever slot it replaces (kv.go:140-150).     *)
LEMMA NewEntryType ==
    ASSUME NEW old \in Slot, NEW v \in Values, NEW f \in Flags, NEW i \in Nat
    PROVE  /\ NewEntry(old, v, f, i) \in KVEntry
           /\ KeptFlags(old) \in Flags
BY FlagsAssumption DEF NewEntry, KeptFlags, Slot, KVEntry

(* Writing a batch of well-typed items yields well-typed data.             *)
LEMMA WriteItemsType ==
    ASSUME NEW d \in [Keys -> Slot], NEW S \in SUBSET Keys,
           NEW items \in [S -> Values], NEW rank \in Orders(S), NEW b \in Nat
    PROVE  WriteItems(d, items, rank, b) \in [Keys -> Slot]
<1>1. rank \in [S -> 1 .. Cardinality(S)] /\ Cardinality(S) \in Nat
  BY OrderFacts
<1>2. ASSUME NEW k \in S
      PROVE  NewEntry(d[k], items[k], KeptFlags(d[k]), b + rank[k]) \in Slot
  <2>1. b + rank[k] \in Nat
    BY <1>1
  <2>2. d[k] \in Slot /\ items[k] \in Values
    OBVIOUS
  <2>3. KeptFlags(d[k]) \in Flags
    BY <2>2, FlagsAssumption DEF KeptFlags, Slot, KVEntry
  <2> QED
    BY <2>1, <2>2, <2>3, NewEntryType DEF Slot
<1> QED
  BY <1>2 DEF WriteItems

(* Erasing keys yields well-typed data.                                    *)
LEMMA EraseType ==
    ASSUME NEW d \in [Keys -> Slot], NEW S
    PROVE  Erase(d, S) \in [Keys -> Slot]
BY DEF Erase, Slot

-----------------------------------------------------------------------------
(* Entries are sound below a counter: every index was drawn from it, and   *)
(* no two keys share one.                                                  *)
Sound(d, bound) ==
    /\ \A k \in Keys : WellFormed(d[k], bound)
    /\ \A k, l \in Keys : (k # l /\ d[k] # Absent) => Index(d[k]) # Index(d[l])

(* What a write leaves behind for each key (kv.go:453-470).                *)
LEMMA WriteItemsFacts ==
    ASSUME NEW d \in [Keys -> Slot], NEW S \in SUBSET Keys,
           NEW items \in [S -> Values], NEW rank \in Orders(S), NEW b \in Nat, NEW k \in Keys
    PROVE  LET w == WriteItems(d, items, rank, b)[k]
           IN  /\ k \notin S => w = d[k]
               /\ k \in S => /\ w = NewEntry(d[k], items[k], KeptFlags(d[k]), b + rank[k])
                             /\ w \in KVEntry
                             /\ w # Absent
<1>1. DOMAIN items = S
  OBVIOUS
<1>2. k \notin S => WriteItems(d, items, rank, b)[k] = d[k]
  BY <1>1 DEF WriteItems
<1>3. ASSUME k \in S
      PROVE  /\ WriteItems(d, items, rank, b)[k]
                  = NewEntry(d[k], items[k], KeptFlags(d[k]), b + rank[k])
             /\ WriteItems(d, items, rank, b)[k] \in KVEntry
             /\ WriteItems(d, items, rank, b)[k] # Absent
  <2>1. WriteItems(d, items, rank, b)[k]
          = NewEntry(d[k], items[k], KeptFlags(d[k]), b + rank[k])
    BY <1>1, <1>3 DEF WriteItems
  <2>2. b + rank[k] \in Nat
    BY <1>3, OrderFacts
  <2>3. d[k] \in Slot /\ items[k] \in Values
    BY <1>3
  <2>4. KeptFlags(d[k]) \in Flags
    BY <2>3, FlagsAssumption DEF KeptFlags, Slot, KVEntry
  <2>5. NewEntry(d[k], items[k], KeptFlags(d[k]), b + rank[k]) \in KVEntry
    BY <2>2, <2>3, <2>4, NewEntryType
  <2> QED
    BY <2>1, <2>5, AbsentAssumption
<1> QED
  BY <1>2, <1>3

(* A new version of an entry is well-formed below any later counter.       *)
LEMMA NewEntrySound ==
    ASSUME NEW old \in Slot, NEW b \in Nat, WellFormed(old, b),
           NEW v, NEW f, NEW i \in Nat, b < i, NEW c \in Nat, i <= c
    PROVE  WellFormed(NewEntry(old, v, f, i), c)
<1>1. CASE old = Absent
  BY <1>1 DEF NewEntry, WellFormed
<1>2. CASE old # Absent
  <2>1. old \in KVEntry
    BY <1>2 DEF Slot
  <2> QED
    BY <1>2, <2>1 DEF NewEntry, WellFormed, KVEntry
<1> QED
  BY <1>1, <1>2

(* A batch draws new indices, one for each key, so that entries that were  *)
(* sound stay sound, in whatever order the keys are visited.               *)
LEMMA WriteItemsSound ==
    ASSUME NEW d \in [Keys -> Slot], NEW S \in SUBSET Keys,
           NEW items \in [S -> Values], NEW rank \in Orders(S), NEW b \in Nat, Sound(d, b)
    PROVE  Sound(WriteItems(d, items, rank, b), b + Cardinality(S))
<1> DEFINE w == WriteItems(d, items, rank, b)
           c == b + Cardinality(S)
<1>1. /\ Cardinality(S) \in Nat
      /\ rank \in [S -> 1 .. Cardinality(S)]
      /\ \A x, y \in S : rank[x] = rank[y] => x = y
  BY OrderFacts
<1>2. c \in Nat /\ b <= c
  BY <1>1
<1>3. ASSUME NEW k \in Keys \ S
      PROVE  /\ w[k] = d[k] /\ Index(w[k]) \in Nat /\ Index(w[k]) <= b
             /\ WellFormed(w[k], c)
  <2>1. w[k] = d[k] /\ d[k] \in Slot /\ WellFormed(d[k], b)
    BY WriteItemsFacts DEF Sound
  <2> QED
    BY <1>2, <2>1 DEF Index, WellFormed, Slot, KVEntry
<1>4. ASSUME NEW k \in S
      PROVE  /\ Index(w[k]) = b + rank[k] /\ rank[k] \in 1 .. Cardinality(S)
             /\ WellFormed(w[k], c)
  <2>1. rank[k] \in 1 .. Cardinality(S)
    BY <1>1
  <2>2. w[k] = NewEntry(d[k], items[k], KeptFlags(d[k]), b + rank[k]) /\ w[k] # Absent
    BY WriteItemsFacts
  <2>3. WellFormed(d[k], b) /\ d[k] \in Slot
    BY DEF Sound
  <2>4. b + rank[k] \in Nat /\ b < b + rank[k] /\ b + rank[k] <= c
    BY <1>1, <2>1
  <2>5. WellFormed(w[k], c)
    BY <1>2, <2>2, <2>3, <2>4, NewEntrySound
  <2>6. w[k].modifyIndex = b + rank[k]
    BY <2>2 DEF NewEntry
  <2> QED
    BY <2>1, <2>2, <2>5, <2>6 DEF Index
<1>5. \A k \in Keys : WellFormed(w[k], c)
  BY <1>3, <1>4
<1>6. ASSUME NEW k \in Keys, NEW l \in Keys, k # l, w[k] # Absent
      PROVE  Index(w[k]) # Index(w[l])
  <2>1. CASE k \in S /\ l \in S
    BY <1>1, <1>4, <1>6, <2>1
  <2>2. CASE k \notin S /\ l \notin S
    BY <1>3, <1>6, <2>2 DEF Sound
  <2>3. CASE (k \in S /\ l \notin S) \/ (k \notin S /\ l \in S)
    BY <1>1, <1>3, <1>4, <2>3
  <2> QED
    BY <2>1, <2>2, <2>3
<1> HIDE DEF w, c
<1>7. Sound(w, c)
  BY <1>5, <1>6 DEF Sound
<1> QED
  BY <1>7 DEF w, c

(* Deleting keys leaves sound entries sound.                               *)
LEMMA EraseSound ==
    ASSUME NEW d \in [Keys -> Slot], NEW S \in SUBSET Keys, NEW b \in Nat, Sound(d, b)
    PROVE  Sound(Erase(d, S), b)
<1>1. \A k \in Keys : Erase(d, S)[k] = IF k \in S THEN Absent ELSE d[k]
  BY DEF Erase
<1>2. \A k \in Keys : WellFormed(Erase(d, S)[k], b)
  BY <1>1 DEF Sound, WellFormed
<1>3. ASSUME NEW k \in Keys, NEW l \in Keys, k # l, Erase(d, S)[k] # Absent
      PROVE  Index(Erase(d, S)[k]) # Index(Erase(d, S)[l])
  <2>1. Erase(d, S)[k] = d[k] /\ d[k] # Absent
    BY <1>1, <1>3
  <2>2. CASE l \in S
    <3>1. Index(Erase(d, S)[l]) = 0
      BY <1>1, <2>2 DEF Index
    <3>2. WellFormed(d[k], b) /\ d[k] \in KVEntry
      BY <2>1 DEF Sound, Slot
    <3> QED
      BY <2>1, <3>1, <3>2 DEF Index, WellFormed, KVEntry
  <2>3. CASE l \notin S
    BY <1>1, <1>3, <2>1, <2>3 DEF Sound
  <2> QED
    BY <2>2, <2>3
<1> QED
  BY <1>2, <1>3 DEF Sound

(* The largest index found among sound entries is a counter to go on from  *)
(* (kv.go:103-108, :1167).                                                 *)
LEMMA LoadedSound ==
    ASSUME NEW d \in [Keys -> Slot], NEW b \in Nat, Sound(d, b), NEW m, IsLoadedIndex(d, m)
    PROVE  m \in Nat /\ Sound(d, m)
<1>1. \A k \in Keys : Index(d[k]) \in Nat
  BY DEF Index, Slot, KVEntry
<1>2. m \in Nat
  BY <1>1 DEF IsLoadedIndex
<1>3. \A k \in Keys : WellFormed(d[k], m)
  BY DEF Sound, WellFormed, IsLoadedIndex, Index
<1> QED
  BY <1>2, <1>3 DEF Sound

(* An empty store is sound.                                                *)
LEMMA EmptySound == EmptyData \in [Keys -> Slot] /\ Sound(EmptyData, 0)
BY DEF EmptyData, Slot, Sound, WellFormed
=============================================================================
