------------------------- MODULE ServiceStoreProofs -------------------------
(***************************************************************************)
(* Theorems about the service registry, for any set of services, tags and  *)
(* metadata and any bounds.                                                *)
(***************************************************************************)
EXTENDS ServiceStore, FiniteSetTheorems, TLAPS

(* A subset of a finite set of services has a cardinality, so the number   *)
(* of failed engine calls stays a number.                                  *)
LEMMA SubsetSize ==
    ASSUME NEW S \in SUBSET Names, NEW F \in SUBSET S
    PROVE  Cardinality(F) \in Nat
BY NamesAssumption, FS_Subset, FS_CardinalityType

(* Whole seconds: time that passes never brings one back, and an instant a *)
(* second away or more is in a later one.                                  *)
LEMMA WholeSeconds ==
    ASSUME NEW a \in Nat, NEW b \in Nat
    PROVE  /\ a \div Second \in Nat /\ b \div Second \in Nat
           /\ a <= b => a \div Second <= b \div Second
           /\ a + Second <= b => a \div Second < b \div Second
<1>1. ASSUME NEW s \in Nat \ {0}
      PROVE  /\ a \div s \in Nat /\ b \div s \in Nat
             /\ a <= b => a \div s <= b \div s
             /\ a + s <= b => a \div s < b \div s
  OBVIOUS
<1> QED BY <1>1, BoundsAssumption

(* What a restart that reads every service would load for one of them.     *)
LEMMA LoadedEntry ==
    ASSUME NEW n \in Names
    PROVE  Loaded({})[n] = IF Kept(disk[n]) /\ Listed(disk[n], now) THEN disk[n] ELSE Absent
BY DEF Loaded, Shown

(* What a restart does: the services U are not read.                       *)
RestartsWith(U) ==
    /\ data' = Loaded(U)
    /\ tagIndex' = addToTagIndex(EmptyTagIndex, Loaded(U), Names)
    /\ metaIndex' = addToMetaIndex(EmptyMetaIndex, Loaded(U), Names)
    /\ globalIndex' \in {0} \cup {Index(Loaded(U)[n]) : n \in Names}
    /\ IsLoadedIndex(Loaded(U), globalIndex')
    /\ tainted' = [n \in Names |-> n \in U /\ Kept(disk[n])]
    /\ faults' \in {faults, faults + 1}
    /\ fresh' = [c \in Clients |-> {}]
    /\ UNCHANGED <<disk, now>>

LEMMA RestartUnread ==
    ASSUME CrashRestart
    PROVE  \E U \in SUBSET Names : RestartsWith(U)
<1>1. PICK U \in SUBSET Names :
          /\ faults' = IF U = {} THEN faults ELSE faults + 1
          /\ data' = Loaded(U)
          /\ tagIndex' = addToTagIndex(EmptyTagIndex, Loaded(U), Names)
          /\ metaIndex' = addToMetaIndex(EmptyMetaIndex, Loaded(U), Names)
          /\ \E m \in {0} \cup {Index(Loaded(U)[n]) : n \in Names} :
                /\ IsLoadedIndex(Loaded(U), m)
                /\ globalIndex' = m
          /\ tainted' = [n \in Names |-> n \in U /\ Kept(disk[n])]
  BY DEF CrashRestart
<1>2. faults' \in {faults, faults + 1}
  BY <1>1
<1>3. /\ globalIndex' \in {0} \cup {Index(Loaded(U)[n]) : n \in Names}
      /\ IsLoadedIndex(Loaded(U), globalIndex')
  BY <1>1
<1>4. fresh' = [c \in Clients |-> {}] /\ UNCHANGED <<disk, now>>
  BY DEF CrashRestart
<1> QED BY <1>1, <1>2, <1>3, <1>4 DEF RestartsWith

(* The entry a registration stores is an entry.                            *)
LEMMA NewEntryType ==
    ASSUME NEW old \in Slot, NEW tags \in SUBSET Tags, NEW meta \in Metas,
           NEW x \in Nat, NEW i \in Nat
    PROVE  NewEntry(old, tags, meta, x, i) \in ServiceEntry
<1>1. CASE old = Absent
  BY <1>1 DEF NewEntry, ServiceEntry
<1>2. CASE old # Absent
  <2>1. old \in ServiceEntry
    BY <1>2 DEF Slot
  <2> QED BY <2>1, <1>2 DEF NewEntry, ServiceEntry
<1> QED BY <1>1, <1>2

(* The maintenance operators keep the indexes well-typed.                  *)
LEMMA IndexTypes ==
    ASSUME NEW ti \in TagIndexes, NEW mi \in MetaIndexes, NEW d, NEW S \in SUBSET Names
    PROVE  /\ addToTagIndex(ti, d, S) \in TagIndexes
           /\ removeFromTagIndex(ti, d, S) \in TagIndexes
           /\ addToMetaIndex(mi, d, S) \in MetaIndexes
           /\ removeFromMetaIndex(mi, d, S) \in MetaIndexes
<1>1. addToTagIndex(ti, d, S) \in TagIndexes
  BY DEF addToTagIndex, TagIndexes
<1>2. removeFromTagIndex(ti, d, S) \in TagIndexes
  BY DEF removeFromTagIndex, TagIndexes
<1>3. addToMetaIndex(mi, d, S) \in MetaIndexes
  <2>1. \A k \in MetaKeys, v \in MetaValues, n \in Names :
            mi[k][v][n] \in Nat /\ mi[k][v][n] + 1 \in Nat
    BY DEF MetaIndexes
  <2> QED BY <2>1 DEF addToMetaIndex, MetaIndexes
<1>4. removeFromMetaIndex(mi, d, S) \in MetaIndexes
  <2>1. \A k \in MetaKeys, v \in MetaValues, n \in Names :
            /\ mi[k][v][n] \in Nat
            /\ mi[k][v][n] > 0 => mi[k][v][n] - 1 \in Nat
    BY DEF MetaIndexes
  <2> QED BY <2>1 DEF removeFromMetaIndex, MetaIndexes
<1> QED BY <1>1, <1>2, <1>3, <1>4

(* The part of TypeOK that registrations and removals touch.               *)
StoreType ==
    /\ data \in [Names -> Slot]
    /\ tagIndex \in TagIndexes
    /\ metaIndex \in MetaIndexes
    /\ globalIndex \in Nat
    /\ disk \in [Names -> Slot]
    /\ tainted \in [Names -> BOOLEAN]
    /\ faults \in Nat

(* The engine calls keep disk, tainted and faults well-typed.              *)
LEMMA EngineType ==
    ASSUME StoreType, NEW S \in SUBSET Names, NEW d \in [Names -> Slot],
           EngineWrites(S, d)
    PROVE  /\ disk' \in [Names -> Slot]
           /\ tainted' \in [Names -> BOOLEAN]
           /\ faults' \in Nat
<1>1. PICK F \in SUBSET S :
        /\ faults' = faults + Cardinality(F)
        /\ disk' = [n \in Names |-> IF n \in S \ F THEN d[n] ELSE disk[n]]
        /\ tainted' = [n \in Names |-> n \in F \/ (n \notin S /\ tainted[n])]
  BY DEF EngineWrites
<1>2. faults' \in Nat
  BY <1>1, SubsetSize DEF StoreType
<1>3. disk' \in [Names -> Slot]
  BY <1>1 DEF StoreType
<1>4. tainted' \in [Names -> BOOLEAN]
  BY <1>1, Zenon DEF StoreType
<1> QED BY <1>2, <1>3, <1>4

(* A registration keeps the store well-typed.                              *)
LEMMA EnterType ==
    ASSUME StoreType, now \in Nat, NEW n \in Names, NEW tags \in SUBSET Tags,
           NEW meta \in Metas, Enter(n, tags, meta)
    PROVE  StoreType'
<1> DEFINE d == [data EXCEPT ![n] = NewEntry(data[n], tags, meta, now + TTL, globalIndex + 1)]
<1>1. d \in [Names -> Slot]
  <2>1. now + TTL \in Nat /\ globalIndex + 1 \in Nat /\ data[n] \in Slot
    BY BoundsAssumption DEF StoreType
  <2>2. NewEntry(data[n], tags, meta, now + TTL, globalIndex + 1) \in Slot
    BY <2>1, NewEntryType DEF Slot
  <2> QED BY <2>2 DEF StoreType
<1>2. /\ globalIndex' = globalIndex + 1
      /\ data' = d
      /\ tagIndex' = addToTagIndex(removeFromTagIndex(tagIndex, data, {n}), d, {n})
      /\ metaIndex' = addToMetaIndex(removeFromMetaIndex(metaIndex, data, {n}), d, {n})
      /\ EngineWrites({n}, d)
  BY DEF Enter
<1>3. tagIndex' \in TagIndexes /\ metaIndex' \in MetaIndexes
  <2>1. removeFromTagIndex(tagIndex, data, {n}) \in TagIndexes
    BY IndexTypes DEF StoreType
  <2>2. removeFromMetaIndex(metaIndex, data, {n}) \in MetaIndexes
    BY IndexTypes DEF StoreType
  <2> QED BY <1>2, <2>1, <2>2, IndexTypes
<1>4. disk' \in [Names -> Slot] /\ tainted' \in [Names -> BOOLEAN] /\ faults' \in Nat
  BY <1>1, <1>2, EngineType
<1>5. globalIndex' \in Nat
  BY <1>2 DEF StoreType
<1> QED BY <1>1, <1>2, <1>3, <1>4, <1>5 DEF StoreType

(* A removal keeps the store well-typed.                                   *)
LEMMA DropType ==
    ASSUME StoreType, NEW S \in SUBSET Names, Drop(S)
    PROVE  StoreType'
<1> DEFINE d == [n \in Names |-> IF n \in S THEN Absent ELSE data[n]]
<1>1. d \in [Names -> Slot]
  BY DEF StoreType, Slot
<1>2. /\ data' = d
      /\ tagIndex' = removeFromTagIndex(tagIndex, data, S)
      /\ metaIndex' = removeFromMetaIndex(metaIndex, data, S)
      /\ EngineWrites(S, d)
      /\ globalIndex' = globalIndex
  BY DEF Drop
<1>3. tagIndex' \in TagIndexes /\ metaIndex' \in MetaIndexes
  BY <1>2, IndexTypes DEF StoreType
<1>4. disk' \in [Names -> Slot] /\ tainted' \in [Names -> BOOLEAN] /\ faults' \in Nat
  BY <1>1, <1>2, EngineType
<1> QED BY <1>1, <1>2, <1>3, <1>4 DEF StoreType

(* What a step of the registry leaves alone when it changes entries.       *)
Calm == UNCHANGED <<now, view, fresh, crashes>>

(* What the steps of the registry do to its entries: every step but these  *)
(* leaves entries and indexes alone.                                       *)
StoreStep ==
    \/ \E n \in Names, tags \in SUBSET Tags, meta \in Metas :
          /\ Enter(n, tags, meta)
          /\ Calm
    \/ \E S \in SUBSET Names :
          /\ Drop(S)
          /\ Calm
    \/ \E n \in Names : Heartbeat(n)
    \/ CrashRestart
    \/ /\ UNCHANGED <<data, tagIndex, metaIndex, globalIndex, disk, tainted, faults>>
       /\ \/ Tick
          \/ \E c \in Clients, n \in Names : GetEntry(c, n)
          \/ Calm

(* Every step is of one of these kinds.                                    *)
LEMMA NextKinds == [Next]_vars => StoreStep
<1> SUFFICES ASSUME [Next]_vars PROVE StoreStep
  OBVIOUS
<1>1. ASSUME NEW n \in Names, NEW tags \in SUBSET Tags, NEW meta \in Metas,
             Register(n, tags, meta)
      PROVE  StoreStep
  BY <1>1 DEF Register, StoreStep, Calm, clients
<1>2. ASSUME NEW n \in Names, NEW tags \in SUBSET Tags, NEW meta \in Metas,
             NEW c \in Clients, RegisterCAS(c, n, tags, meta)
      PROVE  StoreStep
  <2>1. (Enter(n, tags, meta) \/ Refuse) /\ Calm
    BY <1>2 DEF RegisterCAS, Calm, clients
  <2> QED BY <2>1 DEF StoreStep, Refuse, indexes
<1>3. ASSUME NEW n \in Names, Deregister(n)
      PROVE  StoreStep
  <2>1. {n} \in SUBSET Names /\ Drop({n}) /\ Calm
    BY <1>3 DEF Deregister, Calm, clients
  <2> QED BY <2>1 DEF StoreStep
<1>4. ASSUME NEW n \in Names, NEW c \in Clients, DeregisterCAS(c, n)
      PROVE  StoreStep
  <2>1. {n} \in SUBSET Names /\ (Drop({n}) \/ Refuse) /\ Calm
    BY <1>4 DEF DeregisterCAS, Calm, clients
  <2> QED BY <2>1 DEF StoreStep, Refuse, indexes
<1>5. ASSUME CleanupExpired
      PROVE  StoreStep
  <2>1. {n \in Names : Expired(data[n], now)} \in SUBSET Names /\ Calm
    BY <1>5 DEF CleanupExpired, Calm, clients
  <2> QED BY <1>5, <2>1 DEF StoreStep, CleanupExpired
<1>6. ASSUME NEW c \in Clients, NEW n \in Names, GetEntry(c, n)
      PROVE  StoreStep
  <2>1. UNCHANGED <<data, tagIndex, metaIndex, globalIndex, disk, tainted, faults>>
    BY <1>6 DEF GetEntry, indexes
  <2> QED BY <1>6, <2>1 DEF StoreStep
<1>7. ASSUME NEW c \in Clients, NEW f \in Filters, QueryTags(c, f)
      PROVE  StoreStep
  BY <1>7 DEF StoreStep, QueryTags, indexes, Calm, clients
<1>8. ASSUME NEW c \in Clients, QueryMetadata(c)
      PROVE  StoreStep
  BY <1>8 DEF StoreStep, QueryMetadata, indexes, Calm, clients
<1>9. ASSUME Tick
      PROVE  StoreStep
  <2>1. UNCHANGED <<data, tagIndex, metaIndex, globalIndex, disk, tainted, faults>>
    BY <1>9 DEF Tick, indexes
  <2> QED BY <1>9, <2>1 DEF StoreStep
<1>10. ASSUME UNCHANGED vars
       PROVE  StoreStep
  BY <1>10 DEF StoreStep, vars, Calm
<1>11. ASSUME NEW n \in Names, Heartbeat(n)
       PROVE  StoreStep
  BY <1>11 DEF StoreStep
<1>12. ASSUME CrashRestart
       PROVE  StoreStep
  BY <1>12 DEF StoreStep
<1> QED BY <1>1, <1>2, <1>3, <1>4, <1>5, <1>6, <1>7, <1>8, <1>9, <1>10, <1>11, <1>12
        DEF Next

-----------------------------------------------------------------------------
(* The inductive invariant: IndexesMirror needs only that data is a        *)
(* function on Names.                                                      *)
MirrorInv == DOMAIN data = Names /\ IndexesMirror

(* Re-registering a service takes its old tags and pairs out of the        *)
(* indexes and puts the new ones in, whatever the old entry was.           *)
LEMMA EnterMirrors ==
    ASSUME MirrorInv, NEW n \in Names, NEW tags \in SUBSET Tags, NEW meta \in Metas,
           Enter(n, tags, meta)
    PROVE  MirrorInv'
<1> DEFINE d == [data EXCEPT ![n] = NewEntry(data[n], tags, meta, now + TTL, globalIndex + 1)]
<1>1. /\ data' = d
      /\ tagIndex' = addToTagIndex(removeFromTagIndex(tagIndex, data, {n}), d, {n})
      /\ metaIndex' = addToMetaIndex(removeFromMetaIndex(metaIndex, data, {n}), d, {n})
  BY DEF Enter
<1>2. DOMAIN d = Names /\ \A m \in Names : m # n => d[m] = data[m]
  BY DEF MirrorInv
<1> HIDE DEF d
<1>3. TagIndexMirrors'
  <2>1. ASSUME NEW t \in Tags, NEW m \in Names
        PROVE  m \in tagIndex'[t] <=> HasTag(data'[m], t)
    <3>1. tagIndex'[t] = {x \in tagIndex[t] : ~(x \in {n} /\ HasTag(data[x], t))}
                           \cup {x \in {n} : HasTag(d[x], t)}
      BY <1>1 DEF addToTagIndex, removeFromTagIndex
    <3>2. m \in tagIndex[t] <=> HasTag(data[m], t)
      BY DEF MirrorInv, IndexesMirror, TagIndexMirrors
    <3>3. CASE m = n
      BY <3>1, <3>2, <3>3, <1>1
    <3>4. CASE m # n
      BY <3>1, <3>2, <3>4, <1>1, <1>2
    <3> QED BY <3>3, <3>4
  <2> QED BY <2>1 DEF TagIndexMirrors
<1>4. MetaIndexMirrors'
  <2>1. ASSUME NEW k \in MetaKeys, NEW v \in MetaValues, NEW m \in Names
        PROVE  metaIndex'[k][v][m] = IF HasMeta(data'[m], k, v) THEN 1 ELSE 0
    <3> DEFINE r == removeFromMetaIndex(metaIndex, data, {n})
    <3>1. metaIndex'[k][v][m] = IF m \in {n} /\ HasMeta(d[m], k, v)
                                THEN r[k][v][m] + 1 ELSE r[k][v][m]
      BY <1>1 DEF addToMetaIndex
    <3>2. r[k][v][m] = IF m \in {n} /\ HasMeta(data[m], k, v) /\ metaIndex[k][v][m] > 0
                       THEN metaIndex[k][v][m] - 1 ELSE metaIndex[k][v][m]
      BY DEF removeFromMetaIndex
    <3>3. metaIndex[k][v][m] = IF HasMeta(data[m], k, v) THEN 1 ELSE 0
      BY DEF MirrorInv, IndexesMirror, MetaIndexMirrors
    <3> HIDE DEF r
    <3>4. CASE m = n
      <4>1. r[k][v][m] = 0
        BY <3>2, <3>3, <3>4
      <4> QED BY <3>1, <3>4, <4>1, <1>1
    <3>5. CASE m # n
      BY <3>1, <3>2, <3>3, <3>5, <1>1, <1>2
    <3> QED BY <3>4, <3>5
  <2> QED BY <2>1 DEF MetaIndexMirrors
<1> QED BY <1>1, <1>2, <1>3, <1>4 DEF MirrorInv, IndexesMirror

(* Removing services, by hand or because they have expired, leaves no name *)
(* of theirs behind.                                                       *)
LEMMA DropMirrors ==
    ASSUME MirrorInv, NEW S \in SUBSET Names, Drop(S)
    PROVE  MirrorInv'
<1>1. /\ data' = [n \in Names |-> IF n \in S THEN Absent ELSE data[n]]
      /\ tagIndex' = removeFromTagIndex(tagIndex, data, S)
      /\ metaIndex' = removeFromMetaIndex(metaIndex, data, S)
  BY DEF Drop
<1>2. TagIndexMirrors'
  <2>1. ASSUME NEW t \in Tags, NEW m \in Names
        PROVE  m \in tagIndex'[t] <=> HasTag(data'[m], t)
    <3>1. tagIndex'[t] = {x \in tagIndex[t] : ~(x \in S /\ HasTag(data[x], t))}
      BY <1>1 DEF removeFromTagIndex
    <3>2. m \in tagIndex[t] <=> HasTag(data[m], t)
      BY DEF MirrorInv, IndexesMirror, TagIndexMirrors
    <3> QED BY <1>1, <3>1, <3>2 DEF HasTag
  <2> QED BY <2>1 DEF TagIndexMirrors
<1>3. MetaIndexMirrors'
  <2>1. ASSUME NEW k \in MetaKeys, NEW v \in MetaValues, NEW m \in Names
        PROVE  metaIndex'[k][v][m] = IF HasMeta(data'[m], k, v) THEN 1 ELSE 0
    <3>1. metaIndex'[k][v][m] =
            IF m \in S /\ HasMeta(data[m], k, v) /\ metaIndex[k][v][m] > 0
            THEN metaIndex[k][v][m] - 1 ELSE metaIndex[k][v][m]
      BY <1>1 DEF removeFromMetaIndex
    <3>2. metaIndex[k][v][m] = IF HasMeta(data[m], k, v) THEN 1 ELSE 0
      BY DEF MirrorInv, IndexesMirror, MetaIndexMirrors
    <3>3. data'[m] = IF m \in S THEN Absent ELSE data[m]
      BY <1>1
    <3> QED BY <3>1, <3>2, <3>3 DEF HasMeta
  <2> QED BY <2>1 DEF MetaIndexMirrors
<1> QED BY <1>1, <1>2, <1>3 DEF MirrorInv, IndexesMirror

(* A heartbeat changes neither tags nor metadata.                          *)
LEMMA HeartbeatMirrors ==
    ASSUME MirrorInv, data \in [Names -> Slot], now \in Nat, NEW n \in Names, Heartbeat(n)
    PROVE  MirrorInv'
<1> DEFINE e == [data[n] EXCEPT !.expiresAt = now + TTL]
<1>1. /\ data[n] # Absent
      /\ data' = [data EXCEPT ![n] = e]
      /\ tagIndex' = tagIndex /\ metaIndex' = metaIndex
  BY DEF Heartbeat, indexes
<1>2. data[n] \in ServiceEntry
  BY <1>1 DEF Slot
<1>3. e.tags = data[n].tags /\ e.meta = data[n].meta /\ e # Absent
  <2>1. e.tags = data[n].tags /\ e.meta = data[n].meta
    BY <1>2 DEF ServiceEntry
  <2>2. e \in ServiceEntry
    BY <1>2, BoundsAssumption DEF ServiceEntry
  <2> QED BY <2>1, <2>2, AbsentAssumption
<1> HIDE DEF e
<1>4. DOMAIN data' = Names /\ \A m \in Names : data'[m] = IF m = n THEN e ELSE data[m]
  BY <1>1
<1>5. \A m \in Names : \A t : HasTag(data'[m], t) <=> HasTag(data[m], t)
  BY <1>1, <1>3, <1>4 DEF HasTag
<1>6. \A m \in Names : \A k, v : HasMeta(data'[m], k, v) <=> HasMeta(data[m], k, v)
  BY <1>1, <1>3, <1>4 DEF HasMeta
<1>7. TagIndexMirrors'
  BY <1>1, <1>5 DEF MirrorInv, IndexesMirror, TagIndexMirrors
<1>8. MetaIndexMirrors'
  BY <1>1, <1>6 DEF MirrorInv, IndexesMirror, MetaIndexMirrors
<1> QED BY <1>4, <1>7, <1>8 DEF MirrorInv, IndexesMirror

(* A restart builds the indexes from the entries it loads.                 *)
LEMMA RestartMirrors ==
    ASSUME CrashRestart
    PROVE  MirrorInv'
<1> PICK U \in SUBSET Names : RestartsWith(U)
  BY RestartUnread
<1>1. /\ data' = Loaded(U)
      /\ tagIndex' = addToTagIndex(EmptyTagIndex, Loaded(U), Names)
      /\ metaIndex' = addToMetaIndex(EmptyMetaIndex, Loaded(U), Names)
  BY DEF RestartsWith
<1>2. TagIndexMirrors'
  <2>1. ASSUME NEW t \in Tags, NEW m \in Names
        PROVE  m \in tagIndex'[t] <=> HasTag(data'[m], t)
    <3>1. tagIndex'[t] = {} \cup {x \in Names : HasTag(Loaded(U)[x], t)}
      BY <1>1 DEF addToTagIndex, EmptyTagIndex
    <3> QED BY <1>1, <3>1
  <2> QED BY <2>1 DEF TagIndexMirrors
<1>3. MetaIndexMirrors'
  <2>1. ASSUME NEW k \in MetaKeys, NEW v \in MetaValues, NEW m \in Names
        PROVE  metaIndex'[k][v][m] = IF HasMeta(data'[m], k, v) THEN 1 ELSE 0
    <3>1. metaIndex'[k][v][m] = IF HasMeta(Loaded(U)[m], k, v) THEN 0 + 1 ELSE 0
      BY <1>1 DEF addToMetaIndex, EmptyMetaIndex
    <3> QED BY <1>1, <3>1
  <2> QED BY <2>1 DEF MetaIndexMirrors
<1>4. DOMAIN data' = Names
  BY <1>1 DEF Loaded, Shown
<1> QED BY <1>2, <1>3, <1>4 DEF MirrorInv, IndexesMirror

(* Every step keeps the indexes a mirror of the entries.                   *)
LEMMA MirrorStep == TypeOK /\ MirrorInv /\ [Next]_vars => MirrorInv'
<1> SUFFICES ASSUME TypeOK, MirrorInv, [Next]_vars PROVE MirrorInv'
  OBVIOUS
<1>1. ASSUME NEW n \in Names, Heartbeat(n) PROVE MirrorInv'
  BY <1>1, HeartbeatMirrors DEF TypeOK
<1>2. ASSUME UNCHANGED <<data, tagIndex, metaIndex>> PROVE MirrorInv'
  BY <1>2 DEF MirrorInv, IndexesMirror, TagIndexMirrors, MetaIndexMirrors
<1> QED BY <1>1, <1>2, NextKinds, EnterMirrors, DropMirrors, RestartMirrors DEF StoreStep

-----------------------------------------------------------------------------
(* Types of the variables a step of a client or of the clock touches.      *)
ClientType ==
    /\ now \in Nat
    /\ view \in [Clients -> [Names -> Slot]]
    /\ fresh \in [Clients -> SUBSET Names]
    /\ pending \in [Clients -> [stage: {"none", "tags"}, tags: SUBSET Tags,
                                meta: Metas, found: SUBSET Names,
                                seen: [Names -> Slot]]]
    /\ answer \in [Clients -> [tags: SUBSET Tags, meta: Metas,
                               services: SUBSET ServiceEntry]]
    /\ lastCAS \in [client: Clients \cup {Absent}, name: Names \cup {Absent},
                    verdict: Verdicts]
    /\ crashes \in Nat

(* Initially the store is empty and nothing has been read.                 *)
LEMMA InitType == Init => TypeOK /\ MirrorInv
<1> SUFFICES ASSUME Init PROVE TypeOK /\ MirrorInv
  OBVIOUS
<1>1. /\ data \in [Names -> Slot] /\ disk \in [Names -> Slot]
      /\ tagIndex \in TagIndexes /\ metaIndex \in MetaIndexes
  BY DEF Init, EmptyData, Slot, EmptyTagIndex, EmptyMetaIndex, TagIndexes, MetaIndexes
<1>2. /\ view \in [Clients -> [Names -> Slot]]
      /\ fresh \in [Clients -> SUBSET Names]
      /\ tainted \in [Names -> BOOLEAN]
  BY DEF Init, EmptyData, Slot
<1>3. NoMeta \in Metas
  BY DEF NoMeta, Metas
<1>4. NoQuery \in [stage: {"none", "tags"}, tags: SUBSET Tags, meta: Metas,
                   found: SUBSET Names, seen: [Names -> Slot]]
  BY <1>3 DEF NoQuery, EmptyData, Slot
<1>5. NoAnswer \in [tags: SUBSET Tags, meta: Metas, services: SUBSET ServiceEntry]
  BY <1>3 DEF NoAnswer
<1>6. TypeOK
  BY <1>1, <1>2, <1>4, <1>5 DEF Init, TypeOK, NoCAS, Verdicts
<1>7. MirrorInv
  BY AbsentAssumption DEF Init, MirrorInv, IndexesMirror, TagIndexMirrors,
     MetaIndexMirrors, HasTag, HasMeta, EmptyData, EmptyTagIndex, EmptyMetaIndex
<1> QED BY <1>6, <1>7

(* A refused CAS operation, a heartbeat and a restart keep the store       *)
(* well-typed too.                                                         *)
LEMMA StoreTypeStep ==
    ASSUME TypeOK, [Next]_vars
    PROVE  StoreType'
<1>1. StoreType /\ now \in Nat
  BY DEF TypeOK, StoreType
<1>2. ASSUME NEW n \in Names, Heartbeat(n) PROVE StoreType'
  <2> DEFINE d == [data EXCEPT ![n].expiresAt = now + TTL]
  <2>1. d \in [Names -> Slot]
    <3>1. data[n] \in ServiceEntry /\ now + TTL \in Nat
      BY <1>1, <1>2, BoundsAssumption DEF StoreType, Slot, Heartbeat
    <3>2. [data[n] EXCEPT !.expiresAt = now + TTL] \in Slot
      BY <3>1 DEF ServiceEntry, Slot
    <3> QED BY <1>1, <3>2 DEF StoreType
  <2>2. data' = d /\ EngineWrites({n}, d) /\ UNCHANGED <<tagIndex, metaIndex, globalIndex>>
    BY <1>2 DEF Heartbeat, indexes
  <2>3. disk' \in [Names -> Slot] /\ tainted' \in [Names -> BOOLEAN] /\ faults' \in Nat
    BY <1>1, <2>1, <2>2, EngineType
  <2> QED BY <1>1, <2>1, <2>2, <2>3 DEF StoreType
<1>3. ASSUME CrashRestart PROVE StoreType'
  <2> PICK U \in SUBSET Names : RestartsWith(U)
    BY <1>3, RestartUnread
  <2>1. Loaded(U) \in [Names -> Slot]
    BY <1>1 DEF Loaded, Shown, StoreType, Slot
  <2>2. EmptyTagIndex \in TagIndexes /\ EmptyMetaIndex \in MetaIndexes
    BY DEF EmptyTagIndex, EmptyMetaIndex, TagIndexes, MetaIndexes
  <2>3. tagIndex' \in TagIndexes /\ metaIndex' \in MetaIndexes
    BY <2>2, IndexTypes DEF RestartsWith
  <2>4. globalIndex' \in Nat
    <3>1. \A n \in Names : Index(Loaded(U)[n]) \in Nat
      BY <2>1 DEF Index, Slot, ServiceEntry
    <3> QED BY <3>1 DEF RestartsWith
  <2>5. tainted' \in [Names -> BOOLEAN]
    BY Zenon DEF RestartsWith, Kept
  <2>6. faults' \in Nat /\ disk' = disk /\ data' = Loaded(U)
    BY <1>1 DEF RestartsWith, StoreType
  <2> QED BY <1>1, <2>1, <2>3, <2>4, <2>5, <2>6 DEF StoreType
<1>4. ASSUME UNCHANGED <<data, tagIndex, metaIndex, globalIndex, disk, tainted, faults>>
      PROVE  StoreType'
  BY <1>1, <1>4 DEF StoreType
<1> QED BY <1>1, <1>2, <1>3, <1>4, NextKinds, EnterType, DropType DEF StoreStep

(* What clients have read, asked and been told stays well-typed.           *)
LEMMA ClientTypeStep ==
    ASSUME TypeOK, [Next]_vars
    PROVE  ClientType'
<1>1. ClientType
  BY DEF TypeOK, ClientType
<1>2. NoCAS \in [client: Clients \cup {Absent}, name: Names \cup {Absent}, verdict: Verdicts]
  BY DEF NoCAS, Verdicts
<1>3. ASSUME NEW n \in Names, NEW tags \in SUBSET Tags, NEW meta \in Metas,
             Register(n, tags, meta)
      PROVE  ClientType'
  BY <1>1, <1>2, <1>3 DEF Register, ClientType, clients, queries
<1>4. ASSUME NEW n \in Names, NEW tags \in SUBSET Tags, NEW meta \in Metas,
             NEW c \in Clients, RegisterCAS(c, n, tags, meta)
      PROVE  ClientType'
  BY <1>1, <1>4 DEF RegisterCAS, RegisterVerdict, Verdicts, ClientType, clients, queries
<1>5. ASSUME NEW n \in Names, Deregister(n)
      PROVE  ClientType'
  BY <1>1, <1>2, <1>5 DEF Deregister, ClientType, clients, queries
<1>6. ASSUME NEW n \in Names, NEW c \in Clients, DeregisterCAS(c, n)
      PROVE  ClientType'
  BY <1>1, <1>6 DEF DeregisterCAS, DeregisterVerdict, Verdicts, ClientType, clients, queries
<1>7. ASSUME CleanupExpired
      PROVE  ClientType'
  BY <1>1, <1>7 DEF CleanupExpired, ClientType, clients, queries
<1>8. ASSUME NEW c \in Clients, NEW n \in Names, GetEntry(c, n)
      PROVE  ClientType'
  <2>1. (IF Gettable(data[n], now) THEN data[n] ELSE Absent) \in Slot
    BY DEF TypeOK, Slot
  <2>2. view' \in [Clients -> [Names -> Slot]] /\ fresh' \in [Clients -> SUBSET Names]
    BY <1>1, <1>8, <2>1 DEF GetEntry, ClientType
  <2> QED BY <1>1, <1>8, <2>2 DEF GetEntry, ClientType, queries
<1>9. ASSUME NEW c \in Clients, NEW f \in Filters, QueryTags(c, f)
      PROVE  ClientType'
  <2>1. f.tags \in SUBSET Tags /\ f.meta \in Metas
    BY FiltersAssumption
  <2>2. QueryByTags(tagIndex, data, now, f.tags) \in SUBSET Names
    BY DEF QueryByTags
  <2>3. Shown(data) \in [Names -> Slot]
    BY DEF Shown, TypeOK, Slot
  <2>4. answer' \in [Clients -> [tags: SUBSET Tags, meta: Metas,
                                 services: SUBSET ServiceEntry]]
    <3>1. [tags |-> f.tags, meta |-> f.meta, services |-> {}]
            \in [tags: SUBSET Tags, meta: Metas, services: SUBSET ServiceEntry]
      BY <2>1
    <3>2. \/ answer' = [answer EXCEPT ![c] =
                         [tags |-> f.tags, meta |-> f.meta, services |-> {}]]
          \/ answer' = answer
      BY <1>9 DEF QueryTags
    <3> QED BY <1>1, <3>1, <3>2 DEF ClientType
  <2>5. pending' \in [Clients -> [stage: {"none", "tags"}, tags: SUBSET Tags,
                                meta: Metas, found: SUBSET Names,
                                seen: [Names -> Slot]]]
    BY <1>1, <1>9, <2>1, <2>2, <2>3 DEF QueryTags, ClientType
  <2> QED BY <1>1, <1>9, <2>4, <2>5 DEF QueryTags, ClientType, clients
<1>10. ASSUME NEW c \in Clients, QueryMetadata(c)
       PROVE  ClientType'
  <2> DEFINE R == QueryByMetadata(metaIndex, data, now, pending[c].meta) \cap pending[c].found
  <2>1. \A n \in R : data[n] \in ServiceEntry
    BY DEF QueryByMetadata, Listed, TypeOK, Slot
  <2>2. {data[n] : n \in R} \in SUBSET ServiceEntry
    BY <2>1
  <2>3. pending[c].tags \in SUBSET Tags /\ pending[c].meta \in Metas
    BY <1>1 DEF ClientType
  <2>4. NoQuery \in [stage: {"none", "tags"}, tags: SUBSET Tags, meta: Metas,
                     found: SUBSET Names, seen: [Names -> Slot]]
    BY DEF NoQuery, NoMeta, Metas, EmptyData, Slot
  <2>5. answer' = [answer EXCEPT ![c] = [tags |-> pending[c].tags, meta |-> pending[c].meta,
                                         services |-> {data[n] : n \in R}]]
    BY <1>10 DEF QueryMetadata
  <2> HIDE DEF R
  <2>6. answer' \in [Clients -> [tags: SUBSET Tags, meta: Metas,
                                 services: SUBSET ServiceEntry]]
    BY <1>1, <2>2, <2>3, <2>5 DEF ClientType
  <2>7. pending' \in [Clients -> [stage: {"none", "tags"}, tags: SUBSET Tags,
                                meta: Metas, found: SUBSET Names,
                                seen: [Names -> Slot]]]
    BY <1>1, <1>10, <2>4 DEF QueryMetadata, ClientType
  <2> QED BY <1>1, <1>10, <2>6, <2>7 DEF QueryMetadata, ClientType, clients
<1>11. ASSUME Tick
       PROVE  ClientType'
  BY <1>1, <1>11 DEF Tick, ClientType, clients, queries
<1>12. ASSUME NEW n \in Names, Heartbeat(n)
       PROVE  ClientType'
  BY <1>1, <1>12 DEF Heartbeat, ClientType, clients, queries
<1>13. ASSUME CrashRestart
       PROVE  ClientType'
  <2>1. NoMeta \in Metas
    BY DEF NoMeta, Metas
  <2>2. NoQuery \in [stage: {"none", "tags"}, tags: SUBSET Tags, meta: Metas,
                     found: SUBSET Names, seen: [Names -> Slot]]
    BY <2>1 DEF NoQuery, EmptyData, Slot
  <2>3. NoAnswer \in [tags: SUBSET Tags, meta: Metas, services: SUBSET ServiceEntry]
    BY <2>1 DEF NoAnswer
  <2> QED BY <1>1, <1>2, <1>13, <2>2, <2>3 DEF CrashRestart, ClientType
<1>14. ASSUME UNCHANGED vars
       PROVE  ClientType'
  BY <1>1, <1>14 DEF vars, ClientType
<1> QED BY <1>3, <1>4, <1>5, <1>6, <1>7, <1>8, <1>9, <1>10, <1>11, <1>12, <1>13, <1>14
        DEF Next

(* The variables of the registry keep their types.                         *)
THEOREM TypeCorrect == Spec => []TypeOK
<1>1. Init => TypeOK
  BY InitType
<1>2. TypeOK /\ [Next]_vars => TypeOK'
  BY StoreTypeStep, ClientTypeStep DEF TypeOK, StoreType, ClientType
<1> QED BY <1>1, <1>2, PTL DEF Spec

(* The tag index and the metadata index mirror the entries in every        *)
(* reachable state, for any number of services, tags and metadata.         *)
THEOREM IndexesAreMirrors == Spec => []IndexesMirror
<1>1. Init => MirrorInv
  BY InitType
<1>2. TypeOK /\ MirrorInv /\ [Next]_vars => MirrorInv'
  BY MirrorStep
<1>3. MirrorInv => IndexesMirror
  BY DEF MirrorInv
<1> QED BY <1>1, <1>2, <1>3, TypeCorrect, PTL DEF Spec

(* Because the indexes mirror the entries, the queries answered from them  *)
(* return exactly what their filters ask for.                              *)
THEOREM QueriesAreExact == Spec => []QueriesExact
<1>1. IndexesMirror => QueriesExact
  <2> SUFFICES ASSUME IndexesMirror PROVE QueriesExact
    OBVIOUS
  <2>1. ASSUME NEW T \in SUBSET Tags
        PROVE  QueryByTags(tagIndex, data, now, T) =
                 {n \in List(data, now) : Matches(data[n], T, NoMeta)}
    <3>1. \A n \in Names : (\A t \in T : n \in tagIndex[t])
                             <=> (\A t \in T : HasTag(data[n], t))
      BY DEF IndexesMirror, TagIndexMirrors
    <3> QED BY <3>1 DEF QueryByTags, List, Matches, Listed, HasTag, NoMeta
  <2>2. ASSUME NEW F \in Metas
        PROVE  QueryByMetadata(metaIndex, data, now, F) =
                 {n \in List(data, now) : Matches(data[n], {}, F)}
    <3>1. \A n \in Names, k \in MetaKeys : F[k] # Absent =>
             (metaIndex[k][F[k]][n] > 0 <=> HasMeta(data[n], k, F[k]))
      <4>1. \A k \in MetaKeys : F[k] # Absent => F[k] \in MetaValues
        BY DEF Metas
      <4> QED BY <4>1 DEF IndexesMirror, MetaIndexMirrors
    <3> QED BY <3>1 DEF QueryByMetadata, List, Matches, Listed, HasMeta
  <2> QED BY <2>1, <2>2 DEF QueriesExact
<1> QED BY <1>1, IndexesAreMirrors, PTL

-----------------------------------------------------------------------------
(* What a step may do to one entry.                                        *)

(* A heartbeat: the entry keeps its version and is good for another TTL.   *)
Renews(old, new) ==
    /\ old # Absent
    /\ new # Absent
    /\ Version(new) = Version(old)
    /\ new.modifyIndex = old.modifyIndex
    /\ new.createIndex = old.createIndex
    /\ new.expiresAt = now + TTL

(* A registration: the entry takes the index just drawn.                   *)
Registers(old, new) ==
    /\ new # Absent
    /\ old # Absent => new.createIndex = old.createIndex
    /\ new.modifyIndex = globalIndex + 1
    /\ new.expiresAt = now + TTL
    /\ globalIndex' = globalIndex + 1

(* A step in which the process writes the entries of the services S, to    *)
(* memory and to the engine.                                               *)
Writes(S) ==
    /\ data' \in [Names -> Slot]
    /\ EngineWrites(S, data')
    /\ globalIndex' \in {globalIndex, globalIndex + 1}
    /\ Calm
    /\ \A n \in Names \ S : data'[n] = data[n]
    /\ \A n \in S :
         \/ data'[n] = Absent
         \/ Renews(data[n], data'[n])
         \/ Registers(data[n], data'[n])

(* A registration writes one entry.                                        *)
LEMMA EnterWrites ==
    ASSUME TypeOK, NEW n \in Names, NEW tags \in SUBSET Tags, NEW meta \in Metas,
           Enter(n, tags, meta), Calm
    PROVE  Writes({n})
<1> DEFINE e == NewEntry(data[n], tags, meta, now + TTL, globalIndex + 1)
<1>1. /\ globalIndex' = globalIndex + 1
      /\ data' = [data EXCEPT ![n] = e]
      /\ EngineWrites({n}, data')
  BY DEF Enter
<1>2. e \in ServiceEntry
  <2>1. now + TTL \in Nat /\ globalIndex + 1 \in Nat /\ data[n] \in Slot
    BY BoundsAssumption DEF TypeOK
  <2> QED BY <2>1, NewEntryType
<1>3. /\ e # Absent
      /\ data[n] # Absent => e.createIndex = data[n].createIndex
      /\ e.modifyIndex = globalIndex + 1
      /\ e.expiresAt = now + TTL
  BY <1>2, AbsentAssumption DEF NewEntry
<1> HIDE DEF e
<1>4. data \in [Names -> Slot]
  BY DEF TypeOK
<1>5. /\ data' \in [Names -> Slot]
      /\ data'[n] = e
      /\ \A m \in Names \ {n} : data'[m] = data[m]
  BY <1>1, <1>2, <1>4 DEF Slot
<1>6. Registers(data[n], data'[n])
  BY <1>1, <1>3, <1>5 DEF Registers
<1> QED BY <1>1, <1>5, <1>6 DEF Writes

(* So does a heartbeat, which draws no index.                              *)
LEMMA HeartbeatWrites ==
    ASSUME TypeOK, NEW n \in Names, Heartbeat(n)
    PROVE  Writes({n}) /\ UNCHANGED globalIndex
<1> DEFINE e == [data[n] EXCEPT !.expiresAt = now + TTL]
<1>1. /\ data[n] # Absent
      /\ data' = [data EXCEPT ![n] = e]
      /\ EngineWrites({n}, data')
      /\ UNCHANGED globalIndex
      /\ Calm
  BY DEF Heartbeat, Calm, clients
<1>2. data \in [Names -> Slot] /\ data[n] \in ServiceEntry /\ now + TTL \in Nat
  BY <1>1, BoundsAssumption DEF TypeOK, Slot
<1>3. /\ e \in ServiceEntry
      /\ e.modifyIndex = data[n].modifyIndex
      /\ e.createIndex = data[n].createIndex
      /\ e.expiresAt = now + TTL
      /\ [e EXCEPT !.expiresAt = 0] = [data[n] EXCEPT !.expiresAt = 0]
  BY <1>2 DEF ServiceEntry
<1>4. e # Absent
  BY <1>3, AbsentAssumption
<1> HIDE DEF e
<1>5. /\ data' \in [Names -> Slot]
      /\ data'[n] = e
      /\ \A m \in Names \ {n} : data'[m] = data[m]
  BY <1>1, <1>2, <1>3 DEF Slot
<1>6. Renews(data[n], data'[n])
  BY <1>1, <1>3, <1>4, <1>5 DEF Renews, Version
<1> QED BY <1>1, <1>5, <1>6 DEF Writes

(* A removal takes out the entries it writes.                              *)
LEMMA DropWrites ==
    ASSUME TypeOK, NEW S \in SUBSET Names, Drop(S), Calm
    PROVE  Writes(S)
<1>1. /\ data' = [n \in Names |-> IF n \in S THEN Absent ELSE data[n]]
      /\ EngineWrites(S, data')
      /\ globalIndex' = globalIndex
  BY DEF Drop
<1>2. data' \in [Names -> Slot]
  BY <1>1 DEF TypeOK, Slot
<1> QED BY <1>1, <1>2 DEF Writes

(* Every step writes some entries, restarts the process, moves the clock,  *)
(* reads an entry, or does nothing to entries and readers.                 *)
LEMMA WriteKinds ==
    ASSUME TypeOK, [Next]_vars
    PROVE  \/ \E S \in SUBSET Names : Writes(S)
           \/ CrashRestart
           \/ Tick
           \/ \E c \in Clients, n \in Names : GetEntry(c, n)
           \/ UNCHANGED <<data, globalIndex, disk, tainted>> /\ Calm
<1>1. ASSUME NEW n \in Names, NEW tags \in SUBSET Tags, NEW meta \in Metas,
             Enter(n, tags, meta), Calm
      PROVE  \E S \in SUBSET Names : Writes(S)
  BY <1>1, EnterWrites
<1>2. ASSUME NEW n \in Names, Heartbeat(n)
      PROVE  \E S \in SUBSET Names : Writes(S)
  BY <1>2, HeartbeatWrites
<1> QED BY <1>1, <1>2, NextKinds, DropWrites DEF StoreStep

(* What an engine call leaves behind for one service.                      *)
LEMMA EngineFacts ==
    ASSUME NEW S \in SUBSET Names, NEW d, EngineWrites(S, d), NEW n \in Names
    PROVE  /\ disk'[n] = disk[n] \/ (n \in S /\ disk'[n] = d[n])
           /\ ~tainted'[n] => \/ n \in S /\ disk'[n] = d[n]
                              \/ n \notin S /\ ~tainted[n] /\ disk'[n] = disk[n]
<1>1. PICK F \in SUBSET S :
        /\ disk' = [m \in Names |-> IF m \in S \ F THEN d[m] ELSE disk[m]]
        /\ tainted' = [m \in Names |-> m \in F \/ (m \notin S /\ tainted[m])]
  BY DEF EngineWrites
<1>2. disk'[n] = IF n \in S \ F THEN d[n] ELSE disk[n]
  BY <1>1
<1>3. tainted'[n] <=> n \in F \/ (n \notin S /\ tainted[n])
  BY <1>1, Zenon
<1> QED BY <1>2, <1>3, Zenon

-----------------------------------------------------------------------------
(* A restart keeps what is live.  The invariant is inductive with the      *)
(* types: an engine call leaves in the engine what the store has, or marks *)
(* the service; the clock takes an entry from the engine no later than     *)
(* from the list, and less than a second earlier.                          *)
Restarts(n) ==
    /\ Loaded({})[n] \in {Absent, Shown(data)[n]}
    /\ (data[n] # Absent /\ data[n].expiresAt >= now + Second)
          => Loaded({})[n] = data[n]

(* A service whose entry is the same in memory and in the engine restarts. *)
SameRestarts == \A n \in Names : disk[n] = data[n] => Restarts(n)

LEMMA SameDoesRestart == TypeOK => SameRestarts
<1> SUFFICES ASSUME TypeOK, NEW n \in Names, disk[n] = data[n]
             PROVE  Restarts(n)
  BY DEF SameRestarts
<1>1. Loaded({})[n] = IF Kept(disk[n]) /\ Listed(disk[n], now) THEN disk[n] ELSE Absent
  BY LoadedEntry
<1>2. Shown(data)[n] = IF Listed(data[n], now) THEN data[n] ELSE Absent
  BY DEF Shown
<1>3. ASSUME data[n] # Absent, data[n].expiresAt >= now + Second
      PROVE  Kept(disk[n]) /\ Listed(disk[n], now)
  <2>1. data[n].expiresAt \in Nat /\ now \in Nat /\ Second \in Nat \ {0}
    BY <1>3, BoundsAssumption DEF TypeOK, Slot, ServiceEntry
  <2>2. now \div Second < data[n].expiresAt \div Second
    BY <1>3, <2>1, WholeSeconds
  <2> QED BY <1>3, <2>1, <2>2 DEF Kept, Listed
<1> QED BY <1>1, <1>2, <1>3 DEF Restarts

LEMMA SameDoesRestartNext == TypeOK' => SameRestarts'
BY SameDoesRestart, PTL

LEMMA RestartStep ==
    TypeOK /\ TypeOK' /\ RestartKeepsLive /\ [Next]_vars => RestartKeepsLive'
<1> SUFFICES ASSUME TypeOK, TypeOK', RestartKeepsLive, [Next]_vars,
                    NEW n \in Names, ~tainted'[n]
             PROVE  Restarts(n)'
  BY DEF RestartKeepsLive, Restarts
<1>1. /\ Loaded({})[n] = IF Kept(disk[n]) /\ Listed(disk[n], now) THEN disk[n] ELSE Absent
      /\ Shown(data)[n] = IF Listed(data[n], now) THEN data[n] ELSE Absent
  BY LoadedEntry DEF Shown
<1>2. ~tainted[n] => Restarts(n)
  BY DEF RestartKeepsLive, Restarts
<1>3. disk'[n] = data'[n] => Restarts(n)'
  BY SameDoesRestartNext DEF SameRestarts
<1>4. UNCHANGED <<data, disk, now>> /\ Restarts(n) => Restarts(n)'
  BY DEF Restarts, Loaded, Kept, Shown
<1>5. ASSUME NEW S \in SUBSET Names, Writes(S)
      PROVE  Restarts(n)'
  <2>1. now' = now /\ EngineWrites(S, data') /\ (n \notin S => data'[n] = data[n])
    BY <1>5 DEF Writes, Calm
  <2>2. \/ disk'[n] = data'[n]
        \/ ~tainted[n] /\ disk'[n] = disk[n] /\ data'[n] = data[n]
    BY <2>1, EngineFacts, Zenon
  <2>3. CASE ~tainted[n] /\ disk'[n] = disk[n] /\ data'[n] = data[n]
    <3>1. Restarts(n)
      BY <2>3, <1>2, Zenon
    <3> QED BY <2>1, <2>3, <3>1 DEF Restarts, Loaded, Kept, Shown
  <2> QED BY <1>3, <2>2, <2>3
<1>6. CASE CrashRestart
  <2> PICK U \in SUBSET Names : RestartsWith(U)
    BY <1>6, RestartUnread
  <2>1. data' = Loaded(U) /\ disk' = disk /\ now' = now
    BY DEF RestartsWith
  <2>2. n \notin U \/ ~Kept(disk[n])
    <3>1. tainted'[n] <=> n \in U /\ Kept(disk[n])
      BY Zenon DEF RestartsWith
    <3> QED BY <3>1, Zenon
  <2>3. Loaded(U)[n] = Loaded({})[n]
    BY <2>2 DEF Loaded
  <2>4. Loaded({})'[n] = Loaded({})[n]
    BY <2>1 DEF Loaded, Kept, Shown
  <2>5. data'[n] = Loaded({})[n]
    BY <2>1, <2>3
  <2>6. Shown(data)'[n] = Loaded({})[n]
    BY <1>1, <2>1, <2>5 DEF Shown, Listed
  <2> QED BY <2>4, <2>5, <2>6 DEF Restarts
<1>7. CASE Tick
  <2>1. data'[n] = data[n] /\ disk'[n] = disk[n] /\ tainted' = tainted /\ now' = now + 1
    BY <1>7 DEF Tick
  <2>2. Restarts(n)
    BY <2>1, <1>2, Zenon
  <2>3. now \in Nat /\ now + 1 \in Nat /\ disk[n] \in Slot /\ data[n] \in Slot
        /\ Second \in Nat
    BY BoundsAssumption DEF TypeOK
  <2>4. CASE disk[n] = data[n]
    BY <1>3, <2>1, <2>4
  <2>5. CASE disk[n] # data[n]
    <3>1. Loaded({})[n] = Absent
      BY <1>1, <2>2, <2>5 DEF Restarts
    <3>2. Loaded({})'[n] = Absent
      <4>1. Loaded({})'[n] = IF Kept(disk[n])' /\ Listed(disk[n], now)' THEN disk'[n] ELSE Absent
        BY DEF Loaded, Shown
      <4>2. CASE disk[n] = Absent
        BY <2>1, <4>1, <4>2
      <4>3. CASE disk[n] # Absent
        <5>1. disk[n].expiresAt \in Nat
          BY <2>3, <4>3 DEF Slot, ServiceEntry
        <5>2. now \div Second <= (now + 1) \div Second
          BY <2>3, WholeSeconds
        <5>3. /\ now \div Second \in Nat /\ (now + 1) \div Second \in Nat
              /\ disk[n].expiresAt \div Second \in Nat
          BY <2>3, <5>1, WholeSeconds
        <5>4. Kept(disk[n])' /\ Listed(disk[n], now)' => Kept(disk[n]) /\ Listed(disk[n], now)
          BY <2>1, <2>3, <5>1, <5>2, <5>3 DEF Kept, Listed
        <5> QED BY <1>1, <3>1, <4>1, <4>3, <5>4
      <4> QED BY <4>2, <4>3
    <3>3. ~(data'[n] # Absent /\ data'[n].expiresAt >= now' + Second)
      <4> SUFFICES ASSUME data[n] # Absent, data[n].expiresAt >= now + 1 + Second
                   PROVE  FALSE
        BY <2>1
      <4>1. data[n].expiresAt \in Nat
        BY <2>3 DEF Slot, ServiceEntry
      <4> QED BY <2>2, <2>3, <3>1, <4>1 DEF Restarts
    <3> QED BY <3>2, <3>3 DEF Restarts
  <2> QED BY <2>4, <2>5
<1>8. ASSUME UNCHANGED <<data, disk, tainted, now>>
      PROVE  Restarts(n)'
  <2>1. ~tainted[n]
    BY <1>8, Zenon
  <2> QED BY <1>2, <1>4, <1>8, <2>1
<1> QED BY <1>5, <1>6, <1>7, <1>8, WriteKinds DEF GetEntry, Calm

(* A restart at any moment brings back nothing that List does not show,    *)
(* and all of it that has a second or more to live, whatever the length of *)
(* a second and however many services, failures and crashes there are.     *)
THEOREM RestartDoesKeepLive == Spec => []RestartKeepsLive
<1>1. Init => RestartKeepsLive
  <2> SUFFICES ASSUME Init, NEW n \in Names
               PROVE  Restarts(n)
    BY DEF RestartKeepsLive, Restarts
  <2>1. TypeOK /\ disk[n] = data[n]
    BY InitType DEF Init
  <2> QED BY <2>1, SameDoesRestart DEF SameRestarts
<1> QED BY <1>1, RestartStep, TypeCorrect, PTL DEF Spec

-----------------------------------------------------------------------------
(* No entry, in memory or in the engine, outlives now by more than the TTL *)
(* (service.go:181, :417).                                                 *)
ExpiryInv ==
    \A n \in Names :
        /\ data[n] # Absent => data[n].expiresAt <= now + TTL
        /\ disk[n] # Absent => disk[n].expiresAt <= now + TTL

(* Heartbeats and registrations set the longest expiry there may be, and   *)
(* the clock only raises the bound.                                        *)
LEMMA ExpiryStep == TypeOK /\ ExpiryInv /\ [Next]_vars => ExpiryInv'
<1> SUFFICES ASSUME TypeOK, ExpiryInv, [Next]_vars, NEW n \in Names
             PROVE  /\ data'[n] # Absent => data'[n].expiresAt <= now' + TTL
                    /\ disk'[n] # Absent => disk'[n].expiresAt <= now' + TTL
  BY DEF ExpiryInv
<1>1. /\ data[n] # Absent => data[n].expiresAt <= now + TTL
      /\ disk[n] # Absent => disk[n].expiresAt <= now + TTL
      /\ data[n] \in Slot /\ disk[n] \in Slot
      /\ now \in Nat /\ TTL \in Nat
  BY BoundsAssumption DEF ExpiryInv, TypeOK
<1>2. ASSUME NEW S \in SUBSET Names, Writes(S)
      PROVE  /\ data'[n] # Absent => data'[n].expiresAt <= now' + TTL
             /\ disk'[n] # Absent => disk'[n].expiresAt <= now' + TTL
  <2>1. now' = now
    BY <1>2 DEF Writes, Calm
  <2>2. data'[n] # Absent => data'[n].expiresAt <= now + TTL
    <3>1. CASE n \in S
      BY <1>1, <1>2, <3>1 DEF Writes, Renews, Registers
    <3>2. CASE n \notin S
      BY <1>1, <1>2, <3>2 DEF Writes
    <3> QED BY <3>1, <3>2
  <2>3. disk'[n] = disk[n] \/ disk'[n] = data'[n]
    BY <1>2, EngineFacts DEF Writes
  <2> QED BY <1>1, <2>1, <2>2, <2>3
<1>3. CASE CrashRestart
  <2> PICK U \in SUBSET Names : RestartsWith(U)
    BY <1>3, RestartUnread
  <2>1. data'[n] \in {Absent, disk[n]} /\ disk' = disk /\ now' = now
    BY DEF RestartsWith, Loaded, Shown
  <2> QED BY <1>1, <2>1
<1>4. CASE Tick
  <2>1. data'[n] = data[n] /\ disk'[n] = disk[n] /\ now' = now + 1
    BY <1>4 DEF Tick
  <2> QED BY <1>1, <2>1 DEF Slot, ServiceEntry
<1>5. ASSUME UNCHANGED <<data, disk, now>>
      PROVE  /\ data'[n] # Absent => data'[n].expiresAt <= now' + TTL
             /\ disk'[n] # Absent => disk'[n].expiresAt <= now' + TTL
  BY <1>1, <1>5
<1> QED BY <1>2, <1>3, <1>4, <1>5, WriteKinds DEF GetEntry, Calm

(* Because no expiry is further away than the TTL, neither a heartbeat nor *)
(* a registration can bring one forward.                                   *)
LEMMA AdvanceStep ==
    ASSUME TypeOK, ExpiryInv, [Next]_vars, crashes' = crashes, NEW n \in Names,
           data[n] # Absent, data'[n] # Absent, data'[n] # data[n]
    PROVE  /\ data'[n].createIndex = data[n].createIndex
           /\ data'[n].expiresAt >= data[n].expiresAt
           /\ \/ Version(data'[n]) = Version(data[n])
              \/ data'[n].modifyIndex > globalIndex
<1>1. /\ data[n].expiresAt <= now + TTL
      /\ data[n].expiresAt \in Nat
      /\ now \in Nat /\ TTL \in Nat /\ globalIndex \in Nat /\ crashes \in Nat
  BY BoundsAssumption DEF ExpiryInv, TypeOK, Slot, ServiceEntry
<1>2. ~CrashRestart
  BY <1>1 DEF CrashRestart
<1>3. PICK S \in SUBSET Names : Writes(S)
  BY <1>2, WriteKinds DEF Tick, GetEntry
<1>4. n \in S
  BY <1>3 DEF Writes
<1>5. CASE Renews(data[n], data'[n])
  BY <1>1, <1>5 DEF Renews
<1>6. CASE Registers(data[n], data'[n])
  BY <1>1, <1>6 DEF Registers
<1> QED BY <1>3, <1>4, <1>5, <1>6 DEF Writes

(* While one process runs, an entry changes only by a heartbeat, which     *)
(* moves its expiry forward, or by a registration with a new index.        *)
THEOREM EntriesDoAdvance == Spec => EntriesAdvance
<1>1. Init => ExpiryInv
  BY DEF Init, ExpiryInv, EmptyData
<1>2. TypeOK /\ ExpiryInv /\ [Next]_vars =>
        [crashes' = crashes => \A n \in Names :
            (data[n] # Absent /\ data'[n] # Absent /\ data'[n] # data[n]) =>
                /\ data'[n].createIndex = data[n].createIndex
                /\ data'[n].expiresAt >= data[n].expiresAt
                /\ \/ Version(data'[n]) = Version(data[n])
                   \/ data'[n].modifyIndex > globalIndex]_vars
  BY AdvanceStep
<1> QED BY <1>1, <1>2, ExpiryStep, TypeCorrect, PTL DEF Spec, EntriesAdvance

-----------------------------------------------------------------------------
(* Versions.  What the engine vouches for: nothing if the last engine call *)
(* for the service, or its load, failed.                                   *)
Backed(n) == IF tainted[n] THEN Absent ELSE Loaded({})[n]

(* The copies of a service's entry that still matter: in memory, in the    *)
(* engine unless it has expired or failed there, and in the hands of the   *)
(* clients that read it from the running process.                          *)
Copies(n) ==
    {data[n], Backed(n)} \cup {view[c][n] : c \in {b \in Clients : n \in fresh[b]}}

(* An index names one version of a service, but for its expiry.            *)
VersionInv ==
    \A n \in Names :
        /\ disk[n] # Absent => 1 <= disk[n].modifyIndex
        /\ \A e \in Copies(n) : e # Absent => 1 <= e.modifyIndex /\ e.modifyIndex <= globalIndex
        /\ \A e, f \in Copies(n) :
             (e # Absent /\ f # Absent /\ e.modifyIndex = f.modifyIndex)
                => Version(e) = Version(f)

(* Where a copy after a step comes from: it is gone, it is a copy from     *)
(* before the step but for its expiry, or it is the entry that took the    *)
(* index drawn in the step.                                                *)
Inherits(n, e) ==
    \/ e = Absent
    \/ \E f \in Copies(n) :
          /\ f # Absent
          /\ e.modifyIndex = f.modifyIndex
          /\ Version(e) = Version(f)
    \/ /\ e = data'[n]
       /\ e.modifyIndex = globalIndex + 1
       /\ globalIndex' = globalIndex + 1

(* The members of Copies(n), one by one.                                   *)
LEMMA CopyKinds ==
    ASSUME NEW n \in Names
    PROVE  /\ data[n] \in Copies(n)
           /\ Backed(n) \in Copies(n)
           /\ \A c \in Clients : n \in fresh[c] => view[c][n] \in Copies(n)
           /\ \A e \in Copies(n) :
                 \/ e = data[n]
                 \/ e = Backed(n)
                 \/ \E c \in Clients : n \in fresh[c] /\ e = view[c][n]
BY DEF Copies

(* A copy that is an old one, or gone, inherits.                           *)
LEMMA OldCopyInherits ==
    ASSUME NEW n \in Names, NEW e, e = Absent \/ e \in Copies(n)
    PROVE  Inherits(n, e)
BY DEF Inherits

(* While the process runs, the engine vouches for what it vouched for      *)
(* before, for what has just been written, or for nothing.                 *)
LEMMA BackedKinds ==
    ASSUME TypeOK, [Next]_vars, ~CrashRestart, NEW n \in Names
    PROVE  Backed(n)' \in {Absent, Backed(n), data'[n]}
<1>1. /\ tainted[n] => Backed(n) = Absent
      /\ ~tainted[n] => Backed(n) = Loaded({})[n]
      /\ tainted'[n] => Backed(n)' = Absent
      /\ ~tainted'[n] => Backed(n)' = Loaded({})'[n]
  BY Zenon DEF Backed
<1>2. /\ Loaded({})[n] = IF Kept(disk[n]) /\ Listed(disk[n], now) THEN disk[n] ELSE Absent
      /\ Loaded({})'[n] = IF Kept(disk[n])' /\ Listed(disk'[n], now') THEN disk'[n] ELSE Absent
  BY DEF Loaded, Shown
<1>3. ASSUME ~tainted[n], disk'[n] = disk[n], now' = now
      PROVE  Loaded({})'[n] = Backed(n)
  <2>1. Kept(disk[n])' = Kept(disk[n])
    BY <1>3 DEF Kept
  <2>2. Backed(n) = Loaded({})[n]
    BY <1>1, <1>3
  <2> QED BY <1>2, <1>3, <2>1, <2>2
<1>4. ASSUME NEW S \in SUBSET Names, Writes(S), ~tainted'[n]
      PROVE  Loaded({})'[n] \in {Absent, Backed(n), data'[n]}
  <2>1. \/ disk'[n] = data'[n]
        \/ ~tainted[n] /\ disk'[n] = disk[n]
    BY <1>4, EngineFacts, Zenon DEF Writes
  <2>2. now' = now
    BY <1>4 DEF Writes, Calm
  <2>3. CASE disk'[n] = data'[n]
    BY <1>2, <2>3
  <2>4. CASE ~tainted[n] /\ disk'[n] = disk[n]
    BY <1>3, <2>2, <2>4
  <2> QED BY <2>1, <2>3, <2>4
<1>5. ASSUME Tick, ~tainted'[n]
      PROVE  Loaded({})'[n] \in {Absent, Backed(n)}
  <2>1. /\ disk' = disk /\ tainted' = tainted
        /\ now' = now + 1 /\ now \in Nat /\ now + 1 \in Nat /\ disk[n] \in Slot
    BY <1>5 DEF Tick, TypeOK
  <2>2. Backed(n) = Loaded({})[n]
    <3>1. ~tainted[n]
      BY <1>5, <2>1, Zenon
    <3> QED BY <1>1, <3>1
  <2>3. CASE disk[n] = Absent
    BY <1>2, <2>1, <2>3
  <2>4. CASE disk[n] # Absent
    <3>1. disk[n].expiresAt \in Nat
      BY <2>1, <2>4 DEF Slot, ServiceEntry
    <3>2. /\ now \div Second <= (now + 1) \div Second
          /\ now \div Second \in Nat /\ (now + 1) \div Second \in Nat
          /\ disk[n].expiresAt \div Second \in Nat
      BY <2>1, <3>1, WholeSeconds
    <3>3. Kept(disk[n])' /\ Listed(disk'[n], now') => Kept(disk[n]) /\ Listed(disk[n], now)
      BY <2>1, <3>1, <3>2 DEF Kept, Listed
    <3> QED BY <1>2, <2>1, <2>2, <3>3
  <2> QED BY <2>3, <2>4
<1>6. ASSUME UNCHANGED <<disk, tainted, now>>, ~tainted'[n]
      PROVE  Loaded({})'[n] = Backed(n)
  <2>1. ~tainted[n]
    BY <1>6, Zenon
  <2> QED BY <1>3, <1>6, <2>1
<1>7. ASSUME ~tainted'[n]
      PROVE  Loaded({})'[n] \in {Absent, Backed(n), data'[n]}
  BY <1>4, <1>5, <1>6, <1>7, WriteKinds DEF GetEntry, Calm
<1> QED BY <1>1, <1>7

(* While the process runs, every copy of a service's entry inherits.       *)
LEMMA CopiesInherit ==
    ASSUME TypeOK, [Next]_vars, ~CrashRestart, NEW n \in Names, NEW e \in Copies(n)'
    PROVE  Inherits(n, e) /\ globalIndex' \in {globalIndex, globalIndex + 1}
<1>1. \/ e = data'[n]
      \/ e = Backed(n)'
      \/ \E c \in Clients : n \in fresh'[c] /\ e = view'[c][n]
  BY DEF Copies
<1>2. Backed(n)' \in {Absent, Backed(n), data'[n]}
  BY BackedKinds
<1>3. ASSUME NEW S \in SUBSET Names, Writes(S)
      PROVE  Inherits(n, e) /\ globalIndex' \in {globalIndex, globalIndex + 1}
  <2>1. Inherits(n, data'[n])
    <3>1. CASE n \notin S \/ data'[n] = Absent
      BY <1>3, <3>1, CopyKinds, OldCopyInherits DEF Writes
    <3>2. CASE Renews(data[n], data'[n])
      BY <3>2, CopyKinds DEF Renews, Inherits
    <3>3. CASE Registers(data[n], data'[n])
      BY <3>3 DEF Registers, Inherits
    <3> QED BY <1>3, <3>1, <3>2, <3>3 DEF Writes
  <2>2. Inherits(n, Backed(n)')
    BY <1>2, <2>1, CopyKinds, OldCopyInherits
  <2>3. view' = view /\ fresh' = fresh /\ globalIndex' \in {globalIndex, globalIndex + 1}
    BY <1>3 DEF Writes, Calm
  <2> QED BY <1>1, <2>1, <2>2, <2>3, CopyKinds, OldCopyInherits
<1>4. CASE Tick
  <2>1. /\ data' = data /\ view' = view /\ fresh' = fresh
        /\ globalIndex' = globalIndex
    BY <1>4 DEF Tick, clients
  <2> QED BY <1>1, <1>2, <2>1, CopyKinds, OldCopyInherits
<1>5. ASSUME NEW b \in Clients, NEW m \in Names, GetEntry(b, m)
      PROVE  Inherits(n, e) /\ globalIndex' \in {globalIndex, globalIndex + 1}
  <2> DEFINE read == IF Gettable(data[m], now) THEN data[m] ELSE Absent
  <2>1. /\ data' = data /\ disk' = disk /\ now' = now /\ globalIndex' = globalIndex
        /\ view' = [view EXCEPT ![b][m] = read]
        /\ fresh' = [fresh EXCEPT ![b] = @ \cup {m}]
    BY <1>5 DEF GetEntry
  <2>2. view \in [Clients -> [Names -> Slot]] /\ fresh \in [Clients -> SUBSET Names]
    BY DEF TypeOK
  <2>3. read \in {data[m], Absent}
    OBVIOUS
  <2> HIDE DEF read
  <2>5. ASSUME NEW c \in Clients, n \in fresh'[c], e = view'[c][n]
        PROVE  Inherits(n, e)
    <3>1. CASE c = b /\ n = m
      <4>1. e = read
        BY <2>1, <2>2, <2>5, <3>1
      <4> QED BY <2>3, <3>1, <4>1, CopyKinds, OldCopyInherits
    <3>2. CASE ~(c = b /\ n = m)
      <4>1. e = view[c][n] /\ n \in fresh[c]
        BY <2>1, <2>2, <2>5, <3>2
      <4> QED BY <4>1, CopyKinds, OldCopyInherits
    <3> QED BY <3>1, <3>2
  <2> QED BY <1>1, <1>2, <2>1, <2>5, CopyKinds, OldCopyInherits
<1>6. ASSUME UNCHANGED <<data, globalIndex, disk, tainted>>, Calm
      PROVE  Inherits(n, e) /\ globalIndex' \in {globalIndex, globalIndex + 1}
  <2>1. /\ data' = data /\ disk' = disk /\ now' = now
        /\ view' = view /\ fresh' = fresh /\ globalIndex' = globalIndex
    BY <1>6 DEF Calm
  <2> QED BY <1>1, <1>2, <2>1, CopyKinds, OldCopyInherits
<1> QED BY <1>3, <1>4, <1>5, <1>6, WriteKinds

(* A copy has an index, unless it is absent.                               *)
LEMMA CopyType ==
    ASSUME TypeOK, NEW n \in Names, NEW e \in Copies(n), e # Absent
    PROVE  e \in ServiceEntry /\ e.modifyIndex \in Nat
<1>1. data[n] \in Slot /\ disk[n] \in Slot /\ \A c \in Clients : view[c][n] \in Slot
  BY DEF TypeOK
<1>2. Backed(n) \in Slot
  <2>1. Loaded({})[n] \in Slot
    BY <1>1, LoadedEntry DEF Slot
  <2> QED BY <2>1 DEF Backed, Slot
<1>3. e \in Slot
  BY <1>1, <1>2, CopyKinds
<1> QED BY <1>3 DEF Slot, ServiceEntry

(* An index names one version: only the entry that takes the index drawn   *)
(* in a step is new, and after a restart the engine's entries are the only *)
(* copies.                                                                 *)
LEMMA VersionStep == TypeOK /\ VersionInv /\ [Next]_vars => VersionInv'
<1> SUFFICES ASSUME TypeOK, VersionInv, [Next]_vars, NEW n \in Names
             PROVE  /\ disk'[n] # Absent => 1 <= disk'[n].modifyIndex
                    /\ \A e \in Copies(n)' : e # Absent =>
                          1 <= e.modifyIndex /\ e.modifyIndex <= globalIndex'
                    /\ \A e, f \in Copies(n)' :
                         (e # Absent /\ f # Absent /\ e.modifyIndex = f.modifyIndex)
                            => Version(e) = Version(f)
  BY DEF VersionInv
<1>1. globalIndex \in Nat
  BY DEF TypeOK
<1>2. \A e \in Copies(n) : e # Absent =>
         /\ e.modifyIndex \in Nat
         /\ 1 <= e.modifyIndex /\ e.modifyIndex <= globalIndex
  BY CopyType DEF VersionInv
<1>3. \A e, f \in Copies(n) :
         (e # Absent /\ f # Absent /\ e.modifyIndex = f.modifyIndex)
            => Version(e) = Version(f)
  BY DEF VersionInv
<1>4. CASE ~CrashRestart
  <2>1. \A e \in Copies(n)' :
          Inherits(n, e) /\ globalIndex' \in {globalIndex, globalIndex + 1}
    BY <1>4, CopiesInherit
  <2>2. ASSUME NEW e \in Copies(n)', e # Absent
        PROVE  1 <= e.modifyIndex /\ e.modifyIndex <= globalIndex'
    BY <1>1, <1>2, <2>1, <2>2 DEF Inherits
  <2>3. ASSUME NEW e \in Copies(n)', NEW f \in Copies(n)', e # Absent, f # Absent,
               e.modifyIndex = f.modifyIndex
        PROVE  Version(e) = Version(f)
    <3>1. Inherits(n, e) /\ Inherits(n, f)
      BY <2>1
    <3>2. CASE e = data'[n] /\ e.modifyIndex = globalIndex + 1
      <4>1. f = data'[n]
        BY <1>1, <1>2, <2>3, <3>1, <3>2 DEF Inherits
      <4> QED BY <3>2, <4>1
    <3>3. CASE f = data'[n] /\ f.modifyIndex = globalIndex + 1
      <4>1. e = data'[n]
        BY <1>1, <1>2, <2>3, <3>1, <3>3 DEF Inherits
      <4> QED BY <3>3, <4>1
    <3>4. CASE /\ ~(e = data'[n] /\ e.modifyIndex = globalIndex + 1)
               /\ ~(f = data'[n] /\ f.modifyIndex = globalIndex + 1)
      <4>1. PICK g \in Copies(n) : /\ g # Absent
                                   /\ e.modifyIndex = g.modifyIndex
                                   /\ Version(e) = Version(g)
        BY <2>3, <3>1, <3>4 DEF Inherits
      <4>2. PICK h \in Copies(n) : /\ h # Absent
                                   /\ f.modifyIndex = h.modifyIndex
                                   /\ Version(f) = Version(h)
        BY <2>3, <3>1, <3>4 DEF Inherits
      <4> QED BY <1>3, <2>3, <4>1, <4>2
    <3> QED BY <3>2, <3>3, <3>4
  <2>4. disk'[n] # Absent => 1 <= disk'[n].modifyIndex
    <3>1. disk[n] # Absent => 1 <= disk[n].modifyIndex
      BY DEF VersionInv
    <3>2. disk'[n] \in {disk[n], data'[n]}
      <4>1. ASSUME NEW S \in SUBSET Names, Writes(S)
            PROVE  disk'[n] \in {disk[n], data'[n]}
        BY <4>1, EngineFacts DEF Writes
      <4> QED BY <1>4, <4>1, WriteKinds DEF Tick, GetEntry
    <3>3. data'[n] \in Copies(n)'
      BY DEF Copies
    <3> QED BY <2>2, <3>1, <3>2, <3>3
  <2> QED BY <2>2, <2>3, <2>4
<1>5. CASE CrashRestart
  <2> PICK U \in SUBSET Names : RestartsWith(U)
    BY <1>5, RestartUnread
  <2>1. /\ data' = Loaded(U) /\ disk' = disk /\ now' = now
        /\ fresh' = [c \in Clients |-> {}]
        /\ IsLoadedIndex(Loaded(U), globalIndex')
    BY DEF RestartsWith
  <2>2. Loaded(U)[n] \in {Absent, disk[n]}
    BY DEF Loaded, Shown
  <2>3. Backed(n)' \in {Absent, data'[n]}
    <3>1. Loaded({})'[n] = Loaded({})[n]
      BY <2>1 DEF Loaded, Kept, Shown
    <3>2. tainted'[n] <=> n \in U /\ Kept(disk[n])
      BY Zenon DEF RestartsWith
    <3>3. CASE n \in U /\ Kept(disk[n])
      BY <3>2, <3>3, Zenon DEF Backed
    <3>4. CASE ~(n \in U /\ Kept(disk[n]))
      <4>1. Backed(n)' = Loaded({})'[n]
        BY <3>2, <3>4, Zenon DEF Backed
      <4>2. Loaded(U)[n] = Loaded({})[n]
        BY <3>4 DEF Loaded
      <4> QED BY <2>1, <3>1, <4>1, <4>2
    <3> QED BY <3>3, <3>4
  <2>4. \A e \in Copies(n)' : e \in {Absent, Loaded(U)[n]}
    BY <2>1, <2>3 DEF Copies
  <2>5. Loaded(U)[n] # Absent => Loaded(U)[n].modifyIndex <= globalIndex'
    BY <2>1 DEF IsLoadedIndex, Index
  <2>6. disk[n] # Absent => 1 <= disk[n].modifyIndex
    BY DEF VersionInv
  <2> QED BY <2>1, <2>2, <2>4, <2>5, <2>6
<1> QED BY <1>4, <1>5

(* Only a CAS operation that wrote says "ok".                              *)
LEMMA CASKinds ==
    ASSUME [Next]_vars, lastCAS' # lastCAS, lastCAS'.verdict = "ok"
    PROVE  \E c \in Clients, n \in Names :
              /\ lastCAS'.client = c
              /\ lastCAS'.name = n
              /\ \/ RegisterVerdict(data[n], Index(view[c][n])) = "ok"
                 \/ DeregisterVerdict(data[n], Index(view[c][n])) = "ok"
<1>1. lastCAS' # NoCAS
  BY DEF NoCAS
<1>2. PICK c \in Clients, n \in Names :
        \/ \E tags \in SUBSET Tags, meta \in Metas : RegisterCAS(c, n, tags, meta)
        \/ DeregisterCAS(c, n)
  BY <1>1 DEF Next, vars, Register, Deregister, Heartbeat, GetEntry, QueryMetadata,
     QueryTags, CleanupExpired, Tick, CrashRestart
<1>3. \/ lastCAS' = [client |-> c, name |-> n,
                     verdict |-> RegisterVerdict(data[n], Index(view[c][n]))]
      \/ lastCAS' = [client |-> c, name |-> n,
                     verdict |-> DeregisterVerdict(data[n], Index(view[c][n]))]
  BY <1>2 DEF RegisterCAS, DeregisterCAS
<1> QED BY <1>3

(* A CAS operation that succeeds replaces the version its client read: the *)
(* index it compares names a single version.                               *)
THEOREM CASIsSafe == Spec => CASNoLostUpdate
<1>1. Init => VersionInv
  <2> SUFFICES ASSUME Init PROVE VersionInv
    OBVIOUS
  <2>1. \A n \in Names : data[n] = Absent /\ disk[n] = Absent
    BY DEF Init, EmptyData
  <2>2. \A n \in Names : Backed(n) = Absent
    BY <2>1, LoadedEntry DEF Backed
  <2>3. \A c \in Clients : fresh[c] = {}
    BY DEF Init
  <2>4. \A n \in Names : \A e \in Copies(n) : e = Absent
    BY <2>1, <2>2, <2>3, CopyKinds
  <2> QED BY <2>1, <2>4 DEF VersionInv
<1>2. TypeOK /\ VersionInv /\ [Next]_vars =>
        [(lastCAS'.verdict = "ok" /\ lastCAS'.name \in fresh[lastCAS'.client])
          => Version(data[lastCAS'.name]) = Version(view[lastCAS'.client][lastCAS'.name])
        ]_lastCAS
  <2> SUFFICES ASSUME TypeOK, VersionInv, [Next]_vars, lastCAS' # lastCAS,
                      lastCAS'.verdict = "ok", lastCAS'.name \in fresh[lastCAS'.client]
               PROVE  Version(data[lastCAS'.name]) = Version(view[lastCAS'.client][lastCAS'.name])
    OBVIOUS
  <2>1. PICK c \in Clients, n \in Names :
              /\ lastCAS'.client = c
              /\ lastCAS'.name = n
              /\ \/ RegisterVerdict(data[n], Index(view[c][n])) = "ok"
                 \/ DeregisterVerdict(data[n], Index(view[c][n])) = "ok"
    BY CASKinds
  <2>2. data[n] \in Copies(n) /\ view[c][n] \in Copies(n)
    BY <2>1, CopyKinds
  <2>3. /\ data[n] # Absent => data[n].modifyIndex \in Nat /\ 1 <= data[n].modifyIndex
        /\ view[c][n] # Absent => view[c][n].modifyIndex \in Nat /\ 1 <= view[c][n].modifyIndex
    BY <2>2, CopyType DEF VersionInv
  <2>4. \/ data[n] = Absent /\ view[c][n] = Absent
        \/ data[n] # Absent /\ view[c][n] # Absent /\ data[n].modifyIndex = view[c][n].modifyIndex
    BY <2>1, <2>3 DEF RegisterVerdict, DeregisterVerdict, Index
  <2>5. Version(data[n]) = Version(view[c][n])
    BY <2>2, <2>4 DEF VersionInv
  <2> QED BY <2>1, <2>5
<1> QED BY <1>1, <1>2, VersionStep, TypeCorrect, PTL DEF Spec, CASNoLostUpdate

-----------------------------------------------------------------------------
(* A combined query that is under way has found every service it has seen  *)
(* with the tags it asks for.                                              *)
PendingInv ==
    \A c \in Clients : pending[c].stage = "tags" =>
        \A n \in Names :
            (pending[c].seen[n] # Absent /\ pending[c].tags \subseteq pending[c].seen[n].tags)
                => n \in pending[c].found

(* A tag query finds every service it would list that has the tags, since  *)
(* the indexes mirror the entries; nothing changes a query under way.      *)
LEMMA PendingStep ==
    TypeOK /\ MirrorInv /\ PendingInv /\ [Next]_vars => PendingInv'
<1> SUFFICES ASSUME TypeOK, MirrorInv, PendingInv, [Next]_vars PROVE PendingInv'
  OBVIOUS
<1> USE DEF PendingInv
<1>1. pending \in [Clients -> [stage: {"none", "tags"}, tags: SUBSET Tags, meta: Metas,
                              found: SUBSET Names, seen: [Names -> Slot]]]
  BY DEF TypeOK
<1>2. ASSUME NEW c \in Clients, NEW f \in Filters, QueryTags(c, f)
      PROVE  PendingInv'
  <2> DEFINE found == QueryByTags(tagIndex, data, now, f.tags)
             q == [stage |-> "tags", tags |-> f.tags, meta |-> f.meta,
                   found |-> found, seen |-> Shown(data)]
  <2>1. pending' = pending \/ pending' = [pending EXCEPT ![c] = q]
    BY <1>2 DEF QueryTags
  <2>2. ASSUME NEW n \in Names, Shown(data)[n] # Absent, f.tags \subseteq Shown(data)[n].tags
        PROVE  n \in found
    <3>1. Listed(data[n], now) /\ Shown(data)[n] = data[n]
      BY <2>2 DEF Shown
    <3>2. f.tags \subseteq Tags
      BY FiltersAssumption
    <3>3. \A t \in f.tags : n \in tagIndex[t]
      BY <2>2, <3>1, <3>2 DEF MirrorInv, IndexesMirror, TagIndexMirrors, HasTag, Listed
    <3> QED BY <3>1, <3>3 DEF QueryByTags
  <2>3. /\ q.found = found
        /\ q.tags = f.tags
        /\ q.seen = Shown(data)
    OBVIOUS
  <2> HIDE DEF q, found
  <2>4. CASE pending' = pending
    BY <2>4
  <2>5. CASE pending' = [pending EXCEPT ![c] = q]
    BY <1>1, <2>2, <2>3, <2>5
  <2> QED BY <2>1, <2>4, <2>5
<1>3. ASSUME NEW c \in Clients, QueryMetadata(c)
      PROVE  PendingInv'
  <2>1. pending' = [pending EXCEPT ![c] = NoQuery] /\ NoQuery.stage = "none"
    BY <1>3 DEF QueryMetadata, NoQuery
  <2> QED BY <1>1, <2>1
<1>4. CASE CrashRestart
  <2>1. \A c \in Clients : pending'[c].stage = "none"
    BY <1>4 DEF CrashRestart, NoQuery
  <2> QED BY <2>1
<1>5. ASSUME UNCHANGED pending
      PROVE  PendingInv'
  BY <1>5
<1> QED BY <1>2, <1>3, <1>4, <1>5 DEF Next, vars, queries, Register, RegisterCAS, Deregister,
        DeregisterCAS, Heartbeat, GetEntry, CleanupExpired, Tick

(* The second critical section of the query ends it, and nothing else but  *)
(* a crash does.                                                           *)
LEMMA QueryEnds ==
    ASSUME TypeOK, [Next]_vars, NEW c \in Clients, pending[c].stage = "tags",
           pending'[c].stage = "none", crashes' = crashes
    PROVE  QueryMetadata(c)
<1>1. pending \in [Clients -> [stage: {"none", "tags"}, tags: SUBSET Tags, meta: Metas,
                              found: SUBSET Names, seen: [Names -> Slot]]]
  BY DEF TypeOK
<1>2. pending' # pending
  BY <1>1
<1>3. ~CrashRestart
  BY DEF CrashRestart, TypeOK
<1>4. PICK b \in Clients : QueryMetadata(b) \/ \E f \in Filters : QueryTags(b, f)
  BY <1>2, <1>3 DEF Next, vars, queries, Register, RegisterCAS, Deregister, DeregisterCAS,
     Heartbeat, GetEntry, CleanupExpired, Tick
<1>5. ASSUME NEW f \in Filters, QueryTags(b, f)
      PROVE  FALSE
  <2>1. pending[b].stage = "none"
    BY <1>5 DEF QueryTags
  <2>2. \A x \in Clients : x # b => pending'[x] = pending[x]
    BY <1>1, <1>5 DEF QueryTags
  <2> QED BY <2>1, <2>2
<1>6. b = c
  <2>1. pending' = [pending EXCEPT ![b] = NoQuery]
    BY <1>4, <1>5 DEF QueryMetadata
  <2> QED BY <1>1, <2>1
<1> QED BY <1>4, <1>5, <1>6

(* QueryByTagsAndMetadata misses no service that is listed, in the same    *)
(* version and matching in both of its critical sections.                  *)
THEOREM QueriesMissNothing == Spec => QueryMissesNothing
<1>1. Init => PendingInv
  BY DEF Init, PendingInv, NoQuery
<1>2. TypeOK /\ MirrorInv /\ PendingInv /\ [Next]_vars =>
        [\A c \in Clients :
          (pending[c].stage = "tags" /\ pending'[c].stage = "none" /\ crashes' = crashes) =>
            \A n \in Names :
                (/\ Listed(data[n], now)
                 /\ Matches(data[n], pending[c].tags, pending[c].meta)
                 /\ Version(pending[c].seen[n]) = Version(data[n]))
                => data[n] \in answer'[c].services]_vars
  <2> SUFFICES ASSUME TypeOK, MirrorInv, PendingInv, [Next]_vars,
                      NEW c \in Clients, pending[c].stage = "tags",
                      pending'[c].stage = "none", crashes' = crashes,
                      NEW n \in Names, Listed(data[n], now),
                      Matches(data[n], pending[c].tags, pending[c].meta),
                      Version(pending[c].seen[n]) = Version(data[n])
               PROVE  data[n] \in answer'[c].services
    OBVIOUS
  <2> DEFINE R == QueryByMetadata(metaIndex, data, now, pending[c].meta)
  <2>1. answer' = [answer EXCEPT ![c] =
                     [tags |-> pending[c].tags, meta |-> pending[c].meta,
                      services |-> {data[m] : m \in R \cap pending[c].found}]]
    BY QueryEnds DEF QueryMetadata
  <2>2. answer'[c].services = {data[m] : m \in R \cap pending[c].found}
    BY <2>1 DEF TypeOK
  <2>3. n \in R
    <3>1. pending[c].meta \in Metas
      BY DEF TypeOK
    <3>2. ASSUME NEW k \in MetaKeys, pending[c].meta[k] # Absent
          PROVE  metaIndex[k][pending[c].meta[k]][n] > 0
      <4>1. pending[c].meta[k] \in MetaValues
        BY <3>1, <3>2 DEF Metas
      <4>2. HasMeta(data[n], k, pending[c].meta[k])
        BY <3>2 DEF Matches, HasMeta
      <4> QED BY <4>1, <4>2 DEF MirrorInv, IndexesMirror, MetaIndexMirrors
    <3> QED BY <3>2 DEF QueryByMetadata
  <2>4. n \in pending[c].found
    <3>1. pending[c].seen[n] \in Slot /\ data[n] \in ServiceEntry
      BY DEF TypeOK, Slot, Listed
    <3>2. [data[n] EXCEPT !.expiresAt = 0] \in ServiceEntry
      BY <3>1 DEF ServiceEntry
    <3>3. pending[c].seen[n] # Absent
      BY <3>1, <3>2, AbsentAssumption DEF Version
    <3>4. pending[c].seen[n].tags = data[n].tags
      <4>1. pending[c].seen[n] \in ServiceEntry
        BY <3>1, <3>3 DEF Slot
      <4>2. [pending[c].seen[n] EXCEPT !.expiresAt = 0] = [data[n] EXCEPT !.expiresAt = 0]
        BY <3>1, <3>3, AbsentAssumption DEF Version
      <4> QED BY <3>1, <4>1, <4>2 DEF ServiceEntry
    <3> QED BY <3>3, <3>4 DEF PendingInv, Matches
  <2> QED BY <2>2, <2>3, <2>4
<1>3. Init => MirrorInv
  BY InitType
<1> QED BY <1>1, <1>2, <1>3, PendingStep, MirrorStep, TypeCorrect, PTL
        DEF Spec, QueryMissesNothing
=============================================================================
