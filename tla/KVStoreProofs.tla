--------------------------- MODULE KVStoreProofs ---------------------------
(***************************************************************************)
(* Theorems about KVStore, for any keys, values, clients and bounds.       *)
(***************************************************************************)
EXTENDS KVStore, KVEntriesProofs

(* The idle job is a job.                                                  *)
LEMMA IdleType == Idle \in Job
BY DEF Idle, Job, Stages, Ops, EmptyData, Slot

(* What follows an engine call or a notification is a job.                 *)
LEMMA StepType ==
    ASSUME NEW j \in Job, NEW A \in SUBSET Keys
    PROVE  Step(j, A) \in Job
BY IdleType DEF Step, Job, Stages, Ops

(* A critical section that leaves well-typed data behind keeps the types.  *)
LEMMA BeginType ==
    ASSUME TypeOK, NEW p \in Procs, NEW op \in Ops, NEW S \in SUBSET Keys,
           NEW d \in [Keys -> Slot], NEW A \in SUBSET Keys,
           Begin(p, op, S, d, A), globalIndex' \in Nat
    PROVE  TypeOK'
<1>1. job' \in [Procs -> Job]
  <2>1. [k \in Keys |-> IF k \in S THEN d[k] ELSE Absent] \in [Keys -> Slot]
    BY DEF Slot
  <2> QED
    BY <2>1 DEF Begin, TypeOK, Job, Stages, Ops
<1>2. tainted' \in [Keys -> BOOLEAN]
  BY Zenon DEF Begin, TypeOK
<1> QED
  BY <1>1, <1>2 DEF Begin, TypeOK, clients

(* A critical section that writes keeps the types.                         *)
LEMMA WriteType ==
    ASSUME TypeOK, NEW p \in Procs, NEW op \in Ops, NEW S \in SUBSET Keys,
           NEW items \in [S -> Values], Write(p, op, items)
    PROVE  TypeOK'
<1>1. DOMAIN items = S
  OBVIOUS
<1>2. PICK rank \in Orders(S) :
        /\ globalIndex' = globalIndex + Cardinality(S)
        /\ Begin(p, op, S, WriteItems(data, items, rank, globalIndex), S)
  BY <1>1 DEF Write
<1>3. Cardinality(S) \in Nat
  BY OrderFacts
<1>4. globalIndex \in Nat /\ data \in [Keys -> Slot]
  BY DEF TypeOK
<1>5. globalIndex' \in Nat
  BY <1>2, <1>3, <1>4
<1>6. WriteItems(data, items, rank, globalIndex) \in [Keys -> Slot]
  BY <1>4, WriteItemsType
<1> QED
  BY <1>2, <1>5, <1>6, BeginType

(* A critical section that deletes keeps the types.                        *)
LEMMA RemoveType ==
    ASSUME TypeOK, NEW p \in Procs, NEW op \in Ops, NEW S \in SUBSET Keys,
           Remove(p, op, S)
    PROVE  TypeOK'
<1>1. data \in [Keys -> Slot] /\ globalIndex' \in Nat
  BY DEF TypeOK, Remove
<1>2. Erase(data, S) \in [Keys -> Slot]
  BY <1>1, EraseType
<1>3. Present(data, S) \in SUBSET Keys
  BY DEF Present
<1> QED
  BY <1>1, <1>2, <1>3, BeginType DEF Remove

-----------------------------------------------------------------------------
(* The operations of Next, sorted by what they do to the store.            *)

WriteStep(p, op, items) ==
    /\ Ready(p)
    /\ op = "cas" => SetVerdicts(p, DOMAIN items) = {"ok"}
    /\ op = "set" => \E k \in Keys : DOMAIN items = {k}
    /\ Write(p, op, items)

RemoveStep(p, op, S) ==
    /\ Ready(p)
    /\ op = "cas" => DeleteVerdicts(p, S) = {"ok"}
    /\ op # "set"
    /\ Remove(p, op, S)

LocalStep(p) ==
    \/ Ready(p) /\ Refuse(p)
    \/ \E S \in SUBSET Keys : BatchGetEntries(p, S)
    \/ Persist(p)
    \/ PersistFails(p)
    \/ \E k \in Keys : Notify(p, k)
    \/ Reply(p)

StepKinds ==
    \/ \E p \in Procs, op \in Ops, S \in SUBSET Keys :
          \E items \in [S -> Values] : WriteStep(p, op, items)
    \/ \E p \in Procs, k \in Keys, v \in Values, f \in Flags : SetWithFlags(p, k, v, f)
    \/ \E p \in Procs, op \in Ops, S \in SUBSET Keys : RemoveStep(p, op, S)
    \/ \E p \in Procs : LocalStep(p)
    \/ CrashRestart
    \/ UNCHANGED vars

(* A CAS write either writes its items or is refused.                      *)
LEMMA SetCASKinds ==
    ASSUME NEW p \in Procs, NEW S \in SUBSET Keys, NEW items \in [S -> Values],
           BatchSetCAS(p, items)
    PROVE  WriteStep(p, "cas", items) \/ LocalStep(p)
<1>1. CASE SetVerdicts(p, DOMAIN items) = {"ok"} /\ Write(p, "cas", items)
  BY <1>1 DEF BatchSetCAS, WriteStep
<1>2. CASE Refuse(p)
  BY <1>2 DEF LocalStep, BatchSetCAS
<1> QED
  BY <1>1, <1>2 DEF BatchSetCAS

(* A CAS delete either removes its keys or is refused.                     *)
LEMMA DeleteCASKinds ==
    ASSUME NEW p \in Procs, NEW S \in SUBSET Keys, BatchDeleteCAS(p, S)
    PROVE  RemoveStep(p, "cas", S) \/ LocalStep(p)
<1>1. CASE DeleteVerdicts(p, S) = {"ok"} /\ Remove(p, "cas", S)
  BY <1>1 DEF BatchDeleteCAS, RemoveStep
<1>2. CASE Refuse(p)
  BY <1>2 DEF LocalStep, BatchDeleteCAS
<1> QED
  BY <1>1, <1>2 DEF BatchDeleteCAS

(* A restart whose load does not read the keys U.                          *)
Restarted(U) ==
    /\ data' = Loaded(U)
    /\ globalIndex' \in {0} \cup {Index(disk[k]) : k \in Keys}
    /\ \A k \in Keys : Index(Loaded(U)[k]) <= globalIndex'
    /\ mirror' = [k \in Keys |-> ValueOf(Loaded(U)[k])]
    /\ unread' = Present(disk, U)
    /\ tainted' = [k \in Keys |-> k \in Present(disk, U)]
    /\ missed' = {}
    /\ job' = [p \in Procs |-> Idle]
    /\ fresh' = [p \in Procs |-> {}]
    /\ disk' = disk /\ view' = view
    /\ faults' = faults \/ faults' = faults + 1

(* Every restart is one of these.                                          *)
LEMMA RestartKinds ==
    ASSUME CrashRestart
    PROVE  \E U \in SUBSET Keys : Restarted(U)
<1>1. PICK U \in SUBSET Keys :
        /\ faults' = IF U = {} THEN faults ELSE faults + 1
        /\ data' = Loaded(U)
        /\ \E m \in {0} \cup {Index(disk[k]) : k \in Keys \ U} :
              IsLoadedIndex(Loaded(U), m) /\ globalIndex' = m
        /\ mirror' = [k \in Keys |-> ValueOf(Loaded(U)[k])]
        /\ unread' = Present(disk, U)
        /\ tainted' = [k \in Keys |-> k \in Present(disk, U)]
  BY DEF CrashRestart
<1>2. /\ globalIndex' \in {0} \cup {Index(disk[k]) : k \in Keys}
      /\ \A k \in Keys : Index(Loaded(U)[k]) <= globalIndex'
  BY <1>1 DEF IsLoadedIndex
<1>3. /\ missed' = {} /\ job' = [p \in Procs |-> Idle]
      /\ fresh' = [p \in Procs |-> {}] /\ disk' = disk /\ view' = view
  BY DEF CrashRestart
<1>4. faults' = faults \/ faults' = faults + 1
  BY <1>1
<1>5. Restarted(U)
  BY <1>1, <1>2, <1>3, <1>4, Zenon DEF Restarted
<1> QED
  BY <1>5

(* Every step of the store is of one of the kinds of StepKinds.            *)
LEMMA NextKinds == [Next]_vars => StepKinds
<1> SUFFICES ASSUME [Next]_vars
             PROVE  StepKinds
  OBVIOUS
<1>1. ASSUME NEW p \in Procs, NEW k \in Keys, NEW v \in Values,
             Set(p, k, v) \/ SetCAS(p, k, v)
      PROVE  StepKinds
  <2>1. /\ [x \in {k} |-> v] \in [{k} -> Values] /\ {k} \in SUBSET Keys
        /\ DOMAIN [x \in {k} |-> v] = {k}
    OBVIOUS
  <2>2. CASE Set(p, k, v)
    <3>1. WriteStep(p, "set", [x \in {k} |-> v])
      BY <2>1, <2>2 DEF Set, WriteStep
    <3> QED
      BY <2>1, <3>1 DEF StepKinds, Ops
  <2>3. CASE SetCAS(p, k, v)
    <3>1. WriteStep(p, "cas", [x \in {k} |-> v]) \/ LocalStep(p)
      BY <2>1, <2>3, SetCASKinds DEF SetCAS
    <3> QED
      BY <2>1, <3>1 DEF StepKinds, Ops
  <2> QED
    BY <1>1, <2>2, <2>3
<1>2. ASSUME NEW p \in Procs, NEW k \in Keys,
             Delete(p, k) \/ DeleteCAS(p, k) \/ Notify(p, k)
      PROVE  StepKinds
  <2>1. CASE Delete(p, k)
    <3>1. RemoveStep(p, "delete", {k})
      BY <2>1 DEF Delete, RemoveStep
    <3> QED
      BY <3>1 DEF StepKinds, Ops
  <2>2. CASE DeleteCAS(p, k)
    <3>1. RemoveStep(p, "cas", {k}) \/ LocalStep(p)
      BY <2>2, DeleteCASKinds DEF DeleteCAS
    <3> QED
      BY <3>1 DEF StepKinds, Ops
  <2>3. CASE Notify(p, k)
    BY <2>3 DEF StepKinds, LocalStep
  <2> QED
    BY <1>2, <2>1, <2>2, <2>3
<1>3. ASSUME NEW p \in Procs, NEW S \in SUBSET Keys, NEW items \in [S -> Values],
             BatchSet(p, items) \/ BatchSetCAS(p, items)
      PROVE  StepKinds
  <2>1. CASE BatchSet(p, items)
    <3>1. WriteStep(p, "batch", items)
      BY <2>1 DEF BatchSet, WriteStep
    <3> QED
      BY <3>1 DEF StepKinds, Ops
  <2>2. CASE BatchSetCAS(p, items)
    <3>1. WriteStep(p, "cas", items) \/ LocalStep(p)
      BY <2>2, SetCASKinds
    <3> QED
      BY <3>1 DEF StepKinds, Ops
  <2> QED
    BY <1>3, <2>1, <2>2
<1>4. ASSUME NEW p \in Procs, NEW S \in SUBSET Keys,
             BatchDelete(p, S) \/ BatchDeleteCAS(p, S) \/ BatchGetEntries(p, S)
      PROVE  StepKinds
  <2>1. CASE BatchDelete(p, S)
    <3>1. RemoveStep(p, "batch", S)
      BY <2>1 DEF BatchDelete, RemoveStep
    <3> QED
      BY <3>1 DEF StepKinds, Ops
  <2>2. CASE BatchDeleteCAS(p, S)
    <3>1. RemoveStep(p, "cas", S) \/ LocalStep(p)
      BY <2>2, DeleteCASKinds
    <3> QED
      BY <3>1 DEF StepKinds, Ops
  <2>3. CASE BatchGetEntries(p, S)
    BY <2>3 DEF StepKinds, LocalStep
  <2> QED
    BY <1>4, <2>1, <2>2, <2>3
<1>5. ASSUME NEW p \in Procs, Persist(p) \/ PersistFails(p) \/ Reply(p)
      PROVE  StepKinds
  BY <1>5 DEF StepKinds, LocalStep
<1>6. ASSUME NEW p \in Procs, NEW k \in Keys, NEW v \in Values, NEW f \in Flags,
             SetWithFlags(p, k, v, f)
      PROVE  StepKinds
  BY <1>6 DEF StepKinds
<1>7. CASE CrashRestart \/ UNCHANGED vars
  BY <1>7 DEF StepKinds
<1> QED
  BY <1>1, <1>2, <1>3, <1>4, <1>5, <1>6, <1>7 DEF Next, Batches

-----------------------------------------------------------------------------
(* Every variable keeps its type in every step of the store, of its        *)
(* clients and of the environment.                                         *)
LEMMA TypeStep == TypeOK /\ [Next]_vars => TypeOK'
<1> SUFFICES ASSUME TypeOK, StepKinds
             PROVE  TypeOK'
  BY NextKinds
<1>1. ASSUME NEW p \in Procs, NEW op \in Ops, NEW S \in SUBSET Keys,
             NEW items \in [S -> Values], WriteStep(p, op, items)
      PROVE  TypeOK'
  BY <1>1, WriteType DEF WriteStep
<1>2. ASSUME NEW p \in Procs, NEW k \in Keys, NEW v \in Values, NEW f \in Flags,
             SetWithFlags(p, k, v, f)
      PROVE  TypeOK'
  <2>1. globalIndex' \in Nat /\ globalIndex + 1 \in Nat /\ data \in [Keys -> Slot]
    BY <1>2 DEF TypeOK, SetWithFlags
  <2>2. NewEntry(data[k], v, f, globalIndex + 1) \in Slot
    BY <2>1, NewEntryType DEF Slot
  <2>3. WriteFlagged(data, k, v, f, globalIndex + 1) \in [Keys -> Slot]
    BY <2>1, <2>2 DEF WriteFlagged
  <2>4. "set" \in Ops /\ {k} \in SUBSET Keys
    BY DEF Ops
  <2> QED
    BY <1>2, <2>1, <2>3, <2>4, BeginType DEF SetWithFlags
<1>3. ASSUME NEW p \in Procs, NEW op \in Ops, NEW S \in SUBSET Keys,
             RemoveStep(p, op, S)
      PROVE  TypeOK'
  BY <1>3, RemoveType DEF RemoveStep
<1>4. ASSUME NEW p \in Procs, LocalStep(p)
      PROVE  TypeOK'
  <2>1. CASE Refuse(p)
    BY <2>1 DEF Refuse, TypeOK, vars
  <2>2. ASSUME NEW S \in SUBSET Keys, BatchGetEntries(p, S)
        PROVE  TypeOK'
    <3>1. [k \in Keys |-> IF k \in S THEN data[k] ELSE view[p][k]] \in [Keys -> Slot]
      BY DEF TypeOK
    <3> QED
      BY <2>2, <3>1 DEF BatchGetEntries, TypeOK, store, history
  <2>3. job[p] \in Job /\ job[p].announce \in SUBSET Keys
    BY DEF TypeOK, Job
  <2>4. Step(job[p], job[p].announce) \in Job /\ Idle \in Job
    BY <2>3, StepType, IdleType
  <2>5. CASE Persist(p)
    <3>1. disk' \in [Keys -> Slot]
      BY <2>5, <2>3 DEF TypeOK, Persist, Job
    <3>2. unread' \subseteq Keys
      BY <2>5 DEF TypeOK, Persist
    <3> QED
      BY <2>4, <2>5, <3>1, <3>2 DEF TypeOK, Persist, clients
  <2>6. CASE PersistFails(p)
    <3>1. job' \in [Procs -> Job] /\ faults' \in Nat
      BY <2>4, <2>6 DEF TypeOK, PersistFails
    <3>2. tainted' \in [Keys -> BOOLEAN]
      BY <2>6, Zenon DEF TypeOK, PersistFails
    <3> QED
      BY <2>6, <3>1, <3>2 DEF TypeOK, PersistFails, store, clients
  <2>7. ASSUME NEW k \in Keys, Notify(p, k)
        PROVE  TypeOK'
    <3>1. job[p].announce \ {k} \in SUBSET Keys
      BY <2>3
    <3>2. Step(job[p], job[p].announce \ {k}) \in Job
      BY <2>3, <3>1, StepType
    <3>3. ValueOf(job[p].new[k]) \in Values \cup {Absent}
      BY <2>3 DEF ValueOf, Job, Slot, KVEntry
    <3>4. missed' \subseteq Keys /\ faults' \in Nat
      BY <2>7 DEF TypeOK, Notify
    <3>5. mirror' \in [Keys -> Values \cup {Absent}]
      BY <2>7, <3>3 DEF TypeOK, Notify
    <3> QED
      BY <2>7, <3>2, <3>4, <3>5 DEF TypeOK, Notify, store, clients
  <2>8. CASE Reply(p)
    BY <2>4, <2>8 DEF TypeOK, Reply, store, clients, history
  <2> QED
    BY <1>4, <2>1, <2>2, <2>5, <2>6, <2>7, <2>8 DEF LocalStep
<1>5. CASE CrashRestart
  <2>1. \A k \in Keys : Index(disk[k]) \in Nat /\ ValueOf(disk[k]) \in Values \cup {Absent}
    BY DEF TypeOK, Index, ValueOf, Slot, KVEntry
  <2>2. PICK U \in SUBSET Keys : Restarted(U)
    BY <1>5, RestartKinds
  <2>3. Loaded(U) \in [Keys -> Slot]
    BY DEF TypeOK, Loaded, Slot
  <2>4. \A k \in Keys : ValueOf(Loaded(U)[k]) \in Values \cup {Absent}
    BY <2>1 DEF Loaded, ValueOf
  <2>5. globalIndex' \in Nat /\ mirror' \in [Keys -> Values \cup {Absent}]
    BY <2>1, <2>2, <2>4 DEF Restarted
  <2>6. job' \in [Procs -> Job] /\ fresh' \in [Procs -> SUBSET Keys]
    BY <2>2, IdleType DEF Restarted
  <2>7. unread' \subseteq Keys /\ missed' \subseteq Keys /\ faults' \in Nat
    BY <2>2 DEF Restarted, Present, TypeOK
  <2>8. tainted' \in [Keys -> BOOLEAN]
    BY <2>2, SMT DEF Restarted
  <2>9. crashes' \in Nat
    BY <1>5 DEF CrashRestart, TypeOK
  <2> QED
    BY <2>2, <2>3, <2>5, <2>6, <2>7, <2>8, <2>9 DEF TypeOK, Restarted
<1>6. CASE UNCHANGED vars
  BY <1>6 DEF TypeOK, vars
<1> QED
  BY <1>1, <1>2, <1>3, <1>4, <1>5, <1>6 DEF StepKinds

(* Every variable of the store keeps its type in every behaviour.          *)
THEOREM TypeCorrect == Spec => []TypeOK
<1>1. Init => TypeOK
  BY IdleType DEF Init, TypeOK, EmptyData, Slot
<1> QED
  BY <1>1, TypeStep, PTL DEF Spec

-----------------------------------------------------------------------------
(* Versions.  A step adds to the copies of a key at most the one entry it  *)
(* has just written, with an index above globalIndex.                      *)

(* Every copy of an entry is an entry or Absent.                           *)
LEMMA CopiesType ==
    ASSUME TypeOK
    PROVE  \A k \in Keys : Copies(k) \subseteq Slot
BY DEF TypeOK, Copies, Job

(* If every copy after a step is an old copy of the same key or the new    *)
(* entry n[k], and the new entries have indices that were not drawn        *)
(* before, versions stay bounded and unique.                               *)
LEMMA VersionsPreserved ==
    ASSUME TypeOK, TypeOK', IndexBounded, VersionUnique,
           NEW n \in [Keys -> Slot],
           globalIndex <= globalIndex',
           \A k \in Keys : \A e \in Copies(k)' : e \in Copies(k) \/ e = Absent \/ e = n[k],
           \A k \in Keys : n[k] # Absent =>
               WellFormed(n[k], globalIndex') /\ globalIndex < n[k].modifyIndex
    PROVE  IndexBounded' /\ VersionUnique'
<1>1. \A k \in Keys : Copies(k) \subseteq Slot
  BY CopiesType
<1>2. globalIndex \in Nat /\ globalIndex' \in Nat
  BY DEF TypeOK
<1>3. ASSUME NEW k \in Keys, NEW e \in Copies(k), e # Absent
      PROVE  /\ e \in KVEntry
             /\ WellFormed(e, globalIndex)
             /\ e.modifyIndex <= globalIndex
  BY <1>1, <1>3 DEF IndexBounded, WellFormed, Slot
<1>4. ASSUME NEW k \in Keys, NEW e \in Copies(k)'
      PROVE  WellFormed(e, globalIndex')
  <2>1. CASE e \in Copies(k) /\ e # Absent
    <3>1. e \in KVEntry /\ WellFormed(e, globalIndex)
      BY <1>3, <2>1
    <3> QED
      BY <1>2, <2>1, <3>1 DEF WellFormed, KVEntry
  <2>2. CASE e = Absent
    BY <2>2 DEF WellFormed
  <2>3. CASE e = n[k] /\ e # Absent
    BY <2>3
  <2> QED
    BY <1>4, <2>1, <2>2, <2>3
<1>5. ASSUME NEW k \in Keys,
             NEW e \in Copies(k)', NEW f \in Copies(k)',
             e # Absent, f # Absent, e.modifyIndex = f.modifyIndex
      PROVE  e = f
  <2>1. CASE e \in Copies(k) /\ f \in Copies(k)
    BY <1>5, <2>1 DEF VersionUnique
  <2>2. CASE e \in Copies(k) /\ f = n[k]
    <3>1. e.modifyIndex <= globalIndex /\ e.modifyIndex \in Nat
      BY <1>3, <1>5, <2>2 DEF KVEntry
    <3>2. globalIndex < f.modifyIndex
      BY <1>5, <2>2
    <3> QED
      BY <1>2, <1>5, <3>1, <3>2
  <2>3. CASE e = n[k] /\ f \in Copies(k)
    <3>1. f.modifyIndex <= globalIndex /\ f.modifyIndex \in Nat
      BY <1>3, <1>5, <2>3 DEF KVEntry
    <3>2. globalIndex < e.modifyIndex
      BY <1>5, <2>3
    <3> QED
      BY <1>2, <1>5, <3>1, <3>2
  <2>4. CASE e = n[k] /\ f = n[k]
    BY <2>4
  <2> QED
    BY <1>5, <2>1, <2>2, <2>3, <2>4
<1>6. IndexBounded'
  BY <1>4 DEF IndexBounded
<1>7. VersionUnique'
  BY <1>5 DEF VersionUnique
<1> QED
  BY <1>6, <1>7

(* A critical section adds the entries it leaves in memory, and no others. *)
LEMMA BeginCopies ==
    ASSUME TypeOK, NEW p \in Procs, NEW op, NEW S \in SUBSET Keys,
           NEW d \in [Keys -> Slot], NEW A, Begin(p, op, S, d, A)
    PROVE  \A k \in Keys : \A e \in Copies(k)' :
               e \in Copies(k) \/ e = Absent \/ e = d[k]
<1> SUFFICES ASSUME NEW k \in Keys, NEW e \in Copies(k)'
             PROVE  e \in Copies(k) \/ e = Absent \/ e = d[k]
  OBVIOUS
<1>1. /\ data'[k] = d[k] /\ disk'[k] = disk[k] /\ unread' = unread
      /\ view' = view /\ fresh' = fresh
  BY DEF Begin, clients
<1>2. \A q \in Procs : \/ job'[q].new[k] = job[q].new[k]
                       \/ job'[q].new[k] \in {d[k], Absent}
  BY DEF Begin, TypeOK
<1> QED
  BY <1>1, <1>2 DEF Copies

(* Versions survive any operation that writes.                             *)
LEMMA WriteVersions ==
    ASSUME TypeOK, TypeOK', IndexBounded, VersionUnique,
           NEW p \in Procs, NEW op \in Ops, NEW S \in SUBSET Keys,
           NEW items \in [S -> Values], Write(p, op, items)
    PROVE  IndexBounded' /\ VersionUnique'
<1>1. DOMAIN items = S
  OBVIOUS
<1>2. PICK rank \in Orders(S) :
        /\ globalIndex' = globalIndex + Cardinality(S)
        /\ Begin(p, op, S, WriteItems(data, items, rank, globalIndex), S)
  BY <1>1 DEF Write
<1> DEFINE d == WriteItems(data, items, rank, globalIndex)
           n == [k \in Keys |-> IF k \in S THEN d[k] ELSE Absent]
<1>3. /\ Cardinality(S) \in Nat
      /\ rank \in [S -> 1 .. Cardinality(S)]
      /\ \A a, b \in S : rank[a] = rank[b] => a = b
  BY OrderFacts
<1>4. globalIndex \in Nat /\ data \in [Keys -> Slot]
  BY DEF TypeOK
<1>5. d \in [Keys -> Slot]
  BY <1>4, WriteItemsType
<1>6. n \in [Keys -> Slot]
  BY <1>5 DEF Slot
<1>7. \A k \in Keys \ S : d[k] = data[k]
  BY <1>1 DEF WriteItems
<1>8. ASSUME NEW k \in Keys, NEW e \in Copies(k)'
      PROVE  e \in Copies(k) \/ e = Absent \/ e = n[k]
  <2>1. e \in Copies(k) \/ e = Absent \/ e = d[k]
    BY <1>2, <1>5, BeginCopies
  <2>2. k \notin S => d[k] \in Copies(k)
    BY <1>7 DEF Copies
  <2> QED
    BY <2>1, <2>2
<1>9. ASSUME NEW k \in S
      PROVE  /\ n[k].modifyIndex = globalIndex + rank[k]
             /\ n[k].createIndex = IF data[k] = Absent THEN globalIndex + rank[k]
                                   ELSE data[k].createIndex
  BY <1>1 DEF WriteItems, NewEntry
<1>10. ASSUME NEW k \in Keys, n[k] # Absent
       PROVE  WellFormed(n[k], globalIndex') /\ globalIndex < n[k].modifyIndex
  <2>1. k \in S
    BY <1>10
  <2>2. rank[k] \in 1 .. Cardinality(S)
    BY <1>3, <2>1
  <2>3. n[k].modifyIndex = globalIndex + rank[k]
    BY <1>9, <2>1
  <2>4. CASE data[k] = Absent
    <3>1. n[k].createIndex = globalIndex + rank[k]
      BY <1>9, <2>1, <2>4
    <3> QED
      BY <1>2, <1>3, <1>4, <2>2, <2>3, <3>1 DEF WellFormed
  <2>5. CASE data[k] # Absent
    <3>1. n[k].createIndex = data[k].createIndex
      BY <1>9, <2>1, <2>5
    <3>2. WellFormed(data[k], globalIndex) /\ data[k] \in KVEntry
      BY <1>4, <2>5 DEF IndexBounded, Copies, Slot
    <3>3. /\ 1 <= data[k].createIndex /\ data[k].createIndex <= globalIndex
          /\ data[k].createIndex \in Nat
      BY <1>4, <2>5, <3>2 DEF WellFormed, KVEntry
    <3> QED
      BY <1>2, <1>3, <1>4, <2>2, <2>3, <3>1, <3>3 DEF WellFormed
  <2> QED
    BY <2>4, <2>5
<1>11. globalIndex <= globalIndex'
  BY <1>2, <1>3, <1>4
<1> HIDE DEF d, n
<1> QED
  BY <1>6, <1>8, <1>10, <1>11, VersionsPreserved

(* Every entry on disk, also one the last load has not read, was well      *)
(* formed when it was written.                                             *)
DiskSound ==
    \A k \in Keys : disk[k] # Absent => /\ 1 <= disk[k].createIndex
                                        /\ disk[k].createIndex <= disk[k].modifyIndex

(* Only an engine call that succeeds changes the disk.                     *)
LEMMA DiskStep ==
    ASSUME TypeOK, IndexBounded, DiskSound, [Next]_vars
    PROVE  DiskSound'
<1>1. CASE disk' = disk
  BY <1>1 DEF DiskSound
<1>2. ASSUME NEW p \in Procs, Persist(p) PROVE DiskSound'
  <2> SUFFICES ASSUME NEW k \in Keys, disk'[k] # Absent
               PROVE  /\ 1 <= disk'[k].createIndex
                      /\ disk'[k].createIndex <= disk'[k].modifyIndex
    BY DEF DiskSound
  <2>1. disk'[k] = disk[k] \/ disk'[k] = job[p].new[k]
    BY <1>2 DEF Persist
  <2>2. job[p].new[k] \in Copies(k)
    BY DEF Copies
  <2> QED
    BY <2>1, <2>2 DEF DiskSound, IndexBounded, WellFormed
<1>3. ASSUME NEW p \in Procs, LocalStep(p) PROVE DiskSound'
  BY <1>1, <1>2, <1>3 DEF LocalStep, Refuse, BatchGetEntries, PersistFails, Notify,
                          Reply, store, vars
<1>4. CASE CrashRestart \/ UNCHANGED vars
  BY <1>1, <1>4 DEF CrashRestart, vars
<1>5. ASSUME NEW p \in Procs, NEW op, NEW S, NEW d, NEW A, Begin(p, op, S, d, A)
      PROVE  DiskSound'
  BY <1>1, <1>5 DEF Begin
<1> QED
  BY <1>3, <1>4, <1>5, NextKinds
  DEF StepKinds, WriteStep, Write, SetWithFlags, RemoveStep, Remove

(* The inductive step for versions: one case per kind of step.             *)
LEMMA VersionStep ==
    ASSUME TypeOK, TypeOK', DiskSound, IndexBounded, VersionUnique, [Next]_vars
    PROVE  IndexBounded' /\ VersionUnique'
<1>1. ASSUME NEW p \in Procs, NEW op \in Ops, NEW S \in SUBSET Keys,
             NEW items \in [S -> Values], WriteStep(p, op, items)
      PROVE  IndexBounded' /\ VersionUnique'
  BY <1>1, WriteVersions DEF WriteStep
<1>2. ASSUME NEW p \in Procs, NEW k \in Keys, NEW v \in Values, NEW f \in Flags,
             SetWithFlags(p, k, v, f)
      PROVE  IndexBounded' /\ VersionUnique'
  <2> DEFINE e == NewEntry(data[k], v, f, globalIndex + 1)
             n == [x \in Keys |-> IF x = k THEN e ELSE Absent]
             d == WriteFlagged(data, k, v, f, globalIndex + 1)
  <2>1. globalIndex' = globalIndex + 1 /\ globalIndex \in Nat /\ data \in [Keys -> Slot]
    BY <1>2 DEF SetWithFlags, TypeOK
  <2>2. e \in KVEntry
    BY <2>1, NewEntryType
  <2>3. n \in [Keys -> Slot] /\ d \in [Keys -> Slot]
    BY <2>1, <2>2 DEF Slot, WriteFlagged
  <2>4. d[k] = e /\ \A x \in Keys \ {k} : d[x] = data[x]
    BY <2>1 DEF WriteFlagged
  <2>5. ASSUME NEW x \in Keys, NEW c \in Copies(x)'
        PROVE  c \in Copies(x) \/ c = Absent \/ c = n[x]
    <3>1. c \in Copies(x) \/ c = Absent \/ c = d[x]
      BY <1>2, <2>3, BeginCopies DEF SetWithFlags
    <3> QED
      BY <2>4, <3>1 DEF Copies
  <2>6. e.modifyIndex = globalIndex + 1
    BY DEF NewEntry
  <2>7. WellFormed(e, globalIndex')
    <3>1. CASE data[k] = Absent
      BY <2>1, <3>1 DEF NewEntry, WellFormed
    <3>2. CASE data[k] # Absent
      <4>1. WellFormed(data[k], globalIndex) /\ data[k] \in KVEntry
        BY <2>1, <3>2 DEF IndexBounded, Copies, Slot
      <4> QED
        BY <2>1, <3>2, <4>1 DEF NewEntry, WellFormed, KVEntry
    <3> QED
      BY <3>1, <3>2
  <2>8. globalIndex <= globalIndex'
    BY <2>1
  <2>9. \A x \in Keys : n[x] # Absent =>
          WellFormed(n[x], globalIndex') /\ globalIndex < n[x].modifyIndex
    BY <2>1, <2>6, <2>7
  <2> HIDE DEF e, n, d
  <2> QED
    BY <2>3, <2>5, <2>8, <2>9, VersionsPreserved
<1>3. ASSUME globalIndex' = globalIndex,
             \A k \in Keys : \A e \in Copies(k)' : e \in Copies(k) \/ e = Absent
      PROVE  IndexBounded' /\ VersionUnique'
  <2>1. EmptyData \in [Keys -> Slot] /\ \A k \in Keys : EmptyData[k] = Absent
    BY DEF EmptyData, Slot
  <2>2. globalIndex <= globalIndex'
    BY <1>3 DEF TypeOK
  <2> QED
    BY <1>3, <2>1, <2>2, VersionsPreserved
<1>4. ASSUME NEW p \in Procs, NEW op \in Ops, NEW S \in SUBSET Keys,
             RemoveStep(p, op, S)
      PROVE  IndexBounded' /\ VersionUnique'
  <2>1. /\ Begin(p, op, S, Erase(data, S), Present(data, S))
        /\ globalIndex' = globalIndex
    BY <1>4 DEF RemoveStep, Remove
  <2>2. Erase(data, S) \in [Keys -> Slot]
    BY EraseType DEF TypeOK
  <2>3. \A k \in Keys : Erase(data, S)[k] \in {data[k], Absent}
    BY DEF Erase
  <2>4. \A k \in Keys : \A e \in Copies(k)' :
          e \in Copies(k) \/ e = Absent \/ e = Erase(data, S)[k]
    BY <2>1, <2>2, BeginCopies
  <2>5. \A k \in Keys : \A e \in Copies(k)' : e \in Copies(k) \/ e = Absent
    BY <2>3, <2>4 DEF Copies
  <2> QED
    BY <1>3, <2>1, <2>5
<1>5. ASSUME NEW p \in Procs, LocalStep(p)
      PROVE  IndexBounded' /\ VersionUnique'
  <2>1. globalIndex' = globalIndex /\ data' = data
    BY <1>5 DEF LocalStep, Refuse, BatchGetEntries, Persist, PersistFails, Notify,
                Reply, store, vars
  <2>2. ASSUME NEW k \in Keys, NEW q \in Procs
        PROVE  job'[q].new[k] \in {job[q].new[k], Absent}
    <3>1. \/ job' = job
          \/ job' = [job EXCEPT ![p] = Idle]
          \/ \E A : job' = [job EXCEPT ![p] = Step(job[p], A)]
      BY <1>5 DEF LocalStep, Refuse, BatchGetEntries, Persist, PersistFails, Notify,
                  Reply, vars
    <3>2. Idle.new[k] = Absent
      BY DEF Idle, EmptyData
    <3>3. \A A : Step(job[p], A).new[k] \in {job[p].new[k], Absent}
      BY <3>2 DEF Step, TypeOK, Job
    <3> QED
      BY <3>1, <3>2, <3>3 DEF TypeOK
  <2>3. \A k \in Keys : \/ disk'[k] = disk[k] /\ (k \in unread => k \in unread')
                       \/ disk'[k] \in {job[q].new[k] : q \in Procs}
    BY <1>5 DEF LocalStep, Refuse, BatchGetEntries, Persist, PersistFails, Notify,
                Reply, store, history, vars
  <2>4. \A k \in Keys, q \in Procs :
          k \in fresh'[q] => \/ k \in fresh[q] /\ view'[q][k] = view[q][k]
                             \/ view'[q][k] = data[k]
    <3>1. CASE view' = view /\ fresh' = fresh
      BY <3>1
    <3>2. ASSUME NEW S \in SUBSET Keys, BatchGetEntries(p, S)
          PROVE  \A k \in Keys, q \in Procs :
                   k \in fresh'[q] => \/ k \in fresh[q] /\ view'[q][k] = view[q][k]
                                      \/ view'[q][k] = data[k]
      BY <3>2 DEF BatchGetEntries, TypeOK
    <3> QED
      BY <1>5, <3>1, <3>2 DEF LocalStep, Refuse, Persist, PersistFails, Notify, Reply,
                              clients, vars
  <2>5. \A k \in Keys : \A e \in Copies(k)' : e \in Copies(k) \/ e = Absent
    BY <2>1, <2>2, <2>3, <2>4 DEF Copies
  <2> QED
    BY <1>3, <2>1, <2>5
<1>6. CASE CrashRestart
  <2>1. PICK U \in SUBSET Keys : Restarted(U)
    BY <1>6, RestartKinds
  <2>2. ASSUME NEW k \in Keys, NEW e \in Copies(k)', e # Absent
        PROVE  e = disk[k] /\ k \notin U
    <3>1. data'[k] = IF k \in U THEN Absent ELSE disk[k]
      BY <2>1 DEF Restarted, Loaded
    <3>2. disk'[k] = disk[k] /\ (k \in U /\ disk[k] # Absent => k \in unread')
      BY <2>1 DEF Restarted, Present
    <3>3. \A p \in Procs : job'[p].new[k] = Absent /\ k \notin fresh'[p]
      BY <2>1 DEF Restarted, Idle, EmptyData
    <3> QED
      BY <2>2, <3>1, <3>2, <3>3 DEF Copies
  <2>3. IndexBounded'
    <3> SUFFICES ASSUME NEW k \in Keys \ U, disk[k] # Absent
                 PROVE  WellFormed(disk[k], globalIndex')
      BY <2>2 DEF IndexBounded, WellFormed
    <3>1. disk[k] \in KVEntry /\ 1 <= disk[k].createIndex
          /\ disk[k].createIndex <= disk[k].modifyIndex
      BY DEF DiskSound, TypeOK, Slot
    <3>2. disk[k].modifyIndex <= globalIndex'
      BY <2>1 DEF Restarted, Loaded, Index
    <3> QED
      BY <3>1, <3>2 DEF WellFormed
  <2>4. VersionUnique'
    BY <2>2 DEF VersionUnique
  <2> QED
    BY <2>3, <2>4
<1>7. CASE UNCHANGED vars
  <2>1. \A k \in Keys : Copies(k)' = Copies(k)
    BY <1>7 DEF vars, Copies
  <2>2. globalIndex' = globalIndex
    BY <1>7 DEF vars
  <2> QED
    BY <1>3, <2>1, <2>2
<1> QED
  BY <1>1, <1>2, <1>4, <1>5, <1>6, <1>7, NextKinds DEF StepKinds

(* ModifyIndex identifies a version in every reachable state, whatever the *)
(* number of clients, the engine's failures, the restarts and the keys     *)
(* their loads skip.                                                       *)
THEOREM VersionsAreUnique == Spec => [](IndexBounded /\ VersionUnique)
<1>1. Init => DiskSound /\ IndexBounded /\ VersionUnique
  <2> SUFFICES ASSUME Init
               PROVE  /\ \A k \in Keys : disk[k] = Absent
                      /\ \A k \in Keys : \A e \in Copies(k) : e = Absent
    BY DEF DiskSound, IndexBounded, VersionUnique, WellFormed
  <2> QED
    BY DEF Init, Copies, Idle, EmptyData
<1>2. TypeOK /\ TypeOK' /\ DiskSound /\ IndexBounded /\ VersionUnique /\ [Next]_vars
        => DiskSound' /\ IndexBounded' /\ VersionUnique'
  BY VersionStep, DiskStep
<1> QED
  BY <1>1, <1>2, TypeCorrect, PTL DEF Spec

(* No copy of an entry, in memory, on disk, on its way there or in the     *)
(* hands of a client, is newer than the counter (kv.go:103, :131), but for *)
(* an entry the last load skipped and nobody has written since (kv.go:79). *)
THEOREM IndicesAreBounded == Spec => []IndexBounded
BY VersionsAreUnique, PTL

-----------------------------------------------------------------------------
(* Compare-and-swap.                                                       *)

(* Only a CAS operation whose checks have all passed starts in job "cas".  *)
LEMMA CASStart ==
    ASSUME TypeOK, [Next]_vars, NEW p \in Procs, NEW k \in Keys,
           job[p].stage = "idle",
           job'[p].stage = "persist", job'[p].op = "cas", k \in job'[p].touched
    PROVE  \/ SetVerdict(data[k], Expected(p, k)) = "ok"
           \/ DeleteVerdict(data[k], Expected(p, k)) = "ok"
<1>1. ASSUME NEW q \in Procs, NEW op \in Ops, NEW S \in SUBSET Keys,
             NEW items \in [S -> Values], WriteStep(q, op, items)
      PROVE  SetVerdict(data[k], Expected(p, k)) = "ok"
  <2>1. DOMAIN items = S
    OBVIOUS
  <2>2. \E d : Begin(q, op, S, d, S)
    BY <1>1, <2>1 DEF WriteStep, Write
  <2>3. q = p /\ op = "cas" /\ k \in S
    BY <2>2 DEF Begin, TypeOK
  <2>4. SetVerdicts(p, S) = {"ok"}
    BY <1>1, <2>1, <2>3 DEF WriteStep
  <2> QED
    BY <2>3, <2>4 DEF SetVerdicts
<1>2. ASSUME NEW q \in Procs, NEW op \in Ops, NEW S \in SUBSET Keys,
             RemoveStep(q, op, S)
      PROVE  DeleteVerdict(data[k], Expected(p, k)) = "ok"
  <2>1. Begin(q, op, S, Erase(data, S), Present(data, S))
    BY <1>2 DEF RemoveStep, Remove
  <2>2. q = p /\ op = "cas" /\ k \in S
    BY <2>1 DEF Begin, TypeOK
  <2>3. DeleteVerdicts(p, S) = {"ok"}
    BY <1>2, <2>2 DEF RemoveStep
  <2> QED
    BY <2>2, <2>3 DEF DeleteVerdicts
<1>3. ASSUME NEW q \in Procs, NEW x \in Keys, NEW v \in Values, NEW f \in Flags,
             SetWithFlags(q, x, v, f)
      PROVE  FALSE
  BY <1>3 DEF SetWithFlags, Begin, TypeOK
<1>4. ASSUME NEW q \in Procs, LocalStep(q)
      PROVE  FALSE
  <2>1. CASE job' = job
    BY <2>1
  <2>2. CASE job' = [job EXCEPT ![q] = Idle]
    BY <2>2 DEF Idle, TypeOK
  <2>3. ASSUME NEW A, job[q].stage # "idle", job' = [job EXCEPT ![q] = Step(job[q], A)]
        PROVE  FALSE
    <3>1. q # p
      BY <2>3
    <3> QED
      BY <2>3, <3>1 DEF TypeOK
  <2> QED
    BY <1>4, <2>1, <2>2, <2>3 DEF LocalStep, Refuse, BatchGetEntries, Persist,
                                  PersistFails, Notify, Reply, vars
<1>5. CASE CrashRestart
  BY <1>5 DEF CrashRestart, Idle
<1>6. CASE UNCHANGED vars
  BY <1>6 DEF vars
<1> QED
  BY <1>1, <1>2, <1>3, <1>4, <1>5, <1>6, NextKinds DEF StepKinds

(* A compare-and-swap never overwrites or deletes an entry other than the  *)
(* one its client read from the running process: because an index names    *)
(* one version, a matching index means an unchanged entry.                 *)
THEOREM CASIsSafe == Spec => CASNoLostUpdate
<1>1. ASSUME TypeOK, IndexBounded, VersionUnique, [Next]_vars,
             NEW p \in Procs, NEW k \in fresh[p],
             job[p].stage = "idle",
             job'[p].stage = "persist", job'[p].op = "cas", k \in job'[p].touched
      PROVE  data[k] = view[p][k]
  <2>1. k \in Keys /\ data[k] \in Slot /\ view[p][k] \in Slot
    BY <1>1 DEF TypeOK
  <2>2. data[k] \in Copies(k) /\ view[p][k] \in Copies(k)
    BY DEF Copies
  <2>3. \/ SetVerdict(data[k], Expected(p, k)) = "ok"
        \/ DeleteVerdict(data[k], Expected(p, k)) = "ok"
    BY <1>1, <2>1, CASStart
  <2>4. view[p][k] # Absent => view[p][k].modifyIndex \in Nat /\ 1 <= view[p][k].modifyIndex
    BY <1>1, <2>1, <2>2 DEF IndexBounded, WellFormed, Slot, KVEntry
  <2>5. CASE data[k] = Absent
    <3>1. Expected(p, k) = 0
      BY <2>3, <2>5 DEF SetVerdict, DeleteVerdict
    <3> QED
      BY <2>4, <2>5, <3>1 DEF Expected, Index
  <2>6. CASE data[k] # Absent
    <3>1. data[k].modifyIndex \in Nat /\ 1 <= data[k].modifyIndex
      BY <1>1, <2>1, <2>2, <2>6 DEF IndexBounded, WellFormed, Slot, KVEntry
    <3>2. data[k].modifyIndex = Expected(p, k)
      BY <2>3, <2>6 DEF SetVerdict, DeleteVerdict
    <3>3. view[p][k] # Absent /\ view[p][k].modifyIndex = data[k].modifyIndex
      BY <3>1, <3>2 DEF Expected, Index
    <3> QED
      BY <1>1, <2>1, <2>2, <2>6, <3>3 DEF VersionUnique
  <2> QED
    BY <2>5, <2>6
<1>2. TypeOK /\ IndexBounded /\ VersionUnique /\ [Next]_vars =>
        [\A p \in Procs : \A k \in fresh[p] :
          (/\ job[p].stage = "idle"
           /\ job'[p].stage = "persist" /\ job'[p].op = "cas"
           /\ k \in job'[p].touched)
            => data[k] = view[p][k]]_vars
  BY <1>1
<1> QED
  BY <1>2, TypeCorrect, VersionsAreUnique, PTL DEF Spec, CASNoLostUpdate

-----------------------------------------------------------------------------
(* The critical sections in one form.  Goroutine p turns kv.Data into d by *)
(* changing keys of S: it deletes, or it writes entries with new indices   *)
(* that keep the CreateIndex of what they replace.  A key of S that it     *)
(* does not announce keeps its entry.                                      *)
Critical(p, op, S, d, A) ==
    /\ Ready(p)
    /\ Begin(p, op, S, d, A)
    /\ globalIndex <= globalIndex'
    /\ \A k \in Keys \ A : d[k] = data[k]
    /\ \A k \in S : d[k] # Absent =>
         /\ globalIndex < d[k].modifyIndex
         /\ d[k].createIndex = IF data[k] = Absent THEN d[k].modifyIndex
                               ELSE data[k].createIndex
    /\ op = "set" => \E k \in Keys : S = {k} /\ d[k] # Absent

CriticalStep ==
    \E p \in Procs, op \in Ops, S \in SUBSET Keys, d \in [Keys -> Slot] :
        \E A \in SUBSET S : Critical(p, op, S, d, A)

(* Every step is a critical section, a step outside of it, or a crash.     *)
LEMMA CriticalKinds ==
    ASSUME TypeOK, [Next]_vars
    PROVE  \/ CriticalStep
           \/ \E p \in Procs : LocalStep(p)
           \/ CrashRestart
           \/ UNCHANGED vars
<1>1. globalIndex \in Nat /\ data \in [Keys -> Slot]
  BY DEF TypeOK
<1>2. ASSUME NEW p \in Procs, NEW op \in Ops, NEW S \in SUBSET Keys,
             NEW items \in [S -> Values], WriteStep(p, op, items)
      PROVE  CriticalStep
  <2>1. DOMAIN items = S
    OBVIOUS
  <2>2. PICK rank \in Orders(S) :
          /\ globalIndex' = globalIndex + Cardinality(S)
          /\ Begin(p, op, S, WriteItems(data, items, rank, globalIndex), S)
    BY <1>2, <2>1 DEF WriteStep, Write
  <2> DEFINE d == WriteItems(data, items, rank, globalIndex)
  <2>3. Cardinality(S) \in Nat /\ rank \in [S -> 1 .. Cardinality(S)]
    BY OrderFacts
  <2>4. d \in [Keys -> Slot] /\ globalIndex <= globalIndex'
    BY <1>1, <2>2, <2>3, WriteItemsType
  <2>5. \A k \in Keys \ S : d[k] = data[k]
    BY <1>1, WriteItemsFacts
  <2>6. ASSUME NEW k \in S
        PROVE  /\ d[k] # Absent
               /\ globalIndex < d[k].modifyIndex
               /\ d[k].createIndex = IF data[k] = Absent THEN d[k].modifyIndex
                                     ELSE data[k].createIndex
    <3>1. d[k] = NewEntry(data[k], items[k], KeptFlags(data[k]), globalIndex + rank[k])
          /\ d[k] # Absent
      BY <1>1, WriteItemsFacts
    <3>2. rank[k] \in Nat /\ rank[k] >= 1
      BY <2>3
    <3> HIDE DEF d
    <3> QED
      BY <1>1, <3>1, <3>2 DEF NewEntry
  <2>7. Begin(p, op, S, d, S)
    BY <2>2
  <2> HIDE DEF d
  <2>8. op = "set" => \E k \in Keys : S = {k} /\ d[k] # Absent
    BY <1>2, <2>1, <2>6 DEF WriteStep
  <2>9. Critical(p, op, S, d, S)
    BY <1>2, <2>4, <2>5, <2>6, <2>7, <2>8 DEF Critical, WriteStep
  <2> QED
    BY <2>4, <2>9 DEF CriticalStep
<1>3. ASSUME NEW p \in Procs, NEW k \in Keys, NEW v \in Values, NEW f \in Flags,
             SetWithFlags(p, k, v, f)
      PROVE  CriticalStep
  <2> DEFINE d == WriteFlagged(data, k, v, f, globalIndex + 1)
  <2>1. /\ Ready(p) /\ globalIndex' = globalIndex + 1 /\ globalIndex <= globalIndex'
        /\ Begin(p, "set", {k}, d, {k})
    BY <1>1, <1>3 DEF SetWithFlags
  <2>2. NewEntry(data[k], v, f, globalIndex + 1) \in KVEntry
    BY <1>1, NewEntryType
  <2>3. /\ d \in [Keys -> Slot] /\ d[k] = NewEntry(data[k], v, f, globalIndex + 1)
        /\ \A x \in Keys \ {k} : d[x] = data[x]
    BY <1>1, <2>2 DEF WriteFlagged, Slot
  <2> HIDE DEF d
  <2>4. /\ d[k] # Absent
        /\ globalIndex < d[k].modifyIndex
        /\ d[k].createIndex = IF data[k] = Absent THEN d[k].modifyIndex
                              ELSE data[k].createIndex
    BY <1>1, <2>2, <2>3, AbsentAssumption DEF NewEntry
  <2>5. Critical(p, "set", {k}, d, {k})
    BY <2>1, <2>3, <2>4 DEF Critical
  <2> QED
    BY <2>3, <2>5 DEF CriticalStep, Ops
<1>4. ASSUME NEW p \in Procs, NEW op \in Ops, NEW S \in SUBSET Keys, RemoveStep(p, op, S)
      PROVE  CriticalStep
  <2> DEFINE d == Erase(data, S)
             A == Present(data, S)
  <2>1. /\ Ready(p) /\ globalIndex' = globalIndex /\ globalIndex <= globalIndex'
        /\ Begin(p, op, S, d, A) /\ op # "set"
    BY <1>1, <1>4 DEF RemoveStep, Remove
  <2>2. d \in [Keys -> Slot] /\ A \in SUBSET S
    BY <1>1, EraseType DEF Present
  <2>3. \A k \in Keys \ A : d[k] = data[k]
    BY DEF Present, Erase
  <2>4. \A k \in S : d[k] = Absent
    BY DEF Erase
  <2> HIDE DEF d, A
  <2>5. Critical(p, op, S, d, A)
    BY <2>1, <2>3, <2>4 DEF Critical
  <2> QED
    BY <2>2, <2>5 DEF CriticalStep
<1> QED
  BY <1>2, <1>3, <1>4, NextKinds DEF StepKinds

(* A request goes on to its notifications or to its answer.                *)
Onward(p) ==
    /\ job'[p].op = job[p].op
    /\ job'[p].touched = job[p].touched
    /\ job'[p].new = job[p].new
    /\ job'[p].stage \in {"notify", "reply"}

(* What the other steps of goroutine p do to its job: nothing, or one step *)
(* towards its end.                                                        *)
LEMMA LocalFacts ==
    ASSUME TypeOK, NEW p \in Procs, LocalStep(p)
    PROVE  /\ data' = data /\ globalIndex' = globalIndex /\ crashes' = crashes
           /\ \A q \in Procs \ {p} : job'[q] = job[q]
           /\ \/ job[p].stage = "idle" /\ job'[p] = job[p]
              \/ job[p].stage # "idle" /\ job'[p] = Idle
              \/ job[p].stage \in {"persist", "notify"} /\ Onward(p)
<1>1. data' = data /\ globalIndex' = globalIndex /\ crashes' = crashes
  BY DEF LocalStep, Refuse, BatchGetEntries, Persist, PersistFails, Notify, Reply, store,
         vars
<1>2. \A q \in Procs \ {p} : job'[q] = job[q]
  BY DEF LocalStep, Refuse, BatchGetEntries, Persist, PersistFails, Notify, Reply,
         TypeOK, vars
<1>3. ASSUME NEW A, job' = [job EXCEPT ![p] = Step(job[p], A)]
      PROVE  job'[p] = Idle \/ Onward(p)
  <2>1. job'[p] = Step(job[p], A) /\ job[p] \in Job
    BY <1>3 DEF TypeOK
  <2>2. CASE A # {}
    <3>1. job'[p] = [job[p] EXCEPT !.stage = "notify", !.announce = A]
      BY <2>1, <2>2 DEF Step
    <3> QED
      BY <2>1, <3>1 DEF Onward, Job
  <2>3. CASE A = {} /\ job[p].op = "set"
    <3>1. job'[p] = [job[p] EXCEPT !.stage = "reply", !.announce = {}]
      BY <2>1, <2>3 DEF Step
    <3> QED
      BY <2>1, <3>1 DEF Onward, Job
  <2>4. CASE A = {} /\ job[p].op # "set"
    BY <2>1, <2>4 DEF Step
  <2> QED
    BY <2>2, <2>3, <2>4
<1>4. CASE Persist(p) \/ \E k \in Keys : Notify(p, k)
  <2>1. CASE Persist(p)
    <3>1. job[p].stage = "persist" /\ (job'[p] = Idle \/ Onward(p))
      BY <1>3, <2>1 DEF Persist
    <3> QED
      BY <1>1, <1>2, <3>1
  <2>2. ASSUME NEW k \in Keys, Notify(p, k)
        PROVE  job[p].stage = "notify" /\ (job'[p] = Idle \/ Onward(p))
    BY <1>3, <2>2 DEF Notify
  <2> QED
    BY <1>1, <1>2, <1>4, <2>1, <2>2
<1>5. CASE PersistFails(p)
  <2>1. CASE job[p].op \in {"batch", "cas"}
    BY <1>1, <1>2, <1>5, <2>1 DEF PersistFails, TypeOK
  <2>2. CASE job[p].op \notin {"batch", "cas"}
    <3>1. job[p].stage = "persist" /\ (job'[p] = Idle \/ Onward(p))
      BY <1>3, <1>5, <2>2 DEF PersistFails
    <3> QED
      BY <1>1, <1>2, <3>1
  <2> QED
    BY <2>1, <2>2
<1>6. CASE Reply(p)
  BY <1>1, <1>2, <1>6 DEF Reply, TypeOK
<1>7. CASE \/ Ready(p) /\ Refuse(p)
           \/ \E S \in SUBSET Keys : BatchGetEntries(p, S)
  BY <1>1, <1>2, <1>7 DEF Ready, Refuse, BatchGetEntries, vars
<1> QED
  BY <1>4, <1>5, <1>6, <1>7 DEF LocalStep

-----------------------------------------------------------------------------
(* The mutex.  From the check of a CAS operation to its return nobody else *)
(* changes the keys it validated (kv.go:187, :518).                        *)
LEMMA ExclusiveStep ==
    ASSUME TypeOK, CASExclusive, [Next]_vars
    PROVE  CASExclusive'
<1>1. CASE CriticalStep
  <2>1. PICK p \in Procs, op \in Ops, S \in SUBSET Keys, d \in [Keys -> Slot] :
          \E A \in SUBSET S : Critical(p, op, S, d, A)
    BY <1>1 DEF CriticalStep
  <2>2. /\ data' = d /\ job'[p].touched = S /\ \A k \in S : job'[p].new[k] = d[k]
        /\ \A q \in Procs \ {p} : job'[q] = job[q]
        /\ MutexFree
    <3>1. PICK A \in SUBSET S : Critical(p, op, S, d, A)
      BY <2>1
    <3> QED
      BY <3>1 DEF Critical, Begin, Ready, TypeOK
  <2>3. \A q \in Procs : HoldsMutex(q)' => q = p
    BY <2>2 DEF HoldsMutex, MutexFree
  <2> QED
    BY <2>2, <2>3 DEF CASExclusive
<1>2. ASSUME NEW p \in Procs, LocalStep(p) PROVE CASExclusive'
  <2>1. data' = data /\ \A q \in Procs \ {p} : job'[q] = job[q]
    BY <1>2, LocalFacts
  <2>2. HoldsMutex(p)' => /\ HoldsMutex(p) /\ job'[p].touched = job[p].touched
                          /\ job'[p].new = job[p].new
    BY <1>2, LocalFacts DEF HoldsMutex, Idle, Onward
  <2>3. \A q \in Procs : HoldsMutex(q)' => /\ HoldsMutex(q)
                                           /\ job'[q].touched = job[q].touched
                                           /\ job'[q].new = job[q].new
    BY <2>1, <2>2 DEF HoldsMutex
  <2> QED
    BY <2>1, <2>3 DEF CASExclusive
<1>3. CASE CrashRestart
  BY <1>3 DEF CrashRestart, CASExclusive, HoldsMutex, Idle
<1>4. CASE UNCHANGED vars
  BY <1>4 DEF vars, CASExclusive, HoldsMutex
<1> QED
  BY <1>1, <1>2, <1>3, <1>4, CriticalKinds

(* One CAS operation at a time holds the mutex, and as long as it does,    *)
(* through its engine call and its notifications, the keys it has changed  *)
(* are as it left them.                                                    *)
THEOREM CASIsExclusive == Spec => []CASExclusive
<1>1. Init => CASExclusive
  BY DEF Init, CASExclusive, HoldsMutex, Idle
<1>2. TypeOK /\ CASExclusive /\ [Next]_vars => CASExclusive'
  BY ExclusiveStep
<1> QED
  BY <1>1, <1>2, TypeCorrect, PTL DEF Spec

(* While one process runs the counter never goes back, an entry is only    *)
(* replaced by a newer version that keeps its CreateIndex, and a key that  *)
(* is created gets an index nobody has drawn before (kv.go:131, :136).      *)
THEOREM VersionsDoAdvance == Spec => VersionsAdvance
<1>1. ASSUME TypeOK, [Next]_vars, crashes' = crashes
      PROVE  /\ globalIndex' >= globalIndex
             /\ \A k \in Keys :
                  (data'[k] # data[k] /\ data'[k] # Absent) =>
                     /\ data'[k].modifyIndex > globalIndex
                     /\ data'[k].createIndex =
                          IF data[k] = Absent THEN data'[k].modifyIndex
                          ELSE data[k].createIndex
  <2>1. CASE CriticalStep
    <3>1. PICK p \in Procs, op \in Ops, S \in SUBSET Keys, d \in [Keys -> Slot] :
            \E A \in SUBSET S : Critical(p, op, S, d, A)
      BY <2>1 DEF CriticalStep
    <3>2. data' = d
      BY <3>1 DEF Critical, Begin
    <3>3. PICK A \in SUBSET S : Critical(p, op, S, d, A)
      BY <3>1
    <3>4. globalIndex' >= globalIndex
      BY <3>3 DEF Critical
    <3>5. ASSUME NEW k \in Keys, d[k] # data[k], d[k] # Absent
          PROVE  /\ d[k].modifyIndex > globalIndex
                 /\ d[k].createIndex = IF data[k] = Absent THEN d[k].modifyIndex
                                       ELSE data[k].createIndex
      <4>1. k \in S
        BY <3>3, <3>5 DEF Critical
      <4> QED
        BY <3>3, <3>5, <4>1 DEF Critical
    <3> QED
      BY <3>2, <3>4, <3>5
  <2>2. CASE data' = data /\ globalIndex' = globalIndex
    BY <1>1, <2>2 DEF TypeOK
  <2>3. ASSUME NEW p \in Procs, LocalStep(p)
        PROVE  data' = data /\ globalIndex' = globalIndex
    BY <1>1, <2>3, LocalFacts
  <2>4. CASE CrashRestart
    BY <1>1, <2>4 DEF CrashRestart, TypeOK
  <2>5. CASE UNCHANGED vars
    BY <2>2, <2>5 DEF vars
  <2> QED
    BY <1>1, <2>1, <2>2, <2>3, <2>4, <2>5, CriticalKinds
<1>2. TypeOK /\ [Next]_vars =>
        [crashes' = crashes =>
          /\ globalIndex' >= globalIndex
          /\ \A k \in Keys :
               (data'[k] # data[k] /\ data'[k] # Absent) =>
                  /\ data'[k].modifyIndex > globalIndex
                  /\ data'[k].createIndex =
                       IF data[k] = Absent THEN data'[k].modifyIndex
                       ELSE data[k].createIndex]_vars
  BY <1>1
<1> QED
  BY <1>2, TypeCorrect, PTL DEF Spec, VersionsAdvance

-----------------------------------------------------------------------------
(* Settling.  As long as the last write of a key overlapped no other and   *)
(* no engine call for it failed, at most one request works on it; that     *)
(* request carries the entry the key has now, and what it has done so far  *)
(* agrees with that entry.                                                 *)
Heard(k) == k \in missed \/ mirror[k] = ValueOf(data[k])

SettledAt(k) ==
    /\ \A p, q \in Procs : InFlight(p, k) /\ InFlight(q, k) => p = q
    /\ \A p \in Procs : (job[p].stage = "persist" /\ k \in job[p].touched) =>
         /\ job[p].new[k] = data[k]
         /\ k \in job[p].announce \/ Heard(k)
    /\ \A p \in Procs : (job[p].stage = "notify" /\ k \in job[p].announce) =>
         job[p].new[k] = data[k] /\ disk[k] = data[k]
    /\ (\A p \in Procs : ~InFlight(p, k)) => disk[k] = data[k] /\ Heard(k)

SettledInv ==
    /\ \A p \in Procs : job[p].announce \subseteq job[p].touched
    /\ \A k \in Keys : ~tainted[k] => SettledAt(k)

(* A step that changes nothing about key k, in the store or in what the    *)
(* requests still have to do for it, leaves it as settled as it was.       *)
SameFor(q, k) ==
    IF InFlight(q, k)
    THEN /\ job'[q].stage = job[q].stage
         /\ job'[q].touched = job[q].touched
         /\ job'[q].new[k] = job[q].new[k]
         /\ k \in job'[q].announce <=> k \in job[q].announce
    ELSE ~InFlight(q, k)'

LEMMA SettledKept ==
    ASSUME NEW k \in Keys, SettledAt(k), \A q \in Procs : SameFor(q, k),
           data'[k] = data[k], disk'[k] = disk[k], mirror'[k] = mirror[k],
           k \in missed => k \in missed'
    PROVE  SettledAt(k)'
<1>1. \A q \in Procs : InFlight(q, k)' <=> InFlight(q, k)
  BY DEF SameFor, InFlight
<1>2. \A p, q \in Procs : InFlight(p, k)' /\ InFlight(q, k)' => p = q
  BY <1>1 DEF SettledAt
<1>3. ASSUME NEW p \in Procs, job'[p].stage = "persist", k \in job'[p].touched
      PROVE  /\ job'[p].new[k] = data'[k]
             /\ k \in job'[p].announce \/ Heard(k)'
  <2>1. InFlight(p, k)
    BY <1>1, <1>3 DEF InFlight
  <2>2. job[p].stage = "persist" /\ k \in job[p].touched
    BY <1>3, <2>1 DEF SameFor
  <2> QED
    BY <2>1, <2>2 DEF SameFor, SettledAt, Heard
<1>4. ASSUME NEW p \in Procs, job'[p].stage = "notify", k \in job'[p].announce
      PROVE  job'[p].new[k] = data'[k] /\ disk'[k] = data'[k]
  <2>1. InFlight(p, k)
    BY <1>1, <1>4 DEF InFlight
  <2>2. job[p].stage = "notify" /\ k \in job[p].announce
    BY <1>4, <2>1 DEF SameFor
  <2> QED
    BY <2>1, <2>2 DEF SameFor, SettledAt
<1>5. (\A p \in Procs : ~InFlight(p, k)') => disk'[k] = data'[k] /\ Heard(k)'
  BY <1>1 DEF SettledAt, Heard
<1> QED
  BY <1>2, <1>3, <1>4, <1>5 DEF SettledAt

(* What remains of a job when the keys A are still to be announced.        *)
LEMMA StepFacts ==
    ASSUME NEW j \in Job, NEW A \in SUBSET j.announce, j.announce \subseteq j.touched
    PROVE  /\ Step(j, A).announce \subseteq Step(j, A).touched
           /\ A = {} => Step(j, A).stage \in {"idle", "reply"}
           /\ A # {} => /\ Step(j, A).stage = "notify" /\ Step(j, A).announce = A
                        /\ Step(j, A).new = j.new /\ Step(j, A).touched = j.touched
<1>1. CASE A # {}
  <2>1. Step(j, A) = [j EXCEPT !.stage = "notify", !.announce = A]
    BY <1>1 DEF Step
  <2>2. /\ Step(j, A).stage = "notify" /\ Step(j, A).announce = A
        /\ Step(j, A).new = j.new /\ Step(j, A).touched = j.touched
    BY <2>1 DEF Job
  <2> QED
    BY <1>1, <2>2
<1>2. CASE A = {} /\ j.op = "set"
  <2>1. Step(j, A) = [j EXCEPT !.stage = "reply", !.announce = {}]
    BY <1>2 DEF Step
  <2>2. Step(j, A).stage = "reply" /\ Step(j, A).announce = {}
    BY <2>1 DEF Job
  <2> QED
    BY <1>2, <2>2
<1>3. CASE A = {} /\ j.op # "set"
  <2>1. Step(j, A) = Idle
    BY <1>3 DEF Step
  <2> QED
    BY <1>3, <2>1 DEF Idle
<1> QED
  BY <1>1, <1>2, <1>3

(* A critical section taints the key if another request works on it;       *)
(* otherwise its own request is the only one.                              *)
LEMMA CriticalSettled ==
    ASSUME TypeOK, SettledInv, CriticalStep
    PROVE  SettledInv'
<1>1. PICK p \in Procs, op \in Ops, S \in SUBSET Keys, d \in [Keys -> Slot] :
        \E A \in SUBSET S : Critical(p, op, S, d, A)
  BY DEF CriticalStep
<1>2. PICK A \in SUBSET S : Critical(p, op, S, d, A)
  BY <1>1
<1>3. /\ data' = d /\ disk' = disk /\ mirror' = mirror /\ missed' = missed
      /\ job'[p].stage = "persist" /\ job'[p].touched = S
      /\ job'[p].announce = A /\ \A k \in S : job'[p].new[k] = d[k]
      /\ \A q \in Procs \ {p} : job'[q] = job[q]
      /\ job[p].stage = "idle"
  BY <1>2 DEF Critical, Begin, Ready, TypeOK
<1>4. \A q \in Procs : job'[q].announce \subseteq job'[q].touched
  BY <1>3 DEF SettledInv
<1>5. \A k \in Keys \ A : d[k] = data[k]
  BY <1>2 DEF Critical
<1>6. ASSUME NEW k \in Keys, ~tainted'[k]
      PROVE  /\ k \in S => /\ \A q \in Procs : ~InFlight(q, k)
                           /\ k \in A \/ ~tainted[k]
             /\ k \notin S => ~tainted[k]
  <2>1. tainted'[k] = IF k \in S THEN \/ \E q \in Procs : InFlight(q, k)
                                      \/ tainted[k] /\ k \notin A
                      ELSE tainted[k]
    BY <1>2, Zenon DEF Critical, Begin
  <2> QED
    BY <1>6, <2>1, Zenon
<1>7. ASSUME NEW k \in Keys, ~tainted'[k], k \notin S PROVE SettledAt(k)'
  <2>1. SettledAt(k)
    BY <1>6, <1>7 DEF SettledInv
  <2>2. ~InFlight(p, k) /\ ~InFlight(p, k)'
    BY <1>3, <1>7 DEF InFlight
  <2>3. \A q \in Procs : SameFor(q, k)
    BY <1>3, <2>2 DEF SameFor, InFlight
  <2>4. data'[k] = data[k]
    BY <1>3, <1>5, <1>7
  <2> QED
    BY <1>3, <2>1, <2>3, <2>4, SettledKept
<1>8. ASSUME NEW k \in Keys, ~tainted'[k], k \in S PROVE SettledAt(k)'
  <2>1. \A q \in Procs : ~InFlight(q, k)
    BY <1>6, <1>8
  <2>2. \A q \in Procs \ {p} : ~InFlight(q, k)'
    BY <1>3, <2>1 DEF InFlight
  <2>3. InFlight(p, k)'
    BY <1>3, <1>8 DEF InFlight
  <2>4. k \in A \/ Heard(k)'
    <3>1. ASSUME k \notin A PROVE Heard(k)'
      <4>1. SettledAt(k)
        BY <1>6, <1>8, <3>1 DEF SettledInv
      <4>2. data'[k] = data[k]
        BY <1>3, <1>5, <3>1
      <4> QED
        BY <1>3, <2>1, <4>1, <4>2 DEF SettledAt, Heard
    <3> QED
      BY <3>1
  <2>5. ASSUME NEW q \in Procs, q # p
        PROVE  /\ ~(job'[q].stage = "persist" /\ k \in job'[q].touched)
               /\ ~(job'[q].stage = "notify" /\ k \in job'[q].announce)
    BY <2>2, <2>5 DEF InFlight
  <2> QED
    BY <1>3, <1>8, <2>2, <2>3, <2>4, <2>5 DEF SettledAt
<1> QED
  BY <1>4, <1>7, <1>8 DEF SettledInv

(* A request that ends its engine call, or one of its notifications, makes *)
(* the engine and the watchers agree with the entry it carries.            *)
LEMMA ServedSettled ==
    ASSUME TypeOK, SettledInv, NEW p \in Procs, Persist(p) \/ \E x \in Keys : Notify(p, x)
    PROVE  SettledInv'
<1>1. job[p] \in Job /\ job[p].announce \subseteq job[p].touched
  BY DEF TypeOK, SettledInv
<1>2. CASE Persist(p)
  <2> DEFINE A == job[p].announce
  <2>1. /\ job[p].stage = "persist" /\ data' = data /\ mirror' = mirror
        /\ tainted' = tainted /\ missed' = missed
        /\ job' = [job EXCEPT ![p] = Step(job[p], A)]
        /\ disk' = [k \in Keys |-> IF k \in job[p].touched THEN job[p].new[k] ELSE disk[k]]
    BY <1>2 DEF Persist
  <2>2. /\ job'[p] = Step(job[p], A)
        /\ \A q \in Procs \ {p} : job'[q] = job[q]
    BY <2>1 DEF TypeOK
  <2>3. /\ job'[p].announce \subseteq job'[p].touched
        /\ A = {} => job'[p].stage \in {"idle", "reply"}
        /\ A # {} => /\ job'[p].stage = "notify" /\ job'[p].announce = A
                     /\ job'[p].new = job[p].new /\ job'[p].touched = job[p].touched
    BY <1>1, <2>2, StepFacts
  <2>4. \A k \in Keys : InFlight(p, k)' <=> k \in A
    BY <2>3 DEF InFlight
  <2>5. ASSUME NEW k \in Keys, SettledAt(k), k \notin job[p].touched PROVE SettledAt(k)'
    <3>1. ~InFlight(p, k) /\ ~InFlight(p, k)'
      BY <1>1, <2>1, <2>4, <2>5 DEF InFlight
    <3>2. \A q \in Procs : SameFor(q, k)
      BY <2>2, <3>1 DEF SameFor, InFlight
    <3>3. disk'[k] = disk[k]
      BY <2>1, <2>5
    <3> QED
      BY <2>1, <2>5, <3>2, <3>3, SettledKept
  <2>6. ASSUME NEW k \in Keys, SettledAt(k), k \in job[p].touched PROVE SettledAt(k)'
    <3>1. InFlight(p, k)
      BY <2>1, <2>6 DEF InFlight
    <3>2. \A q \in Procs \ {p} : ~InFlight(q, k)
      BY <2>6, <3>1 DEF SettledAt
    <3>3. \A q \in Procs \ {p} : ~InFlight(q, k)'
      BY <2>2, <3>2 DEF InFlight
    <3>4. /\ job[p].new[k] = data[k] /\ disk'[k] = data'[k]
          /\ k \in A \/ Heard(k)'
      BY <2>1, <2>6 DEF SettledAt, Heard
    <3>5. \A q \in Procs \ {p} : /\ ~(job'[q].stage = "persist" /\ k \in job'[q].touched)
                                 /\ ~(job'[q].stage = "notify" /\ k \in job'[q].announce)
      BY <3>3 DEF InFlight
    <3>6. job'[p].stage # "persist"
      BY <2>3
    <3>7. (job'[p].stage = "notify" /\ k \in job'[p].announce) => job'[p].new = job[p].new
      BY <2>3
    <3> QED
      BY <2>1, <2>4, <3>3, <3>4, <3>5, <3>6, <3>7 DEF SettledAt
  <2>7. \A q \in Procs : job'[q].announce \subseteq job'[q].touched
    BY <2>2, <2>3 DEF SettledInv
  <2> QED
    BY <2>1, <2>5, <2>6, <2>7 DEF SettledInv
<1>3. ASSUME NEW x \in Keys, Notify(p, x) PROVE SettledInv'
  <2> DEFINE A == job[p].announce \ {x}
  <2>1. /\ job[p].stage = "notify" /\ x \in job[p].announce
        /\ data' = data /\ disk' = disk /\ tainted' = tainted
        /\ job' = [job EXCEPT ![p] = Step(job[p], A)]
        /\ \/ /\ mirror' = [mirror EXCEPT ![x] = ValueOf(job[p].new[x])]
              /\ missed' = missed \ {x}
           \/ mirror' = mirror /\ missed' = missed \cup {x}
    BY <1>3 DEF Notify, store
  <2>2. /\ job'[p] = Step(job[p], A)
        /\ \A q \in Procs \ {p} : job'[q] = job[q]
    BY <2>1 DEF TypeOK
  <2>3. /\ job'[p].announce \subseteq job'[p].touched
        /\ A = {} => job'[p].stage \in {"idle", "reply"}
        /\ A # {} => /\ job'[p].stage = "notify" /\ job'[p].announce = A
                     /\ job'[p].new = job[p].new /\ job'[p].touched = job[p].touched
    BY <1>1, <2>2, StepFacts
  <2>4. ASSUME NEW k \in Keys, SettledAt(k), k # x PROVE SettledAt(k)'
    <3>1. SameFor(p, k)
      BY <2>1, <2>3, <2>4 DEF SameFor, InFlight
    <3>2. \A q \in Procs : SameFor(q, k)
      BY <2>2, <3>1 DEF SameFor, InFlight
    <3>3. mirror'[k] = mirror[k] /\ (k \in missed => k \in missed')
      BY <2>1, <2>4 DEF TypeOK
    <3> QED
      BY <2>1, <2>4, <3>2, <3>3, SettledKept
  <2>5. ASSUME SettledAt(x) PROVE SettledAt(x)'
    <3>1. InFlight(p, x)
      BY <2>1 DEF InFlight
    <3>2. \A q \in Procs \ {p} : ~InFlight(q, x)
      BY <2>5, <3>1 DEF SettledAt
    <3>3. ~InFlight(p, x)'
      BY <2>3 DEF InFlight
    <3>4. \A q \in Procs : ~InFlight(q, x)'
      BY <2>2, <3>2, <3>3 DEF InFlight
    <3>5. job[p].new[x] = data[x] /\ disk[x] = data[x]
      BY <2>1, <2>5 DEF SettledAt
    <3>6. disk'[x] = data'[x] /\ Heard(x)'
      BY <2>1, <3>5 DEF TypeOK, Heard
    <3>7. \A q \in Procs : /\ ~(job'[q].stage = "persist" /\ x \in job'[q].touched)
                           /\ ~(job'[q].stage = "notify" /\ x \in job'[q].announce)
      BY <3>4 DEF InFlight
    <3> QED
      BY <3>4, <3>6, <3>7 DEF SettledAt
  <2>6. \A q \in Procs : job'[q].announce \subseteq job'[q].touched
    BY <2>2, <2>3 DEF SettledInv
  <2> QED
    BY <2>1, <2>4, <2>5, <2>6 DEF SettledInv
<1> QED
  BY <1>2, <1>3

(* A failed engine call taints the keys it was for and no others.          *)
LEMMA FailedSettled ==
    ASSUME TypeOK, SettledInv, NEW p \in Procs, PersistFails(p)
    PROVE  SettledInv'
<1>1. job[p] \in Job /\ job[p].announce \subseteq job[p].touched
  BY DEF TypeOK, SettledInv
<1>2. /\ job[p].stage = "persist" /\ data' = data /\ disk' = disk /\ mirror' = mirror
      /\ missed' = missed
      /\ \/ job' = [job EXCEPT ![p] = Idle]
         \/ job' = [job EXCEPT ![p] = Step(job[p], job[p].announce)]
  BY DEF PersistFails, store
<1>3. /\ job'[p] = Idle \/ job'[p] = Step(job[p], job[p].announce)
      /\ \A q \in Procs \ {p} : job'[q] = job[q]
  BY <1>2 DEF TypeOK
<1>4. /\ job'[p].announce \subseteq job'[p].touched
      /\ job'[p].stage # "persist"
      /\ job'[p].stage = "notify" => job'[p].announce \subseteq job[p].announce
  <2>1. CASE job'[p] = Idle
    BY <2>1 DEF Idle
  <2>2. CASE job'[p] = Step(job[p], job[p].announce)
    BY <1>1, <2>2, StepFacts
  <2> QED
    BY <1>3, <2>1, <2>2
<1>5. ASSUME NEW k \in Keys, ~tainted'[k] PROVE ~tainted[k] /\ k \notin job[p].touched
  <2>1. tainted'[k] = (tainted[k] \/ k \in job[p].touched)
    BY Zenon DEF PersistFails
  <2> QED
    BY <1>5, <2>1, Zenon
<1>6. ASSUME NEW k \in Keys, ~tainted'[k] PROVE SettledAt(k)'
  <2>1. SettledAt(k) /\ k \notin job[p].touched
    BY <1>5, <1>6 DEF SettledInv
  <2>2. ~InFlight(p, k) /\ ~InFlight(p, k)'
    BY <1>1, <1>2, <1>4, <2>1 DEF InFlight
  <2>3. \A q \in Procs : SameFor(q, k)
    BY <1>3, <2>2 DEF SameFor, InFlight
  <2> QED
    BY <1>2, <2>1, <2>3, SettledKept
<1>7. \A q \in Procs : job'[q].announce \subseteq job'[q].touched
  BY <1>3, <1>4 DEF SettledInv
<1> QED
  BY <1>6, <1>7 DEF SettledInv

(* The inductive step for settling.                                        *)
LEMMA SettledStep ==
    ASSUME TypeOK, SettledInv, [Next]_vars
    PROVE  SettledInv'
<1>1. ASSUME data' = data, disk' = disk, mirror' = mirror, tainted' = tainted,
             missed' = missed,
             \A q \in Procs : \/ job'[q] = job[q]
                              \/ job[q].stage = "reply" /\ job'[q] = Idle
      PROVE  SettledInv'
  <2>1. \A k \in Keys, q \in Procs : SameFor(q, k)
    BY <1>1 DEF SameFor, InFlight, Idle
  <2>2. \A k \in Keys : SettledAt(k) => SettledAt(k)'
    BY <1>1, <2>1, SettledKept
  <2>3. \A q \in Procs : job'[q].announce \subseteq job'[q].touched
    BY <1>1 DEF SettledInv, Idle
  <2> QED
    BY <1>1, <2>2, <2>3 DEF SettledInv
<1>2. ASSUME NEW p \in Procs, LocalStep(p) PROVE SettledInv'
  <2>1. CASE Persist(p) \/ \E k \in Keys : Notify(p, k)
    BY <2>1, ServedSettled
  <2>2. CASE PersistFails(p)
    BY <2>2, FailedSettled
  <2>3. CASE Reply(p)
    BY <1>1, <2>3 DEF Reply, store, history, TypeOK
  <2>4. CASE \/ Refuse(p)
             \/ \E S \in SUBSET Keys : BatchGetEntries(p, S)
    BY <1>1, <2>4 DEF Refuse, BatchGetEntries, store, history, vars
  <2> QED
    BY <1>2, <2>1, <2>2, <2>3, <2>4 DEF LocalStep
<1>3. CASE CrashRestart
  <2>1. PICK U \in SUBSET Keys : Restarted(U)
    BY <1>3, RestartKinds
  <2>2. \A q \in Procs : job'[q] = Idle
    BY <2>1 DEF Restarted
  <2>3. ASSUME NEW k \in Keys, ~tainted'[k]
        PROVE  disk'[k] = data'[k] /\ Heard(k)'
    <3>1. tainted'[k] = (k \in Present(disk, U))
      BY <2>1, Zenon DEF Restarted
    <3>2. k \notin Present(disk, U)
      BY <2>3, <3>1, Zenon
    <3>3. data'[k] = disk[k] /\ disk' = disk
      BY <2>1, <3>2 DEF Restarted, Loaded, Present
    <3>4. mirror'[k] = ValueOf(data'[k])
      BY <2>1 DEF Restarted
    <3> QED
      BY <3>3, <3>4 DEF Heard
  <2> QED
    BY <2>2, <2>3 DEF SettledInv, SettledAt, InFlight, Idle
<1>4. CASE UNCHANGED vars
  BY <1>1, <1>4 DEF vars
<1> QED
  BY <1>2, <1>3, <1>4, CriticalSettled, CriticalKinds

(* Once nobody is working on a key, the engine holds its entry and the     *)
(* last watch event told its value, unless its last write overlapped       *)
(* another, an engine call for it failed, the last load skipped it or, for *)
(* the watcher, the event was dropped (kv.go:79, :136, :315,               *)
(* manager.go:163).                                                        *)
THEOREM SettledKeysAgree == Spec => []SettledAgree
<1>1. Init => SettledInv
  BY DEF Init, SettledInv, SettledAt, InFlight, Idle, EmptyData, ValueOf, Heard
<1>2. TypeOK /\ SettledInv /\ [Next]_vars => SettledInv'
  BY SettledStep
<1>3. SettledInv => SettledAgree
  BY DEF SettledInv, SettledAt, SettledAgree, Heard
<1> QED
  BY <1>1, <1>2, <1>3, TypeCorrect, PTL DEF Spec
=============================================================================
