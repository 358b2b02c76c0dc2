------------------------------ MODULE KVStore ------------------------------
(***************************************************************************)
(* The standalone key-value store (internal/store/kv.go) under concurrent  *)
(* HTTP requests, with its persistence engine, its watch notifications and *)
(* a crash and restart of the process.                                     *)
(*                                                                         *)
(* Each operation is split where the code releases the mutex or calls out  *)
(* of the store.  The plain operations (Set, SetWithFlags, Delete,         *)
(* BatchSet, BatchDelete) change kv.Data inside the mutex, release it, and *)
(* only then write to the engine and notify the watchers.  The CAS         *)
(* operations hold the mutex over all three steps.                         *)
(***************************************************************************)
EXTENDS KVEntries

CONSTANTS
    Procs,       \* request goroutines, each serving one client
    MaxIndex,    \* bound on the indices drawn from globalIndex
    MaxFaults,   \* bound on failures: engine calls, loads, dropped events
    MaxCrashes   \* bound on crashes of the process

ASSUME BoundsAssumption == MaxIndex \in Nat /\ MaxFaults \in Nat /\ MaxCrashes \in Nat

VARIABLES
    data,         \* kv.Data
    globalIndex,  \* kv.globalIndex
    disk,         \* what the engine holds, one JSON-encoded entry per key
    job,          \* the operation each goroutine is in the middle of
    view,         \* the entries each client has read, key by key
    fresh,        \* the keys a client has read from the running process
    mirror,       \* the value a watcher of every key last heard of
    unread,       \* history: keys with an entry on disk that the last load skipped
    missed,       \* history: keys whose last event was dropped
    tainted,      \* history: keys whose last write overlapped another or failed
    faults,       \* failures so far
    crashes       \* crashes so far

store == <<data, globalIndex, disk>>
clients == <<view, fresh>>
history == <<unread, missed, tainted>>
vars == <<data, globalIndex, disk, job, view, fresh, mirror, unread, missed,
          tainted, faults, crashes>>

(* How an operation treats the mutex, an engine error and the response:    *)
(*   set     mutex released, error logged only, response re-reads the key  *)
(*   delete  mutex released, error logged only                             *)
(*   batch   mutex released, error returned                                *)
(*   cas     mutex held to the end, error returned                         *)
(* Of the responses only the index that Set reports is modelled.           *)
Ops == {"set", "delete", "batch", "cas"}
Stages == {"idle", "persist", "notify", "reply"}

Job == [stage: Stages, op: Ops, touched: SUBSET Keys, new: [Keys -> Slot],
        announce: SUBSET Keys]

Idle == [stage |-> "idle", op |-> "set", touched |-> {}, new |-> EmptyData,
         announce |-> {}]

TypeOK ==
    /\ data \in [Keys -> Slot]
    /\ globalIndex \in Nat
    /\ disk \in [Keys -> Slot]
    /\ job \in [Procs -> Job]
    /\ view \in [Procs -> [Keys -> Slot]]
    /\ fresh \in [Procs -> SUBSET Keys]
    /\ mirror \in [Keys -> Values \cup {Absent}]
    /\ unread \subseteq Keys
    /\ missed \subseteq Keys
    /\ tainted \in [Keys -> BOOLEAN]
    /\ faults \in Nat
    /\ crashes \in Nat

Init ==
    /\ data = EmptyData
    /\ globalIndex = 0
    /\ disk = EmptyData
    /\ job = [p \in Procs |-> Idle]
    /\ view = [p \in Procs |-> EmptyData]
    /\ fresh = [p \in Procs |-> {}]
    /\ mirror = EmptyData
    /\ unread = {}
    /\ missed = {}
    /\ tainted = [k \in Keys |-> FALSE]
    /\ faults = 0
    /\ crashes = 0

-----------------------------------------------------------------------------
(* A CAS operation is the only one that leaves its critical section with   *)
(* the mutex still held.                                                   *)
HoldsMutex(p) == job[p].op = "cas" /\ job[p].stage \in {"persist", "notify"}

(* Mutant of MutexFree: nobody asks for the mutex.                         *)
MutexIgnored == TRUE

MutexFree == \A p \in Procs : ~HoldsMutex(p)

Ready(p) == job[p].stage = "idle" /\ MutexFree

(* Goroutine p still has to write k to the engine or to announce it.       *)
InFlight(p, k) ==
    \/ job[p].stage = "persist" /\ k \in job[p].touched
    \/ job[p].stage = "notify" /\ k \in job[p].announce

(* The critical section of p has changed the keys S of kv.Data into d; the *)
(* engine and the watchers of the keys A hear of it in later steps.        *)
Begin(p, op, S, d, A) ==
    /\ data' = d
    /\ job' = [job EXCEPT ![p] =
                [stage    |-> "persist",
                 op       |-> op,
                 touched  |-> S,
                 new      |-> [k \in Keys |-> IF k \in S THEN d[k] ELSE Absent],
                 announce |-> A]]
    /\ tainted' = [k \in Keys |->
                    IF k \in S
                    THEN \/ \E q \in Procs : InFlight(q, k)
                         \/ tainted[k] /\ k \notin A
                    ELSE tainted[k]]
    /\ UNCHANGED <<disk, mirror, unread, missed, clients, faults, crashes>>

(* Draw one index per key of items and write them.                         *)
Write(p, op, items) ==
    \E rank \in Orders(DOMAIN items) :
        /\ globalIndex + Cardinality(DOMAIN items) <= MaxIndex
        /\ globalIndex' = globalIndex + Cardinality(DOMAIN items)
        /\ Begin(p, op, DOMAIN items,
                 WriteItems(data, items, rank, globalIndex), DOMAIN items)

(* A compare-and-swap that fails its check changes nothing.                *)
Refuse(p) == UNCHANGED vars

-----------------------------------------------------------------------------
(* Plain operations.                                                       *)

Set(p, k, v) ==
    /\ Ready(p)
    /\ Write(p, "set", [x \in {k} |-> v])

(* The handler calls it only for flags > 0.                                *)
SetWithFlags(p, k, v, f) ==
    /\ Ready(p)
    /\ globalIndex + 1 <= MaxIndex
    /\ globalIndex' = globalIndex + 1
    /\ Begin(p, "set", {k}, WriteFlagged(data, k, v, f, globalIndex + 1), {k})

BatchSet(p, items) ==
    /\ Ready(p)
    /\ Write(p, "batch", items)

(* A delete draws no index, and announces only keys that existed.          *)
Remove(p, op, S) ==
    /\ Begin(p, op, S, Erase(data, S), Present(data, S))
    /\ UNCHANGED globalIndex

Delete(p, k) ==
    /\ Ready(p)
    /\ Remove(p, "delete", {k})

BatchDelete(p, S) ==
    /\ Ready(p)
    /\ Remove(p, "batch", S)

-----------------------------------------------------------------------------
(* Compare-and-swap.  The expected indices are the ones the client last    *)
(* read; all keys are validated before any is changed.                     *)

Expected(p, k) == Index(view[p][k])

SetVerdicts(p, S) == {SetVerdict(data[k], Expected(p, k)) : k \in S}
DeleteVerdicts(p, S) == {DeleteVerdict(data[k], Expected(p, k)) : k \in S}

BatchSetCAS(p, items) ==
    /\ Ready(p)
    /\ \/ /\ SetVerdicts(p, DOMAIN items) = {"ok"}
          /\ Write(p, "cas", items)
       \/ /\ SetVerdicts(p, DOMAIN items) # {"ok"}
          /\ Refuse(p)

BatchDeleteCAS(p, S) ==
    /\ Ready(p)
    /\ \/ /\ DeleteVerdicts(p, S) = {"ok"}
          /\ Remove(p, "cas", S)
       \/ /\ DeleteVerdicts(p, S) # {"ok"}
          /\ Refuse(p)

SetCAS(p, k, v) == BatchSetCAS(p, [x \in {k} |-> v])
DeleteCAS(p, k) == BatchDeleteCAS(p, {k})

-----------------------------------------------------------------------------
(* Reads: GetEntry is the case of one key.                                 *)
BatchGetEntries(p, S) ==
    /\ Ready(p)
    /\ view' = [view EXCEPT ![p] =
                 [k \in Keys |-> IF k \in S THEN data[k] ELSE view[p][k]]]
    /\ fresh' = [fresh EXCEPT ![p] = @ \cup S]
    /\ UNCHANGED <<store, job, mirror, history, faults, crashes>>

-----------------------------------------------------------------------------
(* What follows the critical section.                                      *)

(* The keys A are still to be announced.  After the last one the handler   *)
(* of Set re-reads the entry for its response; the others return.          *)
Step(j, A) ==
    IF A # {} THEN [j EXCEPT !.stage = "notify", !.announce = A]
    ELSE IF j.op = "set" THEN [j EXCEPT !.stage = "reply", !.announce = {}]
    ELSE Idle

(* Mutant of Persist: deletions do not reach the engine.                   *)
PersistWritesOnly(p) ==
    /\ job[p].stage = "persist"
    /\ disk' = [k \in Keys |-> IF k \in job[p].touched /\ job[p].new[k] # Absent
                               THEN job[p].new[k] ELSE disk[k]]
    /\ job' = [job EXCEPT ![p] = Step(job[p], job[p].announce)]
    /\ unread' = unread \ {k \in job[p].touched : job[p].new[k] # Absent}
    /\ UNCHANGED <<data, globalIndex, clients, mirror, missed, tainted, faults, crashes>>

(* engine.Set, engine.Delete, engine.BatchSet or engine.BatchDelete.       *)
Persist(p) ==
    /\ job[p].stage = "persist"
    /\ disk' = [k \in Keys |-> IF k \in job[p].touched THEN job[p].new[k] ELSE disk[k]]
    /\ job' = [job EXCEPT ![p] = Step(job[p], job[p].announce)]
    /\ unread' = unread \ job[p].touched
    /\ UNCHANGED <<data, globalIndex, clients, mirror, missed, tainted, faults, crashes>>

(* The engine call fails.  Set, SetWithFlags and Delete log the error and  *)
(* go on; the batch and CAS operations return it without notifying anyone, *)
(* and without taking back what they did to kv.Data.                       *)
PersistFails(p) ==
    /\ job[p].stage = "persist"
    /\ faults < MaxFaults
    /\ faults' = faults + 1
    /\ tainted' = [k \in Keys |-> tainted[k] \/ k \in job[p].touched]
    /\ job' = [job EXCEPT ![p] = IF job[p].op \in {"batch", "cas"} THEN Idle
                                 ELSE Step(job[p], job[p].announce)]
    /\ UNCHANGED <<store, clients, mirror, unread, missed, crashes>>

(* watchManager.Notify hands the event to a watcher that may read every    *)
(* key; if the watcher's channel is full it drops the event.               *)
Notify(p, k) ==
    /\ job[p].stage = "notify"
    /\ k \in job[p].announce
    /\ \/ /\ mirror' = [mirror EXCEPT ![k] = ValueOf(job[p].new[k])]
          /\ missed' = missed \ {k}
          /\ UNCHANGED faults
       \/ /\ faults < MaxFaults
          /\ faults' = faults + 1
          /\ missed' = missed \cup {k}
          /\ UNCHANGED mirror
    /\ job' = [job EXCEPT ![p] = Step(job[p], job[p].announce \ {k})]
    /\ UNCHANGED <<store, clients, unread, tainted, crashes>>

(* KVHandler.Set reads the entry again to report its modify_index.         *)
Reported(p) == {Index(data[k]) : k \in job[p].touched}

Reply(p) ==
    /\ job[p].stage = "reply"
    /\ MutexFree
    /\ job' = [job EXCEPT ![p] = Idle]
    /\ UNCHANGED <<store, clients, mirror, history, faults, crashes>>

(* What loadFromPersistence makes of the engine: U are the keys it does    *)
(* not read, all of them if List fails, else those whose Get fails.        *)
Loaded(U) == [k \in Keys |-> IF k \in U THEN Absent ELSE disk[k]]

(* The process dies and comes back: memory and the requests in progress    *)
(* are gone, loadFromPersistence reads the engine, errors are logged only, *)
(* watchers reconnect and receive the current values.  Clients keep what   *)
(* they have read.                                                         *)
CrashRestart ==
    /\ crashes < MaxCrashes
    /\ crashes' = crashes + 1
    /\ \E U \in SUBSET Keys :
          /\ U = {} \/ faults < MaxFaults
          /\ faults' = IF U = {} THEN faults ELSE faults + 1
          /\ data' = Loaded(U)
          /\ \E m \in {0} \cup {Index(disk[k]) : k \in Keys \ U} :
                /\ IsLoadedIndex(Loaded(U), m)
                /\ globalIndex' = m
          /\ mirror' = [k \in Keys |-> ValueOf(Loaded(U)[k])]
          /\ unread' = Present(disk, U)
          /\ tainted' = [k \in Keys |-> k \in Present(disk, U)]
    /\ missed' = {}
    /\ job' = [p \in Procs |-> Idle]
    /\ fresh' = [p \in Procs |-> {}]
    /\ UNCHANGED <<disk, view>>

Batches == SUBSET Keys \ {{}}

Next ==
    \/ \E p \in Procs :
         \/ \E k \in Keys, v \in Values :
              \/ Set(p, k, v)
              \/ SetCAS(p, k, v)
              \/ \E f \in Flags \ {0} : SetWithFlags(p, k, v, f)
         \/ \E k \in Keys : Delete(p, k) \/ DeleteCAS(p, k) \/ Notify(p, k)
         \/ \E S \in Batches :
              \/ \E items \in [S -> Values] : BatchSet(p, items) \/ BatchSetCAS(p, items)
              \/ BatchDelete(p, S)
              \/ BatchDeleteCAS(p, S)
              \/ BatchGetEntries(p, S)
         \/ Persist(p)
         \/ PersistFails(p)
         \/ Reply(p)
    \/ CrashRestart

Spec == Init /\ [][Next]_vars

-----------------------------------------------------------------------------
(* Every copy of an entry of k that still matters: in memory, on disk, on  *)
(* its way there, or read by a client since the process started.  An entry *)
(* on disk that the last load could not read is none: the process does not *)
(* know of it.                                                             *)
Copies(k) ==
    {data[k]}
      \cup (IF k \in unread THEN {} ELSE {disk[k]})
      \cup {job[p].new[k] : p \in Procs}
      \cup {view[p][k] : p \in {q \in Procs : k \in fresh[q]}}

(* No copy of an entry is newer than globalIndex, so that an index drawn   *)
(* later cannot collide with one in memory, on disk, in a pending engine   *)
(* call or in a client's hands, also when a restart has lost some keys     *)
(* (kv.go:79, :103).                                                       *)
IndexBounded == \A k \in Keys : \A e \in Copies(k) : WellFormed(e, globalIndex)

(* ModifyIndex identifies a version of a key: two copies with the same     *)
(* index are the same entry, whatever the interleaving of writers, delayed *)
(* engine calls, restarts and loads that skip keys (kv.go:131, :103).      *)
VersionUnique ==
    \A k \in Keys : \A e, f \in Copies(k) :
        (e # Absent /\ f # Absent /\ e.modifyIndex = f.modifyIndex) => e = f

(* While one process runs, the counter never goes back, an entry is only   *)
(* replaced by a newer version that keeps its CreateIndex, and a key that  *)
(* is created gets an index nobody has drawn before.                       *)
VersionsAdvance ==
    [][crashes' = crashes =>
        /\ globalIndex' >= globalIndex
        /\ \A k \in Keys :
             (data'[k] # data[k] /\ data'[k] # Absent) =>
                /\ data'[k].modifyIndex > globalIndex
                /\ data'[k].createIndex =
                     IF data[k] = Absent THEN data'[k].modifyIndex
                     ELSE data[k].createIndex]_vars

(* A compare-and-swap that succeeds replaces exactly the entry its client  *)
(* read: no write of another client since that read is lost.               *)
CASNoLostUpdate ==
    [][\A p \in Procs : \A k \in fresh[p] :
        (/\ job[p].stage = "idle"
         /\ job'[p].stage = "persist" /\ job'[p].op = "cas"
         /\ k \in job'[p].touched)
            => data[k] = view[p][k]]_vars

(* "Return the new index" (internal/handlers/kv.go:220): the response to   *)
(* Set reports the index of the entry the request has written.             *)
ReplyOwnIndex ==
    [][\A p \in Procs :
        (job[p].stage = "reply" /\ job'[p].stage = "idle" /\ crashes' = crashes) =>
            Reported(p) = {job[p].new[k].modifyIndex : k \in job[p].touched}]_vars

(* From the check of a CAS operation to its return nobody else changes the *)
(* keys it validated, engine call and notifications included.              *)
CASExclusive ==
    \A p \in Procs : HoldsMutex(p) =>
        /\ \A k \in job[p].touched : data[k] = job[p].new[k]
        /\ \A q \in Procs : HoldsMutex(q) => q = p

(* Once nobody is working on k, the engine holds its entry and the watcher *)
(* knows its value.  This is as much as the code gives: it may fail for a  *)
(* key whose last write overlapped another write of it (kv.go:152, :179),  *)
(* whose engine call failed (kv.go:245) or whose entry the last load       *)
(* skipped (kv.go:79), all tainted, and for the watcher if the last event  *)
(* was dropped (manager.go:163).                                           *)
SettledAgree ==
    \A k \in Keys :
        (~tainted[k] /\ \A p \in Procs : ~InFlight(p, k)) =>
            /\ disk[k] = data[k]
            /\ k \in missed \/ mirror[k] = ValueOf(data[k])
=============================================================================
