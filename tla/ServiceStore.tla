---------------------------- MODULE ServiceStore ----------------------------
(***************************************************************************)
(* The standalone service registry (internal/store/service.go) with its    *)
(* indexes, its persistence engine, TTL expiry, the background cleanup and *)
(* a crash and restart of the process.                                     *)
(*                                                                         *)
(* Every operation holds the mutex from its first read to its engine call, *)
(* so each is one action; only QueryByTagsAndMetadata takes the mutex      *)
(* twice.  Second ticks of the clock make one second: ExpiresAt has the    *)
(* resolution of the clock, the engine's TTL that of whole seconds.        *)
(***************************************************************************)
EXTENDS ServiceEntries, FiniteSets

CONSTANTS
    Clients,
    Filters,     \* combined queries: records [tags, meta], both non-empty
    Second,      \* ticks of the clock in a second
    TTL,         \* s.TTL in ticks
    MaxNow,      \* bound on the clock
    MaxIndex,    \* bound on the indices drawn from globalIndex
    MaxFaults,   \* bound on failures: engine calls and loads
    MaxCrashes   \* bound on crashes of the process

ASSUME NamesAssumption == IsFiniteSet(Names)
ASSUME FiltersAssumption == Filters \subseteq [tags: SUBSET Tags, meta: Metas]
ASSUME BoundsAssumption ==
    /\ Second \in Nat \ {0} /\ TTL \in Nat /\ MaxNow \in Nat /\ MaxIndex \in Nat
    /\ MaxFaults \in Nat /\ MaxCrashes \in Nat

VARIABLES
    data,         \* s.Data
    tagIndex,     \* s.TagIndex
    metaIndex,    \* s.MetaIndex
    globalIndex,  \* s.globalIndex
    disk,         \* the service entries the engine holds
    now,          \* time.Now()
    view,         \* the entries each client has read, name by name
    fresh,        \* the names a client has read from the running process
    pending,      \* the combined query each client is in the middle of
    answer,       \* what it returned: the filter, and the services returned
    lastCAS,      \* the last CAS operation: client, name and verdict
    tainted,      \* history: services whose last engine call, or load, failed
    faults,
    crashes

indexes == <<tagIndex, metaIndex>>
clients == <<view, fresh>>
queries == <<pending, answer>>
vars == <<data, tagIndex, metaIndex, globalIndex, disk, now, view, fresh,
          pending, answer, lastCAS, tainted, faults, crashes>>

(* seen is history: the services List would have shown in the first        *)
(* critical section of the query.                                          *)
NoQuery == [stage |-> "none", tags |-> {}, meta |-> NoMeta, found |-> {},
            seen |-> EmptyData]
NoAnswer == [tags |-> {}, meta |-> NoMeta, services |-> {}]
NoCAS == [client |-> Absent, name |-> Absent, verdict |-> "none"]
Verdicts == {"none", "ok", "conflict", "notfound"}

TypeOK ==
    /\ data \in [Names -> Slot]
    /\ tagIndex \in TagIndexes
    /\ metaIndex \in MetaIndexes
    /\ globalIndex \in Nat
    /\ disk \in [Names -> Slot]
    /\ now \in Nat
    /\ view \in [Clients -> [Names -> Slot]]
    /\ fresh \in [Clients -> SUBSET Names]
    /\ pending \in [Clients -> [stage: {"none", "tags"}, tags: SUBSET Tags,
                                meta: Metas, found: SUBSET Names,
                                seen: [Names -> Slot]]]
    /\ answer \in [Clients -> [tags: SUBSET Tags, meta: Metas,
                               services: SUBSET ServiceEntry]]
    /\ lastCAS \in [client: Clients \cup {Absent}, name: Names \cup {Absent},
                    verdict: Verdicts]
    /\ tainted \in [Names -> BOOLEAN]
    /\ faults \in Nat
    /\ crashes \in Nat

Init ==
    /\ data = EmptyData
    /\ tagIndex = EmptyTagIndex
    /\ metaIndex = EmptyMetaIndex
    /\ globalIndex = 0
    /\ disk = EmptyData
    /\ now = 0
    /\ view = [c \in Clients |-> EmptyData]
    /\ fresh = [c \in Clients |-> {}]
    /\ pending = [c \in Clients |-> NoQuery]
    /\ answer = [c \in Clients |-> NoAnswer]
    /\ lastCAS = NoCAS
    /\ tainted = [n \in Names |-> FALSE]
    /\ faults = 0
    /\ crashes = 0

-----------------------------------------------------------------------------
(* The entries of d that List shows.                                       *)
Shown(d) == [n \in Names |-> IF Listed(d[n], now) THEN d[n] ELSE Absent]

(* The engine calls for the services S succeed but for the ones in F.  An  *)
(* error is logged or returned; the entry in memory stays as it is.        *)
EngineWrites(S, d) ==
    \E F \in SUBSET S :
        /\ faults + Cardinality(F) <= MaxFaults
        /\ faults' = faults + Cardinality(F)
        /\ disk' = [n \in Names |-> IF n \in S \ F THEN d[n] ELSE disk[n]]
        /\ tainted' = [n \in Names |-> n \in F \/ (n \notin S /\ tainted[n])]

(* The common body of Register and RegisterCAS.                            *)
Enter(n, tags, meta) ==
    LET d == [data EXCEPT ![n] = NewEntry(data[n], tags, meta, now + TTL, globalIndex + 1)]
    IN  /\ globalIndex < MaxIndex
        /\ now + TTL < MaxNow
        /\ globalIndex' = globalIndex + 1
        /\ data' = d
        /\ tagIndex' = addToTagIndex(removeFromTagIndex(tagIndex, data, {n}), d, {n})
        /\ metaIndex' = addToMetaIndex(removeFromMetaIndex(metaIndex, data, {n}), d, {n})
        /\ EngineWrites({n}, d)

(* The common body of Deregister, DeregisterCAS and CleanupExpired.        *)
Drop(S) ==
    LET d == [n \in Names |-> IF n \in S THEN Absent ELSE data[n]]
    IN  /\ data' = d
        /\ tagIndex' = removeFromTagIndex(tagIndex, data, S)
        /\ metaIndex' = removeFromMetaIndex(metaIndex, data, S)
        /\ EngineWrites(S, d)
        /\ UNCHANGED globalIndex

Refuse == UNCHANGED <<data, indexes, globalIndex, disk, tainted, faults>>

Register(n, tags, meta) ==
    /\ Enter(n, tags, meta)
    /\ lastCAS' = NoCAS
    /\ UNCHANGED <<now, clients, queries, crashes>>

Deregister(n) ==
    /\ Drop({n})
    /\ lastCAS' = NoCAS
    /\ UNCHANGED <<now, clients, queries, crashes>>

RegisterCAS(c, n, tags, meta) ==
    LET verdict == RegisterVerdict(data[n], Index(view[c][n]))
    IN  /\ IF verdict = "ok" THEN Enter(n, tags, meta) ELSE Refuse
        /\ lastCAS' = [client |-> c, name |-> n, verdict |-> verdict]
        /\ UNCHANGED <<now, clients, queries, crashes>>

DeregisterCAS(c, n) ==
    LET verdict == DeregisterVerdict(data[n], Index(view[c][n]))
    IN  /\ IF verdict = "ok" THEN Drop({n}) ELSE Refuse
        /\ lastCAS' = [client |-> c, name |-> n, verdict |-> verdict]
        /\ UNCHANGED <<now, clients, queries, crashes>>

(* Mutant of Heartbeat: the engine does not hear of it.                    *)
HeartbeatInMemory(n) ==
    /\ data[n] # Absent
    /\ now + TTL < MaxNow
    /\ data' = [data EXCEPT ![n].expiresAt = now + TTL]
    /\ UNCHANGED <<disk, tainted, faults>>
    /\ UNCHANGED <<indexes, globalIndex, now, clients, queries, lastCAS, crashes>>

(* A heartbeat also revives a service that has expired but has not been    *)
(* cleaned up yet.  It is not a modification: the indices stay.            *)
Heartbeat(n) ==
    LET d == [data EXCEPT ![n].expiresAt = now + TTL]
    IN  /\ data[n] # Absent
        /\ now + TTL < MaxNow
        /\ data' = d
        /\ EngineWrites({n}, d)
        /\ UNCHANGED <<indexes, globalIndex, now, clients, queries, lastCAS, crashes>>

(* The background ticker of cmd/konsul/main.go.                            *)
CleanupExpired ==
    /\ Drop({n \in Names : Expired(data[n], now)})
    /\ UNCHANGED <<now, clients, queries, lastCAS, crashes>>

GetEntry(c, n) ==
    /\ view' = [view EXCEPT ![c][n] = IF Gettable(data[n], now) THEN data[n] ELSE Absent]
    /\ fresh' = [fresh EXCEPT ![c] = @ \cup {n}]
    /\ UNCHANGED <<data, indexes, globalIndex, disk, now, queries, lastCAS,
                   tainted, faults, crashes>>

-----------------------------------------------------------------------------
(* QueryByTagsAndMetadata: the tag query and the metadata query are two    *)
(* critical sections, and the services returned are the ones of the second *)
(* whose names are in the first.                                           *)
QueryTags(c, f) ==
    /\ pending[c].stage = "none"
    /\ LET found == QueryByTags(tagIndex, data, now, f.tags)
       IN  IF found = {}
           THEN /\ answer' = [answer EXCEPT ![c] =
                               [tags |-> f.tags, meta |-> f.meta, services |-> {}]]
                /\ UNCHANGED pending
           ELSE /\ pending' = [pending EXCEPT ![c] =
                               [stage |-> "tags", tags |-> f.tags, meta |-> f.meta,
                                found |-> found, seen |-> Shown(data)]]
                /\ UNCHANGED answer
    /\ UNCHANGED <<data, indexes, globalIndex, disk, now, clients, lastCAS,
                   tainted, faults, crashes>>

(* Mutant of QueryMetadata: it intersects whole entries, not names.        *)
QueryMetadataByEntry(c) ==
    /\ pending[c].stage = "tags"
    /\ answer' = [answer EXCEPT ![c] =
           [tags |-> pending[c].tags, meta |-> pending[c].meta,
            services |-> {data[n] : n \in
                {m \in QueryByMetadata(metaIndex, data, now, pending[c].meta)
                    \cap pending[c].found : data[m] = pending[c].seen[m]}}]]
    /\ pending' = [pending EXCEPT ![c] = NoQuery]
    /\ UNCHANGED <<data, indexes, globalIndex, disk, now, clients, lastCAS,
                   tainted, faults, crashes>>

QueryMetadata(c) ==
    /\ pending[c].stage = "tags"
    /\ answer' = [answer EXCEPT ![c] =
           [tags |-> pending[c].tags, meta |-> pending[c].meta,
            services |-> {data[n] : n \in
                QueryByMetadata(metaIndex, data, now, pending[c].meta)
                    \cap pending[c].found}]]
    /\ pending' = [pending EXCEPT ![c] = NoQuery]
    /\ UNCHANGED <<data, indexes, globalIndex, disk, now, clients, lastCAS,
                   tainted, faults, crashes>>

-----------------------------------------------------------------------------
Tick ==
    /\ now < MaxNow
    /\ now' = now + 1
    /\ UNCHANGED <<data, indexes, globalIndex, disk, clients, queries, lastCAS,
                   tainted, faults, crashes>>

(* The engine shows an entry until the second in which its TTL ends: it    *)
(* keeps Unix seconds, rounded down (WithTTL).                             *)
Kept(e) == e # Absent /\ now \div Second < e.expiresAt \div Second

(* loadFromPersistence takes the entries that the engine shows and that    *)
(* have not expired.  U are the services it does not read: all of them if  *)
(* ListServices fails, else those whose GetService or decoding fails.      *)
Loaded(U) ==
    [n \in Names |-> IF n \notin U /\ Kept(disk[n]) THEN Shown(disk)[n] ELSE Absent]

(* The process dies and comes back.  It rebuilds the indexes and continues *)
(* from the largest index it loaded; errors are logged only.               *)
CrashRestart ==
    /\ crashes < MaxCrashes
    /\ crashes' = crashes + 1
    /\ \E U \in SUBSET Names :
          /\ U = {} \/ faults < MaxFaults
          /\ faults' = IF U = {} THEN faults ELSE faults + 1
          /\ data' = Loaded(U)
          /\ tagIndex' = addToTagIndex(EmptyTagIndex, Loaded(U), Names)
          /\ metaIndex' = addToMetaIndex(EmptyMetaIndex, Loaded(U), Names)
          /\ \E m \in {0} \cup {Index(Loaded(U)[n]) : n \in Names} :
                /\ IsLoadedIndex(Loaded(U), m)
                /\ globalIndex' = m
          /\ tainted' = [n \in Names |-> n \in U /\ Kept(disk[n])]
    /\ fresh' = [c \in Clients |-> {}]
    /\ pending' = [c \in Clients |-> NoQuery]
    /\ answer' = [c \in Clients |-> NoAnswer]
    /\ lastCAS' = NoCAS
    /\ UNCHANGED <<disk, now, view>>

Next ==
    \/ \E n \in Names :
         \/ \E tags \in SUBSET Tags, meta \in Metas :
              \/ Register(n, tags, meta)
              \/ \E c \in Clients : RegisterCAS(c, n, tags, meta)
         \/ Deregister(n)
         \/ Heartbeat(n)
         \/ \E c \in Clients : DeregisterCAS(c, n) \/ GetEntry(c, n)
    \/ \E c \in Clients : QueryMetadata(c) \/ \E f \in Filters : QueryTags(c, f)
    \/ CleanupExpired
    \/ Tick
    \/ CrashRestart

(* The clock goes on, and the cleanup goroutine runs for ever: its ticker  *)
(* fires again and again and Go's RWMutex does not starve a writer.        *)
Fairness == WF_vars(Tick) /\ WF_vars(CleanupExpired)

Spec == Init /\ [][Next]_vars
FairSpec == Spec /\ Fairness

-----------------------------------------------------------------------------
(* The indexes say of every service exactly what its entry says: no stale  *)
(* name survives a re-registration, a deregistration, an expiry or a       *)
(* restart, and none is listed twice (service_index.go).                   *)
TagIndexMirrors ==
    \A t \in Tags, n \in Names : n \in tagIndex[t] <=> HasTag(data[n], t)
MetaIndexMirrors ==
    \A k \in MetaKeys, v \in MetaValues, n \in Names :
        metaIndex[k][v][n] = IF HasMeta(data[n], k, v) THEN 1 ELSE 0
IndexesMirror == TagIndexMirrors /\ MetaIndexMirrors

(* QueryByTags and QueryByMetadata return exactly the live services that   *)
(* have all the tags, and all the metadata pairs, asked for.               *)
QueriesExact ==
    /\ \A T \in SUBSET Tags : T # {} =>
         QueryByTags(tagIndex, data, now, T) =
            {n \in List(data, now) : Matches(data[n], T, NoMeta)}
    /\ \A F \in Metas : F # NoMeta =>
         QueryByMetadata(metaIndex, data, now, F) =
            {n \in List(data, now) : Matches(data[n], {}, F)}

(* A restart at any moment brings back no service that List does not show, *)
(* and none with anything but its latest entry and expiry; and it brings   *)
(* back every service that List shows and that has a second or more to     *)
(* live.  In its last second a service may be lost: the engine's TTL ends  *)
(* with the whole second (badger.go:163).  Excepted are services whose     *)
(* last engine call failed and those a load could not read (service.go:115,*)
(* :124), which stay unknown until they register again.                    *)
RestartKeepsLive ==
    \A n \in Names : ~tainted[n] =>
        /\ Loaded({})[n] \in {Absent, Shown(data)[n]}
        /\ (data[n] # Absent /\ data[n].expiresAt >= now + Second)
              => Loaded({})[n] = data[n]

(* What a client can rely on in an entry it holds: a heartbeat moves       *)
(* ExpiresAt without drawing an index.                                     *)
Version(e) == IF e = Absent THEN e ELSE [e EXCEPT !.expiresAt = 0]

(* A RegisterCAS or DeregisterCAS that succeeds replaces the version its   *)
(* client read, in the face of heartbeats, expiry, cleanup and other       *)
(* clients.                                                                *)
CASNoLostUpdate ==
    [][ (lastCAS'.verdict = "ok" /\ lastCAS'.name \in fresh[lastCAS'.client])
          => Version(data[lastCAS'.name]) = Version(view[lastCAS'.client][lastCAS'.name])
      ]_lastCAS

(* QueryByTagsAndMetadata is not atomic, but it misses nothing: a service  *)
(* that was listed and in the same version in both critical sections, and  *)
(* matches, is returned.                                                   *)
QueryMissesNothing ==
    [][\A c \in Clients :
        (pending[c].stage = "tags" /\ pending'[c].stage = "none" /\ crashes' = crashes) =>
            \A n \in Names :
                (/\ Listed(data[n], now)
                 /\ Matches(data[n], pending[c].tags, pending[c].meta)
                 /\ Version(pending[c].seen[n]) = Version(data[n]))
                => data[n] \in answer'[c].services]_vars

(* While one process runs, an entry changes only by a heartbeat, which     *)
(* moves its expiry forward and nothing else, or by a registration, which  *)
(* draws a new index and keeps CreateIndex.                                *)
EntriesAdvance ==
    [][crashes' = crashes => \A n \in Names :
        (data[n] # Absent /\ data'[n] # Absent /\ data'[n] # data[n]) =>
            /\ data'[n].createIndex = data[n].createIndex
            /\ data'[n].expiresAt >= data[n].expiresAt
            /\ \/ Version(data'[n]) = Version(data[n])
               \/ data'[n].modifyIndex > globalIndex]_vars

(* A service that gets no heartbeat for its TTL disappears from the store, *)
(* from the exact instant of its expiry on, unless it is renewed.          *)
ExpiryIsFinal ==
    \A n \in Names :
        (data[n] # Absent /\ data[n].expiresAt <= now)
            ~> (data[n] = Absent \/ data[n].expiresAt > now)
=============================================================================
