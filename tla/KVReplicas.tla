----------------------------- MODULE KVReplicas -----------------------------
(***************************************************************************)
(* The key-value store in cluster mode: KonsulFSM (internal/raft/fsm.go)   *)
(* applies the committed Raft log to the *Local operations of              *)
(* internal/store/kv.go on every node, and snapshots and restores them.    *)
(*                                                                         *)
(* hashicorp/raft is external and taken at its word: one committed log     *)
(* that every node applies in order, and snapshots of an applied prefix,   *)
(* taken locally or installed from another node.  An entry that loses its  *)
(* leader before it is committed leaves no trace.  ModifyIndex is not the  *)
(* log index but a counter each node keeps for itself.                     *)
(***************************************************************************)
EXTENDS KVEntries, Sequences

CONSTANTS
    Nodes,
    Clients,
    UseCAS,         \* whether clients send compare-and-swap commands
    MaxBatch,       \* keys per command
    MaxLog,         \* bound on the length of the committed log
    MaxSnapshots,   \* bound on the snapshots taken
    MaxRestarts     \* bound on the restarts of nodes

ASSUME BoundsAssumption ==
    /\ UseCAS \in BOOLEAN
    /\ MaxBatch \in Nat /\ MaxLog \in Nat /\ MaxSnapshots \in Nat /\ MaxRestarts \in Nat

VARIABLES
    log,        \* the committed commands
    data,       \* kv.Data of each node
    gidx,       \* kv.globalIndex of each node
    applied,    \* the log position each node has applied
    snap,       \* the latest snapshot each node has; position 0: none
    view,       \* what each client has read of each key: index and version
    written,    \* history: the log position that wrote each entry of a node
    verdicts,   \* history: what each node made of each log position
    snapshots,
    restarts

vars == <<log, data, gidx, applied, snap, view, written, verdicts, snapshots, restarts>>

Positions == 1 .. MaxLog
NoVersion == [index |-> 0, written |-> 0]
NoSnapshot == [pos |-> 0, data |-> EmptyData, written |-> [k \in Keys |-> 0],
               verdicts |-> [i \in Positions |-> "none"]]

Snapshots ==
    [pos: Nat, data: [Keys -> Slot], written: [Keys -> Nat],
     verdicts: [Positions -> {"none", "ok", "refused"}]]

Batches == {S \in SUBSET Keys : S # {} /\ Cardinality(S) <= MaxBatch}

(* The payloads of internal/raft/commands.go; read is history, the version *)
(* the client had in mind when it stated the expected index.               *)
Commands ==
    UNION {[op: {"set", "erase", "flag"}, items: [S -> Values], flags: Flags,
            cas: BOOLEAN, expected: [S -> Nat], read: [S -> Nat]] : S \in Batches}

TypeOK ==
    /\ log \in Seq(Commands)
    /\ data \in [Nodes -> [Keys -> Slot]]
    /\ gidx \in [Nodes -> Nat]
    /\ applied \in [Nodes -> Nat]
    /\ snap \in [Nodes -> Snapshots]
    /\ view \in [Clients -> [Keys -> [index: Nat, written: Nat]]]
    /\ written \in [Nodes -> [Keys -> Nat]]
    /\ verdicts \in [Nodes -> [Positions -> {"none", "ok", "refused"}]]
    /\ \A n \in Nodes : applied[n] <= Len(log) /\ snap[n].pos <= Len(log)

Init ==
    /\ log = <<>>
    /\ data = [n \in Nodes |-> EmptyData]
    /\ gidx = [n \in Nodes |-> 0]
    /\ applied = [n \in Nodes |-> 0]
    /\ snap = [n \in Nodes |-> NoSnapshot]
    /\ view = [c \in Clients |-> [k \in Keys |-> NoVersion]]
    /\ written = [n \in Nodes |-> [k \in Keys |-> 0]]
    /\ verdicts = [n \in Nodes |-> [i \in Positions |-> "none"]]
    /\ snapshots = 0
    /\ restarts = 0

-----------------------------------------------------------------------------
(* Clients.  A read is answered by whichever node it reaches, from its     *)
(* local store.                                                            *)
Read(c, n, k) ==
    /\ view' = [view EXCEPT ![c][k] = [index |-> Index(data[n][k]), written |-> written[n][k]]]
    /\ UNCHANGED <<log, data, gidx, applied, snap, written, verdicts, snapshots, restarts>>

(* Node.ApplyEntry on the leader: the command is committed.                *)
Propose(cmd) ==
    /\ Len(log) < MaxLog
    /\ log' = Append(log, cmd)
    /\ UNCHANGED <<data, gidx, applied, snap, view, written, verdicts, snapshots, restarts>>

Plain(op, items, f) ==
    [op |-> op, items |-> items, flags |-> f, cas |-> FALSE,
     expected |-> [k \in DOMAIN items |-> 0], read |-> [k \in DOMAIN items |-> 0]]

CAS(c, op, items) ==
    [op |-> op, items |-> items, flags |-> 0, cas |-> TRUE,
     expected |-> [k \in DOMAIN items |-> view[c][k].index],
     read |-> [k \in DOMAIN items |-> view[c][k].written]]

(* Node.KVSet, KVBatchSet, KVDelete, KVBatchDelete and KVSetWithFlags; a   *)
(* deletion names no values, so any will do.                               *)
ProposePlain ==
    \E S \in Batches : \E items \in [S -> Values] :
        \/ Propose(Plain("set", items, 0))
        \/ Propose(Plain("erase", [k \in S |-> CHOOSE v \in Values : TRUE], 0))
        \/ Cardinality(S) = 1 /\ \E f \in Flags \ {0} : Propose(Plain("flag", items, f))

(* Node.KVSetCAS, KVBatchSetCAS, KVDeleteCAS and KVBatchDeleteCAS.         *)
ProposeCAS(c) ==
    /\ UseCAS
    /\ \E S \in Batches : \E items \in [S -> Values] :
        \/ Propose(CAS(c, "set", items))
        \/ Propose(CAS(c, "erase", [k \in S |-> CHOOSE v \in Values : TRUE]))

-----------------------------------------------------------------------------
(* KonsulFSM.Apply.                                                        *)

Accepts(d, cmd) ==
    ~cmd.cas \/ \A k \in DOMAIN cmd.items :
        "ok" = IF cmd.op = "set" THEN SetVerdict(d[k], cmd.expected[k])
                                 ELSE DeleteVerdict(d[k], cmd.expected[k])

(* The data of a node whose counter stands at base after the command; the  *)
(* order of the map iteration is each node's own.                          *)
Effect(d, base, cmd, rank) ==
    CASE cmd.op = "set"   -> WriteItems(d, cmd.items, rank, base)
      [] cmd.op = "erase" -> Erase(d, DOMAIN cmd.items)
      [] cmd.op = "flag"  ->
            [k \in Keys |-> IF k \in DOMAIN cmd.items
                            THEN NewEntry(d[k], cmd.items[k], cmd.flags, base + 1)
                            ELSE d[k]]

(* Mutant of Drawn: a deletion gives an index back.                        *)
DrawnBack(cmd) == IF cmd.op = "erase" THEN -1 ELSE Cardinality(DOMAIN cmd.items)

Drawn(cmd) == IF cmd.op = "erase" THEN 0 ELSE Cardinality(DOMAIN cmd.items)

Execute(n, cmd, pos) ==
    \E rank \in Orders(DOMAIN cmd.items) :
        /\ data' = [data EXCEPT ![n] = Effect(data[n], gidx[n], cmd, rank)]
        /\ gidx' = [gidx EXCEPT ![n] = @ + Drawn(cmd)]
        /\ written' = [written EXCEPT ![n] =
             [k \in Keys |-> IF k \notin DOMAIN cmd.items THEN written[n][k]
                             ELSE IF cmd.op = "erase" THEN 0 ELSE pos]]
        /\ verdicts' = [verdicts EXCEPT ![n][pos] = "ok"]

Reject(n, pos) ==
    /\ verdicts' = [verdicts EXCEPT ![n][pos] = "refused"]
    /\ UNCHANGED <<data, gidx, written>>

Apply(n) ==
    LET pos == applied[n] + 1
        cmd == log[pos]
    IN  /\ applied[n] < Len(log)
        /\ applied' = [applied EXCEPT ![n] = pos]
        /\ IF Accepts(data[n], cmd) THEN Execute(n, cmd, pos) ELSE Reject(n, pos)
        /\ UNCHANGED <<log, snap, view, snapshots, restarts>>

-----------------------------------------------------------------------------
(* KonsulFSM.Snapshot and KonsulSnapshot.Persist: the entries, not the     *)
(* counter.                                                                *)
Snapshot(n) ==
    /\ snapshots < MaxSnapshots
    /\ applied[n] > snap[n].pos
    /\ snapshots' = snapshots + 1
    /\ snap' = [snap EXCEPT ![n] = [pos |-> applied[n], data |-> data[n],
                                    written |-> written[n], verdicts |-> verdicts[n]]]
    /\ UNCHANGED <<log, data, gidx, applied, view, written, verdicts, restarts>>

(* Mutant of Restore: the entries of the snapshot are added to the ones    *)
(* already there.                                                          *)
RestoreOnTop(n, s) ==
    /\ data' = [data EXCEPT ![n] =
                 [k \in Keys |-> IF s.data[k] = Absent THEN data[n][k] ELSE s.data[k]]]
    /\ \E m \in {0} \cup {Index(s.data[k]) : k \in Keys} :
          /\ IsLoadedIndex(s.data, m)
          /\ gidx' = [gidx EXCEPT ![n] = IF m > @ THEN m ELSE @]
    /\ applied' = [applied EXCEPT ![n] = s.pos]
    /\ written' = [written EXCEPT ![n] = s.written]
    /\ verdicts' = [verdicts EXCEPT ![n] = s.verdicts]

(* KonsulFSM.Restore: the counter restarts at the largest index found in   *)
(* the snapshot.  Without a snapshot a node starts from what its own       *)
(* persistence engine holds (main.go:214): nothing here, since no command  *)
(* of the log is written to the engine (the ...Local operations of kv.go). *)
(* A node that used to run on its own, over the same engine, is left out.  *)
Restore(n, s) ==
    /\ data' = [data EXCEPT ![n] = s.data]
    /\ \E m \in {0} \cup {Index(s.data[k]) : k \in Keys} :
          /\ IsLoadedIndex(s.data, m)
          /\ gidx' = [gidx EXCEPT ![n] = m]
    /\ applied' = [applied EXCEPT ![n] = s.pos]
    /\ written' = [written EXCEPT ![n] = s.written]
    /\ verdicts' = [verdicts EXCEPT ![n] = s.verdicts]

(* A node that has fallen behind receives the snapshot of another.         *)
InstallSnapshot(n, m) ==
    /\ applied[n] < snap[m].pos
    /\ Restore(n, snap[m])
    /\ snap' = [snap EXCEPT ![n] = snap[m]]
    /\ UNCHANGED <<log, view, snapshots, restarts>>

(* A node crashes and replays the log from its last snapshot.              *)
Restart(n) ==
    /\ restarts < MaxRestarts
    /\ restarts' = restarts + 1
    /\ Restore(n, snap[n])
    /\ UNCHANGED <<log, snap, view, snapshots>>

Next ==
    \/ ProposePlain
    \/ \E c \in Clients : ProposeCAS(c) \/ \E n \in Nodes, k \in Keys : Read(c, n, k)
    \/ \E n \in Nodes :
         \/ Apply(n)
         \/ Snapshot(n)
         \/ Restart(n)
         \/ \E m \in Nodes : InstallSnapshot(n, m)

Spec == Init /\ [][Next]_vars

-----------------------------------------------------------------------------
(* Each node by itself stays sound, whatever it restores: its counter is   *)
(* never behind its entries, so that no index is given out twice, and no   *)
(* two entries share one (kv.go:1167).                                     *)
ReplicaSound ==
    \A n \in Nodes :
        /\ \A k \in Keys : WellFormed(data[n][k], gidx[n])
        /\ \A k, l \in Keys :
             (k # l /\ data[n][k] # Absent) => Index(data[n][k]) # Index(data[n][l])

(* As long as no compare-and-swap has been sent, nodes that have applied   *)
(* the same prefix hold the same values and flags, written by the same     *)
(* commands, through any restart, snapshot and order of map iteration -    *)
(* although their indices may differ.                                      *)
ContentsAgree ==
    (\A i \in 1 .. Len(log) : ~log[i].cas) =>
        \A n, m \in Nodes : applied[n] = applied[m] =>
            /\ written[n] = written[m]
            /\ \A k \in Keys :
                 /\ ValueOf(data[n][k]) = ValueOf(data[m][k])
                 /\ data[n][k] # Absent => data[n][k].flags = data[m][k].flags

(* Nodes that have applied the same prefix of the log are in the same      *)
(* state.  It holds for single-key commands and restarts without           *)
(* snapshots; docs/RAFT_CLUSTERING.md:12 says it of the cluster:           *)
(* "All data replicated across cluster nodes".                             *)
ReplicasAgree ==
    \A n, m \in Nodes : applied[n] = applied[m] => data[n] = data[m] /\ gidx[n] = gidx[m]

(* A compare-and-swap that a node accepts replaces the very version its    *)
(* client had read, on whichever node it read it.                          *)
CASNoLostUpdate ==
    [][\A n \in Nodes :
        LET cmd == log[applied'[n]]
        IN  (/\ applied'[n] = applied[n] + 1
             /\ restarts' = restarts
             /\ snap' = snap
             /\ cmd.cas
             /\ verdicts'[n][applied'[n]] = "ok")
            => \A k \in DOMAIN cmd.items : written[n][k] = cmd.read[k]]_vars

(* docs/adr/0031-raft-production-readiness.md:402: an atomic check-and-set *)
(* in the FSM prevents races.  The nodes decide each command alike, so     *)
(* that what the leader acknowledged is what every node did.  It holds for *)
(* single-key commands as long as no snapshot is taken.                    *)
OutcomesAgree ==
    \A n, m \in Nodes, i \in Positions :
        (i <= applied[n] /\ i <= applied[m]) => verdicts[n][i] = verdicts[m][i]
=============================================================================
