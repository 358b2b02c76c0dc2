-------------------------- MODULE KVReplicasProofs --------------------------
(***************************************************************************)
(* Theorems about KVReplicas, for any nodes, clients, keys and bounds.     *)
(***************************************************************************)
EXTENDS KVReplicas, KVEntriesProofs

(* What is known of a committed command beyond its type: KVSetWithFlags    *)
(* writes one key and compares nothing.                                    *)
Wanted(cmd) == cmd.op = "flag" => ~cmd.cas /\ Cardinality(DOMAIN cmd.items) = 1

LogInv ==
    /\ Len(log) <= MaxLog
    /\ \A i \in 1 .. Len(log) : Wanted(log[i])

(* The entries of every node are sound below its counter, and those of     *)
(* every snapshot below some counter: the one they are restored with is    *)
(* computed anew.                                                          *)
SoundInv ==
    \A n \in Nodes :
        /\ Sound(data[n], gidx[n])
        /\ \E b \in Nat : Sound(snap[n].data, b)

ReplicasInv == TypeOK /\ LogInv /\ SoundInv

-----------------------------------------------------------------------------
(* Commands.                                                               *)

(* The parts of a command.                                                 *)
LEMMA CommandFacts ==
    ASSUME NEW cmd \in Commands
    PROVE  /\ DOMAIN cmd.items \in Batches
           /\ DOMAIN cmd.items \in SUBSET Keys
           /\ cmd.op \in {"set", "erase", "flag"}
           /\ cmd.items \in [DOMAIN cmd.items -> Values]
           /\ cmd.flags \in Flags
           /\ cmd.cas \in BOOLEAN
           /\ cmd.expected \in [DOMAIN cmd.items -> Nat]
           /\ cmd.read \in [DOMAIN cmd.items -> Nat]
<1>1. PICK S \in Batches :
        cmd \in [op: {"set", "erase", "flag"}, items: [S -> Values], flags: Flags,
                 cas: BOOLEAN, expected: [S -> Nat], read: [S -> Nat]]
  BY DEF Commands
<1>2. DOMAIN cmd.items = S
  BY <1>1
<1> QED
  BY <1>1, <1>2 DEF Batches

(* A key belongs to some batch only if batches may have keys at all.       *)
LEMMA BatchFacts ==
    ASSUME NEW S \in Batches
    PROVE  /\ S \in SUBSET Keys
           /\ Cardinality(S) \in Nat
           /\ Cardinality(S) <= MaxBatch
           /\ \E k : k \in S
<1>1. S \in SUBSET Keys /\ S # {} /\ Cardinality(S) <= MaxBatch
  BY DEF Batches
<1>2. IsFiniteSet(S)
  BY <1>1, KeysAssumption, FS_Subset
<1> QED
  BY <1>1, <1>2, FS_CardinalityType

(* A command without comparison is a command.                              *)
LEMMA PlainType ==
    ASSUME NEW op \in {"set", "erase", "flag"}, NEW S \in Batches,
           NEW items \in [S -> Values], NEW f \in Flags
    PROVE  /\ Plain(op, items, f) \in Commands
           /\ ~Plain(op, items, f).cas
           /\ Plain(op, items, f).op = op
           /\ DOMAIN Plain(op, items, f).items = S
<1>1. DOMAIN items = S
  OBVIOUS
<1>2. Plain(op, items, f) \in
        [op: {"set", "erase", "flag"}, items: [S -> Values], flags: Flags,
         cas: BOOLEAN, expected: [S -> Nat], read: [S -> Nat]]
  BY <1>1 DEF Plain
<1>3. Plain(op, items, f) \in Commands
  BY <1>2 DEF Commands
<1> QED
  BY <1>1, <1>3 DEF Plain

(* A compare-and-swap names, for each key, the index its client read.      *)
LEMMA CASType ==
    ASSUME TypeOK, NEW c \in Clients, NEW op \in {"set", "erase"}, NEW S \in Batches,
           NEW items \in [S -> Values]
    PROVE  /\ CAS(c, op, items) \in Commands
           /\ CAS(c, op, items).op = op
           /\ DOMAIN CAS(c, op, items).items = S
           /\ \A k \in S : /\ CAS(c, op, items).expected[k] = view[c][k].index
                           /\ CAS(c, op, items).read[k] = view[c][k].written
<1>1. DOMAIN items = S /\ S \subseteq Keys
  BY BatchFacts
<1>2. \A k \in S : view[c][k] \in [index: Nat, written: Nat]
  BY <1>1 DEF TypeOK
<1>3. /\ [k \in S |-> view[c][k].index] \in [S -> Nat]
      /\ [k \in S |-> view[c][k].written] \in [S -> Nat]
  BY <1>2
<1>4. CAS(c, op, items) \in
        [op: {"set", "erase", "flag"}, items: [S -> Values], flags: Flags,
         cas: BOOLEAN, expected: [S -> Nat], read: [S -> Nat]]
  BY <1>1, <1>3, FlagsAssumption DEF CAS
<1>5. CAS(c, op, items) \in Commands
  BY <1>4 DEF Commands
<1> QED
  BY <1>1, <1>5 DEF CAS

(* What may be committed: a plain command, or one in which each expected   *)
(* index and the version it stands for come from what a client has read.   *)
Proposed(cmd) ==
    \/ ~cmd.cas
    \/ \E c \in Clients : \A k \in DOMAIN cmd.items :
         cmd.expected[k] = view[c][k].index /\ cmd.read[k] = view[c][k].written

(* Every proposal is of a well-formed command.                             *)
LEMMA ProposeFacts ==
    ASSUME TypeOK, ProposePlain \/ \E c \in Clients : ProposeCAS(c)
    PROVE  \E cmd \in Commands : Propose(cmd) /\ Wanted(cmd) /\ Proposed(cmd)
<1>1. ASSUME NEW S \in Batches, NEW items \in [S -> Values]
      PROVE  [k \in S |-> CHOOSE v \in Values : TRUE] \in [S -> Values]
  <2>1. \E v \in Values : TRUE
    BY BatchFacts
  <2>2. (CHOOSE v \in Values : TRUE) \in Values
    BY <2>1
  <2> QED
    BY <2>2
<1>2. CASE ProposePlain
  <2>1. PICK S \in Batches : \E items \in [S -> Values] :
          \/ Propose(Plain("set", items, 0))
          \/ Propose(Plain("erase", [k \in S |-> CHOOSE v \in Values : TRUE], 0))
          \/ Cardinality(S) = 1 /\ \E f \in Flags \ {0} : Propose(Plain("flag", items, f))
    BY <1>2 DEF ProposePlain
  <2>a. PICK items \in [S -> Values] :
          \/ Propose(Plain("set", items, 0))
          \/ Propose(Plain("erase", [k \in S |-> CHOOSE v \in Values : TRUE], 0))
          \/ Cardinality(S) = 1 /\ \E f \in Flags \ {0} : Propose(Plain("flag", items, f))
    BY <2>1
  <2> DEFINE none == [k \in S |-> CHOOSE v \in Values : TRUE]
  <2>2. none \in [S -> Values]
    BY <1>1
  <2> HIDE DEF none
  <2>3. CASE Propose(Plain("set", items, 0))
    BY <2>3, PlainType, FlagsAssumption DEF Wanted, Proposed
  <2>4. CASE Propose(Plain("erase", none, 0))
    BY <2>2, <2>4, PlainType, FlagsAssumption DEF Wanted, Proposed
  <2>5. CASE Cardinality(S) = 1 /\ \E f \in Flags \ {0} : Propose(Plain("flag", items, f))
    BY <2>5, PlainType DEF Wanted, Proposed
  <2> QED
    BY <2>a, <2>3, <2>4, <2>5 DEF none
<1>3. ASSUME NEW c \in Clients, ProposeCAS(c)
      PROVE  \E cmd \in Commands : Propose(cmd) /\ Wanted(cmd) /\ Proposed(cmd)
  <2>1. PICK S \in Batches : \E items \in [S -> Values] :
          \/ Propose(CAS(c, "set", items))
          \/ Propose(CAS(c, "erase", [k \in S |-> CHOOSE v \in Values : TRUE]))
    BY <1>3 DEF ProposeCAS
  <2>a. PICK items \in [S -> Values] :
          \/ Propose(CAS(c, "set", items))
          \/ Propose(CAS(c, "erase", [k \in S |-> CHOOSE v \in Values : TRUE]))
    BY <2>1
  <2> DEFINE none == [k \in S |-> CHOOSE v \in Values : TRUE]
  <2>2. none \in [S -> Values]
    BY <1>1
  <2> HIDE DEF none
  <2>3. CASE Propose(CAS(c, "set", items))
    BY <2>3, CASType DEF Wanted, Proposed
  <2>4. CASE Propose(CAS(c, "erase", none))
    BY <2>2, <2>4, CASType DEF Wanted, Proposed
  <2> QED
    BY <2>a, <2>3, <2>4 DEF none
<1> QED
  BY <1>2, <1>3

-----------------------------------------------------------------------------
(* What a command does to sound entries: they stay entries and stay sound, *)
(* below the counter it leaves behind.                                     *)
LEMMA EffectSound ==
    ASSUME NEW cmd \in Commands, Wanted(cmd), NEW d \in [Keys -> Slot], NEW base \in Nat,
           Sound(d, base), NEW rank \in Orders(DOMAIN cmd.items)
    PROVE  /\ Drawn(cmd) \in Nat
           /\ Effect(d, base, cmd, rank) \in [Keys -> Slot]
           /\ Sound(Effect(d, base, cmd, rank), base + Drawn(cmd))
<1> DEFINE S == DOMAIN cmd.items
<1>1. /\ S \in SUBSET Keys /\ cmd.items \in [S -> Values] /\ cmd.flags \in Flags
      /\ cmd.op \in {"set", "erase", "flag"} /\ Cardinality(S) \in Nat
  BY CommandFacts, BatchFacts
<1>2. CASE cmd.op = "set"
  <2>1. Effect(d, base, cmd, rank) = WriteItems(d, cmd.items, rank, base)
        /\ Drawn(cmd) = Cardinality(S)
    BY <1>2 DEF Effect, Drawn
  <2> HIDE DEF S
  <2>2. rank \in Orders(S)
    BY DEF S
  <2> QED
    BY <1>1, <2>1, <2>2, WriteItemsType, WriteItemsSound
<1>3. CASE cmd.op = "erase"
  <2>1. Effect(d, base, cmd, rank) = Erase(d, S) /\ Drawn(cmd) = 0
    BY <1>3 DEF Effect, Drawn
  <2>2. base + 0 = base
    OBVIOUS
  <2> HIDE DEF S
  <2> QED
    BY <1>1, <2>1, <2>2, EraseType, EraseSound
<1>4. CASE cmd.op = "flag"
  <2> DEFINE w == Effect(d, base, cmd, rank)
  <2>1. Cardinality(S) = 1 /\ Drawn(cmd) = 1
    BY <1>4 DEF Wanted, Drawn
  <2>2. PICK x : S = {x}
    <3>1. IsFiniteSet(S)
      BY <1>1, KeysAssumption, FS_Subset
    <3> QED
      BY <2>1, <3>1, FS_Singleton
  <2>3. x \in Keys /\ cmd.items[x] \in Values
    BY <1>1, <2>2
  <2>4. w = [k \in Keys |-> IF k = x THEN NewEntry(d[k], cmd.items[k], cmd.flags, base + 1)
                            ELSE d[k]]
    BY <1>4, <2>2 DEF Effect
  <2>5. NewEntry(d[x], cmd.items[x], cmd.flags, base + 1) \in KVEntry
    BY <1>1, <2>3, NewEntryType
  <2> DEFINE e == NewEntry(d[x], cmd.items[x], cmd.flags, base + 1)
  <2>6. e # Absent /\ e.modifyIndex = base + 1
    BY <2>5, AbsentAssumption DEF NewEntry
  <2>7. WellFormed(e, base + 1)
    <3>1. WellFormed(d[x], base) /\ d[x] \in Slot
      BY <2>3 DEF Sound
    <3> QED
      BY <3>1, NewEntrySound
  <2>8. w \in [Keys -> Slot] /\ w[x] = e /\ \A k \in Keys \ {x} : w[k] = d[k]
    BY <2>3, <2>4, <2>5 DEF Slot
  <2> HIDE DEF w, e
  <2>9. ASSUME NEW k \in Keys \ {x}
        PROVE  /\ WellFormed(w[k], base + 1)
               /\ Index(w[k]) \in Nat /\ Index(w[k]) <= base
    <3>1. w[k] = d[k] /\ d[k] \in Slot /\ WellFormed(d[k], base)
      BY <2>8 DEF Sound
    <3> QED
      BY <3>1 DEF WellFormed, Index, Slot, KVEntry
  <2>10. Index(w[x]) = base + 1
    BY <2>6, <2>8 DEF Index
  <2>11. ASSUME NEW k \in Keys, NEW l \in Keys, k # l, w[k] # Absent
         PROVE  Index(w[k]) # Index(w[l])
    <3>1. CASE k = x \/ l = x
      BY <2>9, <2>10, <2>11, <3>1
    <3>2. CASE k # x /\ l # x
      BY <2>8, <2>11, <3>2 DEF Sound
    <3> QED
      BY <3>1, <3>2
  <2>12. Sound(w, base + 1)
    BY <2>7, <2>8, <2>9, <2>11 DEF Sound
  <2> QED
    BY <2>1, <2>8, <2>12 DEF w
<1> QED
  BY <1>1, <1>2, <1>3, <1>4

-----------------------------------------------------------------------------
(* The type and the soundness of the nodes, step by step.                  *)

(* A proposal makes the log longer by one well-formed command.             *)
LEMMA ProposeLog ==
    ASSUME ReplicasInv, NEW cmd \in Commands, Propose(cmd), Wanted(cmd)
    PROVE  /\ log' \in Seq(Commands)
           /\ Len(log') = Len(log) + 1
           /\ Len(log') <= MaxLog
           /\ \A i \in 1 .. Len(log) : log'[i] = log[i]
           /\ log'[Len(log')] = cmd
           /\ \A i \in 1 .. Len(log') : Wanted(log'[i])
<1>1. log \in Seq(Commands) /\ Len(log) \in Nat
  BY DEF ReplicasInv, TypeOK
<1>2. log' = Append(log, cmd) /\ Len(log) < MaxLog
  BY DEF Propose
<1>3. /\ log' \in Seq(Commands)
      /\ Len(log') = Len(log) + 1
      /\ \A i \in 1 .. Len(log) : log'[i] = log[i]
      /\ log'[Len(log) + 1] = cmd
  BY <1>1, <1>2
<1>4. \A i \in 1 .. Len(log) : Wanted(log[i])
  BY DEF ReplicasInv, LogInv
<1>5. \A i \in 1 .. Len(log') : i \in 1 .. Len(log) \/ i = Len(log) + 1
  BY <1>1, <1>3
<1>6. \A i \in 1 .. Len(log') : Wanted(log'[i])
  BY <1>3, <1>4, <1>5
<1>7. Len(log') <= MaxLog
  BY <1>1, <1>2, <1>3, BoundsAssumption
<1> QED
  BY <1>3, <1>6, <1>7

(* What a node finds in the log.                                           *)
LEMMA NextCommand ==
    ASSUME ReplicasInv, NEW n \in Nodes, applied[n] < Len(log)
    PROVE  /\ applied[n] + 1 \in Positions
           /\ applied[n] + 1 \in 1 .. Len(log)
           /\ log[applied[n] + 1] \in Commands
           /\ Wanted(log[applied[n] + 1])
<1>1. log \in Seq(Commands) /\ Len(log) \in Nat /\ applied[n] \in Nat
  BY DEF ReplicasInv, TypeOK
<1>2. applied[n] + 1 \in 1 .. Len(log)
  BY <1>1
<1>3. log[applied[n] + 1] \in Commands
  BY <1>1, <1>2
<1>4. applied[n] + 1 \in Positions
  BY <1>1, <1>2, BoundsAssumption DEF ReplicasInv, LogInv, Positions
<1> QED
  BY <1>2, <1>3, <1>4 DEF ReplicasInv, LogInv

(* What the state machine of a node does with a command: it executes it in *)
(* some order of the keys, or refuses it.                                  *)
LEMMA ApplyFacts ==
    ASSUME ReplicasInv, NEW n \in Nodes, Apply(n)
    PROVE  LET pos == applied[n] + 1
               cmd == log[pos]
           IN  /\ applied' = [applied EXCEPT ![n] = pos]
               /\ UNCHANGED <<log, snap, view, snapshots, restarts>>
               /\ \/ /\ Accepts(data[n], cmd)
                     /\ \E rank \in Orders(DOMAIN cmd.items) :
                          data' = [data EXCEPT ![n] = Effect(data[n], gidx[n], cmd, rank)]
                     /\ gidx' = [gidx EXCEPT ![n] = gidx[n] + Drawn(cmd)]
                     /\ written' = [written EXCEPT ![n] =
                          [k \in Keys |-> IF k \notin DOMAIN cmd.items THEN written[n][k]
                                          ELSE IF cmd.op = "erase" THEN 0 ELSE pos]]
                     /\ verdicts' = [verdicts EXCEPT ![n][pos] = "ok"]
                  \/ /\ ~Accepts(data[n], cmd)
                     /\ UNCHANGED <<data, gidx, written>>
                     /\ verdicts' = [verdicts EXCEPT ![n][pos] = "refused"]
BY DEF Apply, Execute, Reject, ReplicasInv, TypeOK

(* Applying a command keeps the invariant.                                 *)
LEMMA ApplyInv == ASSUME ReplicasInv, NEW n \in Nodes, Apply(n) PROVE ReplicasInv'
<1> DEFINE pos == applied[n] + 1
           cmd == log[pos]
<1>1. TypeOK /\ LogInv /\ SoundInv
  BY DEF ReplicasInv
<1>2. /\ pos \in Positions /\ pos \in 1 .. Len(log) /\ cmd \in Commands /\ Wanted(cmd)
      /\ pos \in Nat /\ pos <= Len(log)
  <2>1. applied[n] < Len(log) /\ Len(log) \in Nat /\ applied[n] \in Nat
    BY <1>1 DEF Apply, TypeOK
  <2> QED
    BY <2>1, NextCommand
<1>3. applied' \in [Nodes -> Nat] /\ \A m \in Nodes : applied'[m] <= Len(log)
  BY <1>1, <1>2, ApplyFacts DEF TypeOK
<1>4. /\ data[n] \in [Keys -> Slot] /\ gidx[n] \in Nat
      /\ Sound(data[n], gidx[n])
  BY <1>1 DEF TypeOK, SoundInv
<1>5. UNCHANGED <<log, snap, view, snapshots, restarts>>
  BY ApplyFacts
<1>6. CASE UNCHANGED <<data, gidx, written>> /\ verdicts' = [verdicts EXCEPT ![n][pos] = "refused"]
  <2>1. verdicts' \in [Nodes -> [Positions -> {"none", "ok", "refused"}]]
    BY <1>1, <1>2, <1>6 DEF TypeOK
  <2> HIDE DEF pos, cmd
  <2>2. TypeOK'
    BY <1>1, <1>3, <1>5, <1>6, <2>1 DEF TypeOK
  <2>3. LogInv' /\ SoundInv'
    BY <1>1, <1>5, <1>6 DEF LogInv, SoundInv
  <2> QED
    BY <2>2, <2>3 DEF ReplicasInv
<1>7. ASSUME NEW rank \in Orders(DOMAIN cmd.items),
             data' = [data EXCEPT ![n] = Effect(data[n], gidx[n], cmd, rank)],
             gidx' = [gidx EXCEPT ![n] = gidx[n] + Drawn(cmd)],
             written' = [written EXCEPT ![n] =
                  [k \in Keys |-> IF k \notin DOMAIN cmd.items THEN written[n][k]
                                  ELSE IF cmd.op = "erase" THEN 0 ELSE pos]],
             verdicts' = [verdicts EXCEPT ![n][pos] = "ok"]
      PROVE  ReplicasInv'
  <2> HIDE DEF cmd
  <2> DEFINE d == Effect(data[n], gidx[n], cmd, rank)
             g == gidx[n] + Drawn(cmd)
             w == [k \in Keys |-> IF k \notin DOMAIN cmd.items THEN written[n][k]
                                  ELSE IF cmd.op = "erase" THEN 0 ELSE pos]
  <2>1. Drawn(cmd) \in Nat /\ d \in [Keys -> Slot] /\ Sound(d, g)
    BY <1>2, <1>4, EffectSound
  <2>2. verdicts' \in [Nodes -> [Positions -> {"none", "ok", "refused"}]]
    BY <1>1, <1>2, <1>7 DEF TypeOK
  <2>3. w \in [Keys -> Nat]
    BY <1>1, <1>2 DEF TypeOK
  <2>4. g \in Nat
    BY <1>4, <2>1
  <2>5. /\ data' = [data EXCEPT ![n] = d] /\ gidx' = [gidx EXCEPT ![n] = g]
        /\ written' = [written EXCEPT ![n] = w]
    BY <1>7
  <2> HIDE DEF d, g, w, pos
  <2>6. TypeOK'
    BY <1>1, <1>3, <1>5, <2>1, <2>2, <2>3, <2>4, <2>5 DEF TypeOK
  <2>7. SoundInv'
    BY <1>1, <1>5, <2>1, <2>5 DEF SoundInv, TypeOK
  <2>8. LogInv'
    BY <1>1, <1>5 DEF LogInv
  <2> QED
    BY <2>6, <2>7, <2>8 DEF ReplicasInv
<1> QED
  BY <1>6, <1>7, ApplyFacts

(* Restoring a snapshot gives a node entries that are sound below the      *)
(* counter computed from them.                                             *)
LEMMA RestoreFacts ==
    ASSUME ReplicasInv, NEW n \in Nodes, NEW m \in Nodes, Restore(n, snap[m])
    PROVE  /\ data' \in [Nodes -> [Keys -> Slot]] /\ gidx' \in [Nodes -> Nat]
           /\ applied' \in [Nodes -> Nat] /\ written' \in [Nodes -> [Keys -> Nat]]
           /\ verdicts' \in [Nodes -> [Positions -> {"none", "ok", "refused"}]]
           /\ \A r \in Nodes : applied'[r] <= Len(log)
           /\ \A r \in Nodes : Sound(data'[r], gidx'[r])
<1>1. TypeOK /\ SoundInv
  BY DEF ReplicasInv
<1>2. /\ snap[m] \in Snapshots /\ snap[m].data \in [Keys -> Slot]
      /\ snap[m].pos \in Nat /\ snap[m].written \in [Keys -> Nat] /\ snap[m].pos <= Len(log)
      /\ snap[m].verdicts \in [Positions -> {"none", "ok", "refused"}]
  BY <1>1 DEF TypeOK, Snapshots
<1>3. PICK b \in Nat : Sound(snap[m].data, b)
  BY <1>1 DEF SoundInv
<1>4. PICK i : IsLoadedIndex(snap[m].data, i) /\ gidx' = [gidx EXCEPT ![n] = i]
  BY DEF Restore
<1>5. i \in Nat /\ Sound(snap[m].data, i)
  BY <1>2, <1>3, <1>4, LoadedSound
<1>6. /\ data' \in [Nodes -> [Keys -> Slot]] /\ gidx' \in [Nodes -> Nat]
      /\ applied' \in [Nodes -> Nat] /\ written' \in [Nodes -> [Keys -> Nat]]
      /\ verdicts' \in [Nodes -> [Positions -> {"none", "ok", "refused"}]]
  BY <1>1, <1>2, <1>4, <1>5 DEF Restore, TypeOK
<1>7. \A r \in Nodes : applied'[r] <= Len(log)
  BY <1>1, <1>2 DEF Restore, TypeOK
<1>8. \A r \in Nodes : Sound(data'[r], gidx'[r])
  BY <1>1, <1>4, <1>5 DEF Restore, TypeOK, SoundInv
<1> QED
  BY <1>6, <1>7, <1>8

(* A restart and the installation of a snapshot keep the invariant.        *)
LEMMA RestoreInv ==
    ASSUME ReplicasInv, NEW n \in Nodes,
           Restart(n) \/ \E m \in Nodes : InstallSnapshot(n, m)
    PROVE  ReplicasInv'
<1>1. TypeOK /\ LogInv /\ SoundInv
  BY DEF ReplicasInv
<1>2. PICK m \in Nodes :
        /\ Restore(n, snap[m])
        /\ snap' = [snap EXCEPT ![n] = snap[m]]
        /\ log' = log /\ view' = view
  BY <1>1 DEF Restart, InstallSnapshot, TypeOK
<1>3. snap' \in [Nodes -> Snapshots] /\ \A r \in Nodes : \E q \in Nodes : snap'[r] = snap[q]
  BY <1>1, <1>2 DEF TypeOK
<1>4. \A r \in Nodes : snap'[r].pos <= Len(log)
  BY <1>1, <1>3 DEF TypeOK
<1>5. TypeOK'
  BY <1>1, <1>2, <1>3, <1>4, RestoreFacts DEF TypeOK
<1>6. LogInv'
  BY <1>1, <1>2 DEF LogInv
<1>7. SoundInv'
  BY <1>1, <1>2, <1>3, RestoreFacts DEF SoundInv
<1> QED
  BY <1>5, <1>6, <1>7 DEF ReplicasInv

(* Reading, proposing and taking a snapshot keep the invariant.            *)
LEMMA ClientInv ==
    ASSUME ReplicasInv,
           \/ ProposePlain \/ \E c \in Clients : ProposeCAS(c)
           \/ \E c \in Clients, n \in Nodes, k \in Keys : Read(c, n, k)
           \/ \E n \in Nodes : Snapshot(n)
    PROVE  ReplicasInv'
<1>1. TypeOK /\ LogInv /\ SoundInv
  BY DEF ReplicasInv
<1>2. CASE ProposePlain \/ \E c \in Clients : ProposeCAS(c)
  <2>1. PICK cmd \in Commands : Propose(cmd) /\ Wanted(cmd)
    BY <1>1, <1>2, ProposeFacts
  <2>2. /\ log' \in Seq(Commands) /\ Len(log') = Len(log) + 1 /\ Len(log') <= MaxLog
        /\ \A i \in 1 .. Len(log') : Wanted(log'[i])
    BY <2>1, ProposeLog
  <2>3. \A n \in Nodes : applied[n] <= Len(log') /\ snap[n].pos <= Len(log')
    <3>1. \A n \in Nodes : /\ applied[n] \in Nat /\ snap[n].pos \in Nat
                           /\ applied[n] <= Len(log) /\ snap[n].pos <= Len(log)
      BY <1>1 DEF TypeOK, Snapshots
    <3>2. Len(log) \in Nat
      BY <1>1 DEF TypeOK
    <3> QED
      BY <2>2, <3>1, <3>2
  <2>4. TypeOK'
    BY <1>1, <2>1, <2>2, <2>3 DEF TypeOK, Propose
  <2>5. LogInv'
    BY <2>2 DEF LogInv
  <2>6. SoundInv'
    BY <1>1, <2>1 DEF SoundInv, Propose
  <2> QED
    BY <2>4, <2>5, <2>6 DEF ReplicasInv
<1>3. ASSUME NEW c \in Clients, NEW n \in Nodes, NEW k \in Keys, Read(c, n, k)
      PROVE  ReplicasInv'
  <2>1. Index(data[n][k]) \in Nat /\ written[n][k] \in Nat
    BY <1>1 DEF TypeOK, Index, Slot, KVEntry
  <2>2. view' \in [Clients -> [Keys -> [index: Nat, written: Nat]]]
    BY <1>1, <1>3, <2>1 DEF Read, TypeOK
  <2>3. TypeOK'
    BY <1>1, <1>3, <2>2 DEF Read, TypeOK
  <2>4. LogInv' /\ SoundInv'
    BY <1>1, <1>3 DEF Read, LogInv, SoundInv
  <2> QED
    BY <2>3, <2>4 DEF ReplicasInv
<1>4. ASSUME NEW n \in Nodes, Snapshot(n)
      PROVE  ReplicasInv'
  <2> DEFINE s == [pos |-> applied[n], data |-> data[n], written |-> written[n],
                   verdicts |-> verdicts[n]]
  <2>1. s \in Snapshots
    BY <1>1 DEF TypeOK, Snapshots
  <2>2. s.pos <= Len(log) /\ \E b \in Nat : Sound(s.data, b)
    BY <1>1 DEF TypeOK, SoundInv
  <2>3. snap' = [snap EXCEPT ![n] = s]
    BY <1>4 DEF Snapshot
  <2> HIDE DEF s
  <2>4. TypeOK'
    BY <1>1, <1>4, <2>1, <2>2, <2>3 DEF Snapshot, TypeOK
  <2>5. LogInv'
    BY <1>1, <1>4 DEF Snapshot, LogInv
  <2>6. SoundInv'
    BY <1>1, <1>4, <2>2, <2>3 DEF Snapshot, SoundInv, TypeOK
  <2> QED
    BY <2>4, <2>5, <2>6 DEF ReplicasInv
<1> QED
  BY <1>2, <1>3, <1>4

(* The invariant holds in every state the cluster reaches.                 *)
LEMMA AlwaysInv == Spec => []ReplicasInv
<1>1. Init => ReplicasInv
  <2> SUFFICES ASSUME Init PROVE ReplicasInv
    OBVIOUS
  <2>1. NoSnapshot \in Snapshots /\ NoSnapshot.pos = 0 /\ NoSnapshot.data = EmptyData
    BY EmptySound DEF NoSnapshot, Snapshots
  <2>2. log \in Seq(Commands) /\ Len(log) = 0
    BY DEF Init
  <2>3. TypeOK
    BY <2>1, <2>2, EmptySound DEF Init, TypeOK, NoVersion
  <2>4. LogInv
    BY <2>2, BoundsAssumption DEF LogInv
  <2>5. SoundInv
    BY <2>1, EmptySound DEF Init, SoundInv
  <2> QED
    BY <2>3, <2>4, <2>5 DEF ReplicasInv
<1>2. ReplicasInv /\ [Next]_vars => ReplicasInv'
  <2> SUFFICES ASSUME ReplicasInv, [Next]_vars PROVE ReplicasInv'
    OBVIOUS
  <2>1. CASE UNCHANGED vars
    BY <2>1 DEF vars, ReplicasInv, TypeOK, LogInv, SoundInv
  <2> QED
    BY <2>1, ClientInv, ApplyInv, RestoreInv DEF Next
<1> QED
  BY <1>1, <1>2, PTL DEF Spec

(* Every variable of the cluster keeps its type in every behaviour.        *)
THEOREM TypeCorrect == Spec => []TypeOK
<1>1. ReplicasInv => TypeOK
  BY DEF ReplicasInv
<1> QED
  BY <1>1, AlwaysInv, PTL

(* Each node by itself stays sound, whatever it applies, snapshots and     *)
(* restores: its counter is never behind its entries, and no two entries   *)
(* share an index (kv.go:1167).                                            *)
THEOREM ReplicasAreSound == Spec => []ReplicaSound
<1>1. ReplicasInv => ReplicaSound
  BY DEF ReplicasInv, SoundInv, ReplicaSound, Sound
<1> QED
  BY <1>1, AlwaysInv, PTL

-----------------------------------------------------------------------------
(* Contents.  What a client sees of a store but for the indices: which     *)
(* keys are there, with which value and flags, written by which command.   *)
Content(d, w) ==
    [k \in Keys |-> [here |-> IF d[k] = Absent THEN "no" ELSE "yes",
                     value |-> ValueOf(d[k]), flags |-> KeptFlags(d[k]), at |-> w[k]]]

(* The content that the command at position pos makes of content c: it     *)
(* depends neither on the indices nor on the order of the keys.            *)
ContentAfter(c, cmd, pos) ==
    [k \in Keys |->
        IF k \notin DOMAIN cmd.items THEN c[k]
        ELSE IF cmd.op = "erase"
             THEN [here |-> "no", value |-> Absent, flags |-> 0, at |-> 0]
             ELSE [here |-> "yes", value |-> cmd.items[k],
                   flags |-> IF cmd.op = "flag" THEN cmd.flags ELSE c[k].flags, at |-> pos]]

(* H is the history of the contents: H[i] is what i commands make of an    *)
(* empty store.  A node holds H at the position it has applied, and so     *)
(* does a snapshot at the position it was taken.                           *)
ContentHistory(H) ==
    /\ H[0] = Content(EmptyData, [k \in Keys |-> 0])
    /\ \A i \in 1 .. Len(log) : H[i] = ContentAfter(H[i - 1], log[i], i)
    /\ \A n \in Nodes : Content(data[n], written[n]) = H[applied[n]]
    /\ \A n \in Nodes : Content(snap[n].data, snap[n].written) = H[snap[n].pos]

NoCAS == \A i \in 1 .. Len(log) : ~log[i].cas

ContentInv == NoCAS => \E H : ContentHistory(H)

(* A command that is executed does to the content what ContentAfter says.  *)
LEMMA EffectContent ==
    ASSUME NEW cmd \in Commands, NEW d \in [Keys -> Slot], NEW base \in Nat,
           NEW rank \in Orders(DOMAIN cmd.items), NEW w, NEW pos
    PROVE  Content(Effect(d, base, cmd, rank),
                   [k \in Keys |-> IF k \notin DOMAIN cmd.items THEN w[k]
                                   ELSE IF cmd.op = "erase" THEN 0 ELSE pos])
             = ContentAfter(Content(d, w), cmd, pos)
<1> DEFINE S == DOMAIN cmd.items
           e == Effect(d, base, cmd, rank)
           v == [k \in Keys |-> IF k \notin DOMAIN cmd.items THEN w[k]
                                ELSE IF cmd.op = "erase" THEN 0 ELSE pos]
<1>1. /\ S \in SUBSET Keys /\ cmd.items \in [S -> Values] /\ cmd.flags \in Flags
      /\ cmd.op \in {"set", "erase", "flag"}
  BY CommandFacts
<1>2. ASSUME NEW k \in Keys
      PROVE  Content(e, v)[k] = ContentAfter(Content(d, w), cmd, pos)[k]
  <2>1. Content(e, v)[k] = [here |-> IF e[k] = Absent THEN "no" ELSE "yes",
                            value |-> ValueOf(e[k]), flags |-> KeptFlags(e[k]), at |-> v[k]]
    BY DEF Content
  <2>2. CASE k \notin S
    <3>1. e[k] = d[k] /\ v[k] = w[k]
      BY <1>1, <2>2 DEF Effect, WriteItems, Erase
    <3>2. ContentAfter(Content(d, w), cmd, pos)[k] = Content(d, w)[k]
      BY <2>2 DEF ContentAfter
    <3> HIDE DEF e, v
    <3> QED
      BY <2>1, <3>1, <3>2 DEF Content
  <2>3. CASE k \in S /\ cmd.op = "erase"
    <3>1. e[k] = Absent /\ v[k] = 0
      BY <2>3 DEF Effect, Erase
    <3>2. ContentAfter(Content(d, w), cmd, pos)[k]
            = [here |-> "no", value |-> Absent, flags |-> 0, at |-> 0]
      BY <2>3 DEF ContentAfter
    <3> HIDE DEF e, v
    <3> QED
      BY <2>1, <3>1, <3>2 DEF ValueOf, KeptFlags
  <2>4. ASSUME k \in S, cmd.op # "erase", NEW f, NEW i,
               e[k] = NewEntry(d[k], cmd.items[k], f, i), e[k] # Absent,
               f = IF cmd.op = "flag" THEN cmd.flags ELSE KeptFlags(d[k])
        PROVE  Content(e, v)[k] = ContentAfter(Content(d, w), cmd, pos)[k]
    <3>1. v[k] = pos
      BY <2>4
    <3>2. ContentAfter(Content(d, w), cmd, pos)[k]
            = [here |-> "yes", value |-> cmd.items[k],
               flags |-> IF cmd.op = "flag" THEN cmd.flags ELSE Content(d, w)[k].flags,
               at |-> pos]
      BY <2>4 DEF ContentAfter
    <3>3. Content(d, w)[k].flags = KeptFlags(d[k])
      BY DEF Content
    <3>4. ValueOf(e[k]) = cmd.items[k] /\ KeptFlags(e[k]) = f
      BY <2>4 DEF ValueOf, KeptFlags, NewEntry
    <3> HIDE DEF e, v
    <3> QED
      BY <2>1, <2>4, <3>1, <3>2, <3>3, <3>4
  <2>5. CASE k \in S /\ cmd.op = "set"
    <3>1. e = WriteItems(d, cmd.items, rank, base)
      BY <2>5 DEF Effect
    <3>2. e[k] = NewEntry(d[k], cmd.items[k], KeptFlags(d[k]), base + rank[k]) /\ e[k] # Absent
      BY <1>1, <2>5, <3>1, WriteItemsFacts
    <3> HIDE DEF e, v
    <3> QED
      BY <2>4, <2>5, <3>2
  <2>6. CASE k \in S /\ cmd.op = "flag"
    <3>1. e[k] = NewEntry(d[k], cmd.items[k], cmd.flags, base + 1)
      BY <2>6 DEF Effect
    <3>2. e[k] # Absent
      BY <1>1, <2>6, <3>1, NewEntryType, AbsentAssumption
    <3> HIDE DEF e, v
    <3> QED
      BY <2>4, <2>6, <3>1, <3>2
  <2> QED
    BY <1>1, <2>2, <2>3, <2>5, <2>6
<1> HIDE DEF e, v
<1>3. Content(e, v) = ContentAfter(Content(d, w), cmd, pos)
  BY <1>2 DEF Content, ContentAfter
<1> QED
  BY <1>3 DEF e, v

(* Every step keeps the history of the contents: a proposal adds to it,    *)
(* and the other steps move a node along it.                               *)
LEMMA ContentStep ==
    ASSUME ReplicasInv, ReplicasInv', ContentInv, [Next]_vars
    PROVE  ContentInv'
<1> SUFFICES ASSUME NoCAS' PROVE \E H : ContentHistory(H)'
  BY DEF ContentInv
<1>1. TypeOK /\ LogInv
  BY DEF ReplicasInv
<1>2. Len(log) \in Nat /\ \A n \in Nodes : /\ applied[n] \in 0 .. Len(log)
                                           /\ snap[n].pos \in 0 .. Len(log)
  BY <1>1 DEF TypeOK, Snapshots
<1>3. ASSUME NoCAS PROVE \E H : ContentHistory(H)
  BY <1>3 DEF ContentInv
<1>4. CASE ProposePlain \/ \E c \in Clients : ProposeCAS(c)
  <2>1. PICK cmd \in Commands : Propose(cmd) /\ Wanted(cmd)
    BY <1>1, <1>4, ProposeFacts
  <2>2. /\ Len(log') = Len(log) + 1
        /\ \A i \in 1 .. Len(log) : log'[i] = log[i]
        /\ log'[Len(log) + 1] = cmd
    BY <2>1, ProposeLog
  <2>3. NoCAS
    BY <1>2, <2>2 DEF NoCAS
  <2>4. PICK H : ContentHistory(H)
    BY <1>3, <2>3
  <2>5. PICK G : /\ \A i \in 0 .. Len(log) : G[i] = H[i]
                 /\ G[Len(log) + 1] = ContentAfter(H[Len(log)], cmd, Len(log) + 1)
    <3> DEFINE F == [i \in 0 .. Len(log) + 1 |->
                       IF i <= Len(log) THEN H[i]
                       ELSE ContentAfter(H[Len(log)], cmd, Len(log) + 1)]
    <3>1. /\ \A i \in 0 .. Len(log) : F[i] = H[i]
          /\ F[Len(log) + 1] = ContentAfter(H[Len(log)], cmd, Len(log) + 1)
      BY <1>2
    <3> HIDE DEF F
    <3> QED
      BY <3>1
  <2>6. G[0] = Content(EmptyData, [k \in Keys |-> 0])
    BY <1>2, <2>4, <2>5 DEF ContentHistory
  <2>7. ASSUME NEW i \in 1 .. Len(log')
        PROVE  G[i] = ContentAfter(G[i - 1], log'[i], i)
    <3>1. CASE i \in 1 .. Len(log)
      <4>1. i - 1 \in 0 .. Len(log) /\ i \in 0 .. Len(log)
        BY <1>2, <3>1
      <4>2. H[i] = ContentAfter(H[i - 1], log[i], i)
        BY <2>4, <3>1 DEF ContentHistory
      <4> QED
        BY <2>2, <2>5, <3>1, <4>1, <4>2
    <3>2. CASE i = Len(log) + 1
      <4>1. i - 1 = Len(log) /\ Len(log) \in 0 .. Len(log)
        BY <1>2, <3>2
      <4> QED
        BY <2>2, <2>5, <3>2, <4>1
    <3> QED
      BY <1>2, <2>2, <3>1, <3>2
  <2>8. \A n \in Nodes : /\ Content(data[n], written[n]) = G[applied[n]]
                         /\ Content(snap[n].data, snap[n].written) = G[snap[n].pos]
    BY <1>2, <2>4, <2>5 DEF ContentHistory
  <2>9. UNCHANGED <<data, applied, snap, written>>
    BY <2>1 DEF Propose
  <2>10. ContentHistory(G)'
    BY <2>6, <2>7, <2>8, <2>9 DEF ContentHistory
  <2> QED
    BY <2>10
<1>5. ASSUME log' = log
      PROVE  /\ NoCAS
             /\ \E H : /\ ContentHistory(H)
                       /\ (/\ \A n \in Nodes : Content(data'[n], written'[n]) = H[applied'[n]]
                           /\ \A n \in Nodes :
                                Content(snap'[n].data, snap'[n].written) = H[snap'[n].pos])
                          => ContentHistory(H)'
  <2>1. NoCAS
    BY <1>5 DEF NoCAS
  <2> QED
    BY <1>3, <1>5, <2>1 DEF ContentHistory
<1>6. ASSUME NEW n \in Nodes, Apply(n)
      PROVE  \E H : ContentHistory(H)'
  <2> DEFINE pos == applied[n] + 1
             cmd == log[pos]
  <2>1. log' = log /\ snap' = snap /\ applied' = [applied EXCEPT ![n] = pos]
    BY <1>6, ApplyFacts
  <2>2. PICK H : /\ ContentHistory(H)
                 /\ (/\ \A m \in Nodes : Content(data'[m], written'[m]) = H[applied'[m]]
                     /\ \A m \in Nodes :
                          Content(snap'[m].data, snap'[m].written) = H[snap'[m].pos])
                    => ContentHistory(H)'
    BY <1>5, <2>1
  <2>3. pos \in 1 .. Len(log) /\ cmd \in Commands /\ pos - 1 = applied[n]
    BY <1>2, <1>6, NextCommand DEF Apply
  <2>4. Accepts(data[n], cmd)
    BY <1>5, <2>1, <2>3 DEF NoCAS, Accepts
  <2>5. PICK rank \in Orders(DOMAIN cmd.items) :
          data' = [data EXCEPT ![n] = Effect(data[n], gidx[n], cmd, rank)]
    BY <1>6, <2>4, ApplyFacts
  <2>6. written' = [written EXCEPT ![n] =
          [k \in Keys |-> IF k \notin DOMAIN cmd.items THEN written[n][k]
                          ELSE IF cmd.op = "erase" THEN 0 ELSE pos]]
    BY <1>6, <2>4, ApplyFacts
  <2>7. /\ data'[n] = Effect(data[n], gidx[n], cmd, rank)
        /\ written'[n] = [k \in Keys |-> IF k \notin DOMAIN cmd.items THEN written[n][k]
                                         ELSE IF cmd.op = "erase" THEN 0 ELSE pos]
        /\ applied'[n] = pos
        /\ \A m \in Nodes \ {n} : /\ data'[m] = data[m] /\ written'[m] = written[m]
                                  /\ applied'[m] = applied[m]
    BY <1>1, <2>1, <2>5, <2>6 DEF TypeOK
  <2>8. data[n] \in [Keys -> Slot] /\ gidx[n] \in Nat
    BY <1>1 DEF TypeOK
  <2> HIDE DEF cmd
  <2>9. Content(data'[n], written'[n]) = ContentAfter(Content(data[n], written[n]), cmd, pos)
    BY <2>3, <2>7, <2>8, EffectContent
  <2>10. H[pos] = ContentAfter(H[pos - 1], cmd, pos)
    BY <2>2, <2>3 DEF ContentHistory, cmd
  <2>11. Content(data[n], written[n]) = H[applied[n]]
    BY <2>2 DEF ContentHistory
  <2>12. Content(data'[n], written'[n]) = H[applied'[n]]
    BY <2>3, <2>7, <2>9, <2>10, <2>11
  <2> HIDE DEF pos
  <2>13. \A m \in Nodes : Content(data'[m], written'[m]) = H[applied'[m]]
    BY <2>2, <2>7, <2>12 DEF ContentHistory
  <2> QED
    BY <2>1, <2>2, <2>13 DEF ContentHistory
<1>7. ASSUME NEW n \in Nodes, Snapshot(n)
      PROVE  \E H : ContentHistory(H)'
  <2>1. UNCHANGED <<log, data, applied, written>>
    BY <1>7 DEF Snapshot
  <2>2. PICK H : /\ ContentHistory(H)
                 /\ (/\ \A m \in Nodes : Content(data'[m], written'[m]) = H[applied'[m]]
                     /\ \A m \in Nodes :
                          Content(snap'[m].data, snap'[m].written) = H[snap'[m].pos])
                    => ContentHistory(H)'
    BY <1>5, <2>1
  <2>3. /\ snap'[n].data = data[n] /\ snap'[n].written = written[n]
        /\ snap'[n].pos = applied[n]
        /\ \A m \in Nodes \ {n} : snap'[m] = snap[m]
    BY <1>1, <1>7 DEF Snapshot, TypeOK
  <2> QED
    BY <2>1, <2>2, <2>3 DEF ContentHistory
<1>8. ASSUME NEW n \in Nodes, Restart(n) \/ \E m \in Nodes : InstallSnapshot(n, m)
      PROVE  \E H : ContentHistory(H)'
  <2>1. PICK m \in Nodes :
          /\ Restore(n, snap[m])
          /\ snap' = [snap EXCEPT ![n] = snap[m]]
          /\ log' = log
    BY <1>1, <1>8 DEF Restart, InstallSnapshot, TypeOK
  <2>2. PICK H : /\ ContentHistory(H)
                 /\ (/\ \A r \in Nodes : Content(data'[r], written'[r]) = H[applied'[r]]
                     /\ \A r \in Nodes :
                          Content(snap'[r].data, snap'[r].written) = H[snap'[r].pos])
                    => ContentHistory(H)'
    BY <1>5, <2>1
  <2>3. /\ data'[n] = snap[m].data /\ written'[n] = snap[m].written
        /\ applied'[n] = snap[m].pos /\ snap'[n] = snap[m]
        /\ \A r \in Nodes \ {n} : /\ data'[r] = data[r] /\ written'[r] = written[r]
                                  /\ applied'[r] = applied[r] /\ snap'[r] = snap[r]
    BY <1>1, <2>1 DEF Restore, TypeOK
  <2> QED
    BY <2>2, <2>3 DEF ContentHistory
<1>9. ASSUME UNCHANGED <<log, data, applied, snap, written>>
      PROVE  \E H : ContentHistory(H)'
  BY <1>5, <1>9 DEF ContentHistory
<1>10. CASE UNCHANGED vars \/ \E c \in Clients, n \in Nodes, k \in Keys : Read(c, n, k)
  BY <1>9, <1>10 DEF vars, Read
<1> QED
  BY <1>4, <1>6, <1>7, <1>8, <1>10 DEF Next

(* As long as no compare-and-swap has been sent, nodes that have applied   *)
(* the same prefix of the log hold the same values and flags, written by   *)
(* the same commands, through any restart, snapshot and order of the keys  *)
(* of a batch (fsm.go:48, :312, :329).                                     *)
THEOREM ContentsDoAgree == Spec => []ContentsAgree
<1>1. Init => ContentInv
  <2> SUFFICES ASSUME Init PROVE ContentInv
    OBVIOUS
  <2> DEFINE H == [i \in {0} |-> Content(EmptyData, [k \in Keys |-> 0])]
  <2>1. H[0] = Content(EmptyData, [k \in Keys |-> 0])
    OBVIOUS
  <2> HIDE DEF H
  <2>2. Len(log) = 0
    BY DEF Init
  <2>3. \A n \in Nodes : /\ data[n] = EmptyData /\ written[n] = [k \in Keys |-> 0]
                         /\ applied[n] = 0 /\ snap[n].pos = 0
                         /\ snap[n].data = EmptyData /\ snap[n].written = [k \in Keys |-> 0]
    BY DEF Init, NoSnapshot
  <2>4. ContentHistory(H)
    BY <2>1, <2>2, <2>3 DEF ContentHistory
  <2> QED
    BY <2>4 DEF ContentInv
<1>2. ReplicasInv /\ ReplicasInv' /\ ContentInv /\ [Next]_vars => ContentInv'
  BY ContentStep
<1>3. ReplicasInv /\ ContentInv => ContentsAgree
  <2> SUFFICES ASSUME ReplicasInv, ContentInv, NoCAS, NEW n \in Nodes, NEW m \in Nodes,
                      applied[n] = applied[m]
               PROVE  /\ written[n] = written[m]
                      /\ \A k \in Keys :
                           /\ ValueOf(data[n][k]) = ValueOf(data[m][k])
                           /\ data[n][k] # Absent => data[n][k].flags = data[m][k].flags
    BY DEF ContentsAgree, NoCAS
  <2>1. Content(data[n], written[n]) = Content(data[m], written[m])
    BY DEF ContentInv, ContentHistory
  <2>2. \A k \in Keys : Content(data[n], written[n])[k] = Content(data[m], written[m])[k]
    BY <2>1
  <2>3. \A k \in Keys : /\ written[n][k] = written[m][k]
                        /\ ValueOf(data[n][k]) = ValueOf(data[m][k])
                        /\ KeptFlags(data[n][k]) = KeptFlags(data[m][k])
                        /\ data[n][k] = Absent <=> data[m][k] = Absent
    BY <2>2 DEF Content
  <2>4. written[n] = written[m]
    BY <2>3 DEF ReplicasInv, TypeOK
  <2> QED
    BY <2>3, <2>4 DEF KeptFlags
<1> QED
  BY <1>1, <1>2, <1>3, AlwaysInv, PTL DEF Spec

-----------------------------------------------------------------------------
(* Indices.  With one key per command there is one order of the keys, and  *)
(* without snapshots no counter is computed anew: what a prefix of the log *)
(* makes of an empty store is then the same on every node, indices         *)
(* included, compare-and-swap or not.                                      *)
OneAtATime == MaxBatch <= 1 /\ MaxSnapshots = 0

States == [data : [Keys -> Slot], gidx : Nat, written : [Keys -> Nat]]

StateOf(n) == [data |-> data[n], gidx |-> gidx[n], written |-> written[n]]

Empty == [data |-> EmptyData, gidx |-> 0, written |-> [k \in Keys |-> 0]]

(* The only order of one key.                                              *)
FirstOf(cmd) == [k \in DOMAIN cmd.items |-> 1]

(* The state that the command at position pos makes of state s.            *)
StateAfter(s, cmd, pos) ==
    IF Accepts(s.data, cmd)
    THEN [data |-> Effect(s.data, s.gidx, cmd, FirstOf(cmd)),
          gidx |-> s.gidx + Drawn(cmd),
          written |-> [k \in Keys |-> IF k \notin DOMAIN cmd.items THEN s.written[k]
                                      ELSE IF cmd.op = "erase" THEN 0 ELSE pos]]
    ELSE s

(* A batch of one key has one order.                                       *)
LEMMA OneOrder ==
    ASSUME OneAtATime, NEW cmd \in Commands, NEW rank \in Orders(DOMAIN cmd.items)
    PROVE  /\ rank = FirstOf(cmd)
           /\ Cardinality(DOMAIN cmd.items) = 1
<1> DEFINE S == DOMAIN cmd.items
<1>1. S \in Batches
  BY CommandFacts
<1>2. Cardinality(S) \in Nat /\ Cardinality(S) <= MaxBatch /\ S # {} /\ IsFiniteSet(S)
  BY <1>1, BatchFacts, KeysAssumption, FS_Subset DEF Batches
<1>3. Cardinality(S) # 0
  BY <1>2, FS_EmptySet
<1>4. Cardinality(S) = 1
  BY <1>2, <1>3, BoundsAssumption DEF OneAtATime
<1>5. rank \in [S -> 1 .. 1]
  BY <1>4 DEF Orders
<1> QED
  BY <1>4, <1>5 DEF FirstOf

(* There is an order at all.                                               *)
LEMMA FirstIsOrder ==
    ASSUME OneAtATime, NEW cmd \in Commands
    PROVE  FirstOf(cmd) \in Orders(DOMAIN cmd.items) /\ Cardinality(DOMAIN cmd.items) = 1
<1> DEFINE S == DOMAIN cmd.items
<1>1. S \in Batches
  BY CommandFacts
<1>2. Cardinality(S) \in Nat /\ Cardinality(S) <= MaxBatch /\ S # {} /\ IsFiniteSet(S)
  BY <1>1, BatchFacts, KeysAssumption, FS_Subset DEF Batches
<1>3. Cardinality(S) # 0
  BY <1>2, FS_EmptySet
<1>4. Cardinality(S) = 1
  BY <1>2, <1>3, BoundsAssumption DEF OneAtATime
<1>5. PICK x : S = {x}
  BY <1>2, <1>4, FS_Singleton
<1> QED
  BY <1>4, <1>5 DEF FirstOf, Orders

(* What one command does to each key: nothing; or it takes the key away;   *)
(* or it writes it, with an index that was never drawn before.             *)
LEMMA StateAfterFacts ==
    ASSUME OneAtATime, NEW cmd \in Commands, Wanted(cmd), NEW s \in States,
           Sound(s.data, s.gidx), NEW pos \in Nat
    PROVE  LET t == StateAfter(s, cmd, pos)
           IN  /\ t \in States
               /\ Sound(t.data, t.gidx)
               /\ s.gidx <= t.gidx
               /\ \A k \in Keys :
                    \/ t.data[k] = s.data[k] /\ t.written[k] = s.written[k]
                    \/ t.data[k] = Absent /\ t.written[k] = 0
                    \/ /\ t.data[k] # Absent /\ t.written[k] = pos
                       /\ Index(t.data[k]) = t.gidx /\ s.gidx < t.gidx
<1> DEFINE t == StateAfter(s, cmd, pos)
           S == DOMAIN cmd.items
           rank == FirstOf(cmd)
<1>1. s.data \in [Keys -> Slot] /\ s.gidx \in Nat /\ s.written \in [Keys -> Nat]
  BY DEF States
<1>2. CASE ~Accepts(s.data, cmd)
  <2>1. t = s
    BY <1>2 DEF StateAfter
  <2> HIDE DEF t
  <2> QED
    BY <1>1, <2>1 DEF t
<1>3. CASE Accepts(s.data, cmd)
  <2>1. rank \in Orders(S) /\ Cardinality(S) = 1
    BY FirstIsOrder
  <2>2. /\ t.data = Effect(s.data, s.gidx, cmd, rank)
        /\ t.gidx = s.gidx + Drawn(cmd)
        /\ t.written = [k \in Keys |-> IF k \notin S THEN s.written[k]
                                       ELSE IF cmd.op = "erase" THEN 0 ELSE pos]
        /\ t = [data |-> t.data, gidx |-> t.gidx, written |-> t.written]
    BY <1>3 DEF StateAfter
  <2>3. /\ S \in SUBSET Keys /\ cmd.items \in [S -> Values] /\ cmd.flags \in Flags
        /\ cmd.op \in {"set", "erase", "flag"}
    BY CommandFacts
  <2>4. Drawn(cmd) \in Nat /\ t.data \in [Keys -> Slot] /\ Sound(t.data, t.gidx)
    BY <1>1, <2>1, <2>2, EffectSound
  <2>5. cmd.op # "erase" => Drawn(cmd) = 1
    BY <2>1 DEF Drawn
  <2>6. t.written \in [Keys -> Nat] /\ t.gidx \in Nat /\ s.gidx <= t.gidx
    BY <1>1, <2>2, <2>4
  <2>7. t \in States
    BY <2>2, <2>4, <2>6 DEF States
  <2>8. ASSUME NEW k \in Keys
        PROVE  \/ t.data[k] = s.data[k] /\ t.written[k] = s.written[k]
               \/ t.data[k] = Absent /\ t.written[k] = 0
               \/ /\ t.data[k] # Absent /\ t.written[k] = pos
                  /\ Index(t.data[k]) = t.gidx /\ s.gidx < t.gidx
    <3>1. t.written[k] = IF k \notin S THEN s.written[k]
                         ELSE IF cmd.op = "erase" THEN 0 ELSE pos
      BY <2>2
    <3>2. CASE k \notin S
      <4>1. Effect(s.data, s.gidx, cmd, rank)[k] = s.data[k]
        BY <2>3, <3>2 DEF Effect, WriteItems, Erase
      <4> HIDE DEF t
      <4> QED
        BY <2>2, <3>1, <3>2, <4>1
    <3>3. CASE k \in S /\ cmd.op = "erase"
      <4>1. Effect(s.data, s.gidx, cmd, rank)[k] = Absent
        BY <3>3 DEF Effect, Erase
      <4> HIDE DEF t
      <4> QED
        BY <2>2, <3>1, <3>3, <4>1
    <3>4. ASSUME k \in S, cmd.op # "erase", NEW f,
                 t.data[k] = NewEntry(s.data[k], cmd.items[k], f, s.gidx + 1),
                 t.data[k] # Absent
          PROVE  /\ t.data[k] # Absent /\ t.written[k] = pos
                 /\ Index(t.data[k]) = t.gidx /\ s.gidx < t.gidx
      <4>1. Index(t.data[k]) = s.gidx + 1
        BY <3>4 DEF Index, NewEntry
      <4>2. t.gidx = s.gidx + 1
        BY <2>2, <2>5, <3>4
      <4> HIDE DEF t
      <4> QED
        BY <1>1, <3>1, <3>4, <4>1, <4>2
    <3>5. CASE k \in S /\ cmd.op = "set"
      <4>1. t.data = WriteItems(s.data, cmd.items, rank, s.gidx)
        BY <2>2, <3>5 DEF Effect
      <4>2. rank[k] = 1
        BY <3>5 DEF FirstOf
      <4> HIDE DEF t, rank, S
      <4>3. /\ t.data[k] = NewEntry(s.data[k], cmd.items[k], KeptFlags(s.data[k]), s.gidx + 1)
            /\ t.data[k] # Absent
        BY <1>1, <2>1, <2>3, <3>5, <4>1, <4>2, WriteItemsFacts
      <4> QED
        BY <3>4, <3>5, <4>3
    <3>6. CASE k \in S /\ cmd.op = "flag"
      <4>1. t.data[k] = NewEntry(s.data[k], cmd.items[k], cmd.flags, s.gidx + 1)
        BY <2>2, <3>6 DEF Effect
      <4>2. t.data[k] # Absent
        BY <1>1, <2>3, <3>6, <4>1, NewEntryType, AbsentAssumption
      <4> HIDE DEF t
      <4> QED
        BY <3>4, <3>6, <4>1, <4>2
    <3> QED
      BY <2>3, <3>2, <3>3, <3>5, <3>6
  <2> HIDE DEF t
  <2> QED
    BY <2>4, <2>6, <2>7, <2>8 DEF t
<1> QED
  BY <1>2, <1>3

(* H is the history of the states: H[i] is what the first i commands make  *)
(* of an empty store.                                                      *)
Line(H, cmds) ==
    /\ H[0] = Empty
    /\ \A i \in 1 .. Len(cmds) : H[i] = StateAfter(H[i - 1], cmds[i], i)

(* Along the history the counter never goes back, and the entry of a key   *)
(* carries the counter as the command that wrote it left it.               *)
Versions(H, len) ==
    \A i \in 0 .. len :
        /\ H[i] \in States
        /\ Sound(H[i].data, H[i].gidx)
        /\ \A j \in 0 .. i : H[j].gidx <= H[i].gidx
        /\ \A k \in Keys :
             LET p == H[i].written[k]
             IN  IF H[i].data[k] = Absent THEN p = 0
                 ELSE /\ p \in 1 .. i
                      /\ H[p].gidx = Index(H[i].data[k])
                      /\ H[p - 1].gidx < H[p].gidx

(* An index and a version that key k once had together.                    *)
Known(H, len, k, index, version) ==
    \E i \in 0 .. len : index = Index(H[i].data[k]) /\ version = H[i].written[k]

(* A node has judged each command by the state the history had then.       *)
Outcome(s, cmd) == IF Accepts(s.data, cmd) THEN "ok" ELSE "refused"

Outcomes(H) ==
    \A n \in Nodes : \A i \in 1 .. applied[n] : verdicts[n][i] = Outcome(H[i - 1], log[i])

StateHistory(H) ==
    /\ Line(H, log)
    /\ Versions(H, Len(log))
    /\ Outcomes(H)
    /\ \A n \in Nodes : StateOf(n) = H[applied[n]] /\ snap[n] = NoSnapshot
    /\ snapshots = 0
    /\ \A c \in Clients, k \in Keys :
         Known(H, Len(log), k, view[c][k].index, view[c][k].written)
    /\ \A i \in 1 .. Len(log) : log[i].cas =>
         \A k \in DOMAIN log[i].items :
            Known(H, Len(log), k, log[i].expected[k], log[i].read[k])

StateInv == \E H : StateHistory(H)

(* Along one history an index of a key names one version of it: two writes *)
(* that left the counter at the same value are the same write.             *)
LEMMA IndexNamesVersion ==
    ASSUME NEW H, NEW len \in Nat, Versions(H, len), NEW i \in 0 .. len, NEW j \in 0 .. len,
           NEW k \in Keys, Index(H[i].data[k]) = Index(H[j].data[k])
    PROVE  H[i].written[k] = H[j].written[k]
<1>1. ASSUME NEW x \in 0 .. len, H[x].data[k] # Absent
      PROVE  /\ H[x].written[k] \in 1 .. len
             /\ H[H[x].written[k]].gidx = Index(H[x].data[k])
             /\ H[H[x].written[k] - 1].gidx < H[H[x].written[k]].gidx
             /\ Index(H[x].data[k]) >= 1
  <2>1. H[x] \in States /\ WellFormed(H[x].data[k], H[x].gidx) /\ H[x].data[k] \in KVEntry
    BY <1>1 DEF Versions, Sound, States, Slot
  <2>2. Index(H[x].data[k]) >= 1
    BY <1>1, <2>1 DEF WellFormed, Index, KVEntry
  <2> QED
    BY <1>1, <2>2 DEF Versions
<1>2. \A x \in 0 .. len : H[x].data[k] = Absent =>
        Index(H[x].data[k]) = 0 /\ H[x].written[k] = 0
  BY DEF Versions, Index
<1>3. CASE H[i].data[k] = Absent \/ H[j].data[k] = Absent
  BY <1>1, <1>2, <1>3
<1>4. CASE H[i].data[k] # Absent /\ H[j].data[k] # Absent
  <2>1. ASSUME NEW p \in 1 .. len, NEW q \in 1 .. len, p < q, H[q - 1].gidx < H[q].gidx
        PROVE  H[p].gidx # H[q].gidx
    <3>1. q - 1 \in 0 .. len /\ p \in 0 .. q - 1 /\ p \in 0 .. len /\ q \in 0 .. len
      BY <2>1
    <3>2. H[p].gidx <= H[q - 1].gidx
      BY <3>1 DEF Versions
    <3>3. H[p].gidx \in Nat /\ H[q - 1].gidx \in Nat /\ H[q].gidx \in Nat
      BY <3>1 DEF Versions, States
    <3> QED
      BY <2>1, <3>2, <3>3
  <2> DEFINE p == H[i].written[k]
             q == H[j].written[k]
  <2>2. /\ p \in 1 .. len /\ q \in 1 .. len /\ H[p].gidx = H[q].gidx
        /\ H[p - 1].gidx < H[p].gidx /\ H[q - 1].gidx < H[q].gidx
    BY <1>1, <1>4
  <2> HIDE DEF p, q
  <2>3. p = q
    BY <2>1, <2>2
  <2> QED
    BY <2>3 DEF p, q
<1> QED
  BY <1>3, <1>4

(* The compare step passes only if the entry has the expected index.       *)
LEMMA AcceptedIndex ==
    ASSUME NEW cmd \in Commands, cmd.cas, NEW d \in [Keys -> Slot], Accepts(d, cmd),
           NEW k \in DOMAIN cmd.items
    PROVE  Index(d[k]) = cmd.expected[k]
<1>1. "ok" = IF cmd.op = "set" THEN SetVerdict(d[k], cmd.expected[k])
                               ELSE DeleteVerdict(d[k], cmd.expected[k])
  BY DEF Accepts
<1>2. CASE cmd.op = "set"
  BY <1>1, <1>2 DEF SetVerdict, Index
<1>3. CASE cmd.op # "set"
  BY <1>1, <1>3 DEF DeleteVerdict, Index
<1> QED
  BY <1>2, <1>3

(* A compare-and-swap that a node accepts finds the version its client     *)
(* had read.                                                               *)
LEMMA AcceptedVersion ==
    ASSUME ReplicasInv, StateInv, NEW n \in Nodes, applied[n] < Len(log),
           log[applied[n] + 1].cas, Accepts(data[n], log[applied[n] + 1]),
           NEW k \in DOMAIN log[applied[n] + 1].items
    PROVE  written[n][k] = log[applied[n] + 1].read[k]
<1> DEFINE pos == applied[n] + 1
           cmd == log[pos]
<1>1. PICK H : StateHistory(H)
  BY DEF StateInv
<1>2. /\ Len(log) \in Nat /\ applied[n] \in 0 .. Len(log) /\ data[n] \in [Keys -> Slot]
  BY DEF ReplicasInv, TypeOK
<1>3. pos \in 1 .. Len(log) /\ cmd \in Commands
  BY NextCommand
<1>4. k \in Keys
  BY <1>3, CommandFacts
<1>5. Known(H, Len(log), k, cmd.expected[k], cmd.read[k])
  BY <1>1, <1>3 DEF StateHistory
<1>6. data[n] = H[applied[n]].data /\ written[n] = H[applied[n]].written
  <2>1. StateOf(n) = H[applied[n]]
    BY <1>1 DEF StateHistory
  <2> QED
    BY <2>1 DEF StateOf
<1>7. Index(data[n][k]) = cmd.expected[k]
  BY <1>2, <1>3, AcceptedIndex
<1> HIDE DEF cmd
<1>8. PICK i \in 0 .. Len(log) :
        cmd.expected[k] = Index(H[i].data[k]) /\ cmd.read[k] = H[i].written[k]
  BY <1>5 DEF Known
<1>9. Versions(H, Len(log))
  BY <1>1 DEF StateHistory
<1>10. H[applied[n]].written[k] = H[i].written[k]
  BY <1>2, <1>4, <1>6, <1>7, <1>8, <1>9, IndexNamesVersion
<1> QED
  BY <1>6, <1>8, <1>10 DEF cmd

(* A committed command adds a state to the history and keeps its order.    *)
LEMMA VersionsGrow ==
    ASSUME OneAtATime, NEW H, NEW len \in Nat, Versions(H, len),
           NEW cmd \in Commands, Wanted(cmd), NEW G,
           \A i \in 0 .. len : G[i] = H[i],
           G[len + 1] = StateAfter(H[len], cmd, len + 1)
    PROVE  Versions(G, len + 1)
<1> DEFINE s == H[len]
           t == G[len + 1]
<1>1. s \in States /\ Sound(s.data, s.gidx) /\ len \in 0 .. len /\ len + 1 \in Nat
  BY DEF Versions
<1>2. /\ t \in States
      /\ Sound(t.data, t.gidx)
      /\ s.gidx <= t.gidx
      /\ \A k \in Keys :
           \/ t.data[k] = s.data[k] /\ t.written[k] = s.written[k]
           \/ t.data[k] = Absent /\ t.written[k] = 0
           \/ /\ t.data[k] # Absent /\ t.written[k] = len + 1
              /\ Index(t.data[k]) = t.gidx /\ s.gidx < t.gidx
  <2> HIDE DEF s
  <2>1. t = StateAfter(s, cmd, len + 1)
    BY DEF s
  <2> QED
    BY <1>1, <2>1, StateAfterFacts
<1>3. s.gidx \in Nat /\ t.gidx \in Nat
  BY <1>1, <1>2 DEF States
<1>4. ASSUME NEW j \in 0 .. len PROVE H[j].gidx \in Nat /\ H[j].gidx <= s.gidx
  BY <1>1 DEF Versions, States
<1>5. \A j \in 0 .. len + 1 : j \in 0 .. len \/ j = len + 1
  OBVIOUS
<1>6. \A j \in 0 .. len + 1 : G[j].gidx <= t.gidx
  BY <1>2, <1>3, <1>4, <1>5
<1>7. ASSUME NEW k \in Keys
      PROVE  IF t.data[k] = Absent THEN t.written[k] = 0
             ELSE /\ t.written[k] \in 1 .. len + 1
                  /\ G[t.written[k]].gidx = Index(t.data[k])
                  /\ G[t.written[k] - 1].gidx < G[t.written[k]].gidx
  <2>1. CASE t.data[k] = s.data[k] /\ t.written[k] = s.written[k]
    <3> DEFINE p == s.written[k]
    <3>1. IF s.data[k] = Absent THEN p = 0
          ELSE /\ p \in 1 .. len
               /\ H[p].gidx = Index(s.data[k])
               /\ H[p - 1].gidx < H[p].gidx
      BY <1>1 DEF Versions
    <3>2. p \in 1 .. len => /\ G[p] = H[p] /\ G[p - 1] = H[p - 1] /\ p \in 1 .. len + 1
      OBVIOUS
    <3> HIDE DEF p, s, t
    <3> QED
      BY <2>1, <3>1, <3>2 DEF p
  <2>2. CASE t.data[k] = Absent /\ t.written[k] = 0
    BY <2>2
  <2>3. CASE /\ t.data[k] # Absent /\ t.written[k] = len + 1
             /\ Index(t.data[k]) = t.gidx /\ s.gidx < t.gidx
    <3>1. G[len + 1 - 1] = s /\ len + 1 \in 1 .. len + 1
      BY <1>1
    <3> QED
      BY <2>3, <3>1
  <2> QED
    BY <1>2, <2>1, <2>2, <2>3
<1>8. ASSUME NEW i \in 0 .. len
      PROVE  /\ G[i] \in States
             /\ Sound(G[i].data, G[i].gidx)
             /\ \A j \in 0 .. i : G[j].gidx <= G[i].gidx
             /\ \A k \in Keys :
                  IF G[i].data[k] = Absent THEN G[i].written[k] = 0
                  ELSE /\ G[i].written[k] \in 1 .. i
                       /\ G[G[i].written[k]].gidx = Index(G[i].data[k])
                       /\ G[G[i].written[k] - 1].gidx < G[G[i].written[k]].gidx
  <2>1. G[i] = H[i] /\ \A j \in 0 .. i : G[j] = H[j]
    OBVIOUS
  <2>2. \A p \in 1 .. i : p \in 0 .. i /\ p - 1 \in 0 .. i
    OBVIOUS
  <2>3. /\ H[i] \in States /\ Sound(H[i].data, H[i].gidx)
        /\ \A j \in 0 .. i : H[j].gidx <= H[i].gidx
    BY DEF Versions
  <2>4. ASSUME NEW k \in Keys
        PROVE  IF G[i].data[k] = Absent THEN G[i].written[k] = 0
               ELSE /\ G[i].written[k] \in 1 .. i
                    /\ G[G[i].written[k]].gidx = Index(G[i].data[k])
                    /\ G[G[i].written[k] - 1].gidx < G[G[i].written[k]].gidx
    <3> DEFINE p == H[i].written[k]
    <3>1. IF H[i].data[k] = Absent THEN p = 0
          ELSE /\ p \in 1 .. i
               /\ H[p].gidx = Index(H[i].data[k])
               /\ H[p - 1].gidx < H[p].gidx
      BY DEF Versions
    <3>2. p \in 1 .. i => G[p] = H[p] /\ G[p - 1] = H[p - 1]
      BY <2>1, <2>2
    <3> HIDE DEF p
    <3> QED
      BY <2>1, <3>1, <3>2 DEF p
  <2> QED
    BY <2>1, <2>3, <2>4
<1> HIDE DEF t
<1>9. ASSUME NEW i \in 0 .. len + 1
      PROVE  /\ G[i] \in States
             /\ Sound(G[i].data, G[i].gidx)
             /\ \A j \in 0 .. i : G[j].gidx <= G[i].gidx
             /\ \A k \in Keys :
                  IF G[i].data[k] = Absent THEN G[i].written[k] = 0
                  ELSE /\ G[i].written[k] \in 1 .. i
                       /\ G[G[i].written[k]].gidx = Index(G[i].data[k])
                       /\ G[G[i].written[k] - 1].gidx < G[G[i].written[k]].gidx
  <2>1. CASE i \in 0 .. len
    BY <1>8, <2>1
  <2>2. CASE i = len + 1
    <3>1. G[i] = t
      BY <2>2 DEF t
    <3> QED
      BY <1>2, <1>6, <1>7, <2>2, <3>1
  <2> QED
    BY <1>5, <2>1, <2>2
<1> QED
  BY <1>9 DEF Versions

(* What was known stays known when the history grows.                      *)
LEMMA KnownStays ==
    ASSUME NEW H, NEW len \in Nat, NEW G, \A i \in 0 .. len : G[i] = H[i],
           NEW k, NEW index, NEW version, Known(H, len, k, index, version)
    PROVE  Known(G, len + 1, k, index, version)
<1>1. PICK i \in 0 .. len : index = Index(H[i].data[k]) /\ version = H[i].written[k]
  BY DEF Known
<1>2. i \in 0 .. len + 1 /\ G[i] = H[i]
  OBVIOUS
<1> QED
  BY <1>1, <1>2 DEF Known

(* A proposal adds a state to the history.                                 *)
LEMMA ProposeHistory ==
    ASSUME OneAtATime, ReplicasInv, StateInv,
           ProposePlain \/ \E c \in Clients : ProposeCAS(c)
    PROVE  StateInv'
<1>1. TypeOK /\ Len(log) \in Nat /\ \A n \in Nodes : applied[n] \in 0 .. Len(log)
  BY DEF ReplicasInv, TypeOK
<1>2. PICK cmd \in Commands : Propose(cmd) /\ Wanted(cmd) /\ Proposed(cmd)
  BY <1>1, ProposeFacts
<1>3. /\ Len(log') = Len(log) + 1
      /\ \A i \in 1 .. Len(log) : log'[i] = log[i]
      /\ log'[Len(log) + 1] = cmd
  BY <1>2, ProposeLog
<1>4. PICK H : StateHistory(H)
  BY DEF StateInv
<1>5. PICK G : /\ \A i \in 0 .. Len(log) : G[i] = H[i]
               /\ G[Len(log) + 1] = StateAfter(H[Len(log)], cmd, Len(log) + 1)
  <2> DEFINE F == [i \in 0 .. Len(log) + 1 |->
                     IF i <= Len(log) THEN H[i]
                     ELSE StateAfter(H[Len(log)], cmd, Len(log) + 1)]
  <2>1. /\ \A i \in 0 .. Len(log) : F[i] = H[i]
        /\ F[Len(log) + 1] = StateAfter(H[Len(log)], cmd, Len(log) + 1)
    BY <1>1
  <2> HIDE DEF F
  <2> QED
    BY <2>1
<1>6. Line(G, log')
  <2>1. G[0] = Empty
    BY <1>1, <1>4, <1>5 DEF StateHistory, Line
  <2>2. ASSUME NEW i \in 1 .. Len(log')
        PROVE  G[i] = StateAfter(G[i - 1], log'[i], i)
    <3>1. CASE i \in 1 .. Len(log)
      <4>1. i - 1 \in 0 .. Len(log) /\ i \in 0 .. Len(log)
        BY <1>1, <3>1
      <4>2. H[i] = StateAfter(H[i - 1], log[i], i)
        BY <1>4, <3>1 DEF StateHistory, Line
      <4> QED
        BY <1>3, <1>5, <3>1, <4>1, <4>2
    <3>2. CASE i = Len(log) + 1
      <4>1. i - 1 = Len(log) /\ Len(log) \in 0 .. Len(log)
        BY <1>1, <3>2
      <4> QED
        BY <1>3, <1>5, <3>2, <4>1
    <3> QED
      BY <1>1, <1>3, <3>1, <3>2
  <2> QED
    BY <2>1, <2>2 DEF Line
<1>7. Versions(G, Len(log'))
  <2>1. Versions(H, Len(log))
    BY <1>4 DEF StateHistory
  <2> QED
    BY <1>1, <1>2, <1>3, <1>5, <2>1, VersionsGrow
<1>8. \A n \in Nodes : StateOf(n) = G[applied[n]] /\ snap[n] = NoSnapshot
  BY <1>1, <1>4, <1>5 DEF StateHistory
<1>9. UNCHANGED <<data, gidx, applied, snap, view, written, snapshots>>
  BY <1>2 DEF Propose
<1>10. \A n \in Nodes : StateOf(n)' = G[applied'[n]] /\ snap'[n] = NoSnapshot
  BY <1>8, <1>9 DEF StateOf
<1>11. ASSUME NEW c \in Clients, NEW k \in Keys
       PROVE  /\ Known(H, Len(log), k, view[c][k].index, view[c][k].written)
              /\ Known(G, Len(log'), k, view[c][k].index, view[c][k].written)
  <2>1. Known(H, Len(log), k, view[c][k].index, view[c][k].written)
    BY <1>4 DEF StateHistory
  <2> QED
    BY <1>1, <1>3, <1>5, <2>1, KnownStays
<1>12. ASSUME NEW i \in 1 .. Len(log'), log'[i].cas, NEW k \in DOMAIN log'[i].items
       PROVE  Known(G, Len(log'), k, log'[i].expected[k], log'[i].read[k])
  <2>1. CASE i \in 1 .. Len(log)
    <3>1. Known(H, Len(log), k, log'[i].expected[k], log'[i].read[k])
      BY <1>3, <1>4, <1>12, <2>1 DEF StateHistory
    <3> QED
      BY <1>1, <1>3, <1>5, <3>1, KnownStays
  <2>2. CASE i = Len(log) + 1
    <3>1. log'[i] = cmd /\ cmd.cas /\ k \in DOMAIN cmd.items /\ k \in Keys
      BY <1>3, <1>12, <2>2, CommandFacts
    <3>2. PICK c \in Clients :
            cmd.expected[k] = view[c][k].index /\ cmd.read[k] = view[c][k].written
      BY <1>2, <3>1 DEF Proposed
    <3> QED
      BY <1>11, <3>1, <3>2
  <2> QED
    BY <1>1, <1>3, <2>1, <2>2
<1>13. snapshots' = 0
  BY <1>4, <1>9 DEF StateHistory
<1>14. \A c \in Clients, k \in Keys :
         Known(G, Len(log'), k, view'[c][k].index, view'[c][k].written)
  BY <1>9, <1>11
<1>15. Outcomes(G)'
  <2>1. ASSUME NEW n \in Nodes, NEW i \in 1 .. applied[n]
        PROVE  verdicts[n][i] = Outcome(G[i - 1], log'[i])
    <3>1. i \in 1 .. Len(log) /\ i - 1 \in 0 .. Len(log)
      BY <1>1
    <3>2. verdicts[n][i] = Outcome(H[i - 1], log[i])
      BY <1>4 DEF StateHistory, Outcomes
    <3> QED
      BY <1>3, <1>5, <3>1, <3>2
  <2>2. verdicts' = verdicts
    BY <1>2 DEF Propose
  <2> QED
    BY <1>9, <2>1, <2>2 DEF Outcomes
<1>16. StateHistory(G)'
  BY <1>6, <1>7, <1>10, <1>12, <1>13, <1>14, <1>15 DEF StateHistory
<1> QED
  BY <1>16 DEF StateInv

(* A node that applies a command moves one position along the history.     *)
LEMMA ApplyHistory ==
    ASSUME OneAtATime, ReplicasInv, NEW H, StateHistory(H), NEW n \in Nodes, Apply(n)
    PROVE  StateHistory(H)'
<1> DEFINE pos == applied[n] + 1
           cmd == log[pos]
<1>1. TypeOK /\ Len(log) \in Nat /\ applied[n] \in Nat
  BY DEF ReplicasInv, TypeOK
<1>2. /\ applied' = [applied EXCEPT ![n] = pos]
      /\ log' = log /\ snap' = snap /\ view' = view /\ snapshots' = snapshots
  BY ApplyFacts
<1>3. pos \in 1 .. Len(log) /\ cmd \in Commands /\ pos - 1 = applied[n]
  BY <1>1, NextCommand DEF Apply
<1>4. StateOf(n) = H[applied[n]] /\ H[pos] = StateAfter(H[pos - 1], log[pos], pos)
  BY <1>3 DEF StateHistory, Line
<1>5. H[pos] = StateAfter(StateOf(n), cmd, pos)
  BY <1>3, <1>4
<1>6. /\ StateOf(n).data = data[n] /\ StateOf(n).gidx = gidx[n]
      /\ StateOf(n).written = written[n]
  BY DEF StateOf
<1>7. StateOf(n)' = H[pos] /\ \A m \in Nodes \ {n} : StateOf(m)' = StateOf(m)
  <2>1. CASE /\ Accepts(data[n], cmd)
             /\ \E rank \in Orders(DOMAIN cmd.items) :
                  data' = [data EXCEPT ![n] = Effect(data[n], gidx[n], cmd, rank)]
             /\ gidx' = [gidx EXCEPT ![n] = gidx[n] + Drawn(cmd)]
             /\ written' = [written EXCEPT ![n] =
                  [k \in Keys |-> IF k \notin DOMAIN cmd.items THEN written[n][k]
                                  ELSE IF cmd.op = "erase" THEN 0 ELSE pos]]
    <3>1. data' = [data EXCEPT ![n] = Effect(data[n], gidx[n], cmd, FirstOf(cmd))]
      BY <1>3, <2>1, OneOrder
    <3> DEFINE w == [k \in Keys |-> IF k \notin DOMAIN cmd.items THEN written[n][k]
                                    ELSE IF cmd.op = "erase" THEN 0 ELSE pos]
               d == Effect(data[n], gidx[n], cmd, FirstOf(cmd))
               g == gidx[n] + Drawn(cmd)
    <3>2. H[pos] = [data |-> d, gidx |-> g, written |-> w]
      BY <1>5, <1>6, <2>1 DEF StateAfter
    <3>3. /\ data' = [data EXCEPT ![n] = d] /\ gidx' = [gidx EXCEPT ![n] = g]
          /\ written' = [written EXCEPT ![n] = w]
      BY <2>1, <3>1
    <3> HIDE DEF w, d, g
    <3>4. /\ data'[n] = d /\ gidx'[n] = g /\ written'[n] = w
          /\ \A m \in Nodes \ {n} : /\ data'[m] = data[m] /\ gidx'[m] = gidx[m]
                                    /\ written'[m] = written[m]
      BY <1>1, <3>3 DEF TypeOK
    <3> QED
      BY <3>2, <3>4 DEF StateOf
  <2>2. CASE ~Accepts(data[n], cmd) /\ UNCHANGED <<data, gidx, written>>
    <3>1. H[pos] = StateOf(n)
      BY <1>5, <1>6, <2>2 DEF StateAfter
    <3> QED
      BY <2>2, <3>1 DEF StateOf
  <2> QED
    BY <2>1, <2>2, ApplyFacts
<1>8. applied'[n] = pos /\ \A m \in Nodes \ {n} : applied'[m] = applied[m]
  BY <1>1, <1>2 DEF TypeOK
<1>9. verdicts'[n][pos] = Outcome(H[pos - 1], log[pos])
  <2>1. verdicts' = [verdicts EXCEPT ![n][pos] = Outcome(H[pos - 1], log[pos])]
    BY <1>3, <1>4, <1>6, ApplyFacts DEF Outcome
  <2>2. pos \in Positions
    BY NextCommand DEF Apply
  <2> QED
    BY <1>1, <2>1, <2>2 DEF TypeOK
<1>10. \A m \in Nodes, i \in Positions : (m # n \/ i # pos) => verdicts'[m][i] = verdicts[m][i]
  <2>1. PICK v : verdicts' = [verdicts EXCEPT ![n][pos] = v]
    BY ApplyFacts
  <2>2. verdicts \in [Nodes -> [Positions -> {"none", "ok", "refused"}]]
    BY <1>1 DEF TypeOK
  <2> HIDE DEF pos
  <2> QED
    BY <2>1, <2>2
<1> HIDE DEF pos, cmd
<1>11. \A m \in Nodes : StateOf(m)' = H[applied'[m]]
  BY <1>7, <1>8 DEF StateHistory
<1>12. Outcomes(H)'
  <2>1. ASSUME NEW m \in Nodes, NEW i \in 1 .. applied'[m]
        PROVE  verdicts'[m][i] = Outcome(H[i - 1], log[i])
    <3>1. CASE m = n /\ i = pos
      BY <1>9, <3>1
    <3>2. CASE m # n \/ i # pos
      <4>1. i \in 1 .. applied[m]
        BY <1>1, <1>3, <1>8, <3>2
      <4>2. i \in Positions
        <5>1. applied[m] \in Nat /\ applied[m] <= Len(log) /\ Len(log) <= MaxLog
          BY <1>1 DEF ReplicasInv, LogInv, TypeOK
        <5> QED
          BY <1>1, <4>1, <5>1, BoundsAssumption DEF Positions
      <4>3. verdicts[m][i] = Outcome(H[i - 1], log[i])
        BY <4>1 DEF StateHistory, Outcomes
      <4> QED
        BY <1>10, <3>2, <4>2, <4>3
    <3> QED
      BY <3>1, <3>2
  <2> QED
    BY <1>2, <2>1 DEF Outcomes
<1> QED
  BY <1>2, <1>11, <1>12 DEF StateHistory

(* A node that restarts goes back to the beginning of the history.         *)
LEMMA RestartHistory ==
    ASSUME ReplicasInv, NEW H, StateHistory(H), NEW n \in Nodes, Restart(n)
    PROVE  StateHistory(H)' /\ applied'[n] = 0
<1>1. TypeOK
  BY DEF ReplicasInv
<1>2. /\ Restore(n, NoSnapshot)
      /\ log' = log /\ snap' = snap /\ view' = view /\ snapshots' = snapshots
  BY DEF Restart, StateHistory
<1>3. /\ NoSnapshot.data = EmptyData /\ NoSnapshot.pos = 0
      /\ NoSnapshot.written = [k \in Keys |-> 0]
  BY DEF NoSnapshot
<1>4. PICK i \in {0} \cup {Index(EmptyData[k]) : k \in Keys} : gidx' = [gidx EXCEPT ![n] = i]
  BY <1>2, <1>3 DEF Restore
<1>5. i = 0
  BY <1>4 DEF EmptyData, Index
<1>6. /\ data' = [data EXCEPT ![n] = EmptyData] /\ gidx' = [gidx EXCEPT ![n] = 0]
      /\ applied' = [applied EXCEPT ![n] = 0]
      /\ written' = [written EXCEPT ![n] = [k \in Keys |-> 0]]
  BY <1>2, <1>3, <1>4, <1>5 DEF Restore
<1>7. /\ data'[n] = EmptyData /\ gidx'[n] = 0 /\ written'[n] = [k \in Keys |-> 0]
      /\ applied'[n] = 0
      /\ \A m \in Nodes \ {n} : /\ data'[m] = data[m] /\ gidx'[m] = gidx[m]
                                /\ written'[m] = written[m] /\ applied'[m] = applied[m]
  BY <1>1, <1>6 DEF TypeOK
<1>8. StateOf(n)' = H[0] /\ \A m \in Nodes \ {n} : StateOf(m)' = StateOf(m)
  BY <1>7 DEF StateOf, StateHistory, Line, Empty
<1>9. \A m \in Nodes : StateOf(m)' = H[applied'[m]]
  BY <1>7, <1>8 DEF StateHistory
<1>10. Outcomes(H)'
  <2>1. \A m \in Nodes \ {n} : verdicts'[m] = verdicts[m]
    BY <1>1, <1>2 DEF Restore, TypeOK
  <2>2. 1 .. applied'[n] = {}
    BY <1>7
  <2> QED
    BY <1>2, <1>7, <2>1, <2>2 DEF StateHistory, Outcomes
<1> QED
  BY <1>2, <1>7, <1>9, <1>10 DEF StateHistory

(* A client that reads learns what a node has at the position it applied.  *)
LEMMA ReadHistory ==
    ASSUME ReplicasInv, NEW H, StateHistory(H),
           NEW c \in Clients, NEW n \in Nodes, NEW k \in Keys, Read(c, n, k)
    PROVE  StateHistory(H)'
<1>1. TypeOK /\ Len(log) \in Nat /\ applied[n] \in 0 .. Len(log)
  BY DEF ReplicasInv, TypeOK
<1>2. data[n] = H[applied[n]].data /\ written[n] = H[applied[n]].written
  <2>1. StateOf(n) = H[applied[n]]
    BY DEF StateHistory
  <2> QED
    BY <2>1 DEF StateOf
<1>3. Known(H, Len(log), k, Index(data[n][k]), written[n][k])
  BY <1>1, <1>2 DEF Known
<1>4. /\ view'[c][k].index = Index(data[n][k]) /\ view'[c][k].written = written[n][k]
      /\ \A b \in Clients, l \in Keys : (b # c \/ l # k) => view'[b][l] = view[b][l]
  BY <1>1 DEF Read, TypeOK
<1>5. UNCHANGED <<log, data, gidx, applied, snap, written, snapshots>>
  BY DEF Read
<1>6. ASSUME NEW b \in Clients, NEW l \in Keys
      PROVE  Known(H, Len(log'), l, view'[b][l].index, view'[b][l].written)
  <2>1. Known(H, Len(log), l, view[b][l].index, view[b][l].written)
    BY DEF StateHistory
  <2> QED
    BY <1>3, <1>4, <1>5, <2>1
<1>7. \A m \in Nodes : StateOf(m)' = H[applied'[m]]
  BY <1>5 DEF StateHistory, StateOf
<1>8. Outcomes(H)'
  <2>1. verdicts' = verdicts
    BY DEF Read
  <2> QED
    BY <1>5, <2>1 DEF StateHistory, Outcomes
<1> QED
  BY <1>5, <1>6, <1>7, <1>8 DEF StateHistory

(* No snapshot is ever there to be installed.                              *)
LEMMA NoSnapshots ==
    ASSUME OneAtATime, ReplicasInv, StateInv, NEW n \in Nodes
    PROVE  ~Snapshot(n) /\ \A m \in Nodes : ~InstallSnapshot(n, m)
<1>1. PICK H : StateHistory(H)
  BY DEF StateInv
<1>2. ~Snapshot(n)
  BY <1>1 DEF Snapshot, StateHistory, OneAtATime
<1>3. ASSUME NEW m \in Nodes, InstallSnapshot(n, m) PROVE FALSE
  <2>1. snap[m].pos = 0 /\ applied[n] \in Nat
    BY <1>1 DEF StateHistory, NoSnapshot, ReplicasInv, TypeOK
  <2> QED
    BY <1>3, <2>1 DEF InstallSnapshot
<1> QED
  BY <1>2, <1>3

(* Every step keeps a history of the states.                               *)
LEMMA HistoryStep ==
    ASSUME OneAtATime, ReplicasInv, StateInv, [Next]_vars
    PROVE  StateInv'
<1>1. PICK H : StateHistory(H)
  BY DEF StateInv
<1>2. CASE UNCHANGED vars
  <2>1. StateHistory(H)'
    BY <1>1, <1>2 DEF vars, StateHistory, StateOf, Outcomes
  <2> QED
    BY <2>1 DEF StateInv
<1>3. CASE ProposePlain \/ \E c \in Clients : ProposeCAS(c)
  BY <1>3, ProposeHistory
<1>4. ASSUME NEW n \in Nodes, Apply(n) \/ Restart(n) PROVE StateInv'
  BY <1>1, <1>4, ApplyHistory, RestartHistory DEF StateInv
<1>5. ASSUME NEW c \in Clients, NEW n \in Nodes, NEW k \in Keys, Read(c, n, k) PROVE StateInv'
  BY <1>1, <1>5, ReadHistory DEF StateInv
<1> QED
  BY <1>2, <1>3, <1>4, <1>5, NoSnapshots DEF Next

(* There is a history of the states in every state of the cluster.         *)
LEMMA AlwaysHistory ==
    ASSUME OneAtATime
    PROVE  Spec => [](ReplicasInv /\ StateInv)
<1>1. Init => StateInv
  <2> SUFFICES ASSUME Init PROVE StateInv
    OBVIOUS
  <2> DEFINE H == [i \in {0} |-> Empty]
  <2>1. H[0] = Empty
    OBVIOUS
  <2> HIDE DEF H
  <2>2. Len(log) = 0 /\ 0 .. 0 = {0}
    BY DEF Init
  <2>3. /\ Empty \in States /\ Sound(Empty.data, Empty.gidx) /\ Empty.gidx \in Nat
        /\ \A k \in Keys : Empty.data[k] = Absent /\ Empty.written[k] = 0
    BY EmptySound DEF Empty, States, EmptyData
  <2>4. Versions(H, 0)
    BY <2>1, <2>2, <2>3 DEF Versions
  <2>5. \A n \in Nodes : StateOf(n) = H[applied[n]] /\ snap[n] = NoSnapshot
    BY <2>1 DEF Init, StateOf, Empty
  <2>6. \A c \in Clients, k \in Keys :
          Known(H, Len(log), k, view[c][k].index, view[c][k].written)
    <3>1. \A c \in Clients, k \in Keys : view[c][k].index = 0 /\ view[c][k].written = 0
      BY DEF Init, NoVersion
    <3>2. \A k \in Keys : Index(H[0].data[k]) = 0 /\ H[0].written[k] = 0
      BY <2>1, <2>3 DEF Index
    <3> QED
      BY <2>2, <3>1, <3>2 DEF Known
  <2>7. Line(H, log) /\ snapshots = 0 /\ ~\E i \in 1 .. Len(log) : TRUE
    BY <2>1, <2>2 DEF Line, Init
  <2>8. Outcomes(H)
    BY DEF Init, Outcomes
  <2>9. StateHistory(H)
    BY <2>2, <2>4, <2>5, <2>6, <2>7, <2>8 DEF StateHistory
  <2> QED
    BY <2>9 DEF StateInv
<1>2. ReplicasInv /\ StateInv /\ [Next]_vars => StateInv'
  BY HistoryStep
<1> QED
  BY <1>1, <1>2, AlwaysInv, PTL DEF Spec

(* With one key per command and restarts that replay the whole log, nodes  *)
(* that have applied the same prefix are in the same state, indices and    *)
(* counter included (fsm.go:48, kv.go:723).                                *)
THEOREM ReplicasDoAgree ==
    ASSUME OneAtATime
    PROVE  Spec => []ReplicasAgree
<1>1. ReplicasInv /\ StateInv => ReplicasAgree
  <2> SUFFICES ASSUME StateInv, NEW n \in Nodes, NEW m \in Nodes, applied[n] = applied[m]
               PROVE  data[n] = data[m] /\ gidx[n] = gidx[m]
    BY DEF ReplicasAgree
  <2>1. StateOf(n) = StateOf(m)
    BY DEF StateInv, StateHistory
  <2> QED
    BY <2>1 DEF StateOf
<1> QED
  BY <1>1, AlwaysHistory, PTL

(* Under the same conditions the nodes decide every command alike: what    *)
(* the leader acknowledged is what every node did (fsm.go:48).  Snapshots  *)
(* are what breaks it.                                                     *)
THEOREM OutcomesDoAgree ==
    ASSUME OneAtATime
    PROVE  Spec => []OutcomesAgree
<1>1. ReplicasInv /\ StateInv => OutcomesAgree
  <2> SUFFICES ASSUME ReplicasInv, StateInv, NEW n \in Nodes, NEW m \in Nodes,
                      NEW i \in Positions, i <= applied[n], i <= applied[m]
               PROVE  verdicts[n][i] = verdicts[m][i]
    BY DEF OutcomesAgree
  <2>1. i \in 1 .. applied[n] /\ i \in 1 .. applied[m]
    BY DEF Positions, ReplicasInv, TypeOK
  <2> QED
    BY <2>1 DEF StateInv, StateHistory, Outcomes
<1> QED
  BY <1>1, AlwaysHistory, PTL

(* Under the same conditions a compare-and-swap that a node accepts        *)
(* replaces the very version its client had read, whichever node it had    *)
(* read it from, and however far behind that node was (kv.go:792).         *)
THEOREM NoUpdateIsLost ==
    ASSUME OneAtATime
    PROVE  Spec => CASNoLostUpdate
<1>1. ASSUME ReplicasInv, StateInv, [Next]_vars, NEW n \in Nodes,
             applied'[n] = applied[n] + 1, log[applied'[n]].cas,
             verdicts'[n][applied'[n]] = "ok", NEW k \in DOMAIN log[applied'[n]].items
      PROVE  written[n][k] = log[applied'[n]].read[k]
  <2>1. TypeOK /\ applied[n] \in Nat /\ applied[n] + 1 # applied[n] /\ applied[n] + 1 # 0
    BY <1>1 DEF ReplicasInv, TypeOK
  <2>2. PICK H : StateHistory(H)
    BY <1>1 DEF StateInv
  <2>3. ASSUME NEW m \in Nodes, Restart(m) PROVE FALSE
    <3>1. applied'[m] = 0
      BY <1>1, <2>2, <2>3, RestartHistory
    <3>2. m # n => applied'[n] = applied[n]
      BY <2>1, <2>3 DEF Restart, Restore, TypeOK
    <3> QED
      BY <1>1, <2>1, <3>1, <3>2
  <2>4. applied' # applied
    BY <1>1, <2>1
  <2>5. PICK m \in Nodes : Apply(m)
    BY <1>1, <2>3, <2>4, NoSnapshots
    DEF Next, vars, ProposePlain, ProposeCAS, Propose, Read
  <2>6. m = n
    BY <1>1, <2>1, <2>5, ApplyFacts DEF TypeOK
  <2>7. applied[n] < Len(log)
    BY <2>5, <2>6 DEF Apply
  <2>8. Accepts(data[n], log[applied[n] + 1])
    <3>1. SUFFICES ASSUME ~Accepts(data[n], log[applied[n] + 1]) PROVE FALSE
      OBVIOUS
    <3>2. verdicts' = [verdicts EXCEPT ![n][applied[n] + 1] = "refused"]
      BY <1>1, <2>5, <2>6, <3>1, ApplyFacts
    <3>3. applied[n] + 1 \in Positions
      BY <1>1, <2>7, NextCommand
    <3>4. verdicts'[n][applied[n] + 1] = "refused"
      BY <2>1, <3>2, <3>3 DEF TypeOK
    <3> QED
      BY <1>1, <3>4
  <2> QED
    BY <1>1, <2>7, <2>8, AcceptedVersion
<1>2. ReplicasInv /\ StateInv /\ [Next]_vars =>
        [\A n \in Nodes :
            LET cmd == log[applied'[n]]
            IN  (/\ applied'[n] = applied[n] + 1
                 /\ restarts' = restarts
                 /\ snap' = snap
                 /\ cmd.cas
                 /\ verdicts'[n][applied'[n]] = "ok")
                => \A k \in DOMAIN cmd.items : written[n][k] = cmd.read[k]]_vars
  BY <1>1
<1> QED
  BY <1>2, AlwaysHistory, PTL DEF Spec, CASNoLostUpdate
=============================================================================
