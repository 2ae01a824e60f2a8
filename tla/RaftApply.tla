----------------------------- MODULE RaftApply -----------------------------
(***************************************************************************)
(* How committed entries reach the service of one server: the applier      *)
(* goroutine of raft.go, the unbuffered channel applyCh, and the reader of *)
(* the channel, rfsrv of src/raft1/server.go, which takes snapshots.       *)
(*                                                                         *)
(* Raft itself is reduced to what the applier reads: commitIndex may grow, *)
(* and a leader's snapshot may replace the log up to an index.  Module     *)
(* Raft checks that the entries up to commitIndex are in the log           *)
(* (CommitWithinLog) and that the persister holds the snapshot that ends   *)
(* at lastIncludedIndex (StorageInv); here an entry is its index.          *)
(***************************************************************************)
EXTENDS Integers, Sequences

CONSTANTS
    SnapShotInterval,   \* a service snapshots once in so many entries
    InstallWhileHanding \* whether InstallSnapshot may run while the applier waits
                        \* for the service to take a snapshot

\* Bounds of the instance that is checked.
CONSTANTS
    MaxIndex,           \* the highest index that is ever committed
    MaxRestarts

ASSUME ApplyAssumption ==
    /\ SnapShotInterval \in Nat \ {0}
    /\ InstallWhileHanding \in BOOLEAN
    /\ MaxIndex \in Nat
    /\ MaxRestarts \in Nat

VARIABLES
    commitIndex, lastApplied, lastIncludedIndex,    \* the Raft struct
    mu,         \* rf.mu: "free", or held by the "applier" between two steps
    handing,    \* "no", or what the applier is sending with rf.mu released:
                \* "snapshot" or "entries"
    messages,   \* the ApplyMsgs not yet taken by the service, in order
    applied,    \* rfsrv.lastApplied
    snapshotting,   \* the index of the Snapshot the service has called, 0 for none
    applyErr,   \* the service found an entry out of order: log.Fatalf
    restarts

raftVars == <<commitIndex, lastApplied, lastIncludedIndex>>
serviceVars == <<applied, snapshotting, applyErr>>
vars == <<raftVars, mu, handing, messages, serviceVars, restarts>>

\* The service snapshots after this entry.
SnapshotDue(i) == (i + 1) % SnapShotInterval = 0

ApplyMsg == [type : {"Snapshot", "Command"}, index : Nat]

Command(i) == [type |-> "Command", index |-> i]

\* Make, newRfsrv: a fresh server.
Init ==
    /\ commitIndex = 0
    /\ lastApplied = 0
    /\ lastIncludedIndex = 0
    /\ mu = "free"
    /\ handing = "no"
    /\ messages = << >>
    /\ applied = 0
    /\ snapshotting = 0
    /\ applyErr = "none"
    /\ restarts = 0

-----------------------------------------------------------------------------
(* The rest of Raft, which needs rf.mu *)

\* AppendEntries or tryCommit moves commitIndex.
Commit(i) ==
    /\ applyErr = "none" /\ mu = "free"
    /\ i > commitIndex
    /\ commitIndex' = i
    /\ UNCHANGED <<lastApplied, lastIncludedIndex, mu, handing, messages, serviceVars,
                   restarts>>

\* InstallSnapshot past the check for old snapshots; the leader's service took it.
\* lastApplied is left to the applier.
InstallSnapshot(i) ==
    /\ applyErr = "none" /\ mu = "free"
    /\ handing = "snapshot" => InstallWhileHanding
    /\ i > lastIncludedIndex /\ SnapshotDue(i)
    /\ lastIncludedIndex' = i
    /\ commitIndex' = IF i > commitIndex THEN i ELSE commitIndex
    /\ UNCHANGED <<lastApplied, mu, handing, messages, serviceVars, restarts>>

-----------------------------------------------------------------------------
(* applier *)

\* Slips for the runs: the batch starts at the last entry applied; a snapshot goes
\* first whether or not it is ahead.
BatchRepeatsLast ==
    [k \in 1..(commitIndex - lastApplied + 1) |-> Command(lastApplied + k - 1)]

TakeAnySnapshot ==
    /\ applyErr = "none" /\ mu = "applier"
    /\ handing = "no"
    /\ commitIndex > lastApplied
    /\ lastApplied' = lastIncludedIndex
    /\ mu' = "free"
    /\ handing' = "snapshot"
    /\ messages' = <<[type |-> "Snapshot", index |-> lastIncludedIndex]>>
    /\ UNCHANGED <<commitIndex, lastIncludedIndex, serviceVars, restarts>>

\* The entries lastApplied+1 .. commitIndex without those of the snapshot.
Batch ==
    LET first == IF lastApplied > lastIncludedIndex THEN lastApplied + 1
                                                    ELSE lastIncludedIndex + 1
    IN  [k \in 1..(IF commitIndex >= first THEN commitIndex - first + 1 ELSE 0) |->
            Command(first + k - 1)]

\* rf.mu.Lock(), at the start of an iteration or when the service has taken the
\* snapshot.  An iteration that finds nothing to apply changes nothing.
Lock ==
    /\ applyErr = "none" /\ mu = "free"
    /\ \/ handing = "no" /\ commitIndex > lastApplied
       \/ handing = "snapshot" /\ messages = << >>
    /\ mu' = "applier"
    /\ UNCHANGED <<raftVars, handing, messages, serviceVars, restarts>>

\* There is something to apply and the snapshot is ahead: it goes first.
TakeSnapshot ==
    /\ applyErr = "none" /\ mu = "applier"
    /\ handing = "no"
    /\ commitIndex > lastApplied
    /\ lastApplied < lastIncludedIndex
    /\ lastApplied' = lastIncludedIndex
    /\ mu' = "free"
    /\ handing' = "snapshot"
    /\ messages' = <<[type |-> "Snapshot", index |-> lastIncludedIndex]>>
    /\ UNCHANGED <<commitIndex, lastIncludedIndex, serviceVars, restarts>>

\* A slip for the runs: the lock is not released before the entries are sent.
TakeEntriesLocked ==
    /\ applyErr = "none" /\ mu = "applier"
    /\ \/ handing = "no" /\ commitIndex > lastApplied /\ lastApplied >= lastIncludedIndex
       \/ handing = "snapshot" /\ messages = << >>
    /\ messages' = Batch
    /\ handing' = IF Batch = << >> THEN "no" ELSE "entries"
    /\ lastApplied' = commitIndex
    /\ mu' = IF Batch = << >> THEN "free" ELSE "applier"
    /\ UNCHANGED <<commitIndex, lastIncludedIndex, serviceVars, restarts>>

\* The entries are collected, and the lock is released before they are sent.
TakeEntries ==
    /\ applyErr = "none" /\ mu = "applier"
    /\ \/ handing = "no" /\ commitIndex > lastApplied /\ lastApplied >= lastIncludedIndex
       \/ handing = "snapshot" /\ messages = << >>
    /\ messages' = Batch
    /\ handing' = IF Batch = << >> THEN "no" ELSE "entries"
    /\ lastApplied' = commitIndex
    /\ mu' = "free"
    /\ UNCHANGED <<commitIndex, lastIncludedIndex, serviceVars, restarts>>

-----------------------------------------------------------------------------
(* The service: applierSnap *)

\* One message of the channel.  A snapshot is ingested as it is; an entry must be
\* the next one, and once in a while the service calls Snapshot after it.
Receive ==
    LET m == Head(messages)
    IN  /\ applyErr = "none" /\ snapshotting = 0
        /\ messages # << >>
        /\ messages' = Tail(messages)
        /\ handing' = IF handing = "entries" /\ Len(messages) = 1 THEN "no" ELSE handing
        /\ IF m.type = "Command" /\ m.index # applied + 1
           THEN /\ applyErr' = "apply out of order"
                /\ UNCHANGED <<applied, snapshotting>>
           ELSE /\ applied' = m.index
                /\ snapshotting' = IF m.type = "Command" /\ SnapshotDue(m.index)
                                   THEN m.index ELSE 0
                /\ UNCHANGED applyErr
        /\ UNCHANGED <<raftVars, mu, restarts>>

\* Snapshot of raft.go, called by the reader of the channel, takes rf.mu: if the applier
\* held it while it sends, each would wait for the other.  The entry is in the log, as
\* it was committed, so that of the two early returns only the first is ever taken.
Snapshot ==
    /\ applyErr = "none" /\ mu = "free"
    /\ snapshotting # 0
    /\ lastIncludedIndex' = IF snapshotting > lastIncludedIndex THEN snapshotting
                                                                ELSE lastIncludedIndex
    /\ snapshotting' = 0
    /\ UNCHANGED <<commitIndex, lastApplied, mu, handing, messages, applied, applyErr,
                   restarts>>

-----------------------------------------------------------------------------
\* Kill, readPersist in Make, and ingestSnap in newRfsrv: the snapshot on disk is
\* all that is left, in Raft and in the service.
Restart ==
    /\ restarts < MaxRestarts
    /\ restarts' = restarts + 1
    /\ commitIndex' = lastIncludedIndex
    /\ lastApplied' = lastIncludedIndex
    /\ mu' = "free"
    /\ handing' = "no"
    /\ messages' = << >>
    /\ applied' = lastIncludedIndex
    /\ snapshotting' = 0
    /\ applyErr' = "none"
    /\ UNCHANGED lastIncludedIndex

Applier == Lock \/ TakeSnapshot \/ TakeEntries

Service == Receive \/ Snapshot

Next ==
    \/ \E i \in 1..MaxIndex : Commit(i) \/ InstallSnapshot(i)
    \/ Applier
    \/ Service
    \/ Restart

\* The applier loops and the service reads the channel for as long as the server
\* lives.
Spec == Init /\ [][Next]_vars /\ WF_vars(Applier) /\ WF_vars(Service)

-----------------------------------------------------------------------------
(* Properties *)

\* The indices of the Raft struct are naturals, the applier sends one snapshot or
\* a batch of entries.
TypeOK ==
    /\ commitIndex \in Nat
    /\ lastApplied \in Nat
    /\ lastIncludedIndex \in Nat
    /\ mu \in {"free", "applier"}
    /\ handing \in {"no", "snapshot", "entries"}
    /\ messages \in Seq(ApplyMsg)
    /\ applied \in Nat
    /\ snapshotting \in Nat
    /\ applyErr \in {"none", "apply out of order"}
    /\ restarts \in Nat

\* The service never sees a gap ("server %v apply out of order, expected index %v,
\* got %v" in applierSnap): whatever snapshots the service takes while the applier has
\* the lock released, each entry follows the one before or a snapshot.  So it is with
\* snapshots that are installed, unless the applier is handing one over at the time
\* (InstallWhileHanding).
ApplyInOrder == applyErr = "none"

\* The applier's books are right: what it regards as applied is what the service
\* has applied, once the messages under way are taken, and those are consecutive.  It
\* never sends with rf.mu held, and the service snapshots what it has just applied.
HandoverInv ==
    /\ applyErr = "none"
    /\ handing = "no" => messages = << >> /\ applied = lastApplied
    /\ handing = "snapshot" =>
          /\ lastApplied = lastIncludedIndex
          /\ IF messages = << >> THEN applied = lastApplied
             ELSE /\ messages = <<[type |-> "Snapshot", index |-> lastApplied]>>
                  /\ applied <= lastApplied
    /\ handing = "entries" =>
          /\ Len(messages) > 0
          /\ applied + Len(messages) = lastApplied
          /\ \A k \in 1..Len(messages) : messages[k] = Command(applied + k)
    /\ mu = "applier" => messages = << >>
    /\ snapshotting \in {0, applied}
    /\ lastApplied <= commitIndex
    /\ lastIncludedIndex <= commitIndex

\* The service only moves forward, also across a restart it never falls behind the
\* snapshot it took: an old snapshot is not handed over after newer entries.
ServiceForward ==
    [][IF restarts' = restarts THEN applied' >= applied
                               ELSE applied' = lastIncludedIndex']_vars

\* An entry that stays committed reaches the service: the applier never sleeps on
\* a committed entry, and never waits at applyCh for a service that waits in Snapshot
\* for rf.mu.
CommittedGetsApplied ==
    \A i \in 1..MaxIndex : commitIndex >= i ~> (applied >= i \/ commitIndex < i)
=============================================================================
