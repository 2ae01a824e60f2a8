# A TLA+ development of the 6.5840 labs in this repository

The repository holds the Go labs of MIT's distributed-systems course: a MapReduce
runtime, a versioned key/value server with a lock built on it, a Raft library with
persistence and snapshots, and the configuration layer of a sharded key/value
store. This directory models them from the code, checks the models with TLC on
small instances, and proves some of the results for every instance with TLAPS.
Source paths are relative to the repository (`src/raft1/raft.go`).

## Inventory

| Part | Sources | State and who changes it | Modelled in |
|---|---|---|---|
| Raft peer | `src/raft1/raft.go` | the `Raft` struct under `rf.mu`; the ticker, `startElection` goroutines, one goroutine per RPC sent, RPC handlers, the service's `Start` and `Snapshot` | `Raft` |
| Raft applier and service | `src/raft1/raft.go` (`applier`), `src/raft1/server.go` | `lastApplied`, the unbuffered `applyCh`, the service's `lastApplied`; the applier runs without `rf.mu` while it sends | `RaftApply` |
| labrpc network | `src/labrpc/labrpc.go` | the enabled ends and the registered servers under `rn.mu`; a goroutine per call and one per handler | `LabRPC`; as its users see it in `Raft` and `KV` |
| Server groups, persisters, restarts | `src/tester1/group.go`, `srv.go`, `persister.go` | `connected`, the newest instance of each server with its ends and its Persister; the test's goroutine, and killed instances that run on | `ServerGrp`; as one step in `Raft` and `RaftApply` |
| Clients of the tester | `src/tester1/clnts.go` | the ends of a clerk | `ServerGrp`, partly |
| Key/value server, clerk | `src/kvsrv1/server.go`, `client.go` | two maps under a mutex; clerks that resend | `KV`, implementing `VersionedStore` |
| Lock | `src/kvsrv1/lock/lock.go` | one key of the server | `Lock` |
| MapReduce | `src/mr/coordinator.go`, `worker.go`, `rpc.go` | task tables under a mutex; files shared by the workers | `MapReduce` |
| Linearizability model of the tests | `src/models1/kv.go`, `src/kvtest1/porcupine.go` | the sequential store a history of clerk calls is compared with | `VersionedStore` |
| Shard configuration | `src/shardkv1/shardcfg/shardcfg.go` | one configuration, changed by Join, Leave, Rebalance | `ShardCfg` |
| Replicated KV server, RSM, sharded KV, shard controller | `src/kvraft1`, `src/shardkv1/...` | none: the lab's skeleton without bodies | not modelled |
| labgob, test drivers, MapReduce programs, mains | `src/labgob`, `src/tester1/config.go`, `annotation.go`, `src/mrapps`, `src/main` | none of the systems' own | not modelled |

How they interact: Raft peers call each other over labrpc and save to a persister;
the applier of each peer feeds the service, which calls `Snapshot` back. Clerks call
the key/value server over labrpc; a lock is a client of a clerk. The tester connects,
partitions, shuts down and restarts groups of servers on the network. MapReduce workers
call the coordinator and meet each other only in the file system. The shard
configuration stands alone until the shard controller is written.

The hazards of each part (what could go wrong there that a test would hardly reach)
are listed in `PROJECT.json` with their line and the properties that watch them.

## Modules

### Raft

One action per critical section of `rf.mu`, since nothing else of the struct can be
observed between a lock and its unlock.

| Action | Code |
|---|---|
| `checkElectionTimeout(s)` | `ticker` and `checkElectionTimeout`: the state read by the ticker is kept in `lateCheck` when the check happens later than the read |
| `startElection(s)` | `startElection`: a goroutine of its own, counted in `elections` from its launch until it runs |
| `HandleRequestVoteReply(m)` | the goroutines of `startElection` once `sendRequestVote` has returned, with `initializeLeaderState` |
| `sendToFollower(s, p)` | `sendToFollower` up to its call: AppendEntries or InstallSnapshot, launched by `sendHeartbeats`; `Start` only appends and leaves the sending to the next heartbeat |
| `RequestVote`, `AppendEntries`, `InstallSnapshot` | the RPC handlers |
| `HandleAppendEntriesReply`, `HandleInstallSnapshotReply` | the rest of `sendToFollower`: `handleAppendEntriesReply` with its search for the conflicting term (`Backtrack`) and `tryCommit` |
| `Start`, `Snapshot` | the service's calls |
| `Restart`, `RestartInHandler` | the tester's shutdown and `Make` with `readPersist`; the second one falls between two `persist` calls of one handler |
| `LoseCall` | labrpc drops a request or a reply |
| `AppendEntriesPanic` | the handler slices the log with a negative bound and the process dies |

The variables carry the names of the struct's fields. `log[s]` is the Go slice:
position 1 is the placeholder of the last trimmed entry, and an index becomes a
position by subtracting `lastIncludedIndex`. `calls` is a bag of requests and
replies under way (a function from messages to how often they are there). A caller that restarts gets a new `incarnation`, and replies to
an older one vanish. `persister` is what is on disk. `voters` records who was
counted in `votesReceived` and is read by invariants only.

Real time is left out: a ticker may find the timeout expired at any moment, and a
call may take any time. Partitions are lost calls.

### RaftApply

The applier, the channel and its reader, on one server. Raft is reduced to what
the applier reads: `commitIndex` grows (`Commit`), or a leader's snapshot arrives
(`InstallSnapshot`). `Lock` is the applier's taking of `rf.mu`; `TakeSnapshot` and
`TakeEntries` are what it does under it, up to the unlock before it sends. `mu` tells
whether the applier has the lock, which everything else of Raft needs. `Receive` is one
message taken by `applierSnap`; if a snapshot is due after it, the reader is in a call
of `Snapshot` (`snapshotting`) until that gets the lock, and reads nothing meanwhile.
`Restart` leaves only the snapshot. `InstallWhileHanding` says whether a snapshot
may be installed while the applier is sending an earlier one.

### LabRPC and ServerGrp

`LabRPC` is `Network` and `ClientEnd.Call`: `processReq` looks the server up
(`readEndnameInfo`), may drop the request, starts the handler in a goroutine of its
own (`Dispatch`), waits for it or for a timer that finds the server dead, looks once
more (`LetOut`), and may drop the reply. A server name stands for one instance after
another, numbered from 1; `servers` holds the one that is registered. Handlers of an
instance that was deleted or replaced run on.

`ServerGrp` extends it with what the tester does to a group. `disconnect`, `connect`,
`MakePartition` and `Partition` are operators on the flags and the enabled ends, in the
order of the code's loops. `ShutdownServer`, `DeleteServer` and `shutdownServer` are the
three steps of a shutdown, `StartServer` and `AddServer` the two of a start; calls and
handlers go on between them. `saved[i]` is the content of the Persister the tester holds
for server `i`, and `holder[i]` the instance that saves into it: after `shutdownServer`
has copied the Persister, the old instance saves where nobody reads. Of the servers only
the order is kept in which they save: a handler before it returns (`Handle`), a caller
before it calls (`SaveFirst`).

`MakePartition` fills two slices of `n/2+1` and `n/2` servers, the leader last. In a
group of even size one place is never filled and holds the default 0, so that server 0
may be on both sides; the tests that call it have groups of five and three, and
`PartitionSplits` is said of groups of odd size.

Each call of the test is one step on the ends, although `Enable` takes the network's
lock once per end; each property below is about single ends and instances or about the
result of a whole operation. As the comments of `StartServer` ask, a server is shut down
before it is started. A clerk's ends exist from the start.

### KV, VersionedStore and Lock

`KV` has the server's `Get` and `Put`, and the clerks' loops with the loss of the
request and of the reply. A call that is lost returns false to its clerk, which
sends again; a resent Put that meets `ErrVersion` is answered with `ErrMaybe`. The
handler of a call that returned false has run or never will. labrpc can return false
while a handler runs (`labrpc.go:275`), but only when the end was disabled or the server
deleted, which nobody does to the server of `kvsrv1`: `NoLateHandler` in `ServerGrp` is
this assumption, checked on the network itself.

`VersionedStore` is the specification the tests have for it, `KvModel` of
`src/models1/kv.go`, turned into a state machine: an operation is called, takes its step
at one moment, and returns an output that step allows. `KV` shows it implements this
store (`Linearizable`), with the mapping at the end of the module: a missing key is one
at version 0, and a call has taken its step when its Put was performed or when its last
try was answered. A step that changed nothing may be taken again, as a resend does. Two
details go beyond `KvModel`, which looks at the value of a Get only and does not know
`ErrNoKey` for a Put to a key that does not exist: the store gives a Get the version and
the error as well, and admits `ErrNoKey` where `KvModel` has `ErrVersion`.

`Lock` extends `KV` with the states of `Acquire` and `Release` of each client.

### MapReduce

`GetTask`, `ReportTask` and `checkTimeoutTasks` at the coordinator, and the worker's
loop: ask, create each file, write it, report. A file is missing, being written or
whole. Workers crash at any step and are replaced, as `test-mr.sh` does. File operations
fail in two ways. The input of a map task, the creation of any file and the encoding of a
pair are looked at, and failure is reported (`FileError`). A reducer skips a file it cannot
open, takes a decoding error for the end of the file (`ReadError`) and does not look at
its writes (`WriteError`), and reports success. `erred` marks a worker that did, and
`ignored` the tasks that such a worker completed.
`timeouts` counts the tasks that timed out under a worker that still runs. Map
and reduce functions are deterministic and every bucket is non-empty. The end of the
coordinator's process is not modelled.

### ShardCfg

`Join`, `Leave`, `Rebalance` and the balanced forms on a configuration of `NShards`
shards. The greedy loops of `Rebalance` are recursive operators. Server names are
dropped; the calls that end in `log.Fatalf` are outside the preconditions.

## Runs

Passing runs. Sizes are distinct states.

| Run | Question | Bounds | States |
|---|---|---|---|
| `RaftDiverged` | committed entries stay when logs diverged (the commit rule for old terms); logs with a common entry agree below it | start `Diverged`, terms up to 4, 2 indices, 2 calls | 758,124 |
| `RaftCrash` | memory and disk agree across a crash; no vote is taken back; a committed entry is on a majority; `matchIndex` never claims too much; log, snapshot and `commitIndex` stay in step | 3 servers, 1 stands, 1 term, 2 indices, snapshot at 2, 2 calls, 1 restart | 740,530 |
| `RaftSnapshot` | one leader per term when leaders hear of each other; committed entries stay when logs are trimmed and snapshots installed; `nextIndex` stays in the log; a leader only appends | starts `Trimmed` and `TrimmedTail`, 2 of 3 stand, term 3, 3 indices, snapshot at 2 | 630,826 |
| `RaftApply` | entries reach the service in order, and reach it; nobody waits for `rf.mu` and the channel in a circle | 8 entries, interval 3, 1 restart | 1,362 |
| `KV` | the server and its clerks implement the linearizable store; answers are true; calls return | 2 clerks, 1 key, 2 values, versions to 3 | 51,841 |
| `Lock` | mutual exclusion with lost calls; someone gets the lock | 3 clients, versions to 4 | 142,133 |
| `MapReduce` | the task tables stay right and the job finishes when tasks time out under live workers; without that, the output of a task is whole unless the worker that completed it ignored an error | 2 workers, 2+2 tasks, 2 crashes or file errors, 1 timeout of a live worker | 613,466 |
| `ShardCfg` | rebalancing ends balanced from every configuration, half-changed ones included; no shard moves without need | 5 shards, 3 groups, 5 changes | 5,486 |
| `ServerGrp` | what was acknowledged, or told to others, is in the Persister of the next instance; no handler runs after its call has failed on an undisturbed network; partitions split; calls return | 3 servers, 1 clerk, 1 call, 4 operations of the test, 2 instances | 268,978 |

Violated runs, each stating what the repository says and the code does not do:

| Run | What it shows |
|---|---|
| `RaftSplitVote` | Two `startElection` goroutines of one server pending at once ask the same peer in one term. The peer's grant is counted twice, and of four servers two lead the same term (`raft.go:694`). Three servers do not show it: a candidate there needs one other vote. |
| `RaftApplyGap` | A snapshot installed while the applier sends an older one is never sent, and the service meets "apply out of order" (`raft.go:1045`). |
| `RaftLateEntries` | A late AppendEntries with `PrevLogIndex` 0 at a follower that trimmed its log: the missing term counts as a conflict and the slice bound is negative (`raft.go:458`). |

Six more places where the code permits more than one might expect are part of the
models, and the properties are stated so as to hold with them:

- A late success reply sets `matchIndex` back (`raft.go:925`). Nothing wrong is
  committed by it: `MatchIndexTruthful` and `CommittedOnMajority` in `RaftCrash`.
- A leader with a trimmed log that looks for the conflicting term takes a position in
  `rf.log` for an index (`raft.go:948`) and goes further back than the comment there says.
  Nothing is lost by it: `NextIndexInRange` holds, and the follower gets entries or a
  snapshot it may have already.
- The ticker acts on a state it read before it released the lock (`raft.go:997`), so a
  leader may become a candidate of the next term. `lateCheck` models it, and
  the theorems on `VoteOnce`, `ElectionInv` and `ElectionSafety` hold with it. The runs
  have too few terms for the leader to stand again.
- A MapReduce worker that goes on after its task timed out creates the task's files
  again (`worker.go:111`, `worker.go:178`) and may truncate what another worker has
  completed. `OutputRight` and `CompletedMapFilesWhole` are said of jobs in which no
  task timed out under a live worker (`timeouts = 0`).
- A reducer that could not open or read an input file (`worker.go:148`), or whose writes
  failed (`worker.go:204`), reports success, and the coordinator completes the task without
  the data. `OutputRight` leaves out the tasks that were completed so (`ignored`); errors
  that were ignored in other tasks, or by a worker whose task was given to another, are not
  excused.
- `restart` of the Raft tests (`src/raft1/test.go:59`) connects every server, also one
  that is down. The ends of its killed instance are enabled again, and that instance
  may tell others what the next one will not know. `TellsSaved` is therefore said of
  histories in which no server was connected while it was down (`revived`);
  `AckedSurvives` needs no such condition.

### Why these bounds

- Raft needs a majority, so three servers; four only where an even number matters.
  `Electable` limits who stands, since a server that only votes is enough on the
  other side.
- What needs a history of several terms starts from the restart of a whole cluster,
  in which each server is made from its disk. `Diverged` is two leaders that each
  left an entry nobody else stored. `Trimmed` and `TrimmedTail` are a leader with a
  trimmed log against a follower whose log conflicts with the snapshot, or with the
  entries after it. The comments in `MCRaft` say which history leads to each.
- `RaftDiverged` lets `s1` stand up to term 3 and `s2` in term 4 (`InTurn`): the order
  in which an old entry reaches a majority and is then overwritten.
- Two calls in flight are enough to reorder a request with a newer one and a reply
  with a newer one.
- `LogMatching` is checked where no snapshot is installed: `InstallSnapshot` keeps the
  entries that follow the snapshot without comparing terms (`raft.go:527`), so a kept
  suffix need not match until the leader overwrites it. That this never reaches the
  service is `StateMachineSafety` in `RaftSnapshot`.
- Three clients and four versions of the lock's key are a cycle of taking and releasing
  and the next holder, so that a delayed Put of one client meets the lock of another
  while a third one looks.
- In `ServerGrp` calls do not affect each other, so one call at a time is enough, of any
  caller to any server. Four operations are a shutdown, a restart, and one connection or
  partition before and one after or between; two instances are one restart of each server.
  With three servers the leader is alone on its side, so `MakePartition` never puts another
  server into the smaller slice; five servers are beyond this run.
- `RaftCrash` has one candidate and one term, and `RaftSnapshot` two candidates and no
  restart. A vote asked for by two candidates across a crash, also one between the two saves
  of `RequestVote`, is in neither: `VotesAreKept` and `OneLeaderPerTerm` prove it for any
  number of both. `RaftSplitVote` follows only votes (`VotesOnly`), since it needs four servers.
- The view `LiveState` leaves out fields of a role the server is not in (a follower's
  `votesReceived` and the like); they are overwritten before they are read again.
  Symmetry exchanges servers that are alike: those that may stand, and the others.

Deadlock is not checked in the runs of Raft, RaftApply and MapReduce, where the
bounds or the end of the job really stop the system.

### Fairness

- `RaftApply`: the applier and the service's reader keep running (weak). The applier's
  `Lock` is taken when `rf.mu` is free long enough; it is held by others for single steps.
- `ServerGrp`: the goroutines of the network run, and the handlers of an instance that is
  still registered return. A killed instance need not answer, and `CallReturns` holds
  without it.
- `KV`, `Lock`: a handler runs once its request is there (weak), and a clerk that keeps
  resending is answered some time (strong): the loops have no other exit. A lock has
  no queue, so only that some client gets it is claimed, not that each does.
- `MapReduce`: live workers go on, and the coordinator's timer keeps looking. Crashes
  are bounded, and so are timeouts of tasks whose worker still runs.
- Raft has no liveness property: its elections end through random timeouts, which are
  outside the model.

## Proofs

| Theorem | Module | Statement |
|---|---|---|
| `TypeCorrect` | `RaftProofs` | `Spec => [](TypeOK /\ StorageInv)` |
| `VotesAreKept` | `RaftProofs` | `Spec => VoteOnce` |
| `OneLeaderPerTerm`, `VotesAreCountedOnce` | `RaftElectionProofs` | if `MaxPendingElections <= 1`, `Spec => [](ElectionInv /\ ElectionSafety)`, `[]ElectionInv` |
| `BooksAreRight`, `AppliedInOrder` | `RaftApplyProofs` | if not `InstallWhileHanding`, `Spec => []HandoverInv`, `[](TypeOK /\ ApplyInOrder)` |
| `ServiceMovesForward` | `RaftApplyProofs` | if not `InstallWhileHanding`, `Spec => ServiceForward` |
| `ServerIsLinearizable` | `KVProofs` | `Spec => Linearizable`: `KV` implements `VersionedStore` |
| `ResendsAreSafe`, `PutsAreHonest` | `KVProofs` | `Spec => []ResendInv`, `[]PutHonest` |
| `LockIsAccounted`, `LockExcludes`, `HolderIsStored`, `ReleaseIsDone` | `LockProofs` | `LockSpec => []LockInv`, `[]MutualExclusion`, `[]HolderOnServer`, `[]ReleaseReleases` |
| `InstancesAreTracked`, `AcknowledgedIsDurable` | `ServerGrpProofs` | `Spec => []DurableInv`, `[]AckedSurvives` |

All hold for every value of the constants that meets the modules' assumptions: any
finite set of servers, any number of terms, entries, calls and restarts, any clients,
keys and values.

**TypeCorrect.** The type of a restarted server depends on what was saved, and the
type of the saved snapshot on the message that brought it. So the invariant joins the
types of the fields, the messages and the disk with `StorageInv`: memory equals disk
whenever the lock is free, and a snapshot ends at `lastIncludedIndex`. One lemma
per action; `SaveOK` does what all saves have in common. `RaftTypes` has the invariant
in its parts.

**VotesAreKept.** With memory equal to disk, a restart brings back the term and the vote
the server had, or the newer term a handler had just saved without a vote. Every other
step is looked at on its own.

**OneLeaderPerTerm.** Two leaders of a term have majorities that meet in a peer, which
would have voted for both. `ElectionSafety` says nothing about where votes are, so
`ElectionInv` adds: a vote that is counted or under way pins the voter's term and
`votedFor`; two votes of a peer in a term agree; and a candidate has at most one call
to a peer per term, and none to a peer already counted, so that `votesReceived` counts
different peers. The last part is what fails with two pending elections, as
`RaftSplitVote` shows: the assumption is needed, and the code does not enforce it. The
lemmas are in `RaftElectionInvariant`, under the types of `RaftTypes`; `RaftElectionProofs`
puts them together with `RaftProofs`.

**BooksAreRight, AppliedInOrder, ServiceMovesForward.** `HandoverInv` says that the
messages under way are consecutive and end where the applier's `lastApplied` is, that the
applier never sends with `rf.mu` held, and that the service snapshots what it has just
applied. It fails if a snapshot may be installed during a handover, as `RaftApplyGap`
shows.

**ServerIsLinearizable, PutsAreHonest.** `ResendInv` says why resending is safe: a Put
that was performed has spent the version it names (`version < versions[key]`), so no
resend is accepted; an unanswered first try was not performed; `ErrNoKey` is never the
answer to a performed Put. Honesty follows. For the refinement each action is shown to
be a step of the store or none: a call is `Call`; a Get and a first Put that was not
performed are `Step`; a resend of something that changed nothing is `Again`, and of
something performed is no step; a return is `Return`, where `ResendInv` gives that the
clerk's answer is among those the step allows.

**The lock.** `LockInv` adds to `ResendInv` what each client may rely on. A version at
which a client saw the lock free names a free lock or none any more, so a Put at it
takes nothing from a holder; a client whose Put was performed has the lock, whether it
was told so or not, until its own Release is performed; and a Release that was answered
was performed, since nothing can have changed the version. The only step that touches
other clients is a Put that is accepted (`AcceptedLock`).

**AcknowledgedIsDurable.** `DurableInv`: the instance that is registered is the one that
saves into the tester's Persister, because a shutdown deletes the server before it
copies the Persister. So if `LetOut` finds the instance that ran the handler still
registered, the result is in that Persister. Which ends are enabled plays no part.

`ElectionInv`, `StorageInv`, `HandoverInv`, `ResendInv`, `LockInv` and `DurableInv` are
also invariants of the runs. Only model-checked are: every liveness property; the
properties of Raft's logs and commits; `TellsSaved`, `NoLateHandler` and
`PartitionSplits`; and MapReduce and the shard configurations. Outside the prover's reach
are liveness under fairness, induction over data (the loops of `Partition`), and modules
with RECURSIVE operators.

## Not modelled

The replicated and sharded key/value servers and the shard controller have no bodies
yet. labgob is an encoding; test drivers, annotations and the MapReduce programs are
no part of the systems. Of labrpc, statistics, the reflection that finds a handler, and
the removal of ends at the end of a test are left out; of the tester's clients, those
that are given a list of servers. Timeouts have no length, so nothing is said about how
long an election or a task takes, and elections are not shown to end: that rests on
random timeouts of 150-300 ms against heartbeats of 50 ms. That a leader which stays
brings a lagging follower up to its log is not checked either: the backtracking of
`nextIndex` is covered by safety properties only.

## What could follow

1. A log that grows by agreement, as an abstract specification that `Raft` implements.
2. `Raft` on the network of `LabRPC` instead of its own bag of calls.
3. Proofs: the coordinator's counters; `MatchIndexTruthful` and the log properties of
   Raft; `TellsSaved`.
