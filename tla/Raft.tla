-------------------------------- MODULE Raft --------------------------------
(***************************************************************************)
(* The Raft peer of src/raft1/raft.go: elections, log replication,         *)
(* persistence, snapshots, crashes and restarts, over the lossy network of *)
(* src/labrpc.  One action stands for one critical section of rf.mu (an    *)
(* RPC handler, the handling of one reply, one goroutine step), which is   *)
(* the grain at which the code interleaves.                                *)
(*                                                                         *)
(* The delivery of committed entries to the service (applier, applyCh) is  *)
(* the subject of module RaftApply.                                        *)
(***************************************************************************)
EXTENDS Integers, Sequences, FiniteSets

CONSTANTS
    Server,     \* the indices into peers[]
    Command,    \* what clients pass to Start
    Nil         \* votedFor = -1, Command = nil

\* Bounds of the instance that is checked.
CONSTANTS
    MaxTerm,                \* no election timeout fires beyond this term
    MaxIndex,               \* no leader appends beyond this index
    MaxCalls,               \* RPCs (requests and replies) in flight
    MaxPendingElections,    \* startElection goroutines of a server not yet run
    MaxRestarts,            \* crashes, of all servers together
    Electable,              \* the servers whose election timeouts fire
    SnapshotIndex           \* the indices at which services take snapshots

ASSUME ServerAssumption ==
    /\ IsFiniteSet(Server)
    /\ Nil \notin Server
    /\ Nil \notin Command

ASSUME BoundAssumption ==
    /\ MaxTerm \in Nat
    /\ MaxIndex \in Nat
    /\ MaxCalls \in Nat
    /\ MaxPendingElections \in Nat
    /\ MaxRestarts \in Nat
    /\ Electable \subseteq Server
    /\ SnapshotIndex \subseteq Nat

VARIABLES
    \* ---- fields of the Raft struct, one function per field ----
    currentTerm,
    votedFor,
    log,                \* log[s][k+1] is rf.log[k]; log[s][1] is the placeholder
    lastIncludedIndex,
    lastIncludedTerm,
    commitIndex,
    nextIndex,
    matchIndex,
    state,
    votesReceived,
    \* ---- what goroutines of the server hold outside rf.mu ----
    elections,          \* startElection goroutines launched and not yet run
    lateCheck,          \* the servers whose ticker saw a candidate, that lead since,
                        \* and whose check under way finds the timeout expired
    \* ---- outside the server ----
    persister,          \* the tester.Persister: raft state and snapshot
    restarts,           \* how many servers were restarted so far
    incarnation,        \* the restart that made the server
    calls,              \* the bag of RPC requests and replies in flight
    \* ---- history ----
    voters              \* the peers counted by votesReceived (the DPrintf there)

persistentVars == <<currentTerm, votedFor, log, lastIncludedIndex, lastIncludedTerm>>
leaderVars == <<nextIndex, matchIndex>>
restartVars == <<restarts, incarnation>>
electionVars == <<votesReceived, elections, lateCheck, voters>>
vars == <<persistentVars, commitIndex, leaderVars, state, electionVars,
          persister, restarts, incarnation, calls>>

-----------------------------------------------------------------------------
(* Data *)

States == {"Follower", "Candidate", "Leader"}

LogEntry == [term : Nat, command : Command \cup {Nil}]

\* The dummy entry at array position 0: it stands for the last entry of the
\* snapshot, or for "before the log" when there is no snapshot.
Placeholder(t) == [term |-> t, command |-> Nil]

RequestVoteArgs ==
    [type : {"RequestVote"}, src : Server, dst : Server, inc : Nat,
     term : Nat, lastLogIndex : Nat, lastLogTerm : Nat]

AppendEntriesArgs ==
    [type : {"AppendEntries"}, src : Server, dst : Server, inc : Nat,
     term : Nat, prevLogIndex : Nat, prevLogTerm : Int,
     entries : Seq(LogEntry), leaderCommit : Nat]

InstallSnapshotArgs ==
    [type : {"InstallSnapshot"}, src : Server, dst : Server, inc : Nat,
     term : Nat, lastIncludedIndex : Nat, lastIncludedTerm : Nat,
     data : Seq(LogEntry)]

\* A reply carries, besides the reply structure, the fields of the arguments
\* that the waiting goroutine still reads from its closure.
RequestVoteReply ==
    [type : {"RequestVoteReply"}, src : Server, dst : Server,
     argsTerm : Nat, term : Nat, voteGranted : BOOLEAN]

AppendEntriesReply ==
    [type : {"AppendEntriesReply"}, src : Server, dst : Server,
     argsTerm : Nat, lastSent : Nat, term : Nat,
     success : BOOLEAN, conflictTerm : Int, conflictIndex : Nat]

InstallSnapshotReply ==
    [type : {"InstallSnapshotReply"}, src : Server, dst : Server,
     argsTerm : Nat, lastIncludedIndex : Nat, term : Nat]

Request == RequestVoteArgs \cup AppendEntriesArgs \cup InstallSnapshotArgs
Reply == RequestVoteReply \cup AppendEntriesReply \cup InstallSnapshotReply
Message == Request \cup Reply

RequestTypes == {"RequestVote", "AppendEntries", "InstallSnapshot"}

IsMajority(n) == 2 * n > Cardinality(Server)

-----------------------------------------------------------------------------
(* Helpers of raft.go *)

getLastLogIndex(s) == Len(log[s]) - 1 + lastIncludedIndex[s]

getLastLogTerm(s) ==
    IF Len(log[s]) = 0 THEN lastIncludedTerm[s] ELSE log[s][Len(log[s])].term

toArrayIndex(s, realIndex) == realIndex - lastIncludedIndex[s]

getLogTerm(s, realIndex) ==
    LET arrayIndex == toArrayIndex(s, realIndex)
    IN  IF arrayIndex < 0 \/ arrayIndex >= Len(log[s])
        THEN -1
        ELSE log[s][arrayIndex + 1].term

\* Slips for the runs: the vote is not encoded; Snapshot saves the old snapshot;
\* nothing is saved.
SavedWithoutVote(s, snapshot) ==
    [currentTerm |-> currentTerm'[s], votedFor |-> Nil, log |-> log'[s],
     lastIncludedIndex |-> lastIncludedIndex'[s],
     lastIncludedTerm |-> lastIncludedTerm'[s],
     snapshot |-> snapshot]

SavedWithOldSnapshot(s, snapshot) ==
    [currentTerm |-> currentTerm'[s], votedFor |-> votedFor'[s], log |-> log'[s],
     lastIncludedIndex |-> lastIncludedIndex'[s],
     lastIncludedTerm |-> lastIncludedTerm'[s],
     snapshot |-> persister[s].snapshot]

persistNothing(s) == UNCHANGED persister

\* What Save stores: the fields as they are after the step, and the snapshot.
Saved(s, snapshot) ==
    [currentTerm |-> currentTerm'[s], votedFor |-> votedFor'[s], log |-> log'[s],
     lastIncludedIndex |-> lastIncludedIndex'[s],
     lastIncludedTerm |-> lastIncludedTerm'[s],
     snapshot |-> snapshot]

persist(s) ==
    persister' = [persister EXCEPT ![s] = Saved(s, persister[s].snapshot)]

\* A slip for the runs: a term that is not newer clears the vote as well.
ObserveTermAnew(s, t) ==
    /\ currentTerm' = [currentTerm EXCEPT ![s] = IF t > @ THEN t ELSE @]
    /\ votedFor' = [votedFor EXCEPT ![s] = IF t >= currentTerm[s] THEN Nil ELSE @]

\* The step every handler takes on a term above its own.  Nothing is written
\* when the term is not newer.
ObserveTerm(s, t) ==
    /\ currentTerm' = [currentTerm EXCEPT ![s] = IF t > @ THEN t ELSE @]
    /\ votedFor' = [votedFor EXCEPT ![s] = IF t > currentTerm[s] THEN Nil ELSE @]

\* A leader's late election check is of no account once it steps down: the
\* ticker of a follower may check at any time.
BecomeFollower(s) ==
    /\ state' = [state EXCEPT ![s] = "Follower"]
    /\ lateCheck' = lateCheck \ {s}

-----------------------------------------------------------------------------
(* The network of src/labrpc: Call delivers a request at most once and its  *)
(* reply at most once, in any order, and may lose either.                   *)

\* calls is a bag: it tells for every message how many deliveries are still to come.
\* (Of module Bags only these three operators are needed; EXTENDS would bring all of
\* it, and the theorems it extends, into every proof about this module.)
CallsInFlight == Cardinality(UNION {{m} \X (1..calls[m]) : m \in DOMAIN calls})

With(B, ms) ==
    [m \in DOMAIN B \cup ms |->
        IF m \notin DOMAIN B THEN 1 ELSE IF m \in ms THEN B[m] + 1 ELSE B[m]]

Room(n) == CallsInFlight + n <= MaxCalls

Send(ms) == calls' = With(calls, ms)

\* One delivery of m taken off the network.
Without(m) ==
    [n \in {n \in DOMAIN calls : n = m => calls[n] > 1} |->
        IF n = m THEN calls[n] - 1 ELSE calls[n]]

\* The reply goes to the goroutine that waits in Call; it is gone when the
\* caller was restarted since.
Respond(m, reply) ==
    calls' = IF m.inc = incarnation[m.src] THEN With(Without(m), {reply})
                                           ELSE Without(m)

Discard(m) == calls' = Without(m)

-----------------------------------------------------------------------------
(* Make, readPersist: the state of a peer started from what was saved.      *)

\* readPersist leaves the values of Make alone when nothing was saved yet,
\* which is the same as having saved these.
Empty == [currentTerm |-> 0, votedFor |-> Nil, log |-> <<Placeholder(0)>>,
          lastIncludedIndex |-> 0, lastIncludedTerm |-> 0, snapshot |-> << >>]

Nobody == [t \in Server |-> 0]

\* A cluster whose servers are all made from the given saved states.
StartFrom(saved) ==
    /\ persister = saved
    /\ currentTerm = [s \in Server |-> saved[s].currentTerm]
    /\ votedFor = [s \in Server |-> saved[s].votedFor]
    /\ log = [s \in Server |-> saved[s].log]
    /\ lastIncludedIndex = [s \in Server |-> saved[s].lastIncludedIndex]
    /\ lastIncludedTerm = [s \in Server |-> saved[s].lastIncludedTerm]
    /\ commitIndex = [s \in Server |-> saved[s].lastIncludedIndex]
    /\ nextIndex = [s \in Server |-> Nobody]
    /\ matchIndex = [s \in Server |-> Nobody]
    /\ state = [s \in Server |-> "Follower"]
    /\ votesReceived = [s \in Server |-> 0]
    /\ elections = [s \in Server |-> 0]
    /\ lateCheck = {}
    /\ restarts = 0
    /\ incarnation = [s \in Server |-> 0]
    /\ calls = << >>
    /\ voters = [s \in Server |-> {}]

Init == StartFrom([s \in Server |-> Empty])

\* The peer is killed and a new one made from the saved state.  Replies to the
\* old peer reach nobody; its requests may still arrive.
MakeFrom(s, saved) ==
    /\ persister' = [persister EXCEPT ![s] = saved]
    /\ currentTerm' = [currentTerm EXCEPT ![s] = saved.currentTerm]
    /\ votedFor' = [votedFor EXCEPT ![s] = saved.votedFor]
    /\ log' = [log EXCEPT ![s] = saved.log]
    /\ lastIncludedIndex' = [lastIncludedIndex EXCEPT ![s] = saved.lastIncludedIndex]
    /\ lastIncludedTerm' = [lastIncludedTerm EXCEPT ![s] = saved.lastIncludedTerm]
    /\ commitIndex' = [commitIndex EXCEPT ![s] = saved.lastIncludedIndex]
    /\ nextIndex' = [nextIndex EXCEPT ![s] = Nobody]
    /\ matchIndex' = [matchIndex EXCEPT ![s] = Nobody]
    /\ state' = [state EXCEPT ![s] = "Follower"]
    /\ votesReceived' = [votesReceived EXCEPT ![s] = 0]
    /\ elections' = [elections EXCEPT ![s] = 0]
    /\ lateCheck' = lateCheck \ {s}
    /\ restarts' = restarts + 1
    /\ incarnation' = [incarnation EXCEPT ![s] = restarts + 1]
    /\ voters' = [voters EXCEPT ![s] = {}]

\* The calls that are left of B when nobody at s waits for its replies any more.
Unanswered(B, s) == [m \in {m \in DOMAIN B : m.type \in RequestTypes \/ m.dst # s} |-> B[m]]

Restart(s) ==
    /\ restarts < MaxRestarts
    /\ MakeFrom(s, persister[s])
    /\ calls' = Unanswered(calls, s)

\* A handler persists a newer term at once and what else it changes later.
\* ShutdownServer may copy the persister in between: the request is half
\* handled and its reply suppressed.
RestartInHandler(m) ==
    LET s == m.dst
    IN  /\ restarts < MaxRestarts
        /\ m.type \in RequestTypes
        /\ m.term > currentTerm[s]
        /\ MakeFrom(s, [persister[s] EXCEPT !.currentTerm = m.term, !.votedFor = Nil])
        /\ calls' = Unanswered(Without(m), s)

-----------------------------------------------------------------------------
(* Elections *)

\* The ticker reads the state, releases rf.mu and calls checkElectionTimeout,
\* which does not look at the state again.  Real time is left out: the timeout
\* may have passed whenever the check is made.
checkElectionTimeout(s) ==
    /\ state[s] # "Leader" \/ s \in lateCheck
    /\ s \in Electable
    /\ currentTerm[s] < MaxTerm
    /\ elections[s] < MaxPendingElections
    /\ state' = [state EXCEPT ![s] = "Candidate"]
    /\ currentTerm' = [currentTerm EXCEPT ![s] = @ + 1]
    /\ votedFor' = [votedFor EXCEPT ![s] = s]
    /\ elections' = [elections EXCEPT ![s] = @ + 1]
    /\ lateCheck' = lateCheck \ {s}
    /\ UNCHANGED <<log, lastIncludedIndex, lastIncludedTerm, commitIndex, leaderVars,
                   votesReceived, restartVars, calls, voters>>
    /\ persist(s)

\* The goroutine reads the term when it runs, not when it was launched.
startElection(s) ==
    /\ elections[s] > 0
    /\ Room(Cardinality(Server) - 1)
    /\ elections' = [elections EXCEPT ![s] = @ - 1]
    /\ votesReceived' = [votesReceived EXCEPT ![s] = 1]
    /\ voters' = [voters EXCEPT ![s] = {s}]
    /\ Send({[type |-> "RequestVote", src |-> s, dst |-> p, inc |-> incarnation[s],
              term |-> currentTerm[s], lastLogIndex |-> getLastLogIndex(s),
              lastLogTerm |-> getLastLogTerm(s)] : p \in Server \ {s}})
    /\ UNCHANGED <<persistentVars, commitIndex, leaderVars, state, lateCheck,
                   persister, restartVars>>

\* The candidate's log is at least as up-to-date as the voter's.
logIsAtLeastAsUpToDate(m) ==
    \/ m.lastLogTerm > getLastLogTerm(m.dst)
    \/ /\ m.lastLogTerm = getLastLogTerm(m.dst)
       /\ m.lastLogIndex >= getLastLogIndex(m.dst)

\* RequestVote, the handler.  reply.Term is the term before it is updated.
RequestVote(m) ==
    LET s == m.dst
        free == m.term > currentTerm[s] \/ votedFor[s] \in {Nil, m.src}
        grant == m.term >= currentTerm[s] /\ free /\ logIsAtLeastAsUpToDate(m)
    IN  /\ m.type = "RequestVote"
        /\ currentTerm' = [currentTerm EXCEPT ![s] = IF m.term > @ THEN m.term ELSE @]
        /\ votedFor' = [votedFor EXCEPT ![s] = IF grant THEN m.src
                                               ELSE IF m.term > currentTerm[s] THEN Nil
                                               ELSE @]
        /\ IF m.term > currentTerm[s] THEN BecomeFollower(s)
                                      ELSE UNCHANGED <<state, lateCheck>>
        /\ Respond(m, [type |-> "RequestVoteReply", src |-> s, dst |-> m.src,
                       argsTerm |-> m.term, term |-> currentTerm[s],
                       voteGranted |-> grant])
        /\ UNCHANGED <<log, lastIncludedIndex, lastIncludedTerm, commitIndex, leaderVars,
                       votesReceived, elections, restartVars, voters>>
        /\ persist(s)

\* A reply with a higher term: the server follows in that term.
StepDown(s, t) ==
    /\ currentTerm' = [currentTerm EXCEPT ![s] = t]
    /\ votedFor' = [votedFor EXCEPT ![s] = Nil]
    /\ BecomeFollower(s)
    /\ UNCHANGED <<log, lastIncludedIndex, lastIncludedTerm, commitIndex, leaderVars,
                   votesReceived, elections, voters>>
    /\ persist(s)

initializeLeaderState(s) ==
    /\ nextIndex' = [nextIndex EXCEPT ![s] = [p \in Server |-> getLastLogIndex(s) + 1]]
    /\ matchIndex' = [matchIndex EXCEPT ![s] = Nobody]

\* votesReceived++, and the check for a majority.
CountVote(s, p) ==
    /\ votesReceived' = [votesReceived EXCEPT ![s] = @ + 1]
    /\ voters' = [voters EXCEPT ![s] = @ \cup {p}]
    /\ IF IsMajority(votesReceived[s] + 1)
       THEN /\ state' = [state EXCEPT ![s] = "Leader"]
            /\ initializeLeaderState(s)
            /\ lateCheck' \in {lateCheck, lateCheck \cup {s}}
       ELSE UNCHANGED <<state, leaderVars, lateCheck>>
    /\ UNCHANGED <<persistentVars, commitIndex, elections, persister>>

\* The body of the closure in startElection that waits for one vote.  The vote
\* that completes a majority makes the server the leader; whether its ticker
\* had read "Candidate" just before is left open.
HandleRequestVoteReply(m) ==
    LET s == m.dst
    IN  /\ m.type = "RequestVoteReply"
        /\ Discard(m)
        /\ UNCHANGED restartVars
        /\ \/ /\ state[s] # "Candidate" \/ currentTerm[s] # m.argsTerm
              /\ UNCHANGED <<persistentVars, commitIndex, leaderVars, state, electionVars,
                             persister>>
           \/ /\ state[s] = "Candidate" /\ currentTerm[s] = m.argsTerm
              /\ m.term > currentTerm[s]
              /\ StepDown(s, m.term)
           \/ /\ state[s] = "Candidate" /\ currentTerm[s] = m.argsTerm
              /\ m.term <= currentTerm[s]
              /\ ~m.voteGranted
              /\ UNCHANGED <<persistentVars, commitIndex, leaderVars, state, electionVars,
                             persister>>
           \/ /\ state[s] = "Candidate" /\ currentTerm[s] = m.argsTerm
              /\ m.term <= currentTerm[s]
              /\ m.voteGranted
              /\ CountVote(s, m.src)

-----------------------------------------------------------------------------
(* Log replication *)

\* Start, called by the service.
Start(s, c) ==
    /\ state[s] = "Leader"
    /\ getLastLogIndex(s) < MaxIndex
    /\ log' = [log EXCEPT ![s] = Append(@, [term |-> currentTerm[s], command |-> c])]
    /\ UNCHANGED <<currentTerm, votedFor, lastIncludedIndex, lastIncludedTerm, commitIndex,
                   leaderVars, state, electionVars, restartVars, calls>>
    /\ persist(s)

\* sendToFollower up to the Call: the snapshot when the follower needs an entry
\* that was trimmed, otherwise everything from nextIndex to the end of the log.
\* The goroutine may be one that an earlier heartbeat round launched.
sendToFollower(s, p) ==
    LET next == nextIndex[s][p]
        prev == next - 1
    IN  /\ p # s
        /\ state[s] = "Leader"
        /\ Room(1)
        /\ IF next <= lastIncludedIndex[s]
           THEN Send({[type |-> "InstallSnapshot", src |-> s, dst |-> p,
                       inc |-> incarnation[s], term |-> currentTerm[s],
                       lastIncludedIndex |-> lastIncludedIndex[s],
                       lastIncludedTerm |-> lastIncludedTerm[s],
                       data |-> persister[s].snapshot]})
           ELSE Send({[type |-> "AppendEntries", src |-> s, dst |-> p,
                       inc |-> incarnation[s], term |-> currentTerm[s],
                       prevLogIndex |-> prev,
                       prevLogTerm |-> IF prev = 0 THEN 0
                                       ELSE IF prev = lastIncludedIndex[s]
                                            THEN lastIncludedTerm[s]
                                            ELSE getLogTerm(s, prev),
                       entries |-> SubSeq(log[s], toArrayIndex(s, next) + 1, Len(log[s])),
                       leaderCommit |-> commitIndex[s]]})
        /\ UNCHANGED <<persistentVars, commitIndex, leaderVars, state, electionVars,
                       persister, restartVars>>

\* A slip for the runs: the follower is credited with one entry more than it got.
ResponseCreditsOneMore(m, success, conflictTerm, conflictIndex) ==
    [type |-> "AppendEntriesReply", src |-> m.dst, dst |-> m.src, argsTerm |-> m.term,
     lastSent |-> m.prevLogIndex + Len(m.entries) + 1, term |-> currentTerm[m.dst],
     success |-> success, conflictTerm |-> conflictTerm, conflictIndex |-> conflictIndex]

AppendEntriesResponse(m, success, conflictTerm, conflictIndex) ==
    [type |-> "AppendEntriesReply", src |-> m.dst, dst |-> m.src, argsTerm |-> m.term,
     lastSent |-> m.prevLogIndex + Len(m.entries), term |-> currentTerm[m.dst],
     success |-> success, conflictTerm |-> conflictTerm, conflictIndex |-> conflictIndex]

\* The term was accepted and the entry before the new ones is not there.  A
\* mismatch names the first index the follower has of the conflicting term.
RejectEntries(m) ==
    LET s == m.dst
        prev == m.prevLogIndex
        have == getLogTerm(s, prev)
        reject(t, i) == Respond(m, AppendEntriesResponse(m, FALSE, t, i))
    IN  /\ prev > 0
        /\ \/ /\ prev < lastIncludedIndex[s]
              /\ reject(-1, lastIncludedIndex[s] + 1)
           \/ /\ prev >= lastIncludedIndex[s]
              /\ prev > getLastLogIndex(s)
              /\ reject(-1, getLastLogIndex(s) + 1)
           \/ /\ prev >= lastIncludedIndex[s]
              /\ prev <= getLastLogIndex(s)
              /\ have # m.prevLogTerm
              /\ \E first \in lastIncludedIndex[s]..prev :
                    /\ \A i \in first..prev : getLogTerm(s, i) = have
                    /\ first > lastIncludedIndex[s] => getLogTerm(s, first - 1) # have
                    /\ reject(have, first)
        /\ UNCHANGED <<log, commitIndex>>

\* A slip for the runs: the term of the entry before the new ones is not compared.
EntriesReachPrev(m) ==
    m.prevLogIndex > 0 =>
        m.prevLogIndex \in lastIncludedIndex[m.dst]..getLastLogIndex(m.dst)

\* The entry before the new ones is there.
EntriesFit(m) ==
    LET s == m.dst
    IN  m.prevLogIndex > 0 =>
            /\ m.prevLogIndex \in lastIncludedIndex[s]..getLastLogIndex(s)
            /\ getLogTerm(s, m.prevLogIndex) = m.prevLogTerm

\* The first n entries of the request are in the log already (by term), and no
\* more than n.
Matching(m, n) ==
    LET s == m.dst
        present(k) == /\ m.prevLogIndex + k <= getLastLogIndex(s)
                      /\ getLogTerm(s, m.prevLogIndex + k) = m.entries[k].term
    IN  /\ \A k \in 1..n : present(k)
        /\ n < Len(m.entries) => ~present(n + 1)

\* The slice rf.log[:arrayIndex] that cuts off the conflicting entries has a
\* negative bound: the peer panics.
SlicePanic(m) ==
    /\ m.type = "AppendEntries"
    /\ m.term >= currentTerm[m.dst]
    /\ EntriesFit(m)
    /\ \E n \in 0..Len(m.entries) :
          /\ Matching(m, n)
          /\ n < Len(m.entries)
          /\ toArrayIndex(m.dst, m.prevLogIndex + n + 1) < 0

\* The entries are stored, cutting off conflicting ones; commitIndex follows
\* LeaderCommit as far as the log reaches.
StoreEntries(m) ==
    LET s == m.dst
    IN  /\ EntriesFit(m)
        /\ \E n \in 0..Len(m.entries) :
              LET cut == toArrayIndex(s, m.prevLogIndex + n + 1)
                  newLog == IF n = Len(m.entries) THEN log[s]
                            ELSE SubSeq(log[s], 1, cut) \o
                                 SubSeq(m.entries, n + 1, Len(m.entries))
                  newLast == Len(newLog) - 1 + lastIncludedIndex[s]
              IN  /\ Matching(m, n)
                  /\ log' = [log EXCEPT ![s] = newLog]
                  /\ commitIndex' = [commitIndex EXCEPT ![s] =
                        IF m.leaderCommit <= @ THEN @
                        ELSE IF m.leaderCommit > newLast THEN newLast
                        ELSE m.leaderCommit]
        /\ Respond(m, AppendEntriesResponse(m, TRUE, 0, 0))

\* AppendEntries, the handler.
AppendEntries(m) ==
    LET s == m.dst
    IN  /\ m.type = "AppendEntries"
        /\ ~SlicePanic(m)
        /\ IF m.term < currentTerm[s]
           THEN /\ Respond(m, AppendEntriesResponse(m, FALSE, 0, 0))
                /\ UNCHANGED <<currentTerm, votedFor, log, commitIndex, state, lateCheck>>
           ELSE /\ ObserveTerm(s, m.term)
                /\ BecomeFollower(s)
                /\ RejectEntries(m) \/ StoreEntries(m)
        /\ UNCHANGED <<lastIncludedIndex, lastIncludedTerm, leaderVars, votesReceived,
                       elections, restartVars, voters>>
        /\ persist(s)

\* The panic ends the process, after a newer term was persisted; the server is
\* started again from what it saved.
AppendEntriesPanic(m) ==
    LET s == m.dst
    IN  /\ SlicePanic(m)
        /\ restarts < MaxRestarts
        /\ MakeFrom(s, IF m.term > currentTerm[s]
                       THEN [persister[s] EXCEPT !.currentTerm = m.term, !.votedFor = Nil]
                       ELSE persister[s])
        /\ calls' = Unanswered(Without(m), s)

\* A slip for the runs: entries of earlier terms are committed by counting replicas.
CommittableOfAnyTerm(s, match, n) ==
    IsMajority(1 + Cardinality({p \in Server \ {s} : match[p] >= n}))

\* tryCommit: the last entry of the current term that a majority is known to have.
Committable(s, match, n) ==
    /\ getLogTerm(s, n) = currentTerm[s]
    /\ IsMajority(1 + Cardinality({p \in Server \ {s} : match[p] >= n}))

tryCommit(s, match) ==
    \E n \in commitIndex[s]..(IF getLastLogIndex(s) > commitIndex[s]
                              THEN getLastLogIndex(s) ELSE commitIndex[s]) :
        /\ n > commitIndex[s] => Committable(s, match, n)
        /\ \A k \in (n + 1)..getLastLogIndex(s) : ~Committable(s, match, k)
        /\ commitIndex' = [commitIndex EXCEPT ![s] = n]

\* n is the next index to try after a rejection.  The search for the conflicting
\* term walks array positions, and the position found is used as an index as it is.
Backtrack(s, m, n) ==
    LET positions == {k \in 1..(Len(log[s]) - 1) : log[s][k + 1].term = m.conflictTerm}
    IN  \/ /\ m.conflictTerm = -1 \/ positions = {}
           /\ n = IF m.conflictIndex < 1 THEN 1 ELSE m.conflictIndex
        \/ /\ m.conflictTerm # -1
           /\ n - 1 \in positions
           /\ \A k \in positions : k < n

\* handleAppendEntriesReply
HandleAppendEntriesReply(m) ==
    LET s == m.dst
        p == m.src
    IN  /\ m.type = "AppendEntriesReply"
        /\ Discard(m)
        /\ UNCHANGED restartVars
        /\ \/ /\ state[s] # "Leader" \/ currentTerm[s] # m.argsTerm
              /\ UNCHANGED <<persistentVars, commitIndex, leaderVars, state, electionVars,
                             persister>>
           \/ /\ state[s] = "Leader" /\ currentTerm[s] = m.argsTerm
              /\ m.term > currentTerm[s]
              /\ StepDown(s, m.term)
           \/ /\ state[s] = "Leader" /\ currentTerm[s] = m.argsTerm
              /\ m.term <= currentTerm[s]
              /\ m.success
              /\ nextIndex' = [nextIndex EXCEPT ![s][p] = m.lastSent + 1]
              /\ matchIndex' = [matchIndex EXCEPT ![s][p] = m.lastSent]
              /\ tryCommit(s, [matchIndex[s] EXCEPT ![p] = m.lastSent])
              /\ UNCHANGED <<persistentVars, state, electionVars, persister>>
           \/ /\ state[s] = "Leader" /\ currentTerm[s] = m.argsTerm
              /\ m.term <= currentTerm[s]
              /\ ~m.success
              /\ \E n \in 1..Len(log[s]) \cup {1, m.conflictIndex} :
                    /\ Backtrack(s, m, n)
                    /\ nextIndex' = [nextIndex EXCEPT ![s][p] = n]
              /\ UNCHANGED <<persistentVars, commitIndex, matchIndex, state, electionVars,
                             persister>>

-----------------------------------------------------------------------------
(* Snapshots *)

\* The entries a server stands for: those its snapshot summarises, then its log.
FullLog(s) == persister[s].snapshot \o Tail(log[s])

\* A slip for the runs: the slice kept starts one entry too late.
SnapshotDropsOneMore(s, index) ==
    LET arrayIndex == toArrayIndex(s, index)
        term == log[s][arrayIndex + 1].term
    IN  /\ index > lastIncludedIndex[s] /\ index <= commitIndex[s] /\ arrayIndex < Len(log[s])
        /\ log' = [log EXCEPT ![s] = <<Placeholder(term)>> \o
                                     SubSeq(@, arrayIndex + 3, Len(@))]
        /\ lastIncludedIndex' = [lastIncludedIndex EXCEPT ![s] = index]
        /\ lastIncludedTerm' = [lastIncludedTerm EXCEPT ![s] = term]
        /\ UNCHANGED <<currentTerm, votedFor, commitIndex, leaderVars, state, electionVars,
                       restartVars, calls>>
        /\ persister' = [persister EXCEPT ![s] = Saved(s, SubSeq(FullLog(s), 1, index))]

\* Snapshot, called by the service for an index it has applied.  The service's
\* state at that index is represented by the entries that produced it.
Snapshot(s, index) ==
    LET arrayIndex == toArrayIndex(s, index)
        term == log[s][arrayIndex + 1].term
    IN  /\ index > lastIncludedIndex[s]
        /\ index <= commitIndex[s]
        /\ arrayIndex < Len(log[s])
        /\ log' = [log EXCEPT ![s] = <<Placeholder(term)>> \o
                                     SubSeq(@, arrayIndex + 2, Len(@))]
        /\ lastIncludedIndex' = [lastIncludedIndex EXCEPT ![s] = index]
        /\ lastIncludedTerm' = [lastIncludedTerm EXCEPT ![s] = term]
        /\ UNCHANGED <<currentTerm, votedFor, commitIndex, leaderVars, state, electionVars,
                       restartVars, calls>>
        /\ persister' = [persister EXCEPT ![s] = Saved(s, SubSeq(FullLog(s), 1, index))]

\* InstallSnapshot, the handler.  An older snapshot is ignored; a newer one
\* replaces the log up to its index and keeps what follows.
InstallSnapshot(m) ==
    LET s == m.dst
        index == m.lastIncludedIndex
        kept == SubSeq(log[s], toArrayIndex(s, index + 1) + 1, Len(log[s]))
    IN  /\ m.type = "InstallSnapshot"
        /\ ObserveTerm(s, m.term)
        /\ IF m.term > currentTerm[s] THEN BecomeFollower(s)
                                      ELSE UNCHANGED <<state, lateCheck>>
        /\ IF m.term < currentTerm[s] \/ index <= lastIncludedIndex[s]
           THEN /\ UNCHANGED <<log, lastIncludedIndex, lastIncludedTerm, commitIndex>>
                /\ persist(s)
           ELSE /\ log' = [log EXCEPT ![s] = <<Placeholder(m.lastIncludedTerm)>> \o kept]
                /\ lastIncludedIndex' = [lastIncludedIndex EXCEPT ![s] = index]
                /\ lastIncludedTerm' = [lastIncludedTerm EXCEPT ![s] = m.lastIncludedTerm]
                /\ commitIndex' = [commitIndex EXCEPT ![s] = IF index > @ THEN index ELSE @]
                /\ persister' = [persister EXCEPT ![s] = Saved(s, m.data)]
        /\ Respond(m, [type |-> "InstallSnapshotReply", src |-> s, dst |-> m.src,
                       argsTerm |-> m.term, lastIncludedIndex |-> index,
                       term |-> currentTerm[s]])
        /\ UNCHANGED <<leaderVars, votesReceived, elections, restartVars, voters>>

\* The rest of sendToFollower after the InstallSnapshot call.  A higher term is
\* looked at before the state, whatever the server is by now.
HandleInstallSnapshotReply(m) ==
    LET s == m.dst
        p == m.src
    IN  /\ m.type = "InstallSnapshotReply"
        /\ Discard(m)
        /\ UNCHANGED restartVars
        /\ \/ /\ m.term > currentTerm[s]
              /\ StepDown(s, m.term)
           \/ /\ m.term <= currentTerm[s]
              /\ state[s] = "Leader" /\ currentTerm[s] = m.argsTerm
              /\ nextIndex' = [nextIndex EXCEPT ![s][p] = m.lastIncludedIndex + 1]
              /\ matchIndex' = [matchIndex EXCEPT ![s][p] = m.lastIncludedIndex]
              /\ UNCHANGED <<persistentVars, commitIndex, state, electionVars, persister>>
           \/ /\ m.term <= currentTerm[s]
              /\ state[s] # "Leader" \/ currentTerm[s] # m.argsTerm
              /\ UNCHANGED <<persistentVars, commitIndex, leaderVars, state, electionVars,
                             persister>>

-----------------------------------------------------------------------------
(* Call returns false: the request or the reply was lost. *)
LoseCall(m) ==
    /\ Discard(m)
    /\ UNCHANGED <<persistentVars, commitIndex, leaderVars, state, electionVars,
                   persister, restartVars>>

ServerStep(s) ==
    \/ Restart(s)
    \/ checkElectionTimeout(s)
    \/ startElection(s)
    \/ \E c \in Command : Start(s, c)
    \/ \E p \in Server : sendToFollower(s, p)
    \/ \E i \in SnapshotIndex : Snapshot(s, i)

MessageStep(m) ==
    \/ RestartInHandler(m)
    \/ RequestVote(m)
    \/ HandleRequestVoteReply(m)
    \/ AppendEntries(m)
    \/ AppendEntriesPanic(m)
    \/ HandleAppendEntriesReply(m)
    \/ InstallSnapshot(m)
    \/ HandleInstallSnapshotReply(m)
    \/ LoseCall(m)

Next ==
    \/ \E s \in Server : ServerStep(s)
    \/ \E m \in DOMAIN calls : MessageStep(m)

Spec == Init /\ [][Next]_vars

-----------------------------------------------------------------------------
(* Properties *)

\* Every field has the type of its Go declaration, and the bag of calls holds
\* the argument and reply structures of the three RPCs.
TypeOK ==
    /\ currentTerm \in [Server -> Nat]
    /\ votedFor \in [Server -> Server \cup {Nil}]
    /\ log \in [Server -> Seq(LogEntry)]
    /\ lastIncludedIndex \in [Server -> Nat]
    /\ lastIncludedTerm \in [Server -> Nat]
    /\ commitIndex \in [Server -> Nat]
    /\ nextIndex \in [Server -> [Server -> Nat]]
    /\ matchIndex \in [Server -> [Server -> Nat]]
    /\ state \in [Server -> States]
    /\ votesReceived \in [Server -> Nat]
    /\ elections \in [Server -> Nat]
    /\ lateCheck \subseteq Server
    /\ persister \in [Server -> [currentTerm : Nat, votedFor : Server \cup {Nil},
                                  log : Seq(LogEntry), lastIncludedIndex : Nat,
                                  lastIncludedTerm : Nat, snapshot : Seq(LogEntry)]]
    /\ restarts \in Nat
    /\ incarnation \in [Server -> Nat]
    /\ calls \in [DOMAIN calls -> Nat \ {0}]
    /\ DOMAIN calls \subseteq Message
    /\ voters \in [Server -> SUBSET Server]

\* At most one leader per term, the promise behind GetState's answer: votes are
\* given once per term, also by a voter that crashed in between, and a candidate
\* counts only the votes of its own term.
ElectionSafety ==
    \A s, t \in Server :
        state[s] = "Leader" /\ state[t] = "Leader" /\ currentTerm[s] = currentTerm[t]
            => s = t

\* Logs that have an entry of the same term at an index are equal up to it: the
\* consistency check of AppendEntries and the cutting of conflicting suffixes.
\* (Stated for logs that were not replaced by a leader's snapshot.)
LogMatching ==
    \A s, t \in Server :
        LET k == FullLog(s)
            l == FullLog(t)
        IN  \A i \in DOMAIN k \cap DOMAIN l :
                k[i].term = l[i].term => SubSeq(k, 1, i) = SubSeq(l, 1, i)

\* What two servers regard as committed agrees, so their services apply the same
\* commands at the same indices.
StateMachineSafety ==
    \A s \in Server : \A t \in Server \ {s} :
        LET k == FullLog(s)
            l == FullLog(t)
        IN  \A i \in 1..commitIndex[s] : i <= commitIndex[t] => k[i] = l[i]

\* A leader has every entry that a server of its term or of an earlier one knows
\* to be committed: the up-to-date check of RequestVote.
LeaderCompleteness ==
    \A s, t \in Server :
        state[s] = "Leader" /\ currentTerm[s] >= currentTerm[t]
            => \A i \in 1..commitIndex[t] :
                    i \in DOMAIN FullLog(s) /\ FullLog(s)[i] = FullLog(t)[i]

\* The entries a server would have if it were restarted now.
SavedLog(s) == persister[s].snapshot \o Tail(persister[s].log)

\* An entry that some server regards as committed is on the persisters of a
\* majority, where crashes cannot reach it: AppendEntries persists before it
\* answers and tryCommit counts the answers.
CommittedOnMajority ==
    LET saved == [p \in Server |-> SavedLog(p)]
    IN  \A s \in Server : \A i \in 1..commitIndex[s] :
            LET holders == {p \in Server : i \in DOMAIN saved[p]
                                              /\ saved[p][i] = FullLog(s)[i]}
            IN  IsMajority(Cardinality(holders))

\* The applier reads the entries lastIncludedIndex+1 .. commitIndex and skips what
\* it does not find: they are all in the log, and the snapshot that precedes them
\* is the one on the persister.
CommitWithinLog ==
    \A s \in Server :
        /\ commitIndex[s] \in lastIncludedIndex[s]..getLastLogIndex(s)
        /\ Len(persister[s].snapshot) = lastIncludedIndex[s]

\* What a leader counts in tryCommit is true: as long as the follower has not moved
\* to another term, its log agrees with the leader's up to matchIndex, whatever
\* replies were lost or overtaken and whether or not it restarted.
MatchIndexTruthful ==
    \A s, p \in Server :
        state[s] = "Leader" /\ p # s /\ currentTerm[p] = currentTerm[s] =>
            LET n == matchIndex[s][p]
                saved == SavedLog(p)
                own == FullLog(s)
            IN  /\ n <= Len(saved) /\ n <= Len(own)
                /\ SubSeq(saved, 1, n) = SubSeq(own, 1, n)

\* sendToFollower never skips an entry: nextIndex stays between 1 and the index
\* after the leader's last entry, however old the rejection was that set it.
NextIndexInRange ==
    \A s, p \in Server :
        state[s] = "Leader" => nextIndex[s][p] \in 1..(getLastLogIndex(s) + 1)

\* Entries that are in the log, or in the snapshot, are no conflict
\* ("只在有冲突时才删除" in AppendEntries): no request makes the slicing fail.
NoSlicePanic == \A m \in DOMAIN calls : ~SlicePanic(m)

\* A term never goes back and a vote is never taken back within its term, not even
\* by a crash: both are persisted before the handler returns.
VoteOnce ==
    [][\A s \in Server :
         /\ currentTerm'[s] >= currentTerm[s]
         /\ currentTerm'[s] = currentTerm[s] /\ votedFor[s] # Nil
                => votedFor'[s] = votedFor[s]]_vars

\* Once committed, never lost ("一旦提交，永不丢失", Lab3B-Summary.md): no step of
\* the server, a crash included, changes an entry it regards as committed, and
\* only a crash takes commitIndex back.
CommittedForever ==
    [][\A s \in Server :
         /\ \A i \in 1..commitIndex[s] :
               i \in DOMAIN FullLog(s)' /\ FullLog(s)'[i] = FullLog(s)[i]
         /\ incarnation'[s] = incarnation[s] => commitIndex'[s] >= commitIndex[s]]_vars

\* A leader only appends to its own log, in all of its term, also when it trims
\* the log or when a request of another leader reaches it.
LeaderAppendOnly ==
    [][\A s \in Server :
         state[s] = "Leader" /\ state'[s] = "Leader" /\ currentTerm'[s] = currentTerm[s]
            => LET own == FullLog(s)
                   new == FullLog(s)'
               IN  Len(new) >= Len(own) /\ SubSeq(new, 1, Len(own)) = own]_vars

-----------------------------------------------------------------------------
(* Inductive invariants, proved in RaftProofs and RaftElectionProofs. *)

\* Memory and disk: whenever rf.mu is free the persister holds the fields as they
\* are in memory, the log has its placeholder, and the snapshot reaches exactly
\* to lastIncludedIndex, on the disk and in every InstallSnapshot request.
StorageInv ==
    /\ \A s \in Server :
          /\ persister[s].currentTerm = currentTerm[s]
          /\ persister[s].votedFor = votedFor[s]
          /\ persister[s].log = log[s]
          /\ persister[s].lastIncludedIndex = lastIncludedIndex[s]
          /\ persister[s].lastIncludedTerm = lastIncludedTerm[s]
          /\ Len(persister[s].snapshot) = lastIncludedIndex[s]
          /\ Len(log[s]) > 0
    /\ \A m \in DOMAIN calls :
          m.type = "InstallSnapshot" => Len(m.data) = m.lastIncludedIndex

\* A RequestVote call of candidate c to peer p in term t, on its way there or back.
IsVoteCall(m, c, p, t) ==
    \/ m.type = "RequestVote" /\ m.src = c /\ m.dst = p /\ m.term = t
    \/ m.type = "RequestVoteReply" /\ m.dst = c /\ m.src = p /\ m.argsTerm = t

\* Server c stands, or has been elected, in its current term, and has asked for votes.
Stands(c) == state[c] # "Follower" /\ elections[c] = 0

\* The votes that were granted and are on their way, or are counted.
Votes ==
    {[voter |-> m.src, candidate |-> m.dst, term |-> m.argsTerm] :
        m \in {n \in DOMAIN calls : n.type = "RequestVoteReply" /\ n.voteGranted}}
    \cup UNION {{[voter |-> p, candidate |-> c, term |-> currentTerm[c]] : p \in voters[c]} :
                    c \in {d \in Server : Stands(d)}}

\* The call m of candidate c to peer p in term t is the only one, of this term or an
\* earlier one, and the candidate has not counted the peer yet.
OnlyCall(m, c, p, t) ==
    /\ calls[m] = 1
    /\ \A n \in DOMAIN calls : IsVoteCall(n, c, p, t) => n = m
    /\ t <= currentTerm[c]
    /\ t = currentTerm[c] => elections[c] = 0 /\ ~(Stands(c) /\ p \in voters[c])

\* Why there is one leader per term when at most one startElection of a server
\* is pending: a vote pins the voter's term and votedFor, no two votes of a peer
\* in a term differ, and each peer is asked once per term, so that votesReceived
\* counts different peers.
ElectionInv ==
    /\ \A s \in Server :
          /\ state[s] # "Follower" => votedFor[s] = s
          /\ state[s] = "Leader" => elections[s] = 0 /\ IsMajority(Cardinality(voters[s]))
          /\ elections[s] <= 1
          /\ Stands(s) => votesReceived[s] = Cardinality(voters[s])
    /\ \A v \in Votes :
          /\ currentTerm[v.voter] >= v.term
          /\ currentTerm[v.voter] = v.term => votedFor[v.voter] = v.candidate
          /\ \A w \in Votes : w.voter = v.voter /\ w.term = v.term => w = v
    /\ \A m \in DOMAIN calls :
          /\ m.type = "RequestVote" => OnlyCall(m, m.src, m.dst, m.term)
          /\ m.type = "RequestVoteReply" => OnlyCall(m, m.dst, m.src, m.argsTerm)

=============================================================================
