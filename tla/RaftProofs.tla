----------------------------- MODULE RaftProofs -----------------------------
(***************************************************************************)
(* Types and storage of Raft for any number of servers, commands, terms,   *)
(* indices, calls in flight and restarts: the lemmas about the bag of      *)
(* calls and about saving, one lemma per action, and the theorem.          *)
(***************************************************************************)
EXTENDS RaftTypes, TLAPS

USE SMTT(30)

-----------------------------------------------------------------------------
(* Sequences *)

\* A sequence has its elements at the positions from 1 to its length.
LEMMA SeqElements ==
    ASSUME NEW S, NEW q \in Seq(S)
    PROVE  /\ Len(q) \in Nat /\ DOMAIN q = 1..Len(q)
           /\ \A i \in 1..Len(q) : q[i] \in S
OBVIOUS

\* A part of a sequence.
LEMMA SeqPart ==
    ASSUME NEW S, NEW q \in Seq(S), NEW a \in Int, a >= 1, NEW b \in Int,
           \A i \in a..b : q[i] \in S
    PROVE  /\ SubSeq(q, a, b) \in Seq(S)
           /\ Len(SubSeq(q, a, b)) = IF a <= b THEN b - a + 1 ELSE 0
OBVIOUS

\* Two sequences, one after the other.
LEMMA SeqJoined ==
    ASSUME NEW S, NEW q \in Seq(S), NEW r \in Seq(S)
    PROVE  /\ q \o r \in Seq(S)
           /\ Len(q \o r) = Len(q) + Len(r)
           /\ \A i \in 1..Len(q) + Len(r) :
                 (q \o r)[i] = IF i <= Len(q) THEN q[i] ELSE r[i - Len(q)]
OBVIOUS

\* A sequence without its first element.
LEMMA SeqTail ==
    ASSUME NEW S, NEW q \in Seq(S), q # << >>
    PROVE  /\ Tail(q) \in Seq(S)
           /\ Len(Tail(q)) = Len(q) - 1
           /\ \A i \in 1..Len(Tail(q)) : Tail(q)[i] = q[i + 1]
OBVIOUS

-----------------------------------------------------------------------------
(* The bag of calls *)

\* Sending puts the new messages into the bag and loses none.
LEMMA SendBag ==
    ASSUME NEW B, CallsOK(B), NEW S, S \subseteq GoodMessage
    PROVE  CallsOK(With(B, S))
BY DEF CallsOK, With

\* Taking a message out of the bag keeps it well-formed.
LEMMA RemoveBag ==
    ASSUME CallsOK(calls), NEW m
    PROVE  CallsOK(Without(m))
BY DEF CallsOK, Without

\* So does dropping the messages of a restarted server.
LEMMA FilterBag ==
    ASSUME NEW B, CallsOK(B), NEW s
    PROVE  CallsOK(Unanswered(B, s))
BY Zenon DEF CallsOK, Unanswered

\* Discard and Respond keep the bag well-formed.
LEMMA DiscardOK ==
    ASSUME CallsOK(calls), NEW m, Discard(m)
    PROVE  CallsOK(calls')
BY Zenon, RemoveBag DEF Discard

\* Answering a call replaces it by its reply.
LEMMA RespondOK ==
    ASSUME CallsOK(calls), NEW m, NEW r \in GoodMessage, Respond(m, r)
    PROVE  CallsOK(calls')
BY Zenon, RemoveBag, SendBag, {r} \subseteq GoodMessage DEF Respond

-----------------------------------------------------------------------------
(* Memory and disk *)

SameFields(s) ==
    /\ currentTerm'[s] = currentTerm[s]
    /\ votedFor'[s] = votedFor[s]
    /\ log'[s] = log[s]
    /\ lastIncludedIndex'[s] = lastIncludedIndex[s]
    /\ lastIncludedTerm'[s] = lastIncludedTerm[s]

\* A Save of the fields after the step, with a snapshot that fits them, leaves
\* memory and disk in agreement.
LEMMA SaveOK ==
    ASSUME FieldsOK, FieldsOK', DiskOK, NEW s \in Server, NEW snapshot \in Seq(LogEntry),
           \A t \in Server \ {s} : SameFields(t),
           Len(log'[s]) > 0, Len(snapshot) = lastIncludedIndex'[s],
           persister' = [persister EXCEPT ![s] = Saved(s, snapshot)]
    PROVE  DiskOK'
<1>1. Saved(s, snapshot) \in SavedState
  BY Zenon DEF Saved, SavedState, FieldsOK
<1>2. persister' \in [Server -> SavedState]
  BY Zenon, <1>1 DEF DiskOK
<1>3. Mirrors(s)'
  BY Zenon DEF Mirrors, Saved, DiskOK
<1>4. ASSUME NEW t \in Server \ {s} PROVE Mirrors(t)'
  BY Zenon DEF Mirrors, SameFields, DiskOK
<1>. QED  BY Zenon, <1>2, <1>3, <1>4 DEF DiskOK

\* persist keeps the snapshot that is on the disk.
LEMMA PersistOK ==
    ASSUME FieldsOK, FieldsOK', DiskOK, NEW s \in Server,
           \A t \in Server \ {s} : SameFields(t),
           Len(log'[s]) > 0, lastIncludedIndex'[s] = lastIncludedIndex[s],
           persist(s)
    PROVE  DiskOK'
<1>1. persister[s].snapshot \in Seq(LogEntry)
  BY Zenon DEF DiskOK, SavedState
<1>2. Len(persister[s].snapshot) = lastIncludedIndex'[s]
  BY Zenon DEF DiskOK, Mirrors
<1>. QED  BY Zenon, <1>1, <1>2, SaveOK DEF persist

\* A step that changes no persistent field and saves nothing.
LEMMA NoSaveOK ==
    ASSUME FieldsOK, DiskOK, UNCHANGED <<persistentVars, persister>>
    PROVE  FieldsOK' /\ DiskOK'
BY Zenon DEF FieldsOK, DiskOK, Mirrors, SavedState, persistentVars

-----------------------------------------------------------------------------
(* Types *)

\* The groups together are the invariants the runs check.
LEMMA TypeInvSplit == TypeInv => TypeOK /\ StorageInv
<1>. SUFFICES ASSUME TypeInv PROVE TypeOK /\ StorageInv
  BY Zenon
<1>1. \A m \in DOMAIN calls :
         m \in Message /\ (m.type = "InstallSnapshot" => Len(m.data) = m.lastIncludedIndex)
  BY Zenon DEF TypeInv, CallsOK, GoodMessage
<1>2. StorageInv
  BY Zenon, <1>1 DEF StorageInv, TypeInv, DiskOK, Mirrors
<1>3. TypeOK
  BY Zenon, <1>1 DEF TypeOK, TypeInv, FieldsOK, DiskOK, VolatileOK, CallsOK, SavedState
<1>. QED  BY Zenon, <1>2, <1>3

\* Members of Message by their type.
LEMMA MessageTypes ==
    ASSUME NEW m \in Message
    PROVE  /\ m.type = "RequestVote" => m \in RequestVoteArgs
           /\ m.type = "RequestVoteReply" => m \in RequestVoteReply
           /\ m.type = "AppendEntries" => m \in AppendEntriesArgs
           /\ m.type = "AppendEntriesReply" => m \in AppendEntriesReply
           /\ m.type = "InstallSnapshot" => m \in InstallSnapshotArgs
           /\ m.type = "InstallSnapshotReply" => m \in InstallSnapshotReply
           /\ m.dst \in Server /\ m.src \in Server /\ m.term \in Nat
BY Zenon DEF Message, Request, Reply, RequestVoteArgs, AppendEntriesArgs, InstallSnapshotArgs,
       RequestVoteReply, AppendEntriesReply, InstallSnapshotReply

\* Messages other than snapshots are well-formed when they are typed.
LEMMA GoodMessages ==
    /\ RequestVoteArgs \cup AppendEntriesArgs \cup Reply \subseteq GoodMessage
    /\ \A m \in InstallSnapshotArgs : Len(m.data) = m.lastIncludedIndex => m \in GoodMessage
BY Zenon DEF GoodMessage, Message, Request, Reply, RequestVoteArgs, AppendEntriesArgs,
       InstallSnapshotArgs, RequestVoteReply, AppendEntriesReply, InstallSnapshotReply

\* Every server starts typed, with its initial state on disk.
LEMMA InitTypes == Init => TypeInv
<1>. SUFFICES ASSUME Init PROVE TypeInv
  BY Zenon
<1>1. Placeholder(0) \in LogEntry
  BY Zenon DEF Placeholder, LogEntry
<1>2. Empty \in SavedState /\ Len(Empty.log) = 1 /\ Len(Empty.snapshot) = 0
  BY <1>1 DEF Empty, SavedState
<1>3. FieldsOK /\ VolatileOK
  BY Zenon, <1>2 DEF Init, StartFrom, FieldsOK, VolatileOK, SavedState, Nobody, States
<1>4. DiskOK
  BY <1>2 DEF Init, StartFrom, DiskOK, Mirrors, Empty
<1>5. CallsOK(calls)
  BY DEF Init, StartFrom, CallsOK
<1>. QED  BY Zenon, <1>3, <1>4, <1>5 DEF TypeInv

-----------------------------------------------------------------------------
(* Each action keeps the types. *)

\* Make restores from disk what readPersist reads (raft.go:155, 1101).
LEMMA MakeFromTypes ==
    ASSUME TypeInv, NEW s \in Server, NEW saved \in SavedState, MakeFrom(s, saved),
           Len(saved.log) > 0, Len(saved.snapshot) = saved.lastIncludedIndex
    PROVE  FieldsOK' /\ DiskOK' /\ VolatileOK'
<1>1. FieldsOK'
  BY Zenon DEF TypeInv, FieldsOK, SavedState, MakeFrom
<1>2. VolatileOK'
  <2>1. Nobody \in [Server -> Nat] /\ saved.lastIncludedIndex \in Nat
    BY Zenon DEF SavedState, Nobody
  <2>2. commitIndex' \in [Server -> Nat] /\ nextIndex' \in [Server -> [Server -> Nat]]
        /\ matchIndex' \in [Server -> [Server -> Nat]]
    BY Zenon, <2>1 DEF TypeInv, VolatileOK, MakeFrom
  <2>3. state' \in [Server -> States] /\ lateCheck' \subseteq Server 
    BY Zenon DEF TypeInv, VolatileOK, MakeFrom, States
  <2>5. votesReceived' \in [Server -> Nat] /\ elections' \in [Server -> Nat]
    BY Zenon DEF TypeInv, VolatileOK, MakeFrom
  <2>6. restarts' \in Nat /\ incarnation' \in [Server -> Nat]
    BY DEF TypeInv, VolatileOK, MakeFrom
  <2>7. voters' \in [Server -> SUBSET Server]
    BY Zenon DEF TypeInv, VolatileOK, MakeFrom
  <2>. QED  BY Zenon, <2>2, <2>3, <2>5, <2>6, <2>7 DEF VolatileOK
<1>3. persister' \in [Server -> SavedState]
  BY Zenon DEF TypeInv, DiskOK, MakeFrom
<1>4. Mirrors(s)'
  BY Zenon DEF TypeInv, FieldsOK, DiskOK, Mirrors, MakeFrom
<1>5. ASSUME NEW t \in Server \ {s} PROVE Mirrors(t)'
  BY Zenon DEF TypeInv, FieldsOK, DiskOK, Mirrors, MakeFrom
<1>. QED  BY Zenon, <1>1, <1>2, <1>3, <1>4, <1>5 DEF DiskOK

\* A restart keeps types and leaves memory equal to the disk.
LEMMA RestartTypes ==
    ASSUME TypeInv, NEW s \in Server, Restart(s)
    PROVE  TypeInv'
<1>1. persister[s] \in SavedState /\ Len(persister[s].log) > 0
      /\ Len(persister[s].snapshot) = persister[s].lastIncludedIndex
  BY Zenon DEF TypeInv, DiskOK, Mirrors
<1>2. FieldsOK' /\ DiskOK' /\ VolatileOK'
  BY Zenon, <1>1, MakeFromTypes DEF Restart
<1>3. CallsOK(calls')
  BY Zenon, FilterBag DEF Restart, TypeInv
<1>. QED  BY Zenon, <1>2, <1>3 DEF TypeInv

\* What a handler has on disk after it saved a newer term.
LEMMA NewTermSaved ==
    ASSUME TypeInv, NEW s \in Server, NEW t \in Nat
    PROVE  LET saved == [persister[s] EXCEPT !.currentTerm = t, !.votedFor = Nil]
           IN  /\ saved \in SavedState
               /\ Len(saved.log) > 0
               /\ Len(saved.snapshot) = saved.lastIncludedIndex
<1>1. persister[s] \in SavedState /\ Len(persister[s].log) > 0
      /\ Len(persister[s].snapshot) = persister[s].lastIncludedIndex
  BY Zenon DEF TypeInv, DiskOK, Mirrors
<1>. QED  BY ZenonT(30), <1>1 DEF SavedState

\* So does a restart inside a handler that has just saved its new term.
LEMMA RestartInHandlerTypes ==
    ASSUME TypeInv, NEW m \in DOMAIN calls, RestartInHandler(m)
    PROVE  TypeInv'
<1>1. m \in Message /\ m.dst \in Server /\ m.term \in Nat
  BY Zenon, MessageTypes DEF TypeInv, CallsOK, GoodMessage
<1>2. FieldsOK' /\ DiskOK' /\ VolatileOK'
  BY Zenon, <1>1, NewTermSaved, MakeFromTypes DEF RestartInHandler
<1>3. CallsOK(calls')
  BY Zenon, RemoveBag, FilterBag DEF RestartInHandler, TypeInv
<1>. QED  BY Zenon, <1>2, <1>3 DEF TypeInv

\* So does the crash in AppendEntries' slice expression (raft.go:456).
LEMMA AppendEntriesPanicTypes ==
    ASSUME TypeInv, NEW m \in DOMAIN calls, AppendEntriesPanic(m)
    PROVE  TypeInv'
<1>1. m \in Message /\ m.dst \in Server /\ m.term \in Nat
  BY Zenon, MessageTypes DEF TypeInv, CallsOK, GoodMessage
<1>2. persister[m.dst] \in SavedState /\ Len(persister[m.dst].log) > 0
      /\ Len(persister[m.dst].snapshot) = persister[m.dst].lastIncludedIndex
  BY Zenon, <1>1 DEF TypeInv, DiskOK, Mirrors
<1>3. FieldsOK' /\ DiskOK' /\ VolatileOK'
  BY ZenonT(30), <1>1, <1>2, NewTermSaved, MakeFromTypes DEF AppendEntriesPanic
<1>4. CallsOK(calls')
  BY Zenon, RemoveBag, FilterBag DEF AppendEntriesPanic, TypeInv
<1>. QED  BY Zenon, <1>3, <1>4 DEF TypeInv

\* The timeout's new term and vote are saved at once (raft.go:674).
LEMMA checkElectionTimeoutTypes ==
    ASSUME TypeInv, NEW s \in Server, checkElectionTimeout(s)
    PROVE  TypeInv'
<1>1. FieldsOK'
  BY DEF TypeInv, FieldsOK, checkElectionTimeout
<1>2. \A t \in Server \ {s} : SameFields(t)
  BY Zenon DEF TypeInv, FieldsOK, checkElectionTimeout, SameFields
<1>3. Len(log'[s]) > 0 /\ lastIncludedIndex'[s] = lastIncludedIndex[s]
  BY Zenon DEF TypeInv, DiskOK, Mirrors, checkElectionTimeout
<1>4. DiskOK'
  BY Zenon, <1>1, <1>2, <1>3, PersistOK DEF TypeInv, checkElectionTimeout
<1>5. VolatileOK'
  BY DEF TypeInv, VolatileOK, checkElectionTimeout, States, leaderVars, restartVars
<1>. QED  BY Zenon, <1>1, <1>4, <1>5 DEF TypeInv, checkElectionTimeout

\* The vote calls startElection sends are well formed (raft.go:699).
LEMMA startElectionTypes ==
    ASSUME TypeInv, NEW s \in Server, startElection(s)
    PROVE  TypeInv'
<1>1. FieldsOK' /\ DiskOK'
  BY Zenon, NoSaveOK DEF TypeInv, startElection
<1>2. VolatileOK'
  BY DEF TypeInv, VolatileOK, startElection, leaderVars, restartVars
<1>3. getLastLogIndex(s) \in Nat /\ getLastLogTerm(s) \in Nat
  <2>1. log[s] \in Seq(LogEntry) /\ Len(log[s]) \in Nat /\ Len(log[s]) > 0
        /\ lastIncludedIndex[s] \in Nat
    BY DEF TypeInv, FieldsOK, DiskOK, Mirrors
  <2>2. log[s][Len(log[s])] \in LogEntry
    BY <2>1
  <2>. QED  BY <2>1, <2>2 DEF getLastLogIndex, getLastLogTerm, LogEntry
<1>4. ASSUME NEW p \in Server
      PROVE  [type |-> "RequestVote", src |-> s, dst |-> p, inc |-> incarnation[s],
              term |-> currentTerm[s], lastLogIndex |-> getLastLogIndex(s),
              lastLogTerm |-> getLastLogTerm(s)] \in RequestVoteArgs
  BY Zenon, <1>3 DEF RequestVoteArgs, TypeInv, FieldsOK, VolatileOK
<1>5. CallsOK(calls')
  <2>1. {[type |-> "RequestVote", src |-> s, dst |-> p, inc |-> incarnation[s],
          term |-> currentTerm[s], lastLogIndex |-> getLastLogIndex(s),
          lastLogTerm |-> getLastLogTerm(s)] : p \in Server \ {s}} \subseteq GoodMessage
    BY Zenon, <1>4, GoodMessages
  <2>. QED  BY Zenon, <2>1, SendBag DEF startElection, Send, TypeInv
<1>. QED  BY Zenon, <1>1, <1>2, <1>5 DEF TypeInv

\* The facts about a message in flight that the lemmas below start from.
LEMMA InFlight ==
    ASSUME TypeInv, NEW m \in DOMAIN calls
    PROVE  m \in GoodMessage /\ m \in Message /\ m.dst \in Server /\ m.src \in Server
           /\ m.term \in Nat
BY Zenon, MessageTypes DEF TypeInv, CallsOK, GoodMessage

\* RequestVote saves the vote it gives (raft.go:323).
LEMMA RequestVoteTypes ==
    ASSUME TypeInv, NEW m \in DOMAIN calls, RequestVote(m)
    PROVE  TypeInv'
<1>. DEFINE s == m.dst
            free == m.term > currentTerm[s] \/ votedFor[s] \in {Nil, m.src}
            grant == m.term >= currentTerm[s] /\ free /\ logIsAtLeastAsUpToDate(m)
            reply == [type |-> "RequestVoteReply", src |-> s, dst |-> m.src,
                      argsTerm |-> m.term, term |-> currentTerm[s], voteGranted |-> grant]
<1>1. s \in Server /\ m.src \in Server /\ m.term \in Nat
  BY Zenon, InFlight
<1>2. FieldsOK'
  BY Zenon, <1>1 DEF TypeInv, FieldsOK, RequestVote
<1>3. \A t \in Server \ {s} : SameFields(t)
  BY Zenon, <1>1 DEF TypeInv, FieldsOK, RequestVote, SameFields
<1>4. Len(log'[s]) > 0 /\ lastIncludedIndex'[s] = lastIncludedIndex[s]
  BY Zenon, <1>1 DEF TypeInv, DiskOK, Mirrors, RequestVote
<1>5. DiskOK'
  BY Zenon, <1>1, <1>2, <1>3, <1>4, PersistOK DEF TypeInv, RequestVote
<1>6. VolatileOK'
  <2>1. state' \in [Server -> States] /\ lateCheck' \subseteq Server
    <3>1. state \in [Server -> States] /\ lateCheck \subseteq Server
      BY Zenon DEF TypeInv, VolatileOK
    <3>2. BecomeFollower(s) \/ UNCHANGED <<state, lateCheck>>
      BY Zenon DEF RequestVote
    <3>. QED  BY Zenon, <1>1, <3>1, <3>2 DEF BecomeFollower, States
  <2>2. UNCHANGED <<commitIndex, leaderVars, votesReceived, elections, restartVars, voters>>
    BY Zenon DEF RequestVote
  <2>. QED  BY Zenon, <2>1, <2>2 DEF TypeInv, VolatileOK, leaderVars, restartVars
<1>7. reply \in GoodMessage
  <2>1. grant \in BOOLEAN
    BY Zenon DEF logIsAtLeastAsUpToDate
  <2>2. reply \in RequestVoteReply
    BY Zenon, <1>1, <2>1 DEF RequestVoteReply, TypeInv, FieldsOK
  <2>. QED  BY Zenon, <2>2, GoodMessages DEF Reply
<1>8. CallsOK(calls')
  <2>1. Respond(m, reply)
    BY Zenon DEF RequestVote
  <2>. QED  BY Zenon, <1>7, <2>1, RespondOK DEF TypeInv
<1>. QED  BY Zenon, <1>2, <1>5, <1>6, <1>8 DEF TypeInv

\* What a handler does with the term of a request (raft.go:402, 500) touches one server.
LEMMA ObserveTermTypes ==
    ASSUME TypeInv, NEW s \in Server, NEW t \in Nat, ObserveTerm(s, t)
    PROVE  /\ currentTerm' \in [Server -> Nat]
           /\ votedFor' \in [Server -> Server \cup {Nil}]
           /\ \A u \in Server \ {s} : currentTerm'[u] = currentTerm[u]
           /\ \A u \in Server \ {s} : votedFor'[u] = votedFor[u]
<1>1. currentTerm \in [Server -> Nat] /\ votedFor \in [Server -> Server \cup {Nil}]
  BY Zenon DEF TypeInv, FieldsOK
<1>. DEFINE v == IF t > currentTerm[s] THEN t ELSE currentTerm[s]
            w == IF t > currentTerm[s] THEN Nil ELSE votedFor[s]
<1>2. v \in Nat /\ w \in Server \cup {Nil}
  BY Zenon, <1>1
<1>3. currentTerm' = [currentTerm EXCEPT ![s] = v] /\ votedFor' = [votedFor EXCEPT ![s] = w]
  BY Zenon DEF ObserveTerm
<1>. HIDE DEF v, w
<1>. QED  BY Zenon, <1>1, <1>2, <1>3

\* A reply with a higher term.
LEMMA StepDownTypes ==
    ASSUME TypeInv, NEW s \in Server, NEW t \in Nat, StepDown(s, t), UNCHANGED restartVars
    PROVE  FieldsOK' /\ DiskOK' /\ VolatileOK'
<1>1. FieldsOK'
  BY Zenon DEF TypeInv, FieldsOK, StepDown
<1>2. \A u \in Server \ {s} : SameFields(u)
  BY Zenon DEF TypeInv, FieldsOK, StepDown, SameFields
<1>3. Len(log'[s]) > 0 /\ lastIncludedIndex'[s] = lastIncludedIndex[s]
  BY Zenon DEF TypeInv, DiskOK, Mirrors, StepDown
<1>4. DiskOK'
  BY Zenon, <1>1, <1>2, <1>3, PersistOK DEF TypeInv, StepDown
<1>5. VolatileOK'
  BY Zenon DEF TypeInv, VolatileOK, StepDown, BecomeFollower, States, leaderVars, restartVars
<1>. QED  BY Zenon, <1>1, <1>4, <1>5

\* The index of the last entry is a number and lies beyond the snapshot's.
LEMMA LastLogIndex ==
    ASSUME TypeInv, NEW s \in Server
    PROVE  /\ log[s] \in Seq(LogEntry) /\ Len(log[s]) \in Nat /\ Len(log[s]) > 0
           /\ lastIncludedIndex[s] \in Nat
           /\ getLastLogIndex(s) \in Nat /\ getLastLogIndex(s) >= lastIncludedIndex[s]
           /\ getLastLogIndex(s) = Len(log[s]) - 1 + lastIncludedIndex[s]
<1>1. log[s] \in Seq(LogEntry) /\ Len(log[s]) > 0 /\ lastIncludedIndex[s] \in Nat
  BY Zenon DEF TypeInv, FieldsOK, DiskOK, Mirrors
<1>2. Len(log[s]) \in Nat
  BY <1>1
<1>. QED  BY <1>1, <1>2 DEF getLastLogIndex

\* Counting a vote, and becoming leader on the last one needed (raft.go:746).
LEMMA CountVoteTypes ==
    ASSUME TypeInv, NEW s \in Server, NEW p \in Server, CountVote(s, p), UNCHANGED restartVars
    PROVE  FieldsOK' /\ DiskOK' /\ VolatileOK'
<1>1. FieldsOK' /\ DiskOK'
  BY Zenon, NoSaveOK DEF TypeInv, CountVote
<1>2. nextIndex' \in [Server -> [Server -> Nat]] /\ matchIndex' \in [Server -> [Server -> Nat]]
  <2>1. CASE initializeLeaderState(s)
    <3>1. [q \in Server |-> getLastLogIndex(s) + 1] \in [Server -> Nat]
      BY LastLogIndex
    <3>2. Nobody \in [Server -> Nat]
      BY Zenon DEF Nobody
    <3>. QED  BY Zenon, <2>1, <3>1, <3>2 DEF initializeLeaderState, TypeInv, VolatileOK
  <2>2. CASE UNCHANGED leaderVars
    BY Zenon, <2>2 DEF leaderVars, TypeInv, VolatileOK
  <2>. QED  BY Zenon, <2>1, <2>2 DEF CountVote
<1>3. state' \in [Server -> States] /\ lateCheck' \subseteq Server
  BY Zenon DEF CountVote, TypeInv, VolatileOK, States
<1>4. votesReceived' \in [Server -> Nat] /\ voters' \in [Server -> SUBSET Server]
  BY DEF CountVote, TypeInv, VolatileOK
<1>. QED  BY Zenon, <1>1, <1>2, <1>3, <1>4 DEF CountVote, TypeInv, VolatileOK, restartVars

\* The handler of a vote's reply in each of its branches (raft.go:728).
LEMMA HandleRequestVoteReplyTypes ==
    ASSUME TypeInv, NEW m \in DOMAIN calls, HandleRequestVoteReply(m)
    PROVE  TypeInv'
<1>1. m.dst \in Server /\ m.src \in Server /\ m.term \in Nat
  BY Zenon, InFlight
<1>2. CallsOK(calls')
  BY Zenon, DiscardOK DEF HandleRequestVoteReply, TypeInv
<1>3. CASE StepDown(m.dst, m.term)
  BY Zenon, <1>1, <1>2, <1>3, StepDownTypes DEF HandleRequestVoteReply, TypeInv
<1>4. CASE CountVote(m.dst, m.src)
  BY Zenon, <1>1, <1>2, <1>4, CountVoteTypes DEF HandleRequestVoteReply, TypeInv
<1>5. CASE UNCHANGED <<persistentVars, commitIndex, leaderVars, state, electionVars, persister>>
  BY Zenon, <1>2, <1>5, NoSaveOK DEF HandleRequestVoteReply, TypeInv, VolatileOK, leaderVars,
       electionVars, restartVars
<1>. QED  BY Zenon, <1>3, <1>4, <1>5 DEF HandleRequestVoteReply

\* Start appends one entry and saves it (raft.go:612).
LEMMA StartTypes ==
    ASSUME TypeInv, NEW s \in Server, NEW c \in Command, Start(s, c)
    PROVE  TypeInv'
<1>. DEFINE entry == [term |-> currentTerm[s], command |-> c]
<1>1. entry \in LogEntry
  BY Zenon DEF LogEntry, TypeInv, FieldsOK
<1>2. log[s] \in Seq(LogEntry) /\ Len(log[s]) \in Nat
  BY Zenon, LastLogIndex
<1>3. Append(log[s], entry) \in Seq(LogEntry) /\ Len(Append(log[s], entry)) = Len(log[s]) + 1
  BY <1>1, <1>2
<1>4. log' = [log EXCEPT ![s] = Append(log[s], entry)]
  BY Zenon DEF Start
<1>. HIDE DEF entry
<1>5. FieldsOK'
  BY Zenon, <1>3, <1>4 DEF TypeInv, FieldsOK, Start
<1>6. \A t \in Server \ {s} : SameFields(t)
  BY Zenon, <1>4 DEF TypeInv, FieldsOK, Start, SameFields
<1>7. Len(log'[s]) > 0 /\ lastIncludedIndex'[s] = lastIncludedIndex[s]
  BY <1>2, <1>3, <1>4 DEF TypeInv, FieldsOK, Start
<1>8. DiskOK'
  BY Zenon, <1>5, <1>6, <1>7, PersistOK DEF TypeInv, Start
<1>9. VolatileOK' /\ CallsOK(calls')
  BY Zenon DEF Start, TypeInv, VolatileOK, leaderVars, electionVars, restartVars
<1>. QED  BY Zenon, <1>5, <1>8, <1>9 DEF TypeInv

\* Any part of a log is a log, as long as it stays within it.
LEMMA SubLog ==
    ASSUME NEW e \in Seq(LogEntry), NEW i \in Int, NEW j \in Int, i >= 1, j <= Len(e)
    PROVE  SubSeq(e, i, j) \in Seq(LogEntry)
BY SeqPart, SeqElements

\* getLogTerm is a term, or -1 beyond the log (raft.go:111).
LEMMA LogTermInt ==
    ASSUME TypeInv, NEW s \in Server, NEW i \in Int
    PROVE  getLogTerm(s, i) \in Int
<1>1. ASSUME i - lastIncludedIndex[s] >= 0, i - lastIncludedIndex[s] < Len(log[s])
      PROVE  log[s][i - lastIncludedIndex[s] + 1].term \in Nat
  <2>1. log[s] \in Seq(LogEntry) /\ Len(log[s]) \in Nat /\ lastIncludedIndex[s] \in Nat
    BY Zenon, LastLogIndex
  <2>2. i - lastIncludedIndex[s] + 1 \in 1..Len(log[s])
    BY <1>1, <2>1
  <2>3. log[s][i - lastIncludedIndex[s] + 1] \in LogEntry
    BY Zenon, <2>1, <2>2, SeqElements
  <2>. QED  BY Zenon, <2>3 DEF LogEntry
<1>2. log[s] \in Seq(LogEntry) /\ Len(log[s]) \in Nat /\ lastIncludedIndex[s] \in Nat
  BY Zenon, LastLogIndex
<1>. QED  BY <1>1, <1>2 DEF getLogTerm, toArrayIndex

\* The calls sendToFollower sends are well formed (raft.go:809).
LEMMA sendToFollowerTypes ==
    ASSUME TypeInv, NEW s \in Server, NEW p \in Server, sendToFollower(s, p)
    PROVE  TypeInv'
<1>. DEFINE next == nextIndex[s][p]
            prev == next - 1
            snap == [type |-> "InstallSnapshot", src |-> s, dst |-> p,
                     inc |-> incarnation[s], term |-> currentTerm[s],
                     lastIncludedIndex |-> lastIncludedIndex[s],
                     lastIncludedTerm |-> lastIncludedTerm[s],
                     data |-> persister[s].snapshot]
            prevTerm == IF prev = 0 THEN 0
                        ELSE IF prev = lastIncludedIndex[s] THEN lastIncludedTerm[s]
                        ELSE getLogTerm(s, prev)
            rest == SubSeq(log[s], toArrayIndex(s, next) + 1, Len(log[s]))
            entries == [type |-> "AppendEntries", src |-> s, dst |-> p,
                        inc |-> incarnation[s], term |-> currentTerm[s],
                        prevLogIndex |-> prev, prevLogTerm |-> prevTerm, entries |-> rest,
                        leaderCommit |-> commitIndex[s]]
<1>1. FieldsOK' /\ DiskOK' /\ VolatileOK'
  <2>1. UNCHANGED <<persistentVars, persister, commitIndex, leaderVars, state, electionVars,
                    restartVars>>
    BY Zenon DEF sendToFollower
  <2>2. FieldsOK' /\ DiskOK'
    BY Zenon, <2>1, NoSaveOK DEF TypeInv
  <2>3. VolatileOK'
    BY Zenon, <2>1 DEF TypeInv, VolatileOK, leaderVars, electionVars, restartVars
  <2>. QED  BY Zenon, <2>2, <2>3
<1>2. next \in Nat /\ incarnation[s] \in Nat /\ commitIndex[s] \in Nat
      /\ currentTerm[s] \in Nat /\ lastIncludedIndex[s] \in Nat /\ lastIncludedTerm[s] \in Nat
  BY Zenon DEF TypeInv, VolatileOK, FieldsOK
<1>3. CASE next <= lastIncludedIndex[s]
  <2>1. persister[s].snapshot \in Seq(LogEntry)
        /\ Len(persister[s].snapshot) = lastIncludedIndex[s]
    BY Zenon DEF TypeInv, DiskOK, SavedState, Mirrors
  <2>2. snap \in InstallSnapshotArgs
    BY Zenon, <1>2, <2>1 DEF InstallSnapshotArgs
  <2>3. {snap} \subseteq GoodMessage
    BY Zenon, <2>1, <2>2, GoodMessages
  <2>4. Send({snap})
    BY Zenon, <1>3 DEF sendToFollower
  <2>. QED  BY Zenon, <1>1, <2>3, <2>4, SendBag DEF Send, TypeInv
<1>4. CASE ~(next <= lastIncludedIndex[s])
  <2>1. prev \in Nat /\ prevTerm \in Int
    BY <1>2, <1>4, LogTermInt
  <2>2. rest \in Seq(LogEntry)
    <3>1. toArrayIndex(s, next) + 1 \in Int /\ toArrayIndex(s, next) + 1 >= 1
      BY <1>2, <1>4 DEF toArrayIndex
    <3>2. log[s] \in Seq(LogEntry) /\ Len(log[s]) \in Int /\ Len(log[s]) <= Len(log[s])
      BY LastLogIndex
    <3>. QED  BY Zenon, <3>1, <3>2, SubLog
  <2>3. entries \in AppendEntriesArgs
    <3>. HIDE DEF next, prev, prevTerm, rest
    <3>. QED  BY Zenon, <1>2, <2>1, <2>2 DEF AppendEntriesArgs
  <2>4. {entries} \subseteq GoodMessage
    BY Zenon, <2>3, GoodMessages
  <2>5. Send({entries})
    BY Zenon, <1>4 DEF sendToFollower
  <2>. QED  BY Zenon, <1>1, <2>4, <2>5, SendBag DEF Send, TypeInv
<1>. QED  BY Zenon, <1>3, <1>4

\* Where AppendEntries cuts the log: no further than its end.
LEMMA CutWithinLog ==
    ASSUME TypeInv, NEW m \in AppendEntriesArgs, EntriesFit(m), NEW n \in 0..Len(m.entries),
           Matching(m, n)
    PROVE  /\ toArrayIndex(m.dst, m.prevLogIndex + n + 1) \in Int
           /\ toArrayIndex(m.dst, m.prevLogIndex + n + 1) <= Len(log[m.dst])
<1>1. m.dst \in Server /\ m.prevLogIndex \in Nat /\ n \in Nat
  BY DEF AppendEntriesArgs
<1>2. /\ Len(log[m.dst]) \in Nat /\ Len(log[m.dst]) > 0 /\ lastIncludedIndex[m.dst] \in Nat
      /\ getLastLogIndex(m.dst) = Len(log[m.dst]) - 1 + lastIncludedIndex[m.dst]
  BY Zenon, <1>1, LastLogIndex
<1>3. m.prevLogIndex + n <= getLastLogIndex(m.dst)
  <2>1. CASE n = 0
    BY <1>1, <1>2, <2>1 DEF EntriesFit
  <2>2. CASE n > 0
    BY <1>1, <2>2 DEF Matching
  <2>. QED  BY <1>1, <2>1, <2>2
<1>4. toArrayIndex(m.dst, m.prevLogIndex + n + 1) =
         (m.prevLogIndex + n + 1) - lastIncludedIndex[m.dst]
  BY Zenon DEF toArrayIndex
<1>. QED  BY <1>1, <1>2, <1>3, <1>4

\* What StoreEntries leaves in the log is a log with its placeholder.
LEMMA StoreEntriesTypes ==
    ASSUME TypeInv, NEW m \in AppendEntriesArgs, StoreEntries(m)
    PROVE  /\ \E e \in Seq(LogEntry) : Len(e) > 0 /\ log' = [log EXCEPT ![m.dst] = e]
           /\ commitIndex' \in [Server -> Nat]
           /\ CallsOK(calls')
<1>. DEFINE s == m.dst
            cut(n) == toArrayIndex(s, m.prevLogIndex + n + 1)
            newLog(n) == IF n = Len(m.entries) THEN log[s]
                         ELSE SubSeq(log[s], 1, cut(n)) \o SubSeq(m.entries, n + 1, Len(m.entries))
            newLast(n) == Len(newLog(n)) - 1 + lastIncludedIndex[s]
<1>1. /\ s \in Server /\ m.src \in Server /\ m.term \in Nat /\ m.prevLogIndex \in Nat
      /\ m.leaderCommit \in Nat /\ m.entries \in Seq(LogEntry) /\ Len(m.entries) \in Nat
  BY DEF AppendEntriesArgs
<1>2. EntriesFit(m)
  BY Zenon DEF StoreEntries
<1>3. PICK n \in 0..Len(m.entries) :
         /\ Matching(m, n)
         /\ log' = [log EXCEPT ![s] = newLog(n)]
         /\ commitIndex' = [commitIndex EXCEPT ![s] =
               IF m.leaderCommit <= @ THEN @
               ELSE IF m.leaderCommit > newLast(n) THEN newLast(n)
               ELSE m.leaderCommit]
  BY ZenonT(30) DEF StoreEntries
<1>4. newLog(n) \in Seq(LogEntry) /\ Len(newLog(n)) \in Nat /\ Len(newLog(n)) > 0
  <2>1. CASE n = Len(m.entries)
    BY Zenon, <1>1, <2>1, LastLogIndex
  <2>2. CASE n # Len(m.entries)
    <3>1. n \in Nat /\ n < Len(m.entries)
      BY <1>1, <2>2
    <3>2. cut(n) \in Int /\ cut(n) <= Len(log[s])
      BY Zenon, <1>2, <1>3, CutWithinLog
    <3>3. SubSeq(log[s], 1, cut(n)) \in Seq(LogEntry)
      <4>1. log[s] \in Seq(LogEntry) /\ 1 \in Int /\ 1 >= 1
        BY <1>1, LastLogIndex
      <4>. QED  BY Zenon, <3>2, <4>1, SubLog
    <3>4. /\ SubSeq(m.entries, n + 1, Len(m.entries)) \in Seq(LogEntry)
          /\ Len(SubSeq(m.entries, n + 1, Len(m.entries))) > 0
      <4>1. \A i \in (n + 1)..Len(m.entries) : m.entries[i] \in LogEntry
        BY <1>1, <3>1, SeqElements
      <4>. QED  BY <1>1, <3>1, <4>1, SeqPart
    <3>. HIDE DEF cut
    <3>5. newLog(n) = SubSeq(log[s], 1, cut(n)) \o SubSeq(m.entries, n + 1, Len(m.entries))
      BY Zenon, <2>2
    <3>. DEFINE head == SubSeq(log[s], 1, cut(n))
                rest == SubSeq(m.entries, n + 1, Len(m.entries))
    <3>6. Len(head) \in Nat /\ Len(rest) \in Nat /\ Len(rest) > 0
      BY Zenon, <3>3, <3>4, SeqElements
    <3>7. newLog(n) \in Seq(LogEntry) /\ Len(newLog(n)) = Len(head) + Len(rest)
      <4>1. head \in Seq(LogEntry) /\ rest \in Seq(LogEntry) /\ newLog(n) = head \o rest
        BY Zenon, <3>3, <3>4, <3>5
      <4>. HIDE DEF newLog, head, rest
      <4>. QED  BY Zenon, <4>1, SeqJoined
    <3>. HIDE DEF newLog, head, rest
    <3>. QED  BY <3>6, <3>7
  <2>. QED  BY Zenon, <2>1, <2>2
<1>5. commitIndex' \in [Server -> Nat]
  <2>1. newLast(n) \in Nat
    <3>1. lastIncludedIndex[s] \in Nat
      BY Zenon, <1>1, LastLogIndex
    <3>. HIDE DEF newLog
    <3>. QED  BY <1>4, <3>1
  <2>. HIDE DEF newLast
  <2>. QED  BY Zenon, <1>1, <1>3, <2>1 DEF TypeInv, VolatileOK
<1>6. CallsOK(calls')
  <2>1. AppendEntriesResponse(m, TRUE, 0, 0) \in AppendEntriesReply
    <3>1. currentTerm[s] \in Nat
      BY Zenon, <1>1 DEF TypeInv, FieldsOK
    <3>2. m.prevLogIndex + Len(m.entries) \in Nat /\ 0 \in Int /\ 0 \in Nat
      BY <1>1
    <3>. QED  BY Zenon, <1>1, <3>1, <3>2 DEF AppendEntriesResponse, AppendEntriesReply
  <2>. QED  BY Zenon, <2>1, RespondOK, GoodMessages DEF StoreEntries, Reply, TypeInv
<1>. HIDE DEF newLog
<1>. QED  BY ZenonT(30), <1>3, <1>4, <1>5, <1>6

\* The reply of AppendEntries is well formed.
LEMMA ResponseTypes ==
    ASSUME TypeInv, NEW m \in AppendEntriesArgs, NEW t \in Int, NEW i \in Nat
    PROVE  AppendEntriesResponse(m, FALSE, t, i) \in GoodMessage
<1>1. m.prevLogIndex + Len(m.entries) \in Nat /\ m.dst \in Server /\ m.src \in Server
      /\ m.term \in Nat /\ currentTerm[m.dst] \in Nat
  <2>1. /\ m.dst \in Server /\ m.src \in Server /\ m.term \in Nat /\ m.prevLogIndex \in Nat
        /\ m.entries \in Seq(LogEntry)
    BY Zenon DEF AppendEntriesArgs
  <2>2. currentTerm[m.dst] \in Nat
    BY Zenon, <2>1 DEF TypeInv, FieldsOK
  <2>3. Len(m.entries) \in Nat
    BY Zenon, <2>1, SeqElements
  <2>4. m.prevLogIndex + Len(m.entries) \in Nat
    BY <2>1, <2>3
  <2>. QED  BY Zenon, <2>1, <2>2, <2>4
<1>2. AppendEntriesResponse(m, FALSE, t, i) \in AppendEntriesReply
  BY Zenon, <1>1 DEF AppendEntriesResponse, AppendEntriesReply
<1>. QED  BY Zenon, <1>2, GoodMessages DEF Reply

\* So is the reply that refuses the entries (raft.go:411-445).
LEMMA RejectEntriesTypes ==
    ASSUME TypeInv, NEW m \in AppendEntriesArgs, RejectEntries(m)
    PROVE  CallsOK(calls')
<1>1. m.dst \in Server /\ m.prevLogIndex \in Nat
  BY Zenon DEF AppendEntriesArgs
<1>2. lastIncludedIndex[m.dst] \in Nat /\ getLastLogIndex(m.dst) \in Nat
  BY Zenon, <1>1, LastLogIndex
<1>3. getLogTerm(m.dst, m.prevLogIndex) \in Int
  BY <1>1, LogTermInt
<1>4. PICK t \in Int, i \in Nat : Respond(m, AppendEntriesResponse(m, FALSE, t, i))
  <2>1. -1 \in Int /\ lastIncludedIndex[m.dst] + 1 \in Nat /\ getLastLogIndex(m.dst) + 1 \in Nat
        /\ lastIncludedIndex[m.dst]..m.prevLogIndex \subseteq Nat
    BY <1>1, <1>2
  <2>. QED  BY Zenon, <1>3, <2>1 DEF RejectEntries
<1>5. AppendEntriesResponse(m, FALSE, t, i) \in GoodMessage
  BY Zenon, ResponseTypes
<1>. QED  BY ZenonT(30), <1>4, <1>5, RespondOK DEF TypeInv

\* AppendEntries keeps types and saves what it changes (raft.go:382).
LEMMA AppendEntriesTypes ==
    ASSUME TypeInv, NEW m \in DOMAIN calls, AppendEntries(m)
    PROVE  TypeInv'
<1>. DEFINE s == m.dst
<1>1. m \in AppendEntriesArgs /\ s \in Server /\ m.term \in Nat
  BY Zenon, InFlight, MessageTypes DEF AppendEntries
<1>2. /\ \E e \in Seq(LogEntry) : Len(e) > 0 /\ log' = [log EXCEPT ![s] = e]
      /\ commitIndex' \in [Server -> Nat]
      /\ CallsOK(calls')
  <2>1. log = [log EXCEPT ![s] = log[s]] /\ log[s] \in Seq(LogEntry) /\ Len(log[s]) > 0
        /\ commitIndex \in [Server -> Nat]
    <3>1. log \in [Server -> Seq(LogEntry)] /\ commitIndex \in [Server -> Nat]
      BY Zenon DEF TypeInv, FieldsOK, VolatileOK
    <3>2. log[s] \in Seq(LogEntry) /\ Len(log[s]) > 0
      BY Zenon, <1>1, LastLogIndex
    <3>. QED  BY Zenon, <1>1, <3>1, <3>2
  <2>2. CASE m.term < currentTerm[s]
    <3>1. Respond(m, AppendEntriesResponse(m, FALSE, 0, 0)) /\ UNCHANGED <<log, commitIndex>>
      BY Zenon, <2>2 DEF AppendEntries
    <3>2. AppendEntriesResponse(m, FALSE, 0, 0) \in GoodMessage
      <4>1. 0 \in Int /\ 0 \in Nat
        OBVIOUS
      <4>. QED  BY ZenonT(30), <1>1, <4>1, ResponseTypes, Zenon
    <3>3. CallsOK(calls')
      BY Zenon, <3>1, <3>2, RespondOK DEF TypeInv
    <3>. QED  BY Zenon, <2>1, <3>1, <3>3
  <2>3. CASE RejectEntries(m)
    <3>1. CallsOK(calls') /\ UNCHANGED <<log, commitIndex>>
      BY ZenonT(30), <1>1, <2>3, RejectEntriesTypes DEF RejectEntries
    <3>. QED  BY Zenon, <2>1, <3>1
  <2>4. CASE StoreEntries(m)
    BY Zenon, <1>1, <2>4, StoreEntriesTypes
  <2>. QED  BY Zenon, <2>2, <2>3, <2>4 DEF AppendEntries
<1>3. FieldsOK'
  <2>1. UNCHANGED <<currentTerm, votedFor>> \/ ObserveTerm(s, m.term)
    BY Zenon DEF AppendEntries
  <2>2. currentTerm' \in [Server -> Nat] /\ votedFor' \in [Server -> Server \cup {Nil}]
    BY ZenonT(30), <1>1, <2>1 DEF TypeInv, FieldsOK, ObserveTerm
  <2>3. log' \in [Server -> Seq(LogEntry)]
    BY Zenon, <1>1, <1>2 DEF TypeInv, FieldsOK
  <2>4. UNCHANGED <<lastIncludedIndex, lastIncludedTerm>>
    BY Zenon DEF AppendEntries
  <2>. QED  BY ZenonT(30), <2>2, <2>3, <2>4 DEF TypeInv, FieldsOK
<1>4. \A t \in Server \ {s} : SameFields(t)
  BY ZenonT(30), <1>1, <1>2 DEF TypeInv, FieldsOK, AppendEntries, ObserveTerm, SameFields
<1>5. Len(log'[s]) > 0 /\ lastIncludedIndex'[s] = lastIncludedIndex[s]
  BY Zenon, <1>1, <1>2 DEF TypeInv, FieldsOK, AppendEntries
<1>6. DiskOK'
  BY Zenon, <1>1, <1>3, <1>4, <1>5, PersistOK DEF TypeInv, AppendEntries
<1>7. VolatileOK'
  BY Zenon, <1>1, <1>2 DEF TypeInv, VolatileOK, AppendEntries, BecomeFollower, States, leaderVars,
                    restartVars
<1>. QED  BY Zenon, <1>2, <1>3, <1>6, <1>7 DEF TypeInv

\* tryCommit leaves commitIndex a number (raft.go:966).
LEMMA tryCommitTypes ==
    ASSUME TypeInv, NEW s \in Server, NEW match, tryCommit(s, match)
    PROVE  commitIndex' \in [Server -> Nat]
<1>1. commitIndex \in [Server -> Nat] /\ getLastLogIndex(s) \in Int
  BY LastLogIndex DEF TypeInv, VolatileOK
<1>2. PICK n \in commitIndex[s]..(IF getLastLogIndex(s) > commitIndex[s]
                                 THEN getLastLogIndex(s) ELSE commitIndex[s]) :
          commitIndex' = [commitIndex EXCEPT ![s] = n]
  BY Zenon DEF tryCommit
<1>3. n \in Nat
  BY <1>1
<1>. QED  BY Zenon, <1>1, <1>2, <1>3

\* The reply's handler keeps types in each of its branches (raft.go:901).
LEMMA HandleAppendEntriesReplyTypes ==
    ASSUME TypeInv, NEW m \in DOMAIN calls, HandleAppendEntriesReply(m)
    PROVE  TypeInv'
<1>. DEFINE s == m.dst
            p == m.src
<1>1. m \in AppendEntriesReply /\ s \in Server /\ p \in Server /\ m.term \in Nat
  BY Zenon, InFlight, MessageTypes DEF HandleAppendEntriesReply
<1>2. CallsOK(calls') /\ UNCHANGED restartVars
  BY Zenon, DiscardOK DEF HandleAppendEntriesReply, TypeInv
<1>3. CASE UNCHANGED <<persistentVars, commitIndex, leaderVars, state, electionVars, persister>>
  BY Zenon, <1>2, <1>3, NoSaveOK DEF TypeInv, VolatileOK, leaderVars, electionVars, restartVars
<1>4. CASE StepDown(s, m.term)
  BY Zenon, <1>1, <1>2, <1>4, StepDownTypes DEF TypeInv
<1>5. CASE /\ nextIndex' = [nextIndex EXCEPT ![s][p] = m.lastSent + 1]
           /\ matchIndex' = [matchIndex EXCEPT ![s][p] = m.lastSent]
           /\ tryCommit(s, [matchIndex[s] EXCEPT ![p] = m.lastSent])
           /\ UNCHANGED <<persistentVars, state, electionVars, persister>>
  <2>1. m.lastSent \in Nat /\ m.lastSent + 1 \in Nat
    BY <1>1 DEF AppendEntriesReply
  <2>2. nextIndex' \in [Server -> [Server -> Nat]] /\ matchIndex' \in [Server -> [Server -> Nat]]
    BY Zenon, <1>1, <1>5, <2>1 DEF TypeInv, VolatileOK
  <2>3. commitIndex' \in [Server -> Nat]
    BY Zenon, <1>1, <1>5, tryCommitTypes
  <2>. QED  BY Zenon, <1>2, <1>5, <2>2, <2>3, NoSaveOK
           DEF TypeInv, VolatileOK, electionVars, restartVars
<1>6. CASE /\ \E n \in 1..Len(log[s]) \cup {1, m.conflictIndex} :
                 nextIndex' = [nextIndex EXCEPT ![s][p] = n]
           /\ UNCHANGED <<persistentVars, commitIndex, matchIndex, state, electionVars, persister>>
  <2>1. PICK n \in 1..Len(log[s]) \cup {1, m.conflictIndex} :
            nextIndex' = [nextIndex EXCEPT ![s][p] = n]
    BY Zenon, <1>6
  <2>2. n \in Nat
    BY <1>1, LastLogIndex DEF AppendEntriesReply
  <2>3. nextIndex' \in [Server -> [Server -> Nat]]
    BY Zenon, <1>1, <2>1, <2>2 DEF TypeInv, VolatileOK
  <2>. QED  BY Zenon, <1>2, <1>6, <2>3, NoSaveOK DEF TypeInv, VolatileOK, electionVars, restartVars
<1>. QED  BY ZenonT(30), <1>3, <1>4, <1>5, <1>6 DEF HandleAppendEntriesReply

\* Snapshot saves an image that reaches exactly to the new lastIncludedIndex (raft.go:210).
LEMMA SnapshotTypes ==
    ASSUME TypeInv, NEW s \in Server, NEW index \in Nat, Snapshot(s, index)
    PROVE  TypeInv'
<1>. DEFINE k == toArrayIndex(s, index)
            term == log[s][k + 1].term
            kept == SubSeq(log[s], k + 2, Len(log[s]))
            newLog == <<Placeholder(term)>> \o kept
            image == SubSeq(FullLog(s), 1, index)
<1>1. /\ log[s] \in Seq(LogEntry) /\ Len(log[s]) \in Nat /\ Len(log[s]) > 0
      /\ lastIncludedIndex[s] \in Nat
  BY Zenon, LastLogIndex
<1>2. k \in Int /\ k > 0 /\ k < Len(log[s]) /\ k = index - lastIncludedIndex[s]
  <2>1. index > lastIncludedIndex[s] /\ k < Len(log[s])
    BY Zenon DEF Snapshot
  <2>2. k = index - lastIncludedIndex[s]
    BY Zenon DEF toArrayIndex
  <2>. HIDE DEF k
  <2>. QED  BY <1>1, <2>1, <2>2
<1>3. term \in Nat
  <2>1. log[s][k + 1] \in LogEntry
    <3>1. k + 1 \in 1..Len(log[s])
      BY <1>1, <1>2
    <3>. QED  BY Zenon, <1>1, <3>1, SeqElements
  <2>. QED  BY Zenon, <2>1 DEF LogEntry
<1>4. newLog \in Seq(LogEntry) /\ Len(newLog) > 0
  <2>1. <<Placeholder(term)>> \in Seq(LogEntry) /\ Len(<<Placeholder(term)>>) = 1
    BY <1>3 DEF Placeholder, LogEntry
  <2>2. kept \in Seq(LogEntry)
    <3>1. k + 2 \in Int /\ k + 2 >= 1 /\ Len(log[s]) \in Int /\ Len(log[s]) <= Len(log[s])
      BY <1>1, <1>2
    <3>. QED  BY Zenon, <1>1, <3>1, SubLog
  <2>. HIDE DEF kept
  <2>3. newLog \in Seq(LogEntry) /\ Len(newLog) = Len(<<Placeholder(term)>>) + Len(kept)
    BY Zenon, <2>1, <2>2, SeqJoined
  <2>4. Len(kept) \in Nat
    BY Zenon, <2>2, SeqElements
  <2>. HIDE DEF newLog
  <2>. QED  BY <2>1, <2>3, <2>4
<1>5. image \in Seq(LogEntry) /\ Len(image) = index
  <2>1. persister[s].snapshot \in Seq(LogEntry)
        /\ Len(persister[s].snapshot) = lastIncludedIndex[s]
    BY Zenon DEF TypeInv, DiskOK, Mirrors, SavedState
  <2>2. Tail(log[s]) \in Seq(LogEntry) /\ Len(Tail(log[s])) = Len(log[s]) - 1
    BY <1>1, log[s] # << >>, SeqTail
  <2>3. FullLog(s) \in Seq(LogEntry) /\ Len(FullLog(s)) = lastIncludedIndex[s] + Len(log[s]) - 1
    <3>1. /\ FullLog(s) \in Seq(LogEntry)
          /\ Len(FullLog(s)) = Len(persister[s].snapshot) + Len(Tail(log[s]))
      BY ZenonT(30), <2>1, <2>2, SeqJoined DEF FullLog
    <3>. QED  BY Zenon, <1>1, <2>1, <2>2, <3>1
  <2>4. index <= Len(FullLog(s))
    BY <1>1, <1>2, <2>3
  <2>5. \A i \in 1..index : FullLog(s)[i] \in LogEntry
    <3>1. Len(FullLog(s)) \in Nat /\ \A i \in 1..Len(FullLog(s)) : FullLog(s)[i] \in LogEntry
      BY Zenon, <2>3, SeqElements
    <3>. QED  BY <2>4, <3>1
  <2>. QED  BY <2>3, <2>5, SeqPart
<1>6. /\ log' = [log EXCEPT ![s] = newLog]
      /\ lastIncludedIndex' = [lastIncludedIndex EXCEPT ![s] = index]
      /\ lastIncludedTerm' = [lastIncludedTerm EXCEPT ![s] = term]
      /\ UNCHANGED <<currentTerm, votedFor>>
      /\ persister' = [persister EXCEPT ![s] = Saved(s, image)]
  BY Zenon DEF Snapshot
<1>. HIDE DEF k, term, kept, newLog, image
<1>7. FieldsOK'
  BY Zenon, <1>3, <1>4, <1>6 DEF TypeInv, FieldsOK
<1>8. \A t \in Server \ {s} : SameFields(t)
  BY Zenon, <1>6 DEF TypeInv, FieldsOK, SameFields
<1>9. Len(log'[s]) > 0 /\ Len(image) = lastIncludedIndex'[s]
  BY Zenon, <1>4, <1>5, <1>6 DEF TypeInv, FieldsOK
<1>10. DiskOK'
  BY Zenon, <1>5, <1>6, <1>7, <1>8, <1>9, SaveOK DEF TypeInv
<1>11. VolatileOK' /\ CallsOK(calls')
  BY Zenon DEF Snapshot, TypeInv, VolatileOK, leaderVars, electionVars, restartVars
<1>. QED  BY Zenon, <1>7, <1>10, <1>11 DEF TypeInv

\* InstallSnapshot does so with the image it is sent (raft.go:491).
LEMMA InstallSnapshotTypes ==
    ASSUME TypeInv, NEW m \in DOMAIN calls, InstallSnapshot(m)
    PROVE  TypeInv'
<1>. DEFINE s == m.dst
            index == m.lastIncludedIndex
            kept == SubSeq(log[s], toArrayIndex(s, index + 1) + 1, Len(log[s]))
            newLog == <<Placeholder(m.lastIncludedTerm)>> \o kept
            reply == [type |-> "InstallSnapshotReply", src |-> s, dst |-> m.src,
                      argsTerm |-> m.term, lastIncludedIndex |-> index, term |-> currentTerm[s]]
<1>1. /\ m \in InstallSnapshotArgs /\ s \in Server /\ m.src \in Server /\ m.term \in Nat
      /\ Len(m.data) = index
  <2>1. m.type = "InstallSnapshot" /\ m \in GoodMessage /\ m \in Message
    BY Zenon, InFlight DEF InstallSnapshot
  <2>2. m \in InstallSnapshotArgs
    BY Zenon, <2>1, MessageTypes
  <2>. QED  BY Zenon, InFlight, <2>1, <2>2 DEF GoodMessage
<1>2. index \in Nat /\ m.lastIncludedTerm \in Nat /\ m.data \in Seq(LogEntry)
  BY Zenon, <1>1 DEF InstallSnapshotArgs
<1>3. currentTerm' \in [Server -> Nat] /\ votedFor' \in [Server -> Server \cup {Nil}]
      /\ \A t \in Server \ {s} : currentTerm'[t] = currentTerm[t] /\ votedFor'[t] = votedFor[t]
  <2>1. ObserveTerm(s, m.term)
    BY Zenon DEF InstallSnapshot
  <2>. QED  BY Zenon, <1>1, <2>1, ObserveTermTypes
<1>4. CallsOK(calls')
  <2>1. reply \in InstallSnapshotReply
    BY Zenon, <1>1, <1>2 DEF InstallSnapshotReply, TypeInv, FieldsOK
  <2>2. Respond(m, reply)
    BY Zenon DEF InstallSnapshot
  <2>3. reply \in GoodMessage
    BY Zenon, <2>1, GoodMessages DEF Reply
  <2>. HIDE DEF reply
  <2>. QED  BY Zenon, <2>2, <2>3, RespondOK DEF TypeInv
<1>5. FieldsOK' /\ DiskOK' /\ commitIndex' \in [Server -> Nat]
  <2>1. CASE /\ UNCHANGED <<log, lastIncludedIndex, lastIncludedTerm, commitIndex>>
             /\ persist(s)
    <3>1. FieldsOK' /\ \A t \in Server \ {s} : SameFields(t)
      BY Zenon, <1>3, <2>1 DEF TypeInv, FieldsOK, SameFields
    <3>2. Len(log'[s]) > 0 /\ lastIncludedIndex'[s] = lastIncludedIndex[s]
      BY Zenon, <1>1, <2>1, LastLogIndex
    <3>3. DiskOK'
      BY Zenon, <1>1, <2>1, <3>1, <3>2, PersistOK DEF TypeInv
    <3>. QED  BY Zenon, <2>1, <3>1, <3>3 DEF TypeInv, VolatileOK
  <2>2. CASE /\ ~(m.term < currentTerm[s] \/ index <= lastIncludedIndex[s])
             /\ log' = [log EXCEPT ![s] = newLog]
             /\ lastIncludedIndex' = [lastIncludedIndex EXCEPT ![s] = index]
             /\ lastIncludedTerm' = [lastIncludedTerm EXCEPT ![s] = m.lastIncludedTerm]
             /\ commitIndex' = [commitIndex EXCEPT ![s] = IF index > @ THEN index ELSE @]
             /\ persister' = [persister EXCEPT ![s] = Saved(s, m.data)]
    <3>1. newLog \in Seq(LogEntry) /\ Len(newLog) > 0
      <4>1. <<Placeholder(m.lastIncludedTerm)>> \in Seq(LogEntry)
            /\ Len(<<Placeholder(m.lastIncludedTerm)>>) = 1
        BY <1>2 DEF Placeholder, LogEntry
      <4>2. toArrayIndex(s, index + 1) + 1 \in Int /\ toArrayIndex(s, index + 1) + 1 >= 1
        <5>1. lastIncludedIndex[s] \in Nat
          BY Zenon, <1>1, LastLogIndex
        <5>2. ~(index <= lastIncludedIndex[s])
          BY Zenon, <2>2
        <5>. QED  BY <1>2, <5>1, <5>2 DEF toArrayIndex
      <4>3. log[s] \in Seq(LogEntry) /\ Len(log[s]) \in Int /\ Len(log[s]) <= Len(log[s])
        BY <1>1, LastLogIndex
      <4>4. kept \in Seq(LogEntry)
        BY Zenon, <4>2, <4>3, SubLog
      <4>. HIDE DEF kept
      <4>. QED  BY <4>1, <4>4, SeqJoined, SeqElements
    <3>. HIDE DEF newLog
    <3>2. FieldsOK'
      BY Zenon, <1>1, <1>2, <1>3, <2>2, <3>1 DEF TypeInv, FieldsOK
    <3>3. \A t \in Server \ {s} : SameFields(t)
      BY Zenon, <1>1, <1>3, <2>2 DEF TypeInv, FieldsOK, SameFields
    <3>4. Len(log'[s]) > 0 /\ Len(m.data) = lastIncludedIndex'[s]
      BY Zenon, <1>1, <2>2, <3>1 DEF TypeInv, FieldsOK
    <3>5. DiskOK'
      BY Zenon, <1>1, <1>2, <2>2, <3>2, <3>3, <3>4, SaveOK DEF TypeInv
    <3>. QED  BY Zenon, <1>1, <1>2, <2>2, <3>2, <3>5 DEF TypeInv, VolatileOK
  <2>. QED  BY ZenonT(30), <2>1, <2>2 DEF InstallSnapshot
<1>6. VolatileOK'
  <2>1. state' \in [Server -> States] /\ lateCheck' \subseteq Server
    <3>1. state \in [Server -> States] /\ lateCheck \subseteq Server
      BY Zenon DEF TypeInv, VolatileOK
    <3>2. BecomeFollower(s) \/ UNCHANGED <<state, lateCheck>>
      BY Zenon DEF InstallSnapshot
    <3>. QED  BY Zenon, <1>1, <3>1, <3>2 DEF BecomeFollower, States
  <2>2. UNCHANGED <<leaderVars, votesReceived, elections, restartVars, voters>>
    BY Zenon DEF InstallSnapshot
  <2>. QED  BY Zenon, <1>5, <2>1, <2>2 DEF TypeInv, VolatileOK, leaderVars, restartVars
<1>. QED  BY Zenon, <1>4, <1>5, <1>6 DEF TypeInv

\* The leader's step on the snapshot's reply (raft.go:837).
LEMMA HandleInstallSnapshotReplyTypes ==
    ASSUME TypeInv, NEW m \in DOMAIN calls, HandleInstallSnapshotReply(m)
    PROVE  TypeInv'
<1>. DEFINE s == m.dst
            p == m.src
<1>1. m \in InstallSnapshotReply /\ s \in Server /\ p \in Server /\ m.term \in Nat
  BY Zenon, InFlight, MessageTypes DEF HandleInstallSnapshotReply
<1>2. CallsOK(calls') /\ UNCHANGED restartVars
  BY Zenon, DiscardOK DEF HandleInstallSnapshotReply, TypeInv
<1>3. CASE StepDown(s, m.term)
  BY Zenon, <1>1, <1>2, <1>3, StepDownTypes DEF TypeInv
<1>4. CASE /\ nextIndex' = [nextIndex EXCEPT ![s][p] = m.lastIncludedIndex + 1]
           /\ matchIndex' = [matchIndex EXCEPT ![s][p] = m.lastIncludedIndex]
           /\ UNCHANGED <<persistentVars, commitIndex, state, electionVars, persister>>
  <2>1. m.lastIncludedIndex \in Nat /\ m.lastIncludedIndex + 1 \in Nat
    BY <1>1 DEF InstallSnapshotReply
  <2>2. nextIndex' \in [Server -> [Server -> Nat]] /\ matchIndex' \in [Server -> [Server -> Nat]]
    BY Zenon, <1>1, <1>4, <2>1 DEF TypeInv, VolatileOK
  <2>3. FieldsOK' /\ DiskOK'
    BY Zenon, <1>4, NoSaveOK DEF TypeInv
  <2>4. VolatileOK'
    BY Zenon, <1>2, <1>4, <2>2 DEF TypeInv, VolatileOK, electionVars, restartVars
  <2>. QED  BY Zenon, <1>2, <2>3, <2>4 DEF TypeInv
<1>5. CASE UNCHANGED <<persistentVars, commitIndex, leaderVars, state, electionVars, persister>>
  BY Zenon, <1>2, <1>5, NoSaveOK DEF TypeInv, VolatileOK, leaderVars, electionVars, restartVars
<1>. QED  BY Zenon, <1>3, <1>4, <1>5 DEF HandleInstallSnapshotReply

\* Losing a call touches no server.
LEMMA LoseCallTypes ==
    ASSUME TypeInv, NEW m \in DOMAIN calls, LoseCall(m)
    PROVE  TypeInv'
<1>1. CallsOK(calls')
  BY Zenon, DiscardOK DEF LoseCall, TypeInv
<1>. QED  BY Zenon, <1>1, NoSaveOK DEF LoseCall, TypeInv, VolatileOK, leaderVars,
          electionVars, restartVars

\* Every step of every server and of the network.
LEMMA TypeStep == TypeInv /\ [Next]_vars => TypeInv'
<1>. SUFFICES ASSUME TypeInv, [Next]_vars PROVE TypeInv'
  BY Zenon
<1>1. CASE UNCHANGED vars
  BY Zenon, <1>1, NoSaveOK DEF vars, TypeInv, VolatileOK, leaderVars, electionVars
<1>2. ASSUME NEW s \in Server, ServerStep(s) PROVE TypeInv'
  BY Zenon, <1>2, RestartTypes, checkElectionTimeoutTypes, startElectionTypes, StartTypes,
     sendToFollowerTypes, SnapshotTypes, BoundAssumption DEF ServerStep
<1>3. ASSUME NEW m \in DOMAIN calls, MessageStep(m) PROVE TypeInv'
  BY Zenon, <1>3, RestartInHandlerTypes, RequestVoteTypes, HandleRequestVoteReplyTypes,
     AppendEntriesTypes, AppendEntriesPanicTypes, HandleAppendEntriesReplyTypes,
     InstallSnapshotTypes, HandleInstallSnapshotReplyTypes, LoseCallTypes DEF MessageStep
<1>. QED  BY Zenon, <1>1, <1>2, <1>3 DEF Next

\* Every field keeps its type in every reachable state of raft.go, memory and disk
\* agree whenever rf.mu is free, and the snapshot on disk reaches exactly to
\* lastIncludedIndex, for any cluster, any number of crashes and any lost calls.
THEOREM TypeCorrect == Spec => [](TypeOK /\ StorageInv)
<1>1. TypeInv => TypeOK /\ StorageInv
  BY Zenon, TypeInvSplit
<1>. QED  BY <1>1, InitTypes, TypeStep, PTL DEF Spec

-----------------------------------------------------------------------------
(* Terms and votes *)

\* The server's term does not go back, and its vote stays within the term.
VoteKept(s) ==
    /\ currentTerm'[s] >= currentTerm[s]
    /\ currentTerm'[s] = currentTerm[s] /\ votedFor[s] # Nil => votedFor'[s] = votedFor[s]

\* A handler that observes a term keeps them.
LEMMA ObserveKeeps ==
    ASSUME FieldsOK, NEW s \in Server, NEW t \in Nat, NEW q \in Server, ObserveTerm(s, t)
    PROVE  VoteKept(q)
BY DEF FieldsOK, ObserveTerm, VoteKept

\* So does a server that steps down because of a higher term (raft.go:562).
LEMMA StepDownKeeps ==
    ASSUME FieldsOK, NEW s \in Server, NEW t \in Nat, t > currentTerm[s], NEW q \in Server,
           StepDown(s, t)
    PROVE  VoteKept(q)
BY DEF FieldsOK, StepDown, VoteKept

\* A restart finds what was saved, or the newer term a handler had just saved
\* (raft.go:146).
LEMMA MakeKeeps ==
    ASSUME FieldsOK, NEW s \in Server, NEW q \in Server, NEW saved, MakeFrom(s, saved),
           saved.currentTerm \in Nat,
           \/ saved.currentTerm = currentTerm[s] /\ saved.votedFor = votedFor[s]
           \/ saved.currentTerm > currentTerm[s]
    PROVE  VoteKept(q)
BY DEF FieldsOK, MakeFrom, VoteKept

LEMMA SavedVote ==
    ASSUME TypeInv, NEW s \in Server
    PROVE  /\ persister[s].currentTerm \in Nat
           /\ persister[s].currentTerm = currentTerm[s] /\ persister[s].votedFor = votedFor[s]
BY Zenon DEF TypeInv, FieldsOK, DiskOK, Mirrors

LEMMA SavedTerm ==
    ASSUME TypeInv, NEW s \in Server, NEW t \in Nat
    PROVE  [persister[s] EXCEPT !.currentTerm = t, !.votedFor = Nil].currentTerm = t
<1>1. persister[s] \in SavedState
  BY Zenon DEF TypeInv, DiskOK
<1>. QED  BY Zenon, <1>1 DEF SavedState

\* No step takes a term or a vote back.
LEMMA VoteKeptStep ==
    ASSUME TypeInv, [Next]_vars, NEW q \in Server
    PROVE  VoteKept(q)
<1>0. currentTerm \in [Server -> Nat] /\ votedFor \in [Server -> Server \cup {Nil}] /\ FieldsOK
  BY Zenon DEF TypeInv, FieldsOK
<1>1. ASSUME UNCHANGED <<currentTerm, votedFor>> PROVE VoteKept(q)
  BY <1>0, <1>1 DEF VoteKept
<1>2. ASSUME NEW s \in Server, ServerStep(s) PROVE VoteKept(q)
  <2>1. CASE Restart(s)
    <3>1. MakeFrom(s, persister[s])
      BY Zenon, <2>1 DEF Restart
    <3>. QED  BY Zenon, <1>0, <3>1, SavedVote, MakeKeeps
  <2>2. CASE checkElectionTimeout(s)
    BY <1>0, <2>2 DEF checkElectionTimeout, VoteKept
  <2>3. CASE startElection(s)
    BY Zenon, <1>1, <2>3 DEF startElection, persistentVars
  <2>4. ASSUME NEW c \in Command, Start(s, c) PROVE VoteKept(q)
    BY Zenon, <1>1, <2>4 DEF Start
  <2>5. ASSUME NEW p \in Server, sendToFollower(s, p) PROVE VoteKept(q)
    BY Zenon, <1>1, <2>5 DEF sendToFollower, persistentVars
  <2>6. ASSUME NEW i \in SnapshotIndex, Snapshot(s, i) PROVE VoteKept(q)
    BY Zenon, <1>1, <2>6 DEF Snapshot
  <2>. QED  BY Zenon, <1>2, <2>1, <2>2, <2>3, <2>4, <2>5, <2>6 DEF ServerStep
<1>3. ASSUME NEW m \in DOMAIN calls, MessageStep(m) PROVE VoteKept(q)
  <2>0. m.dst \in Server /\ m.term \in Nat
    BY Zenon, InFlight
  <2>1. CASE RestartInHandler(m)
    <3>1. PICK saved : /\ saved = [persister[m.dst] EXCEPT !.currentTerm = m.term,
                                                           !.votedFor = Nil]
                       /\ MakeFrom(m.dst, saved) /\ m.term > currentTerm[m.dst]
      BY Zenon, <2>1 DEF RestartInHandler
    <3>2. saved.currentTerm = m.term
      BY Zenon, <2>0, <3>1, SavedTerm
    <3>. QED  BY Zenon, <1>0, <2>0, <3>1, <3>2, MakeKeeps
  <2>2. CASE RequestVote(m)
    BY <1>0, <2>0, <2>2 DEF RequestVote, VoteKept
  <2>3. CASE HandleRequestVoteReply(m)
    BY Zenon, <1>0, <1>1, <2>0, <2>3, StepDownKeeps
    DEF HandleRequestVoteReply, CountVote, persistentVars
  <2>4. CASE AppendEntries(m)
    BY Zenon, <1>0, <1>1, <2>0, <2>4, ObserveKeeps DEF AppendEntries
  <2>5. CASE AppendEntriesPanic(m)
    <3>1. CASE m.term > currentTerm[m.dst]
      <4>1. PICK saved : /\ saved = [persister[m.dst] EXCEPT !.currentTerm = m.term,
                                                             !.votedFor = Nil]
                         /\ MakeFrom(m.dst, saved)
        BY Zenon, <2>5, <3>1 DEF AppendEntriesPanic
      <4>2. saved.currentTerm = m.term
        BY Zenon, <2>0, <4>1, SavedTerm
      <4>. QED  BY Zenon, <1>0, <2>0, <3>1, <4>1, <4>2, MakeKeeps
    <3>2. CASE ~(m.term > currentTerm[m.dst])
      BY Zenon, <1>0, <2>0, <2>5, <3>2, SavedVote, MakeKeeps DEF AppendEntriesPanic
    <3>. QED  BY Zenon, <3>1, <3>2
  <2>6. CASE HandleAppendEntriesReply(m)
    BY Zenon, <1>0, <1>1, <2>0, <2>6, StepDownKeeps DEF HandleAppendEntriesReply, persistentVars
  <2>7. CASE InstallSnapshot(m)
    BY Zenon, <1>0, <2>0, <2>7, ObserveKeeps DEF InstallSnapshot
  <2>8. CASE HandleInstallSnapshotReply(m)
    BY Zenon, <1>0, <1>1, <2>0, <2>8, StepDownKeeps DEF HandleInstallSnapshotReply, persistentVars
  <2>9. CASE LoseCall(m)
    BY Zenon, <1>1, <2>9 DEF LoseCall, persistentVars
  <2>. QED  BY Zenon, <1>3, <2>1, <2>2, <2>3, <2>4, <2>5, <2>6, <2>7, <2>8, <2>9 DEF MessageStep
<1>4. CASE UNCHANGED vars
  BY Zenon, <1>1, <1>4 DEF vars, persistentVars
<1>. QED  BY Zenon, <1>2, <1>3, <1>4 DEF Next

\* Terms never go back and a vote is never taken back within its term, in any cluster
\* and over any number of crashes: what a restart reads is what was in memory.
THEOREM VotesAreKept == Spec => VoteOnce
<1>1. TypeInv /\ [Next]_vars => \A s \in Server : VoteKept(s)
  BY Zenon, VoteKeptStep
<1>2. TypeInv /\ [Next]_vars =>
         [\A s \in Server :
            /\ currentTerm'[s] >= currentTerm[s]
            /\ currentTerm'[s] = currentTerm[s] /\ votedFor[s] # Nil
                   => votedFor'[s] = votedFor[s]]_vars
  BY Zenon, <1>1 DEF VoteKept
<1>. QED  BY <1>2, InitTypes, TypeStep, PTL DEF Spec, VoteOnce
=============================================================================
