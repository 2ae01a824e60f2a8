----------------------- MODULE RaftElectionInvariant ------------------------
(***************************************************************************)
(* One leader per term: the inductive invariant and what it implies, the   *)
(* steps that have no part in elections, and the steps that ask for, grant *)
(* and count votes.  Types, and what the counting of servers rests on, are *)
(* hypotheses here; RaftElectionProofs puts the parts together.            *)
(***************************************************************************)
EXTENDS RaftTypes, TLAPS

USE SMTT(30)

-----------------------------------------------------------------------------
(* The invariant, over all terms, in the parts the proof treats one by one. *)

Candidacy(s) ==
    /\ state[s] # "Follower" => votedFor[s] = s
    /\ state[s] = "Leader" => elections[s] = 0 /\ IsMajority(Cardinality(voters[s]))
    /\ elections[s] <= 1
    /\ Stands(s) => votesReceived[s] = Cardinality(voters[s])

\* The vote of p for c in term t, granted and on its way, or counted.
Voted(p, c, t) ==
    \/ \E m \in DOMAIN calls :
          m.type = "RequestVoteReply" /\ m.voteGranted /\ IsVoteCall(m, c, p, t)
    \/ Stands(c) /\ currentTerm[c] = t /\ p \in voters[c]

VotePinned(p, c, t) ==
    Voted(p, c, t) => currentTerm[p] >= t /\ (currentTerm[p] = t => votedFor[p] = c)

VoteUnique(p, c, d, t) == Voted(p, c, t) /\ Voted(p, d, t) => c = d

Counted(p, c) == Stands(c) /\ p \in voters[c]

AskedOnce(m, c, p, t) ==
    IsVoteCall(m, c, p, t) =>
        /\ calls[m] = 1
        /\ \A n \in DOMAIN calls : IsVoteCall(n, c, p, t) => n = m
        /\ t <= currentTerm[c]
        /\ t = currentTerm[c] => elections[c] = 0 /\ ~Counted(p, c)

EI ==
    /\ \A s \in Server : Candidacy(s)
    /\ \A p, c \in Server : \A t \in Nat : VotePinned(p, c, t)
    /\ \A p, c, d \in Server : \A t \in Nat : VoteUnique(p, c, d, t)
    /\ \A m \in DOMAIN calls : \A p, c \in Server : \A t \in Nat : AskedOnce(m, c, p, t)

\* What the proof needs of counting: two majorities of the servers share a member
\* (raft.go:749), and a set grows by one with a new server.
CountingFacts ==
    /\ \A S, T \in SUBSET Server :
          IsMajority(Cardinality(S)) /\ IsMajority(Cardinality(T)) => S \cap T # {}
    /\ \A S \in SUBSET Server : \A p \in Server \ S :
          Cardinality(S \cup {p}) = Cardinality(S) + 1
    /\ \A p \in Server : Cardinality({p}) = 1

\* A call in flight names its two ends and its term.
LEMMA CallSides ==
    ASSUME TypeInv, NEW m \in DOMAIN calls
    PROVE  /\ m.dst \in Server /\ m.src \in Server /\ m.term \in Nat
           /\ m.type = "RequestVoteReply" => m.argsTerm \in Nat
<1>1. m \in Message
  BY Zenon DEF TypeInv, CallsOK, GoodMessage
<1>. QED  BY Zenon, <1>1 DEF Message, Request, Reply, RequestVoteArgs, AppendEntriesArgs,
                             InstallSnapshotArgs, RequestVoteReply, AppendEntriesReply,
                             InstallSnapshotReply

\* Taking a call out of the bag keeps it well-formed.
LEMMA TakenOut ==
    ASSUME CallsOK(calls), NEW m
    PROVE  CallsOK(Without(m))
BY DEF CallsOK, Without

\* A server that observes a term changes no other server's term or vote.
LEMMA OthersObserve ==
    ASSUME TypeInv, NEW s \in Server, NEW t \in Nat, ObserveTerm(s, t), NEW u \in Server, u # s
    PROVE  currentTerm'[u] = currentTerm[u] /\ votedFor'[u] = votedFor[u]
BY Zenon DEF TypeInv, FieldsOK, ObserveTerm

\* The invariant over all terms contains the one TLC checks.
LEMMA EIImpliesElectionInv == TypeInv /\ EI => ElectionInv
<1>. SUFFICES ASSUME TypeInv, EI PROVE ElectionInv
  BY Zenon
<1>1. \A s \in Server : currentTerm[s] \in Nat
  BY Zenon DEF TypeInv, FieldsOK
<1>2. ASSUME NEW m \in DOMAIN calls
      PROVE  /\ m.type = "RequestVote" => OnlyCall(m, m.src, m.dst, m.term)
             /\ m.type = "RequestVoteReply" => OnlyCall(m, m.dst, m.src, m.argsTerm)
  <2>1. m.src \in Server /\ m.dst \in Server /\ m.term \in Nat
        /\ (m.type = "RequestVoteReply" => m.argsTerm \in Nat)
    BY Zenon, CallSides
  <2>2. ASSUME NEW c \in Server, NEW p \in Server, NEW t \in Nat, IsVoteCall(m, c, p, t)
        PROVE  OnlyCall(m, c, p, t)
    BY Zenon, <2>2 DEF EI, AskedOnce, OnlyCall, Counted
  <2>3. CASE m.type = "RequestVote"
    BY Zenon, <2>1, <2>2, <2>3 DEF IsVoteCall
  <2>4. CASE m.type = "RequestVoteReply"
    BY Zenon, <2>1, <2>2, <2>4 DEF IsVoteCall
  <2>. QED  BY Zenon, <2>3, <2>4
<1>3. ASSUME NEW v \in Votes
      PROVE  /\ v.voter \in Server /\ v.candidate \in Server /\ v.term \in Nat
             /\ v = [voter |-> v.voter, candidate |-> v.candidate, term |-> v.term]
             /\ Voted(v.voter, v.candidate, v.term)
  <2>1. CASE \E m \in DOMAIN calls :
                /\ m.type = "RequestVoteReply" /\ m.voteGranted
                /\ v = [voter |-> m.src, candidate |-> m.dst, term |-> m.argsTerm]
    <3>1. PICK m \in DOMAIN calls :
                /\ m.type = "RequestVoteReply" /\ m.voteGranted
                /\ v = [voter |-> m.src, candidate |-> m.dst, term |-> m.argsTerm]
      BY Zenon, <2>1
    <3>2. m.src \in Server /\ m.dst \in Server /\ m.argsTerm \in Nat
      BY Zenon, <3>1, CallSides
    <3>3. v.voter = m.src /\ v.candidate = m.dst /\ v.term = m.argsTerm
      BY <3>1
    <3>. QED  BY Zenon, <3>1, <3>2, <3>3 DEF Voted, IsVoteCall
  <2>2. CASE \E c \in Server : Stands(c) /\ \E p \in voters[c] :
                v = [voter |-> p, candidate |-> c, term |-> currentTerm[c]]
    <3>1. PICK c \in Server : Stands(c) /\ \E p \in voters[c] :
                v = [voter |-> p, candidate |-> c, term |-> currentTerm[c]]
      BY Zenon, <2>2
    <3>2. PICK p \in voters[c] : v = [voter |-> p, candidate |-> c, term |-> currentTerm[c]]
      BY Zenon, <3>1
    <3>3. voters \in [Server -> SUBSET Server]
      BY Zenon DEF TypeInv, VolatileOK
    <3>4. p \in Server
      BY Zenon, <3>2, <3>3
    <3>5. v.voter = p /\ v.candidate = c /\ v.term = currentTerm[c]
      BY <3>2
    <3>. QED  BY Zenon, <1>1, <3>1, <3>2, <3>4, <3>5 DEF Voted
  <2>. QED  BY Zenon, <1>3, <2>1, <2>2 DEF Votes
<1>4. ASSUME NEW v \in Votes
      PROVE  /\ currentTerm[v.voter] >= v.term
             /\ currentTerm[v.voter] = v.term => votedFor[v.voter] = v.candidate
  BY Zenon, <1>3 DEF EI, VotePinned
<1>5. ASSUME NEW v \in Votes, NEW w \in Votes, w.voter = v.voter, w.term = v.term
      PROVE  w = v
  <2>1. w.candidate = v.candidate
    BY Zenon, <1>3, <1>5 DEF EI, VoteUnique
  <2>. QED  BY Zenon, <1>3, <1>5, <2>1
<1>. QED  BY Zenon, <1>2, <1>4, <1>5 DEF ElectionInv, EI, Candidacy

\* Two leaders of a term would share a voter, whose vote is pinned to one of them.
LEMMA EIImpliesElectionSafety == CountingFacts /\ TypeInv /\ EI => ElectionSafety
<1>. SUFFICES ASSUME CountingFacts, TypeInv, EI, NEW s \in Server, NEW t \in Server,
                     state[s] = "Leader", state[t] = "Leader", currentTerm[s] = currentTerm[t]
              PROVE  s = t
  BY Zenon DEF ElectionSafety
<1>1. Stands(s) /\ Stands(t) /\ IsMajority(Cardinality(voters[s]))
      /\ IsMajority(Cardinality(voters[t]))
  BY Zenon DEF EI, Candidacy, Stands
<1>2. voters[s] \in SUBSET Server /\ voters[t] \in SUBSET Server /\ currentTerm[s] \in Nat
  <2>1. voters \in [Server -> SUBSET Server] /\ currentTerm \in [Server -> Nat]
    BY Zenon DEF TypeInv, FieldsOK, VolatileOK
  <2>. QED  BY Zenon, <2>1
<1>3. PICK p \in Server : p \in voters[s] /\ p \in voters[t]
  <2>1. voters[s] \cap voters[t] # {}
    BY Zenon, <1>1, <1>2 DEF CountingFacts
  <2>. QED  BY Zenon, <1>2, <2>1
<1>4. Voted(p, s, currentTerm[s]) /\ Voted(p, t, currentTerm[s])
  BY Zenon, <1>1, <1>3 DEF Voted
<1>. QED  BY Zenon, <1>2, <1>4 DEF EI, VoteUnique

\* No server stands in the initial state, and no vote has been given.
LEMMA EIInit == Init => EI
<1>. SUFFICES ASSUME Init PROVE EI
  BY Zenon
<1>1. DOMAIN calls = {}
  BY DEF Init, StartFrom
<1>2. \A s \in Server : state[s] = "Follower" /\ elections[s] = 0 /\ ~Stands(s)
  BY Zenon DEF Init, StartFrom, Stands
<1>3. \A p, c \in Server : \A t \in Nat : ~Voted(p, c, t)
  BY Zenon, <1>1, <1>2 DEF Voted
<1>. QED  BY <1>1, <1>2, <1>3 DEF EI, Candidacy, VotePinned, VoteUnique

-----------------------------------------------------------------------------
(* Steps that grant no vote, count none and ask for none. *)

IsVoteMessage(m) == m.type \in {"RequestVote", "RequestVoteReply"}

\* No new RequestVote call, and no more deliveries of the old ones.
NoNewVoteCalls ==
    \A m \in DOMAIN calls' :
        IsVoteMessage(m) => m \in DOMAIN calls /\ calls'[m] <= calls[m]

\* The server is a follower that kept its vote or moved to a newer term.
Follows(s) ==
    /\ state'[s] = "Follower"
    /\ elections'[s] <= elections[s]
    /\ \/ currentTerm'[s] > currentTerm[s]
       \/ currentTerm'[s] = currentTerm[s] /\ votedFor'[s] = votedFor[s]

Quiet == NoNewVoteCalls /\ \A s \in Server : Same(s) \/ Follows(s)

\* Such a step makes no vote, so the votes there are stay pinned and unique.
LEMMA QuietStep ==
    ASSUME TypeInv, TypeInv', EI, Quiet
    PROVE  EI'
<1>1. \A s \in Server : /\ currentTerm[s] \in Nat /\ currentTerm'[s] \in Nat
                         /\ elections[s] \in Nat /\ elections'[s] \in Nat
  BY Zenon DEF TypeInv, FieldsOK, VolatileOK
<1>2. ASSUME NEW s \in Server PROVE Candidacy(s)'
  BY <1>1 DEF EI, Candidacy, Quiet, Same, Follows, Stands
<1>3. ASSUME NEW c \in Server, Stands(c)'
      PROVE  Stands(c) /\ currentTerm'[c] = currentTerm[c] /\ voters'[c] = voters[c]
  BY <1>3 DEF Quiet, Same, Follows, Stands
<1>4. ASSUME NEW m \in DOMAIN calls', NEW p, NEW c, NEW t, IsVoteCall(m, c, p, t)
      PROVE  m \in DOMAIN calls /\ calls'[m] <= calls[m]
  BY Zenon, <1>4 DEF Quiet, NoNewVoteCalls, IsVoteCall, IsVoteMessage
<1>5. ASSUME NEW p \in Server, NEW c \in Server, NEW t \in Nat, Voted(p, c, t)'
      PROVE  Voted(p, c, t)
  <2>1. CASE \E m \in DOMAIN calls' :
               m.type = "RequestVoteReply" /\ m.voteGranted /\ IsVoteCall(m, c, p, t)
    BY Zenon, <1>4, <2>1 DEF Voted
  <2>2. CASE Stands(c)' /\ currentTerm'[c] = t /\ p \in voters'[c]
    BY Zenon, <1>3, <2>2 DEF Voted
  <2>. QED  BY Zenon, <1>5, <2>1, <2>2 DEF Voted, IsVoteCall
<1>6. ASSUME NEW p \in Server, NEW c \in Server, NEW t \in Nat PROVE VotePinned(p, c, t)'
  <2>1. Voted(p, c, t)' => Voted(p, c, t) /\ VotePinned(p, c, t)
    BY Zenon, <1>5 DEF EI
  <2>. QED  BY <1>1, <2>1 DEF VotePinned, Quiet, Same, Follows
<1>7. ASSUME NEW p \in Server, NEW c \in Server, NEW d \in Server, NEW t \in Nat
      PROVE  VoteUnique(p, c, d, t)'
  BY <1>5 DEF EI, VoteUnique
<1>8. ASSUME NEW m \in DOMAIN calls', NEW p \in Server, NEW c \in Server, NEW t \in Nat
      PROVE  AskedOnce(m, c, p, t)'
  <2>. SUFFICES ASSUME IsVoteCall(m, c, p, t)
                PROVE  /\ calls'[m] = 1
                       /\ \A n \in DOMAIN calls' : IsVoteCall(n, c, p, t) => n = m
                       /\ t <= currentTerm'[c]
                       /\ t = currentTerm'[c] => elections'[c] = 0 /\ ~Counted(p, c)'
    BY Zenon DEF AskedOnce, IsVoteCall
  <2>1. m \in DOMAIN calls /\ calls'[m] <= calls[m] /\ AskedOnce(m, c, p, t)
    BY Zenon, <1>4 DEF EI
  <2>2. calls'[m] = 1
    BY <2>1 DEF AskedOnce, TypeInv, CallsOK
  <2>3. \A n \in DOMAIN calls' : IsVoteCall(n, c, p, t) => n = m
    BY Zenon, <1>4, <2>1 DEF AskedOnce
  <2>4. t <= currentTerm'[c]
    BY <1>1, <2>1 DEF AskedOnce, Quiet, Same, Follows
  <2>5. t = currentTerm'[c] => elections'[c] = 0 /\ ~Counted(p, c)'
    BY <1>1, <1>3, <2>1 DEF AskedOnce, Quiet, Same, Follows, Counted
  <2>. QED  BY Zenon, <2>2, <2>3, <2>4, <2>5
<1>. QED  BY Zenon, <1>2, <1>6, <1>7, <1>8 DEF EI

\* Taking a message off the network adds none.
LEMMA WithoutCalls ==
    ASSUME CallsOK(calls), NEW m \in DOMAIN calls
    PROVE  /\ DOMAIN Without(m) \subseteq DOMAIN calls
           /\ \A n \in DOMAIN Without(m) : Without(m)[n] <= calls[n]
           /\ \A n \in DOMAIN Without(m) : n # m => Without(m)[n] = calls[n]
           /\ calls[m] = 1 => m \notin DOMAIN Without(m)
BY DEF CallsOK, Without

\* Answering a call adds its reply and nothing else.
LEMMA RespondCalls ==
    ASSUME CallsOK(calls), NEW m \in DOMAIN calls, NEW r, Respond(m, r)
    PROVE  \A n \in DOMAIN calls' : n # r => n \in DOMAIN calls /\ calls'[n] <= calls[n]
<1>1. \A n \in DOMAIN With(Without(m), {r}) :
         n # r => /\ n \in DOMAIN Without(m)
                  /\ With(Without(m), {r})[n] = Without(m)[n]
  <2>1. CallsOK(Without(m))
    BY Zenon, TakenOut
  <2>. QED  BY Zenon, <2>1 DEF With, CallsOK
<1>2. calls' = With(Without(m), {r}) \/ calls' = Without(m)
  BY Zenon DEF Respond
<1>3. /\ DOMAIN Without(m) \subseteq DOMAIN calls
      /\ \A n \in DOMAIN Without(m) : Without(m)[n] <= calls[n]
  BY Zenon, WithoutCalls
<1>. QED  BY Zenon, <1>1, <1>2, <1>3

\* A crash only takes calls away.
LEMMA UnansweredCalls ==
    ASSUME NEW B, NEW s
    PROVE  /\ DOMAIN Unanswered(B, s) \subseteq DOMAIN B
           /\ \A n \in DOMAIN Unanswered(B, s) : Unanswered(B, s)[n] = B[n]
BY Zenon DEF Unanswered

-----------------------------------------------------------------------------
(* The quiet actions *)

\* A server made from its disk follows, in the term and with the vote it saved.
LEMMA MakeFromQuiet ==
    ASSUME TypeInv, NEW s \in Server, NEW saved, MakeFrom(s, saved),
           \/ saved.currentTerm > currentTerm[s]
           \/ saved.currentTerm = currentTerm[s] /\ saved.votedFor = votedFor[s]
    PROVE  \A t \in Server : Same(t) \/ Follows(t)
BY DEF TypeInv, FieldsOK, VolatileOK, MakeFrom, Same, Follows

\* A restart changes no term and no vote: both are read back from disk (raft.go:155).
LEMMA RestartQuiet ==
    ASSUME TypeInv, NEW s \in Server, Restart(s)
    PROVE  Quiet
<1>1. persister[s].currentTerm = currentTerm[s] /\ persister[s].votedFor = votedFor[s]
  BY Zenon DEF TypeInv, DiskOK, Mirrors
<1>2. \A t \in Server : Same(t) \/ Follows(t)
  BY Zenon, <1>1, MakeFromQuiet DEF Restart
<1>3. NoNewVoteCalls
  BY UnansweredCalls DEF Restart, NoNewVoteCalls, TypeInv, CallsOK
<1>. QED  BY Zenon, <1>2, <1>3 DEF Quiet

\* Dropping m and the replies to its receiver adds no call.
LEMMA UnansweredWithout ==
    ASSUME TypeInv, NEW m \in DOMAIN calls, NEW s, calls' = Unanswered(Without(m), s)
    PROVE  NoNewVoteCalls
BY UnansweredCalls, WithoutCalls DEF NoNewVoteCalls, TypeInv

\* Nor does a restart while a handler is running.
LEMMA RestartInHandlerQuiet ==
    ASSUME TypeInv, NEW m \in DOMAIN calls, RestartInHandler(m)
    PROVE  Quiet
<1>. DEFINE saved == [persister[m.dst] EXCEPT !.currentTerm = m.term, !.votedFor = Nil]
<1>1. m.dst \in Server
  BY Zenon, CallSides
<1>2. saved.currentTerm = m.term /\ m.term > currentTerm[m.dst]
  BY Zenon, <1>1 DEF RestartInHandler, TypeInv, DiskOK, SavedState
<1>3. \A t \in Server : Same(t) \/ Follows(t)
  BY Zenon, <1>1, <1>2, MakeFromQuiet DEF RestartInHandler
<1>. QED  BY Zenon, <1>3, UnansweredWithout DEF Quiet, RestartInHandler

\* A crash in AppendEntries (raft.go:456) gives no vote and makes no candidate.
LEMMA AppendEntriesPanicQuiet ==
    ASSUME TypeInv, NEW m \in DOMAIN calls, AppendEntriesPanic(m)
    PROVE  Quiet
<1>. DEFINE s == m.dst
            saved == IF m.term > currentTerm[s]
                     THEN [persister[s] EXCEPT !.currentTerm = m.term, !.votedFor = Nil]
                     ELSE persister[s]
<1>1. s \in Server
  BY Zenon, CallSides
<1>2. \/ saved.currentTerm > currentTerm[s]
      \/ saved.currentTerm = currentTerm[s] /\ saved.votedFor = votedFor[s]
  BY <1>1 DEF TypeInv, DiskOK, SavedState, Mirrors
<1>3. MakeFrom(s, saved)
  BY Zenon DEF AppendEntriesPanic
<1>4. \A t \in Server : Same(t) \/ Follows(t)
  BY Zenon, <1>1, <1>2, <1>3, MakeFromQuiet
<1>. QED  BY Zenon, <1>4, UnansweredWithout DEF Quiet, AppendEntriesPanic

\* Steps of a leader or of the service that touch no election state.
LEMMA ServiceQuiet ==
    ASSUME TypeInv, NEW s \in Server,
           \/ \E c \in Command : Start(s, c)
           \/ \E i \in SnapshotIndex : Snapshot(s, i)
    PROVE  Quiet
<1>1. UNCHANGED <<currentTerm, votedFor, state, electionVars, calls>>
  BY ZenonT(30) DEF Start, Snapshot
<1>. QED  BY <1>1 DEF Quiet, NoNewVoteCalls, Same, electionVars, TypeInv, CallsOK

\* Sending entries or a snapshot adds no vote call.
LEMMA SendQuiet ==
    ASSUME TypeInv, NEW r, ~IsVoteMessage(r), calls' = With(calls, {r})
    PROVE  NoNewVoteCalls
<1>1. ASSUME NEW n \in DOMAIN calls', n # r
      PROVE  n \in DOMAIN calls /\ calls'[n] = calls[n]
  BY Zenon, <1>1 DEF With, TypeInv, CallsOK
<1>2. \A n \in DOMAIN calls : calls[n] \in Nat
  BY Zenon DEF TypeInv, CallsOK
<1>. QED  BY <1>1, <1>2 DEF NoNewVoteCalls

\* sendToFollower (raft.go:809) has no part in elections.
LEMMA sendToFollowerQuiet ==
    ASSUME TypeInv, NEW s \in Server, NEW p \in Server, sendToFollower(s, p)
    PROVE  Quiet
<1>1. UNCHANGED <<currentTerm, votedFor, state, electionVars>>
  BY Zenon DEF sendToFollower, persistentVars
<1>2. NoNewVoteCalls
  <2>. DEFINE next == nextIndex[s][p]
              prev == next - 1
              snap == [type |-> "InstallSnapshot", src |-> s, dst |-> p,
                       inc |-> incarnation[s], term |-> currentTerm[s],
                       lastIncludedIndex |-> lastIncludedIndex[s],
                       lastIncludedTerm |-> lastIncludedTerm[s],
                       data |-> persister[s].snapshot]
              append == [type |-> "AppendEntries", src |-> s, dst |-> p,
                         inc |-> incarnation[s], term |-> currentTerm[s],
                         prevLogIndex |-> prev,
                         prevLogTerm |-> IF prev = 0 THEN 0
                                         ELSE IF prev = lastIncludedIndex[s]
                                              THEN lastIncludedTerm[s]
                                              ELSE getLogTerm(s, prev),
                         entries |-> SubSeq(log[s], toArrayIndex(s, next) + 1, Len(log[s])),
                         leaderCommit |-> commitIndex[s]]
  <2>1. Send({snap}) \/ Send({append})
    BY Zenon DEF sendToFollower
  <2>2. ~IsVoteMessage(snap) /\ ~IsVoteMessage(append)
    BY Zenon DEF IsVoteMessage
  <2>. HIDE DEF snap, append
  <2>3. CASE Send({snap})
    BY Zenon, <2>2, <2>3, SendQuiet DEF Send
  <2>4. CASE Send({append})
    BY Zenon, <2>2, <2>4, SendQuiet DEF Send
  <2>. QED  BY Zenon, <2>1, <2>3, <2>4
<1>. QED  BY Zenon, <1>1, <1>2 DEF Quiet, Same, electionVars

\* A message that is not about votes is answered by one that is not either.
LEMMA RespondQuiet ==
    ASSUME TypeInv, NEW m \in DOMAIN calls, NEW r, ~IsVoteMessage(r), Respond(m, r)
    PROVE  NoNewVoteCalls
BY Zenon, RespondCalls DEF NoNewVoteCalls, TypeInv

\* Losing or consuming a call only takes it away.
LEMMA DiscardQuiet ==
    ASSUME TypeInv, NEW m \in DOMAIN calls, Discard(m)
    PROVE  NoNewVoteCalls
BY Zenon, WithoutCalls DEF NoNewVoteCalls, Discard, TypeInv

\* A server that accepts a term follows in it, or it learns nothing new.
LEMMA ObserveQuiet ==
    ASSUME TypeInv, NEW s \in Server, NEW t \in Nat, ObserveTerm(s, t),
           BecomeFollower(s) \/ (t <= currentTerm[s] /\ UNCHANGED state),
           UNCHANGED <<votesReceived, elections, voters>>
    PROVE  \A u \in Server : Same(u) \/ Follows(u)
<1>1. ASSUME NEW u \in Server, u # s PROVE Same(u)
  <2>1. currentTerm'[u] = currentTerm[u] /\ votedFor'[u] = votedFor[u]
    BY Zenon, <1>1, OthersObserve
  <2>2. state'[u] = state[u]
    <3>1. state \in [Server -> States]
      BY Zenon DEF TypeInv, VolatileOK
    <3>. QED  BY Zenon, <1>1, <3>1 DEF BecomeFollower
  <2>. QED  BY Zenon, <2>1, <2>2 DEF Same
<1>2. currentTerm[s] \in Nat /\ elections[s] \in Nat
  BY Zenon DEF TypeInv, FieldsOK, VolatileOK
<1>3. CASE t > currentTerm[s]
  <2>1. currentTerm'[s] = t
    BY Zenon, <1>3 DEF ObserveTerm, TypeInv, FieldsOK
  <2>2. state'[s] = "Follower"
    BY <1>2, <1>3 DEF BecomeFollower, TypeInv, VolatileOK
  <2>. QED  BY <1>1, <1>2, <1>3, <2>1, <2>2 DEF Follows
<1>4. CASE ~(t > currentTerm[s])
  <2>1. currentTerm'[s] = currentTerm[s] /\ votedFor'[s] = votedFor[s]
    BY Zenon, <1>4 DEF ObserveTerm, TypeInv, FieldsOK
  <2>2. state'[s] = "Follower" \/ state'[s] = state[s]
    BY Zenon DEF BecomeFollower, TypeInv, VolatileOK
  <2>. QED  BY <1>1, <1>2, <2>1, <2>2 DEF Same, Follows
<1>. QED  BY Zenon, <1>3, <1>4

\* AppendEntries (raft.go:382) may end a candidacy and raise a term, never give a vote.
LEMMA AppendEntriesQuiet ==
    ASSUME TypeInv, NEW m \in DOMAIN calls, AppendEntries(m)
    PROVE  Quiet
<1>1. m.dst \in Server /\ m.term \in Nat
  BY Zenon, CallSides
<1>2. PICK r : ~IsVoteMessage(r) /\ Respond(m, r)
  <2>1. \E b, t, i : Respond(m, AppendEntriesResponse(m, b, t, i))
    BY Zenon DEF AppendEntries, RejectEntries, StoreEntries
  <2>2. \A b, t, i : ~IsVoteMessage(AppendEntriesResponse(m, b, t, i))
    BY Zenon DEF AppendEntriesResponse, IsVoteMessage
  <2>. QED  BY Zenon, <2>1, <2>2
<1>3. UNCHANGED <<votesReceived, elections, voters>>
  BY Zenon DEF AppendEntries
<1>4. CASE UNCHANGED <<currentTerm, votedFor, state>>
  BY Zenon, <1>2, <1>3, <1>4, RespondQuiet DEF Quiet, Same
<1>5. CASE ObserveTerm(m.dst, m.term) /\ BecomeFollower(m.dst)
  <2>1. \A t \in Server : Same(t) \/ Follows(t)
    BY Zenon, <1>1, <1>3, <1>5, ObserveQuiet
  <2>. QED  BY Zenon, <1>2, <2>1, RespondQuiet DEF Quiet
<1>. QED  BY ZenonT(30), <1>4, <1>5 DEF AppendEntries

\* The same for InstallSnapshot (raft.go:491).
LEMMA InstallSnapshotQuiet ==
    ASSUME TypeInv, NEW m \in DOMAIN calls, InstallSnapshot(m)
    PROVE  Quiet
<1>1. m.dst \in Server /\ m.term \in Nat
  BY Zenon, CallSides
<1>2. PICK r : r.type = "InstallSnapshotReply" /\ Respond(m, r)
  <2>. DEFINE reply == [type |-> "InstallSnapshotReply", src |-> m.dst, dst |-> m.src,
                        argsTerm |-> m.term, lastIncludedIndex |-> m.lastIncludedIndex,
                        term |-> currentTerm[m.dst]]
  <2>1. Respond(m, reply)
    BY Zenon DEF InstallSnapshot
  <2>2. reply.type = "InstallSnapshotReply"
    BY Zenon
  <2>. HIDE DEF reply
  <2>. QED  BY Zenon, <2>1, <2>2
<1>3. \A t \in Server : Same(t) \/ Follows(t)
  <2>1. currentTerm[m.dst] \in Nat
    BY Zenon, <1>1 DEF TypeInv, FieldsOK
  <2>2. ObserveTerm(m.dst, m.term) /\ UNCHANGED <<votesReceived, elections, voters>>
    BY Zenon DEF InstallSnapshot
  <2>3. BecomeFollower(m.dst) \/ (m.term <= currentTerm[m.dst] /\ UNCHANGED state)
    BY <1>1, <2>1 DEF InstallSnapshot
  <2>. QED  BY Zenon, <1>1, <2>2, <2>3, ObserveQuiet
<1>. QED  BY Zenon, <1>2, <1>3, RespondQuiet DEF Quiet, IsVoteMessage

\* A server that learns of a higher term from a reply follows.
LEMMA StepDownQuiet ==
    ASSUME TypeInv, NEW s \in Server, NEW t \in Nat, StepDown(s, t), t > currentTerm[s]
    PROVE  \A u \in Server : Same(u) \/ Follows(u)
BY DEF StepDown, BecomeFollower, Same, Follows, TypeInv, FieldsOK, VolatileOK

\* The same for the handlers of their replies (raft.go:837, 901).
LEMMA ReplyQuiet ==
    ASSUME TypeInv, NEW m \in DOMAIN calls,
           HandleAppendEntriesReply(m) \/ HandleInstallSnapshotReply(m) \/ LoseCall(m)
    PROVE  Quiet
<1>1. m.dst \in Server /\ m.term \in Nat
  BY Zenon, CallSides
<1>2. NoNewVoteCalls
  BY Zenon, DiscardQuiet DEF HandleAppendEntriesReply, HandleInstallSnapshotReply, LoseCall
<1>3. CASE StepDown(m.dst, m.term) /\ m.term > currentTerm[m.dst]
  BY Zenon, <1>1, <1>2, <1>3, StepDownQuiet DEF Quiet
<1>4. CASE UNCHANGED <<persistentVars, state, electionVars>>
  BY Zenon, <1>2, <1>4 DEF Quiet, Same, persistentVars, electionVars
<1>. QED  BY Zenon, <1>3, <1>4 DEF HandleAppendEntriesReply, HandleInstallSnapshotReply, LoseCall

-----------------------------------------------------------------------------
-----------------------------------------------------------------------------
(* The steps of an election *)

\* A timeout starts a new candidacy for a term in which the server has no vote yet (raft.go:674).
LEMMA checkElectionTimeoutEI ==
    ASSUME MaxPendingElections <= 1, TypeInv, TypeInv', EI, NEW s \in Server,
           checkElectionTimeout(s)
    PROVE  EI'
<1>1. /\ elections[s] = 0 /\ elections'[s] = 1 /\ state'[s] = "Candidate" /\ votedFor'[s] = s
      /\ currentTerm'[s] = currentTerm[s] + 1
  <2>1. elections[s] \in Nat /\ elections[s] < MaxPendingElections
    BY Zenon DEF checkElectionTimeout, TypeInv, VolatileOK
  <2>2. elections[s] = 0
    BY <2>1, BoundAssumption
  <2>. QED  BY <2>2 DEF checkElectionTimeout, TypeInv, FieldsOK, VolatileOK
<1>2. \A c \in Server : c # s => Same(c)
  BY Zenon DEF checkElectionTimeout, Same, TypeInv, FieldsOK, VolatileOK
<1>3. UNCHANGED calls
  BY Zenon DEF checkElectionTimeout
<1>4. \A c \in Server : currentTerm[c] \in Nat
  BY Zenon DEF TypeInv, FieldsOK
<1>5. ASSUME NEW c \in Server, Stands(c)'
      PROVE  Stands(c) /\ c # s /\ currentTerm'[c] = currentTerm[c] /\ voters'[c] = voters[c]
  BY <1>1, <1>2, <1>5 DEF Stands, Same
<1>6. ASSUME NEW c \in Server PROVE Candidacy(c)'
  BY <1>1, <1>2 DEF Candidacy, Stands, Same, EI
<1>7. ASSUME NEW p \in Server, NEW c \in Server, NEW t \in Nat, Voted(p, c, t)'
      PROVE  Voted(p, c, t)
  BY Zenon, <1>3, <1>5, <1>7 DEF Voted, IsVoteCall
<1>8. ASSUME NEW p \in Server, NEW c \in Server, NEW t \in Nat PROVE VotePinned(p, c, t)'
  <2>1. VotePinned(p, c, t)
    BY Zenon DEF EI
  <2>. QED  BY <1>1, <1>2, <1>4, <1>7, <2>1 DEF VotePinned, Same
<1>9. ASSUME NEW p \in Server, NEW c \in Server, NEW d \in Server, NEW t \in Nat
      PROVE  VoteUnique(p, c, d, t)'
  BY Zenon, <1>7 DEF EI, VoteUnique
<1>10. ASSUME NEW m \in DOMAIN calls', NEW p \in Server, NEW c \in Server, NEW t \in Nat
       PROVE  AskedOnce(m, c, p, t)'
  <2>1. AskedOnce(m, c, p, t)
    BY Zenon, <1>3 DEF EI
  <2>. QED  BY <1>1, <1>2, <1>3, <1>4, <1>5, <2>1 DEF AskedOnce, Same, Counted, IsVoteCall
<1>. QED  BY Zenon, <1>6, <1>8, <1>9, <1>10 DEF EI

\* startElection asks each peer once for the candidacy's term (raft.go:699).
LEMMA startElectionEI ==
    ASSUME CountingFacts, TypeInv, TypeInv', EI, NEW s \in Server, startElection(s)
    PROVE  EI'
<1>. DEFINE now == currentTerm[s]
            ask(p) == [type |-> "RequestVote", src |-> s, dst |-> p, inc |-> incarnation[s],
                       term |-> currentTerm[s], lastLogIndex |-> getLastLogIndex(s),
                       lastLogTerm |-> getLastLogTerm(s)]
            asks == {ask(p) : p \in Server \ {s}}
<1>1. /\ UNCHANGED <<state, currentTerm, votedFor>>
      /\ elections[s] = 1 /\ elections'[s] = 0
      /\ votesReceived'[s] = 1 /\ voters'[s] = {s}
  <2>1. elections[s] \in Nat /\ elections[s] <= 1 /\ elections[s] > 0
    BY Zenon DEF startElection, EI, Candidacy, TypeInv, VolatileOK
  <2>2. /\ elections' = [elections EXCEPT ![s] = @ - 1]
        /\ votesReceived' = [votesReceived EXCEPT ![s] = 1] /\ voters' = [voters EXCEPT ![s] = {s}]
        /\ UNCHANGED <<state, currentTerm, votedFor>>
    BY Zenon DEF startElection, persistentVars
  <2>. QED  BY <2>1, <2>2 DEF TypeInv, VolatileOK
<1>2. \A c \in Server : c # s => Same(c)
  BY Zenon DEF startElection, persistentVars, Same, TypeInv, FieldsOK, VolatileOK
<1>3. \A c \in Server : currentTerm[c] \in Nat
  BY Zenon DEF TypeInv, FieldsOK
<1>4. /\ \A p \in Server \ {s} : \A c, q, t :
            IsVoteCall(ask(p), c, q, t) <=> c = s /\ q = p /\ t = now
      /\ \A p \in Server \ {s} : ask(p).type = "RequestVote"
  BY DEF IsVoteCall
<1>5. ASSUME NEW m \in DOMAIN calls, NEW p \in Server PROVE ~IsVoteCall(m, s, p, now)
  BY <1>1, <1>3 DEF EI, AskedOnce
<1>6. \A p \in Server \ {s} : ask(p) \notin DOMAIN calls
  BY <1>4, <1>5
<1>7. Send(asks)
  BY Zenon DEF startElection
<1>. HIDE DEF ask, now
<1>8. /\ DOMAIN calls' = DOMAIN calls \cup asks
      /\ \A m \in DOMAIN calls : calls'[m] = calls[m]
      /\ \A m \in asks : calls'[m] = 1
  <2>1. \A m \in asks : m \notin DOMAIN calls
    BY Zenon, <1>6
  <2>. HIDE DEF asks
  <2>. QED  BY Zenon, <1>7, <2>1 DEF Send, With, TypeInv, CallsOK
<1>9. ASSUME NEW c \in Server PROVE Candidacy(c)'
  <2>1. CASE c = s
    <3>1. Cardinality({s}) = 1
      BY Zenon DEF CountingFacts
    <3>2. state[s] # "Leader" /\ (state[s] # "Follower" => votedFor[s] = s)
      BY <1>1 DEF EI, Candidacy
    <3>. QED  BY <1>1, <2>1, <3>1, <3>2 DEF Candidacy
  <2>2. CASE c # s
    BY Zenon, <1>2, <2>2 DEF EI, Candidacy, Stands, Same
  <2>. QED  BY Zenon, <2>1, <2>2
<1>10. ASSUME NEW p \in Server, NEW c \in Server, NEW t \in Nat, Voted(p, c, t)'
       PROVE  Voted(p, c, t) \/ (p = s /\ c = s /\ t = currentTerm[s] /\ votedFor[s] = s)
  <2>1. CASE \E m \in DOMAIN calls' :
               m.type = "RequestVoteReply" /\ m.voteGranted /\ IsVoteCall(m, c, p, t)
    BY <1>4, <1>8, <2>1 DEF Voted
  <2>2. CASE Stands(c)' /\ currentTerm'[c] = t /\ p \in voters'[c] /\ c # s
    BY Zenon, <1>2, <2>2 DEF Voted, Stands, Same
  <2>3. CASE Stands(c)' /\ currentTerm'[c] = t /\ p \in voters'[c] /\ c = s
    BY Zenon, <1>1, <2>3 DEF Stands, EI, Candidacy
  <2>. QED  BY Zenon, <1>10, <2>1, <2>2, <2>3 DEF Voted, IsVoteCall
<1>11. ASSUME NEW p \in Server, NEW c \in Server, NEW t \in Nat PROVE VotePinned(p, c, t)'
  BY <1>1, <1>3, <1>10 DEF EI, VotePinned
<1>12. ASSUME NEW p \in Server, NEW c \in Server, NEW d \in Server, NEW t \in Nat
       PROVE  VoteUnique(p, c, d, t)'
  BY <1>3, <1>10 DEF EI, VotePinned, VoteUnique
<1>13. ASSUME NEW m \in DOMAIN calls', NEW p \in Server, NEW c \in Server, NEW t \in Nat,
              IsVoteCall(m, c, p, t)
       PROVE  /\ calls'[m] = 1
              /\ \A n \in DOMAIN calls' : IsVoteCall(n, c, p, t) => n = m
              /\ t <= currentTerm'[c]
              /\ t = currentTerm'[c] => elections'[c] = 0 /\ ~Counted(p, c)'
  <2>1. CASE m \in DOMAIN calls
    <3>1. AskedOnce(m, c, p, t)
      BY Zenon, <2>1 DEF EI
    <3>2. c = s => t # now
      BY Zenon, <1>5, <1>13, <2>1
    <3>3. \A n \in DOMAIN calls' : IsVoteCall(n, c, p, t) => n = m
      BY <1>4, <1>8, <1>13, <3>1, <3>2 DEF AskedOnce
    <3>4. t = currentTerm'[c] => elections'[c] = 0 /\ ~Counted(p, c)'
      BY Zenon, <1>1, <1>2, <1>13, <3>1, <3>2 DEF AskedOnce, Same, Counted, Stands, now
    <3>. QED  BY Zenon, <1>1, <1>8, <1>13, <2>1, <3>1, <3>3, <3>4 DEF AskedOnce
  <2>2. CASE m \in asks
    <3>1. p # s /\ m = ask(p) /\ c = s /\ t = now
      BY <1>4, <1>13, <2>2
    <3>2. \A n \in DOMAIN calls' : IsVoteCall(n, c, p, t) => n = m
      BY <1>4, <1>5, <1>8, <3>1
    <3>3. ~Counted(p, c)'
      BY Zenon, <1>1, <3>1 DEF Counted
    <3>4. calls'[m] = 1
      BY Zenon, <1>8, <2>2
    <3>5. t <= currentTerm'[c] /\ elections'[c] = 0
      BY <1>1, <1>3, <3>1 DEF now
    <3>. QED  BY Zenon, <3>2, <3>3, <3>4, <3>5
  <2>. QED  BY Zenon, <1>8, <2>1, <2>2
<1>14. ASSUME NEW m \in DOMAIN calls', NEW p \in Server, NEW c \in Server, NEW t \in Nat
       PROVE  AskedOnce(m, c, p, t)'
  BY Zenon, <1>13 DEF AskedOnce, IsVoteCall
<1>. QED  BY Zenon, <1>9, <1>11, <1>12, <1>14 DEF EI

\* The request is replaced by its reply, which is the only delivery of that call.
LEMMA VoteAnswered ==
    ASSUME TypeInv, EI, NEW m \in DOMAIN calls, m.type = "RequestVote", NEW r, Respond(m, r),
           r.type = "RequestVoteReply", r.dst = m.src, r.src = m.dst, r.argsTerm = m.term
    PROVE  \A n \in DOMAIN calls' :
               \/ n = r /\ calls'[n] = 1
               \/ n # m /\ n # r /\ n \in DOMAIN calls /\ calls'[n] = calls[n]
<1>1. m.src \in Server /\ m.dst \in Server /\ m.term \in Nat
  BY Zenon, CallSides
<1>2. AskedOnce(m, m.src, m.dst, m.term)
  BY Zenon, <1>1 DEF EI
<1>3. calls[m] = 1 /\ r \notin DOMAIN calls
  BY Zenon, <1>2 DEF AskedOnce, IsVoteCall
<1>. DEFINE B == Without(m)
<1>4. /\ DOMAIN B \subseteq DOMAIN calls /\ m \notin DOMAIN B
      /\ \A n \in DOMAIN B : B[n] = calls[n]
  BY Zenon, <1>3, WithoutCalls DEF TypeInv
<1>5. CallsOK(B) /\ r \notin DOMAIN B
  BY Zenon, <1>3, <1>4, TakenOut DEF TypeInv
<1>6. calls' = B \/ calls' = With(B, {r})
  BY Zenon DEF Respond
<1>. HIDE DEF B
<1>7. CASE calls' = B
  BY Zenon, <1>3, <1>4, <1>7
<1>8. CASE calls' = With(B, {r})
  <2>1. \A n \in DOMAIN With(B, {r}) :
           \/ n = r /\ With(B, {r})[n] = 1
           \/ n # r /\ n \in DOMAIN B /\ With(B, {r})[n] = B[n]
    BY Zenon, <1>5 DEF With, CallsOK
  <2>. QED  BY Zenon, <1>4, <1>8, <2>1
<1>. QED  BY Zenon, <1>6, <1>7, <1>8

\* A vote is given to one candidate of a term and saved before it is answered (raft.go:323).
LEMMA RequestVoteEI ==
    ASSUME TypeInv, TypeInv', EI, NEW m \in DOMAIN calls, RequestVote(m)
    PROVE  EI'
<1>. DEFINE s == m.dst
            free == m.term > currentTerm[s] \/ votedFor[s] \in {Nil, m.src}
            grant == m.term >= currentTerm[s] /\ free /\ logIsAtLeastAsUpToDate(m)
            reply == [type |-> "RequestVoteReply", src |-> s, dst |-> m.src,
                      argsTerm |-> m.term, term |-> currentTerm[s], voteGranted |-> grant]
<1>1. m.type = "RequestVote" /\ m.src \in Server /\ s \in Server /\ m.term \in Nat
  BY Zenon, CallSides DEF RequestVote
<1>2. \A c \in Server : currentTerm[c] \in Nat /\ votedFor[c] \in Server \cup {Nil}
  BY Zenon DEF TypeInv, FieldsOK
<1>3. UNCHANGED <<elections, votesReceived, voters>>
  BY Zenon DEF RequestVote
<1>4. \A c \in Server : c # s => Same(c)
  <2>. SUFFICES ASSUME NEW c \in Server, c # s PROVE Same(c)
    BY Zenon
  <2>1. currentTerm'[c] = currentTerm[c]
    BY Zenon, <1>1 DEF RequestVote, TypeInv, FieldsOK
  <2>2. votedFor'[c] = votedFor[c]
    BY Zenon, <1>1 DEF RequestVote, TypeInv, FieldsOK
  <2>3. state'[c] = state[c]
    BY Zenon, <1>1 DEF RequestVote, BecomeFollower, TypeInv, VolatileOK
  <2>. QED  BY Zenon, <1>3, <2>1, <2>2, <2>3 DEF Same
<1>5. currentTerm'[s] = IF m.term > currentTerm[s] THEN m.term ELSE currentTerm[s]
  BY Zenon, <1>1 DEF RequestVote, TypeInv, FieldsOK
<1>6. votedFor'[s] = IF grant THEN m.src
                     ELSE IF m.term > currentTerm[s] THEN Nil ELSE votedFor[s]
  BY Zenon, <1>1 DEF RequestVote, TypeInv, FieldsOK
<1>7. state'[s] = IF m.term > currentTerm[s] THEN "Follower" ELSE state[s]
  BY Zenon, <1>1 DEF RequestVote, BecomeFollower, TypeInv, VolatileOK
<1>8. Respond(m, reply)
  BY Zenon DEF RequestVote
<1>9. /\ reply.type = "RequestVoteReply" /\ reply.dst = m.src /\ reply.src = s
      /\ reply.argsTerm = m.term /\ reply.voteGranted = grant
  BY Zenon
<1>. HIDE DEF reply
<1>10. \A n \in DOMAIN calls' :
           \/ n = reply /\ calls'[n] = 1
           \/ n # m /\ n # reply /\ n \in DOMAIN calls /\ calls'[n] = calls[n]
  BY Zenon, <1>1, <1>8, <1>9, VoteAnswered
<1>11. \A c, p, t : IsVoteCall(reply, c, p, t) <=> IsVoteCall(m, c, p, t)
  BY Zenon, <1>1, <1>9 DEF IsVoteCall
<1>12. grant => /\ m.term >= currentTerm[s]
                /\ m.term > currentTerm[s] \/ votedFor[s] \in {Nil, m.src}
  BY Zenon
<1>. HIDE DEF grant, free
<1>13. ASSUME NEW c \in Server
       PROVE  /\ currentTerm'[c] >= currentTerm[c]
              /\ Stands(c)' => Stands(c) /\ currentTerm'[c] = currentTerm[c]
  BY <1>1, <1>2, <1>3, <1>4, <1>5, <1>7 DEF Stands, Same
<1>14. ASSUME NEW c \in Server PROVE Candidacy(c)'
  <2>1. CASE c # s
    BY Zenon, <1>4, <2>1 DEF EI, Candidacy, Stands, Same
  <2>2. CASE c = s
    <3>1. Candidacy(s)
      BY Zenon, <1>1 DEF EI
    <3>2. CASE m.term > currentTerm[s]
      BY Zenon, <1>3, <1>7, <2>2, <3>1, <3>2 DEF Candidacy, Stands
    <3>3. CASE ~(m.term > currentTerm[s])
      <4>1. state'[s] = state[s]
        BY Zenon, <1>7, <3>3
      <4>2. state[s] # "Follower" => votedFor'[s] = s
        BY Zenon, <1>1, <1>6, <1>12, <3>1, <3>3, ServerAssumption DEF Candidacy
      <4>. QED  BY Zenon, <1>3, <2>2, <3>1, <4>1, <4>2 DEF Candidacy, Stands
    <3>. QED  BY Zenon, <3>2, <3>3
  <2>. QED  BY Zenon, <2>1, <2>2
<1>15. ASSUME NEW p \in Server, NEW c \in Server, NEW t \in Nat, Voted(p, c, t)'
       PROVE  Voted(p, c, t) \/ (grant /\ p = s /\ c = m.src /\ t = m.term)
  <2>1. CASE \E n \in DOMAIN calls' :
               n.type = "RequestVoteReply" /\ n.voteGranted /\ IsVoteCall(n, c, p, t)
    BY Zenon, <1>1, <1>9, <1>10, <1>11, <2>1 DEF Voted, IsVoteCall
  <2>2. CASE Stands(c)' /\ currentTerm'[c] = t /\ p \in voters'[c]
    BY Zenon, <1>3, <1>13, <2>2 DEF Voted
  <2>. QED  BY Zenon, <1>15, <2>1, <2>2 DEF Voted, IsVoteCall
<1>16. ASSUME NEW p \in Server, NEW c \in Server, NEW t \in Nat, Voted(p, c, t)'
       PROVE  currentTerm'[p] >= t /\ (currentTerm'[p] = t => votedFor'[p] = c)
  <2>1. CASE Voted(p, c, t)
    <3>1. currentTerm[p] >= t /\ (currentTerm[p] = t => votedFor[p] = c)
      BY Zenon, <2>1 DEF EI, VotePinned
    <3>2. CASE p # s
      BY Zenon, <1>4, <3>1, <3>2 DEF Same
    <3>3. CASE p = s
      BY <1>1, <1>2, <1>5, <1>6, <1>12, <3>1, <3>3, ServerAssumption
    <3>. QED  BY Zenon, <3>2, <3>3
  <2>2. CASE grant /\ p = s /\ c = m.src /\ t = m.term
    BY <1>1, <1>2, <1>5, <1>6, <1>12, <2>2
  <2>. QED  BY Zenon, <1>15, <1>16, <2>1, <2>2
<1>17. ASSUME NEW p \in Server, NEW c \in Server, NEW d \in Server, NEW t \in Nat,
              Voted(p, c, t)', Voted(p, d, t)'
       PROVE  c = d
  <2>1. CASE Voted(p, c, t) /\ Voted(p, d, t)
    BY Zenon, <2>1 DEF EI, VoteUnique
  <2>2. CASE grant /\ p = s /\ t = m.term
    <3>1. currentTerm'[p] = t
      BY <1>1, <1>2, <1>5, <1>12, <2>2
    <3>. QED  BY <1>16, <1>17, <3>1
  <2>. QED  BY Zenon, <1>15, <1>17, <2>1, <2>2
<1>18. ASSUME NEW n \in DOMAIN calls', NEW p \in Server, NEW c \in Server, NEW t \in Nat,
              IsVoteCall(n, c, p, t)
       PROVE  /\ calls'[n] = 1
              /\ \A k \in DOMAIN calls' : IsVoteCall(k, c, p, t) => k = n
              /\ t <= currentTerm'[c]
              /\ t = currentTerm'[c] => elections'[c] = 0 /\ ~Counted(p, c)'
  <2>. DEFINE o == IF n = reply THEN m ELSE n
  <2>1. o \in DOMAIN calls /\ IsVoteCall(o, c, p, t)
    BY Zenon, <1>10, <1>11, <1>18
  <2>2. AskedOnce(o, c, p, t)
    BY Zenon, <2>1 DEF EI
  <2>3. calls'[n] = 1
    BY Zenon, <1>10, <2>1, <2>2 DEF AskedOnce
  <2>4. \A k \in DOMAIN calls' : IsVoteCall(k, c, p, t) => k = n
    BY Zenon, <1>10, <1>11, <2>1, <2>2 DEF AskedOnce
  <2>5. t <= currentTerm[c] /\ (t = currentTerm[c] => elections[c] = 0 /\ ~Counted(p, c))
    BY Zenon, <2>1, <2>2 DEF AskedOnce
  <2>6. currentTerm[c] \in Nat /\ currentTerm'[c] \in Nat /\ currentTerm'[c] >= currentTerm[c]
    BY Zenon, <1>13 DEF TypeInv, FieldsOK
  <2>7. t = currentTerm'[c] => elections'[c] = 0 /\ ~Counted(p, c)'
    BY <1>3, <1>13, <2>5, <2>6 DEF Counted
  <2>. QED  BY <2>3, <2>4, <2>5, <2>6, <2>7
<1>. QED
  <2>1. \A p, c \in Server : \A t \in Nat : VotePinned(p, c, t)'
    BY Zenon, <1>16 DEF VotePinned
  <2>2. \A p, c, d \in Server : \A t \in Nat : VoteUnique(p, c, d, t)'
    BY Zenon, <1>17 DEF VoteUnique
  <2>3. \A n \in DOMAIN calls' : \A p, c \in Server : \A t \in Nat : AskedOnce(n, c, p, t)'
    BY Zenon, <1>18 DEF AskedOnce, IsVoteCall
  <2>. QED  BY Zenon, <1>14, <2>1, <2>2, <2>3 DEF EI

\* A counted vote is a vote given in this term, by a peer not counted before (raft.go:728).
LEMMA HandleRequestVoteReplyEI ==
    ASSUME CountingFacts, TypeInv, TypeInv', EI, NEW m \in DOMAIN calls,
           HandleRequestVoteReply(m)
    PROVE  EI'
<1>. DEFINE s == m.dst
            p0 == m.src
<1>1. m.type = "RequestVoteReply" /\ p0 \in Server /\ s \in Server /\ m.term \in Nat
  BY Zenon, CallSides DEF HandleRequestVoteReply
<1>2. Discard(m)
  BY Zenon DEF HandleRequestVoteReply
<1>3. CASE UNCHANGED <<persistentVars, state, electionVars>>
  <2>1. \A c \in Server : Same(c)
    BY Zenon, <1>3 DEF Same, persistentVars, electionVars
  <2>. QED  BY Zenon, <1>2, <2>1, DiscardQuiet, QuietStep DEF Quiet
<1>4. CASE StepDown(s, m.term) /\ m.term > currentTerm[s]
  BY Zenon, <1>1, <1>2, <1>4, StepDownQuiet, DiscardQuiet, QuietStep DEF Quiet
<1>5. CASE state[s] = "Candidate" /\ currentTerm[s] = m.argsTerm /\ m.voteGranted
           /\ CountVote(s, p0)
  <2>1. IsVoteCall(m, s, p0, currentTerm[s]) /\ currentTerm[s] \in Nat
    BY Zenon, <1>1, <1>5 DEF IsVoteCall, TypeInv, FieldsOK
  <2>2. AskedOnce(m, s, p0, currentTerm[s])
    BY Zenon, <1>1, <2>1 DEF EI
  <2>3. calls[m] = 1 /\ elections[s] = 0 /\ Stands(s) /\ p0 \notin voters[s]
    BY Zenon, <1>5, <2>1, <2>2 DEF AskedOnce, Counted, Stands
  <2>4. UNCHANGED <<currentTerm, votedFor, elections>>
    BY Zenon, <1>5 DEF CountVote, persistentVars
  <2>5. \A c \in Server : c # s => Same(c)
    <3>. SUFFICES ASSUME NEW c \in Server, c # s PROVE Same(c)
      BY Zenon
    <3>0. state \in [Server -> States] /\ votesReceived \in [Server -> Nat]
          /\ voters \in [Server -> SUBSET Server]
      BY Zenon DEF TypeInv, VolatileOK
    <3>1. state'[c] = state[c]
      <4>1. state' = [state EXCEPT ![s] = "Leader"] \/ state' = state
        BY ZenonT(30), <1>5 DEF CountVote
      <4>. QED  BY Zenon, <1>1, <3>0, <4>1
    <3>2. votesReceived'[c] = votesReceived[c] /\ voters'[c] = voters[c]
      <4>1. /\ votesReceived' = [votesReceived EXCEPT ![s] = votesReceived[s] + 1]
            /\ voters' = [voters EXCEPT ![s] = voters[s] \cup {p0}]
        BY ZenonT(30), <1>5 DEF CountVote
      <4>. QED  BY Zenon, <1>1, <3>0, <4>1
    <3>. QED  BY Zenon, <2>4, <3>1, <3>2 DEF Same
  <2>6. voters'[s] = voters[s] \cup {p0} /\ votesReceived'[s] = votesReceived[s] + 1
    <3>1. votesReceived \in [Server -> Nat] /\ voters \in [Server -> SUBSET Server]
      BY Zenon DEF TypeInv, VolatileOK
    <3>2. /\ votesReceived' = [votesReceived EXCEPT ![s] = votesReceived[s] + 1]
          /\ voters' = [voters EXCEPT ![s] = voters[s] \cup {p0}]
      BY ZenonT(30), <1>5 DEF CountVote
    <3>. QED  BY Zenon, <1>1, <3>1, <3>2
  <2>7. state'[s] = IF IsMajority(votesReceived'[s]) THEN "Leader" ELSE "Candidate"
    <3>1. state \in [Server -> States]
      BY Zenon DEF TypeInv, VolatileOK
    <3>2. IF IsMajority(votesReceived[s] + 1)
          THEN state' = [state EXCEPT ![s] = "Leader"] ELSE state' = state
      BY ZenonT(30), <1>5 DEF CountVote
    <3>. QED  BY Zenon, <1>1, <1>5, <2>6, <3>1, <3>2
  <2>8. \A n \in DOMAIN calls' : n # m /\ n \in DOMAIN calls /\ calls'[n] = calls[n]
    BY Zenon, <1>2, <2>3, WithoutCalls DEF Discard, TypeInv
  <2>9. ASSUME NEW c \in Server PROVE Candidacy(c)'
    <3>1. CASE c # s
      BY Zenon, <2>5, <3>1 DEF EI, Candidacy, Stands, Same
    <3>2. CASE c = s
      <4>1. Candidacy(s)
        BY Zenon, <1>1 DEF EI
      <4>2. voters[s] \in SUBSET Server
        <5>1. voters \in [Server -> SUBSET Server]
          BY Zenon DEF TypeInv, VolatileOK
        <5>. QED  BY Zenon, <1>1, <5>1
      <4>3. votesReceived'[s] = Cardinality(voters'[s])
        <5>1. votesReceived[s] = Cardinality(voters[s])
          BY Zenon, <2>3, <4>1 DEF Candidacy
        <5>2. m.src \in Server \ voters[s]
          BY Zenon, <1>1, <2>3
        <5>3. Cardinality(voters[s] \cup {m.src}) = Cardinality(voters[s]) + 1
          BY Zenon, <4>2, <5>2 DEF CountingFacts
        <5>. QED  BY Zenon, <2>6, <5>1, <5>3
      <4>4. votedFor'[s] = s
        BY Zenon, <1>5, <2>4, <4>1 DEF Candidacy
      <4>. QED  BY <2>3, <2>4, <2>7, <3>2, <4>3, <4>4 DEF Candidacy
    <3>. QED  BY Zenon, <3>1, <3>2
  <2>10. ASSUME NEW c \in Server, Stands(c)'
         PROVE  Stands(c) /\ \A p \in voters'[c] : p \in voters[c] \/ (c = s /\ p = p0)
    BY Zenon, <2>3, <2>5, <2>6, <2>10 DEF Stands, Same
  <2>11. ASSUME NEW p \in Server, NEW c \in Server, NEW t \in Nat, Voted(p, c, t)'
         PROVE  Voted(p, c, t)
    <3>1. CASE \E n \in DOMAIN calls' :
                 n.type = "RequestVoteReply" /\ n.voteGranted /\ IsVoteCall(n, c, p, t)
      BY Zenon, <2>8, <3>1 DEF Voted
    <3>2. CASE Stands(c)' /\ currentTerm'[c] = t /\ p \in voters'[c]
      <4>1. Stands(c) /\ currentTerm[c] = t /\ (p \in voters[c] \/ (c = s /\ p = p0))
        BY Zenon, <2>4, <2>10, <3>2
      <4>2. CASE p \in voters[c]
        BY Zenon, <4>1, <4>2 DEF Voted
      <4>3. CASE c = s /\ p = p0
        BY Zenon, <1>1, <1>5, <2>1, <4>1, <4>3 DEF Voted
      <4>. QED  BY Zenon, <4>1, <4>2, <4>3
    <3>. QED  BY Zenon, <2>11, <3>1, <3>2 DEF Voted, IsVoteCall
  <2>12. ASSUME NEW p \in Server, NEW c \in Server, NEW t \in Nat PROVE VotePinned(p, c, t)'
    BY Zenon, <2>4, <2>11 DEF EI, VotePinned
  <2>13. ASSUME NEW p \in Server, NEW c \in Server, NEW d \in Server, NEW t \in Nat
         PROVE  VoteUnique(p, c, d, t)'
    BY Zenon, <2>11 DEF EI, VoteUnique
  <2>14. ASSUME NEW n \in DOMAIN calls', NEW p \in Server, NEW c \in Server, NEW t \in Nat,
                IsVoteCall(n, c, p, t)
         PROVE  /\ calls'[n] = 1
                /\ \A k \in DOMAIN calls' : IsVoteCall(k, c, p, t) => k = n
                /\ t <= currentTerm'[c]
                /\ t = currentTerm'[c] => elections'[c] = 0 /\ ~Counted(p, c)'
    <3>1. AskedOnce(n, c, p, t) /\ n \in DOMAIN calls /\ n # m
      BY Zenon, <2>8 DEF EI
    <3>2. calls[n] = 1 /\ (\A k \in DOMAIN calls : IsVoteCall(k, c, p, t) => k = n)
          /\ t <= currentTerm[c] /\ (t = currentTerm[c] => elections[c] = 0 /\ ~Counted(p, c))
      BY Zenon, <2>14, <3>1 DEF AskedOnce
    <3>3. t = currentTerm[c] => ~Counted(p, c)'
      BY Zenon, <2>1, <2>10, <3>1, <3>2 DEF Counted
    <3>. QED  BY Zenon, <2>4, <2>8, <3>2, <3>3
  <2>15. \A n \in DOMAIN calls' : \A p, c \in Server : \A t \in Nat : AskedOnce(n, c, p, t)'
    BY Zenon, <2>14 DEF AskedOnce, IsVoteCall
  <2>. QED  BY Zenon, <2>9, <2>12, <2>13, <2>15 DEF EI
<1>. QED  BY Zenon, <1>3, <1>4, <1>5 DEF HandleRequestVoteReply

-----------------------------------------------------------------------------
(* The theorem *)

\* Every step keeps the election invariant.
LEMMA ElectionStep ==
    ASSUME MaxPendingElections <= 1, CountingFacts, TypeInv, TypeInv', EI, [Next]_vars
    PROVE  EI'
<1>1. ASSUME NEW s \in Server, ServerStep(s) PROVE EI'
  <2>1. CASE Restart(s)
    BY Zenon, <2>1, RestartQuiet, QuietStep
  <2>2. CASE checkElectionTimeout(s)
    BY Zenon, <2>2, checkElectionTimeoutEI
  <2>3. CASE startElection(s)
    BY Zenon, <2>3, startElectionEI
  <2>4. CASE (\E c \in Command : Start(s, c)) \/ (\E i \in SnapshotIndex : Snapshot(s, i))
    BY Zenon, <2>4, ServiceQuiet, QuietStep
  <2>5. CASE \E p \in Server : sendToFollower(s, p)
    BY Zenon, <2>5, sendToFollowerQuiet, QuietStep
  <2>. QED  BY Zenon, <1>1, <2>1, <2>2, <2>3, <2>4, <2>5 DEF ServerStep
<1>2. ASSUME NEW m \in DOMAIN calls, MessageStep(m) PROVE EI'
  <2>1. CASE RestartInHandler(m) \/ AppendEntriesPanic(m)
    BY Zenon, <2>1, RestartInHandlerQuiet, AppendEntriesPanicQuiet, QuietStep
  <2>2. CASE RequestVote(m)
    BY Zenon, <2>2, RequestVoteEI
  <2>3. CASE HandleRequestVoteReply(m)
    BY Zenon, <2>3, HandleRequestVoteReplyEI
  <2>4. CASE AppendEntries(m) \/ InstallSnapshot(m)
    BY Zenon, <2>4, AppendEntriesQuiet, InstallSnapshotQuiet, QuietStep
  <2>5. CASE HandleAppendEntriesReply(m) \/ HandleInstallSnapshotReply(m) \/ LoseCall(m)
    BY Zenon, <2>5, ReplyQuiet, QuietStep
  <2>. QED  BY Zenon, <1>2, <2>1, <2>2, <2>3, <2>4, <2>5 DEF MessageStep
<1>3. CASE UNCHANGED vars
  <2>1. Quiet
    BY <1>3 DEF vars, persistentVars, electionVars, Quiet, NoNewVoteCalls, Same, TypeInv,
                CallsOK
  <2>. QED  BY Zenon, <2>1, QuietStep
<1>. QED  BY Zenon, <1>1, <1>2, <1>3 DEF Next
=============================================================================
