------------------------------ MODULE RaftTypes ------------------------------
(***************************************************************************)
(* The type invariant of Raft in the parts its proofs treat one by one.    *)
(***************************************************************************)
EXTENDS Raft

\* Well-formed messages: typed, and a snapshot reaches to the index it names.
GoodMessage == {m \in Message : m.type = "InstallSnapshot" => Len(m.data) = m.lastIncludedIndex}

CallsOK(B) == B \in [DOMAIN B -> Nat \ {0}] /\ DOMAIN B \subseteq GoodMessage

SavedState == [currentTerm : Nat, votedFor : Server \cup {Nil}, log : Seq(LogEntry),
               lastIncludedIndex : Nat, lastIncludedTerm : Nat, snapshot : Seq(LogEntry)]

FieldsOK ==
    /\ currentTerm \in [Server -> Nat]
    /\ votedFor \in [Server -> Server \cup {Nil}]
    /\ log \in [Server -> Seq(LogEntry)]
    /\ lastIncludedIndex \in [Server -> Nat]
    /\ lastIncludedTerm \in [Server -> Nat]

\* What s saved is what it has in memory.
Mirrors(s) ==
    /\ persister[s].currentTerm = currentTerm[s]
    /\ persister[s].votedFor = votedFor[s]
    /\ persister[s].log = log[s]
    /\ persister[s].lastIncludedIndex = lastIncludedIndex[s]
    /\ persister[s].lastIncludedTerm = lastIncludedTerm[s]
    /\ Len(persister[s].snapshot) = lastIncludedIndex[s]
    /\ Len(log[s]) > 0

DiskOK ==
    /\ persister \in [Server -> SavedState]
    /\ \A s \in Server : Mirrors(s)

VolatileOK ==
    /\ commitIndex \in [Server -> Nat]
    /\ nextIndex \in [Server -> [Server -> Nat]]
    /\ matchIndex \in [Server -> [Server -> Nat]]
    /\ state \in [Server -> States]
    /\ votesReceived \in [Server -> Nat]
    /\ elections \in [Server -> Nat]
    /\ lateCheck \subseteq Server
    /\ restarts \in Nat
    /\ incarnation \in [Server -> Nat]
    /\ voters \in [Server -> SUBSET Server]

TypeInv == FieldsOK /\ DiskOK /\ VolatileOK /\ CallsOK(calls)

\* The part of the server's state that elections depend on is the same.
Same(s) ==
    /\ state'[s] = state[s] /\ currentTerm'[s] = currentTerm[s] /\ votedFor'[s] = votedFor[s]
    /\ elections'[s] = elections[s] /\ votesReceived'[s] = votesReceived[s]
    /\ voters'[s] = voters[s]
=============================================================================
