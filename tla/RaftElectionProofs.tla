------------------------- MODULE RaftElectionProofs -------------------------
(***************************************************************************)
(* What the lemmas about Raft give together: the types of RaftProofs and   *)
(* the election invariant of RaftElectionInvariant hold in every reachable *)
(* state, with the facts about the counting of servers that the latter     *)
(* takes for granted.                                                      *)
(***************************************************************************)
EXTENDS RaftProofs, RaftElectionInvariant, FiniteSetTheorems

-----------------------------------------------------------------------------
(* Counting servers *)

\* Two majorities of the servers share a member (raft.go:749).
LEMMA MajorityOfServers ==
    ASSUME NEW S \in SUBSET Server, NEW T \in SUBSET Server,
           IsMajority(Cardinality(S)), IsMajority(Cardinality(T))
    PROVE  S \cap T # {}
<1>1. IsFiniteSet(Server)
  BY Zenon, ServerAssumption
<1>2. Cardinality(Server) \in Nat /\ Cardinality(S) \in Nat /\ Cardinality(T) \in Nat
  BY Zenon, <1>1, FS_Subset, FS_CardinalityType
<1>3. 2 * Cardinality(S) > Cardinality(Server) /\ 2 * Cardinality(T) > Cardinality(Server)
  BY Zenon DEF IsMajority
<1>4. Cardinality(S) + Cardinality(T) > Cardinality(Server)
  BY <1>2, <1>3
<1>. QED  BY Zenon, <1>1, <1>4, FS_MajoritiesIntersect

\* What the proof of the election invariant needs of counting.
LEMMA ServersCount == CountingFacts
<1>1. ASSUME NEW S \in SUBSET Server, NEW p \in Server \ S
      PROVE  Cardinality(S \cup {p}) = Cardinality(S) + 1
  <2>1. IsFiniteSet(S) /\ p \notin S
    BY Zenon, <1>1, ServerAssumption, FS_Subset
  <2>. QED  BY Zenon, <2>1, FS_AddElement
<1>2. \A p \in Server : Cardinality({p}) = 1
  BY Zenon, FS_Singleton
<1>. QED  BY Zenon, <1>1, <1>2, MajorityOfServers DEF CountingFacts

-----------------------------------------------------------------------------
(* The theorems *)

\* With at most one pending startElection goroutine per server, a term has at most
\* one leader in every cluster and however often servers crash: votes are given
\* once per term and each is counted once (RequestVote, startElection).
THEOREM OneLeaderPerTerm ==
    ASSUME MaxPendingElections <= 1
    PROVE  Spec => [](ElectionInv /\ ElectionSafety)
<1>1. Init => TypeInv /\ EI
  BY Zenon, InitTypes, EIInit
<1>2. TypeInv /\ EI /\ [Next]_vars => (TypeInv /\ EI)'
  BY Zenon, TypeStep, ElectionStep, ServersCount
<1>3. TypeInv /\ EI => ElectionInv /\ ElectionSafety
  BY Zenon, EIImpliesElectionInv, EIImpliesElectionSafety, ServersCount
<1>. QED  BY <1>1, <1>2, <1>3, PTL DEF Spec

\* The accounts behind it, by name: a vote pins the voter's term and votedFor, no two
\* votes of a peer in a term differ, and votesReceived counts different peers.
THEOREM VotesAreCountedOnce ==
    ASSUME MaxPendingElections <= 1
    PROVE  Spec => []ElectionInv
BY OneLeaderPerTerm, PTL
=============================================================================
