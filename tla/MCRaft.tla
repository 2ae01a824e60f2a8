------------------------------- MODULE MCRaft -------------------------------
(* Instances of Raft for TLC. *)
EXTENDS Raft, TLC

CONSTANTS s1, s2, s3, c1

Symmetry ==
    Permutations(Electable) \cup Permutations(Server \ Electable) \cup Permutations(Command)

\* nextIndex and matchIndex are read by a leader only, and set when a server
\* becomes one; votesReceived is read by a candidate only, and set by the
\* startElection that asked for the votes.
LiveState ==
    <<currentTerm, votedFor, log, lastIncludedIndex, lastIncludedTerm, commitIndex, state,
      elections, lateCheck, persister, restarts, incarnation, calls,
      [s \in Server |-> IF state[s] = "Leader" THEN <<nextIndex[s], matchIndex[s]>>
                                               ELSE << >>],
      [s \in Server |-> IF state[s] = "Candidate" THEN <<votesReceived[s]>> ELSE << >>],
      [s \in Server |-> IF state[s] = "Follower" THEN {} ELSE voters[s]]>>

\* A state constraint for a run that is about votes only.
VotesOnly == \A m \in DOMAIN calls : m.type \in {"RequestVote", "RequestVoteReply"}

-----------------------------------------------------------------------------
(* Runs that need a history of several terms start from a whole-cluster      *)
(* restart: every server is made from what it saved.                         *)

Entries(terms) == [i \in 1..Len(terms) |-> [term |-> terms[i], command |-> c1]]

Disk(term, vote, terms) ==
    [Empty EXCEPT !.currentTerm = term, !.votedFor = vote, !.log = @ \o Entries(terms)]

\* s1 led term 1 and appended an entry nobody received; s2 led term 2 with the
\* vote of s3 and appended another one nobody received.
Diverged ==
    s1 :> Disk(1, s1, <<1>>) @@ s2 :> Disk(2, s2, <<2>>) @@ s3 :> Disk(2, s2, << >>)

\* s3 led term 1 and appended three entries nobody received; s1 led term 2 with the
\* vote of s2, which s3 refused it, both stored two entries, s1 committed them and
\* trimmed the first.
Trimmed ==
    s1 :> [Disk(2, s1, << >>) EXCEPT !.log = <<Placeholder(2)>> \o Entries(<<2>>),
                                    !.lastIncludedIndex = 1, !.lastIncludedTerm = 2,
                                    !.snapshot = Entries(<<2>>)]
    @@ s2 :> Disk(2, s1, <<2, 2>>) @@ s3 :> Disk(2, Nil, <<1, 1, 1>>)

\* s3 led term 1 and appended three entries, of which s1 and s2 stored two; s1
\* trimmed the first one.  s1 led term 2 with the vote of s2, s3 refusing, and
\* appended an entry nobody received, which conflicts with the third one of s3.
TrimmedTail ==
    s1 :> [Disk(2, s1, << >>) EXCEPT !.log = <<Placeholder(1)>> \o Entries(<<1, 2>>),
                                    !.lastIncludedIndex = 1, !.lastIncludedTerm = 1,
                                    !.snapshot = Entries(<<1>>)]
    @@ s2 :> Disk(2, s1, <<1, 1>>) @@ s3 :> Disk(2, Nil, <<1, 1, 1>>)

TrimmedSpec == (StartFrom(Trimmed) \/ StartFrom(TrimmedTail)) /\ [][Next]_vars

\* s1 stands up to term 3 and s2 in term 4, the order in which an old entry can
\* reach a majority and still be overwritten.
InTurn == /\ state[s1] # "Follower" => currentTerm[s1] <= 3
          /\ state[s2] # "Follower" => currentTerm[s2] = 4

DivergedSpec == StartFrom(Diverged) /\ [][Next]_vars
=============================================================================
