-------------------------- MODULE RaftApplyProofs --------------------------
(***************************************************************************)
(* The service sees every committed entry in order, for any number of      *)
(* entries, snapshots and restarts, as long as no leader's snapshot is     *)
(* installed while the applier hands over an earlier one.                  *)
(***************************************************************************)
EXTENDS RaftApply, TLAPS

IInv == TypeOK /\ HandoverInv

\* A fresh service and a fresh Raft have nothing in transit.
LEMMA InitIInv == Init => IInv
BY DEF Init, IInv, TypeOK, HandoverInv

\* All messages are taken when their number is 0.
LEMMA NoneLeft == \A s \in Seq(ApplyMsg) : s = << >> <=> Len(s) = 0
OBVIOUS

\* The batch continues right after the later of lastApplied and the snapshot.
LEMMA BatchProperties ==
    ASSUME TypeOK, lastIncludedIndex <= lastApplied, lastApplied <= commitIndex
    PROVE  /\ Batch \in Seq(ApplyMsg)
           /\ Len(Batch) = commitIndex - lastApplied
           /\ \A k \in 1..Len(Batch) : Batch[k] = Command(lastApplied + k)
<1>. DEFINE n == commitIndex - lastApplied
<1>0. commitIndex \in Nat /\ lastApplied \in Nat /\ lastIncludedIndex \in Nat
  BY Zenon DEF TypeOK
<1>1. n \in Nat /\ commitIndex \in Nat /\ lastApplied \in Nat /\ lastIncludedIndex \in Nat
  BY <1>0
<1>2. Batch = [k \in 1..n |-> Command(lastApplied + k)]
  BY <1>1 DEF Batch
<1>3. \A k \in 1..n : Command(lastApplied + k) \in ApplyMsg
  BY <1>1 DEF Command, ApplyMsg
<1>. HIDE DEF n
<1>. QED  BY <1>1, <1>2, <1>3 DEF n

\* Committing (raft.go:476) and InstallSnapshot (raft.go:491) keep the handover invariant.
LEMMA RaftStep ==
    ASSUME ~InstallWhileHanding, IInv, NEW i \in 1..MaxIndex, Commit(i) \/ InstallSnapshot(i)
    PROVE  IInv'
<1>0. i \in Nat
  BY ApplyAssumption
<1>1. TypeOK'
  <2>1. commitIndex' \in Nat /\ lastIncludedIndex' \in Nat
    BY Zenon, <1>0, Zenon DEF IInv, TypeOK, Commit, InstallSnapshot
  <2>2. UNCHANGED <<lastApplied, mu, handing, messages, applied, snapshotting, applyErr,
                    restarts>>
    BY DEF Commit, InstallSnapshot, serviceVars
  <2>. QED  BY Zenon, <2>1, <2>2, Zenon DEF IInv, TypeOK
<1>2. HandoverInv'
  <2>1. UNCHANGED <<lastApplied, mu, handing, messages, applied, snapshotting, applyErr>>
    BY DEF Commit, InstallSnapshot, serviceVars
  <2>2. commitIndex \in Nat /\ lastIncludedIndex \in Nat /\ lastApplied \in Nat
    BY Zenon DEF IInv, TypeOK
  <2>3. lastApplied <= commitIndex /\ lastIncludedIndex <= commitIndex
    BY Zenon DEF IInv, HandoverInv
  <2>4. lastApplied <= commitIndex' /\ lastIncludedIndex' <= commitIndex'
    BY <1>0, <2>2, <2>3 DEF Commit, InstallSnapshot
  <2>5. handing = "snapshot" => lastIncludedIndex' = lastIncludedIndex
    BY Zenon DEF Commit, InstallSnapshot
  <2>. QED  BY <2>1, <2>4, <2>5 DEF IInv, HandoverInv
<1>. QED  BY <1>1, <1>2 DEF IInv

\* So does the applier's turn, whichever batch it takes (raft.go:1029).
LEMMA ApplierStep ==
    ASSUME IInv, Applier
    PROVE  IInv'
<1>1. CASE TakeSnapshot
  <2>1. applied = lastApplied
    BY <1>1 DEF TakeSnapshot, IInv, HandoverInv
  <2>2. TypeOK'
    BY <1>1 DEF TakeSnapshot, IInv, TypeOK, ApplyMsg, serviceVars
  <2>3. HandoverInv'
    BY <1>1, <2>1 DEF TakeSnapshot, IInv, TypeOK, HandoverInv, serviceVars
  <2>. QED  BY <2>2, <2>3 DEF IInv
<1>3. CASE Lock
  <2>1. UNCHANGED <<raftVars, handing, messages, serviceVars, restarts>> /\ mu' = "applier"
    BY Zenon, <1>3 DEF Lock
  <2>2. messages = << >>
    BY <1>3 DEF Lock, IInv, HandoverInv
  <2>3. TypeOK'
    BY Zenon, <2>1 DEF IInv, TypeOK, raftVars, serviceVars
  <2>4. HandoverInv'
    BY <2>1, <2>2 DEF IInv, HandoverInv, raftVars, serviceVars
  <2>. QED  BY <2>3, <2>4 DEF IInv
<1>2. CASE TakeEntries
  <2>1. lastIncludedIndex <= lastApplied /\ lastApplied <= commitIndex /\ applied = lastApplied
    BY <1>2 DEF TakeEntries, IInv, TypeOK, HandoverInv
  <2>2. /\ messages' \in Seq(ApplyMsg)
        /\ Len(messages') = commitIndex - lastApplied
        /\ \A k \in 1..Len(messages') : messages'[k] = Command(lastApplied + k)
    BY <1>2, <2>1, BatchProperties DEF TakeEntries, IInv
  <2>3. handing' = IF messages' = << >> THEN "no" ELSE "entries"
    BY <1>2 DEF TakeEntries
  <2>4. /\ UNCHANGED <<commitIndex, lastIncludedIndex, applied, snapshotting, applyErr,
                       restarts>>
        /\ lastApplied' = commitIndex
        /\ mu' = "free"
    BY <1>2 DEF TakeEntries, serviceVars
  <2>5. TypeOK'
    BY Zenon, <2>2, <2>3, <2>4 DEF IInv, TypeOK
  <2>6. messages' = << >> <=> Len(messages') = 0
    BY Zenon, <2>2, NoneLeft
  <2>7. HandoverInv'
    BY <2>1, <2>2, <2>3, <2>4, <2>6 DEF IInv, TypeOK, HandoverInv
  <2>. QED  BY <2>5, <2>7 DEF IInv
<1>. QED  BY <1>1, <1>2, <1>3 DEF Applier

\* So does the service taking one message from applyCh (server.go:121).
LEMMA ReceiveStep ==
    ASSUME IInv, Receive
    PROVE  IInv'
<1>1. messages \in Seq(ApplyMsg) /\ messages # << >>
  BY Zenon DEF IInv, TypeOK, Receive
<1>2. /\ Tail(messages) \in Seq(ApplyMsg) /\ Len(Tail(messages)) = Len(messages) - 1
      /\ \A k \in 1..Len(Tail(messages)) : Tail(messages)[k] = messages[k + 1]
      /\ Len(messages) \in Nat \ {0} /\ Head(messages) = messages[1]
  BY <1>1
<1>3. CASE handing = "snapshot"
  <2>1. messages = <<[type |-> "Snapshot", index |-> lastApplied]>>
    BY <1>1, <1>3 DEF IInv, HandoverInv
  <2>2. Head(messages).type = "Snapshot" /\ Head(messages).index = lastApplied
    BY <2>1
  <2>3. Tail(messages) = << >>
    BY <1>2, <2>1
  <2>4. /\ messages' = << >> /\ applied' = lastApplied /\ handing' = "snapshot"
        /\ snapshotting' = 0
        /\ UNCHANGED <<raftVars, mu, applyErr, restarts>>
    BY Zenon, <1>3, <2>2, <2>3 DEF Receive, raftVars
  <2>. QED  BY <1>3, <2>4 DEF IInv, TypeOK, HandoverInv, raftVars
<1>4. CASE handing = "entries"
  <2>1. /\ applied + Len(messages) = lastApplied
        /\ \A k \in 1..Len(messages) : messages[k] = Command(applied + k)
    BY <1>4 DEF IInv, HandoverInv
  <2>2. Head(messages).type = "Command" /\ Head(messages).index = applied + 1
    BY <1>2, <2>1 DEF Command
  <2>3. /\ messages' = Tail(messages) /\ applied' = applied + 1
        /\ handing' = IF Len(messages) = 1 THEN "no" ELSE "entries"
        /\ snapshotting' \in {0, applied'}
        /\ UNCHANGED <<commitIndex, lastApplied, lastIncludedIndex, mu, applyErr, restarts>>
    BY <1>4, <2>2 DEF Receive, raftVars
  <2>4. mu = "free" /\ lastIncludedIndex <= commitIndex
    BY Zenon, <1>1 DEF IInv, TypeOK, HandoverInv
  <2>5. TypeOK'
    <3>0. applied \in Nat
      BY Zenon DEF IInv, TypeOK
    <3>1. applied + 1 \in Nat
      BY <3>0
    <3>2. messages' \in Seq(ApplyMsg) /\ handing' \in {"no", "snapshot", "entries"}
      BY Zenon, <1>2, <2>3
    <3>3. snapshotting' \in Nat
      BY Zenon, <2>3, <3>1, <3>0, 0 \in Nat
    <3>. QED  BY Zenon, <2>3, <3>1, <3>2, <3>3 DEF IInv, TypeOK
  <2>6. messages' = << >> <=> Len(messages) = 1
    <3>1. messages' \in Seq(ApplyMsg) /\ Len(messages') = Len(messages) - 1
      BY Zenon, <1>2, <2>3
    <3>2. messages' = << >> <=> Len(messages') = 0
      BY Zenon, <3>1, NoneLeft
    <3>. QED  BY <1>2, <3>1, <3>2
  <2>7. /\ applied' + Len(messages') = lastApplied
        /\ \A k \in 1..Len(messages') : messages'[k] = Command(applied' + k)
    <3>1. applied \in Nat /\ lastApplied \in Nat
      BY Zenon DEF IInv, TypeOK
    <3>2. applied' + Len(messages') = lastApplied
      <4>1. Len(messages') = Len(messages) - 1 /\ applied' = applied + 1
        BY Zenon, <1>2, <2>3
      <4>2. Len(messages) \in Nat /\ applied + Len(messages) = lastApplied
        BY Zenon, <1>2, <2>1
      <4>. QED  BY <3>1, <4>1, <4>2
    <3>3. ASSUME NEW k \in 1..Len(messages')
          PROVE  messages'[k] = Command(applied' + k)
      <4>1. k \in Int /\ k + 1 \in 1..Len(messages) /\ messages'[k] = messages[k + 1]
        BY <1>2, <2>3, <3>3
      <4>2. applied + (k + 1) = applied' + k
        BY <2>3, <3>1, <4>1
      <4>. QED  BY <2>1, <4>1, <4>2
    <3>. QED  BY <3>2, <3>3
  <2>8. HandoverInv'
    <3>1. lastApplied <= commitIndex
      BY DEF IInv, HandoverInv
    <3>2. applyErr' = "none"
      BY <2>3 DEF IInv, HandoverInv
    <3>3. CASE Len(messages) = 1
      <4>1. handing' = "no" /\ messages' = << >>
        BY <2>3, <2>6, <3>3
      <4>2. applied' = lastApplied'
        BY Zenon, <2>1, <2>3, <3>3 DEF IInv, TypeOK
      <4>. QED  BY <2>3, <2>4, <3>1, <3>2, <4>1, <4>2 DEF HandoverInv
    <3>4. CASE Len(messages) # 1
      <4>1. handing' = "entries" /\ Len(messages') > 0
        BY <1>2, <2>3, <3>4
      <4>. QED  BY <2>3, <2>4, <2>7, <3>1, <3>2, <4>1 DEF HandoverInv
    <3>. QED  BY <3>3, <3>4
  <2>. QED  BY <2>5, <2>8 DEF IInv
<1>. QED  BY Zenon, <1>1, <1>3, <1>4 DEF IInv, TypeOK, HandoverInv

\* What the service has applied is never ahead of lastApplied.
LEMMA AppliedBehind ==
    ASSUME IInv
    PROVE  applied <= lastApplied
<1>0. applied \in Nat /\ lastApplied \in Nat /\ messages \in Seq(ApplyMsg)
  BY Zenon DEF IInv, TypeOK
<1>1. applied \in Nat /\ lastApplied \in Nat /\ Len(messages) \in Nat
  BY <1>0
<1>2. handing \in {"no", "snapshot", "entries"}
  BY Zenon DEF IInv, TypeOK
<1>. QED  BY <1>1, <1>2 DEF IInv, HandoverInv

\* So does the service's Snapshot (raft.go:210), which only ever trims what was applied.
LEMMA SnapshotStep ==
    ASSUME IInv, Snapshot
    PROVE  IInv'
<1>1. /\ snapshotting = applied /\ snapshotting' = 0
      /\ UNCHANGED <<commitIndex, lastApplied, mu, handing, messages, applied, applyErr,
                     restarts>>
  BY Zenon DEF Snapshot, IInv, HandoverInv
<1>2. /\ applied \in Nat /\ lastIncludedIndex \in Nat /\ lastApplied \in Nat
      /\ commitIndex \in Nat
      /\ applied <= lastApplied /\ lastApplied <= commitIndex
      /\ lastIncludedIndex <= commitIndex
  BY Zenon, AppliedBehind DEF IInv, TypeOK, HandoverInv
<1>3. /\ lastIncludedIndex' \in Nat /\ lastIncludedIndex' <= commitIndex
      /\ lastApplied = lastIncludedIndex => lastIncludedIndex' = lastIncludedIndex
  BY <1>1, <1>2 DEF Snapshot
<1>4. TypeOK'
  BY Zenon, <1>1, <1>3 DEF IInv, TypeOK
<1>5. HandoverInv'
  BY <1>1, <1>3 DEF IInv, HandoverInv
<1>. QED  BY <1>4, <1>5 DEF IInv

\* So does killing and restarting the server (server.go:35, 65).
LEMMA RestartStep ==
    ASSUME IInv, Restart
    PROVE  IInv'
BY DEF IInv, TypeOK, HandoverInv, Restart

\* Every step keeps the handover invariant.
LEMMA HandoverStep ==
    ASSUME ~InstallWhileHanding, IInv, [Next]_vars
    PROVE  IInv'
<1>1. CASE UNCHANGED vars
  BY <1>1 DEF vars, raftVars, serviceVars, IInv, TypeOK, HandoverInv
<1>. QED  BY <1>1, RaftStep, ApplierStep, ReceiveStep, SnapshotStep, RestartStep
        DEF Next, Service

\* The applier's books are right in every reachable state: lastApplied of raft.go is
\* what the service will have applied when it has taken the messages under way.
THEOREM BooksAreRight ==
    ASSUME ~InstallWhileHanding
    PROVE  Spec => []HandoverInv
<1>1. IInv => HandoverInv
  BY DEF IInv
<1>. QED  BY <1>1, InitIInv, HandoverStep, PTL DEF Spec

\* So the service never sees an entry out of order, whatever number of entries is
\* committed, of snapshots is taken and of restarts happens (applier, applierSnap).
THEOREM AppliedInOrder ==
    ASSUME ~InstallWhileHanding
    PROVE  Spec => [](TypeOK /\ ApplyInOrder)
<1>1. IInv => TypeOK /\ ApplyInOrder
  BY DEF IInv, HandoverInv, ApplyInOrder
<1>. QED  BY <1>1, InitIInv, HandoverStep, PTL DEF Spec

-----------------------------------------------------------------------------
(* The service only moves forward. *)

\* No step of a live server takes the service back.
LEMMA ForwardStep ==
    ASSUME IInv, Next
    PROVE  IF restarts' = restarts THEN applied' >= applied
                                   ELSE applied' = lastIncludedIndex'
<1>0. applied \in Nat /\ lastApplied \in Nat /\ restarts \in Nat
  BY Zenon DEF IInv, TypeOK
<1>1. ASSUME NEW i \in 1..MaxIndex, Commit(i) \/ InstallSnapshot(i)
      PROVE  applied' = applied /\ restarts' = restarts
  BY <1>1 DEF Commit, InstallSnapshot, serviceVars
<1>2. CASE Applier
  BY <1>0, <1>2 DEF Applier, Lock, TakeSnapshot, TakeEntries, serviceVars
<1>5. CASE Snapshot
  BY <1>0, <1>5 DEF Snapshot
<1>3. CASE Receive
  <2>1. restarts' = restarts /\ messages \in Seq(ApplyMsg) /\ messages # << >>
    BY Zenon, <1>3 DEF Receive, IInv, TypeOK
  <2>2. CASE handing = "snapshot"
    <3>1. messages = <<[type |-> "Snapshot", index |-> lastApplied]>>
      BY <2>1, <2>2 DEF IInv, HandoverInv
    <3>2. Head(messages).type = "Snapshot" /\ Head(messages).index = lastApplied
      BY <3>1
    <3>3. applied' = lastApplied
      BY Zenon, <1>3, <3>2 DEF Receive
    <3>. QED  BY <1>0, <2>1, <3>3, AppliedBehind
  <2>3. CASE handing # "snapshot"
    <3>1. \A k \in 1..Len(messages) : messages[k] = Command(applied + k)
      BY Zenon, <2>1, <2>3 DEF IInv, TypeOK, HandoverInv
    <3>2. Len(messages) \in Nat \ {0} /\ Head(messages) = messages[1]
      BY <2>1
    <3>3. Head(messages) = Command(applied + 1)
      BY <3>1, <3>2
    <3>4. Head(messages).type = "Command" /\ Head(messages).index = applied + 1
      BY <3>3 DEF Command
    <3>5. applied' = applied + 1
      BY Zenon, <1>3, <3>4 DEF Receive
    <3>. QED  BY <1>0, <2>1, <3>5
  <2>. QED  BY <2>2, <2>3
<1>4. CASE Restart
  BY <1>0, <1>4 DEF Restart
<1>. QED  BY <1>0, <1>1, <1>2, <1>3, <1>4, <1>5 DEF Next, Service

\* The service only moves forward, and after a restart it is where its snapshot is:
\* the applier never hands over an old snapshot after newer entries (raft.go:1034,
\* server.go:121).
THEOREM ServiceMovesForward ==
    ASSUME ~InstallWhileHanding
    PROVE  Spec => ServiceForward
<1>1. IInv /\ [Next]_vars
        => [IF restarts' = restarts THEN applied' >= applied
                                    ELSE applied' = lastIncludedIndex']_vars
  BY ForwardStep
<1>. QED  BY <1>1, InitIInv, HandoverStep, PTL DEF Spec, ServiceForward
=============================================================================
