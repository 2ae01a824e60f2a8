----------------------------- MODULE ServerGrp -----------------------------
(***************************************************************************)
(* A group of servers under the tester: src/tester1/group.go and srv.go    *)
(* connect, partition, shut down and restart them on the network of module *)
(* LabRPC, and hand each instance a copy of the Persister of the one       *)
(* before.  A shut-down instance is told to stop (Kill) but runs on for a  *)
(* while, with handlers under way, calls to make and its own Persister.    *)
(*                                                                         *)
(* Of the servers' code only what matters here is kept: a handler saves    *)
(* before it returns, and a server saves before it calls.  What it saves   *)
(* is named by the call.                                                   *)
(***************************************************************************)
EXTENDS LabRPC, Integers, Sequences, SequencesExt

CONSTANTS
    N,          \* servers in the group, numbered from 0
    MaxOps      \* bound: what the test does to the group

ASSUME GroupAssumption ==
    /\ N \in Nat \ {0} /\ Server = 0..(N - 1)
    /\ MaxOps \in Nat

VARIABLES
    tester,     \* where the test is in ShutdownServer or StartServer, and of whom
    connected,  \* ServerGrp.connected
    instance,   \* the instance whose ends and Persister ServerGrp.srvs[i] holds
    saved,      \* the content of srvs[i].saved
    holder,     \* the instance that saves into srvs[i].saved, 0 for none
    ops,        \* operations on the group so far, for the bound
    cut,        \* history: an end was disabled or a server shut down
    revived     \* history: a server was connected while it was down

grpVars == <<tester, connected, instance, saved, holder, ops, cut, revived>>
vars == <<netVars, grpVars>>

Idle == [at |-> "idle", srv |-> 0]

\* The end of the newest instance of i to j (Server.endNames), and a clerk's.
EndName(i, j) == [from |-> i, gen |-> instance[i], to |-> j]
ClerkEnd(k, j) == [from |-> k, gen |-> 1, to |-> j]

\* MakeGroupStart: every server started, connected to every other; the clerks'
\* ends enabled.
Init ==
    /\ instance = [i \in Server |-> 1]
    /\ servers = [i \in Server |-> 1]
    /\ enabled = [from : Server \cup Clerk, gen : {1}, to : Server]
    /\ call = [c \in Call |-> Unused]
    /\ tester = Idle
    /\ connected = [i \in Server |-> TRUE]
    /\ saved = [i \in Server |-> {}]
    /\ holder = [i \in Server |-> 1]
    /\ ops = 0
    /\ cut = FALSE
    /\ revived = FALSE

-----------------------------------------------------------------------------
(* Connections.  A step on connections maps a pair of ServerGrp.connected   *)
(* and the enabled ends to another.                                         *)

Wires == [connected |-> connected, enabled |-> enabled]

\* Slips for the runs: only the ends to i are disabled; only the ends of i enabled.
disconnectIn(w, i, from) ==
    [connected |-> [w.connected EXCEPT ![i] = FALSE],
     enabled   |-> w.enabled \ {EndName(j, i) : j \in from}]

connectOut(w, i, to) ==
    LET on == [w.connected EXCEPT ![i] = TRUE]
    IN  [connected |-> on, enabled |-> w.enabled \cup {EndName(i, j) : j \in {k \in to : on[k]}}]

\* ServerGrp.disconnect: outgoing and incoming ends.
disconnect(w, i, from) ==
    [connected |-> [w.connected EXCEPT ![i] = FALSE],
     enabled   |-> w.enabled \ ({EndName(i, j) : j \in from} \cup {EndName(j, i) : j \in from})]

\* ServerGrp.connect: the ends to and from those listed that are connected.
connect(w, i, to) ==
    LET on == [w.connected EXCEPT ![i] = TRUE]
        peers == {j \in to : on[j]}
    IN  [connected |-> on,
         enabled   |-> w.enabled \cup {EndName(i, j) : j \in peers}
                                 \cup {EndName(j, i) : j \in peers}]

\* MakePartition: two arrays, filled with the others in turn; the leader l is the last
\* of the smaller one.  The arrays have one element more than there are servers when N
\* is even, which stays 0.
MakePartition(l) ==
    LET others == SelectSeq([k \in 1..N |-> k - 1], LAMBDA i : i # l)
        filled(k) == IF k <= Len(others) THEN others[k] ELSE 0
        majority == N \div 2 + 1
        minority == N \div 2
    IN  <<[k \in 1..majority |-> filled(k)],
          [k \in 1..minority |-> IF k = minority THEN l ELSE filled(majority + k)]>>

\* One loop of Partition.
Side(w, mine, theirs) ==
    FoldLeft(LAMBDA v, i : connect(disconnect(v, i, ToSet(theirs)), i, ToSet(mine)), w, mine)

PartitionWires(w, p1, p2) == Side(Side(w, p1, p2), p2, p1)

Rewire(w) == connected' = w.connected /\ enabled' = w.enabled

\* The test calls the next operation.
Begin == tester = Idle /\ ops < MaxOps /\ ops' = ops + 1

\* Whether i has been started and not shut down.
Up(i) == holder[i] # 0

DisconnectAll(i) ==
    /\ Begin
    /\ Rewire(disconnect(Wires, i, Server))
    /\ cut' = TRUE
    /\ UNCHANGED <<servers, call, tester, instance, saved, holder, revived>>

ConnectOne(i) ==
    /\ Begin
    /\ Rewire(connect(Wires, i, Server))
    /\ revived' = (revived \/ ~Up(i))
    /\ UNCHANGED <<servers, call, tester, instance, saved, holder, cut>>

\* ConnectAll, which restart of src/raft1/test.go calls whoever is down.
ConnectAll ==
    /\ Begin
    /\ Rewire(FoldLeft(LAMBDA w, i : connect(w, i, Server), Wires, [k \in 1..N |-> k - 1]))
    /\ revived' = (revived \/ \E i \in Server : ~Up(i))
    /\ UNCHANGED <<servers, call, tester, instance, saved, holder, cut>>

Partition(l) ==
    LET p == MakePartition(l)
    IN  /\ Begin /\ \A i \in Server : Up(i)
        /\ Rewire(PartitionWires(Wires, p[1], p[2]))
        /\ cut' = TRUE
        /\ UNCHANGED <<servers, call, tester, instance, saved, holder, revived>>

\* Clnt.DisconnectAll and Clnt.ConnectAll.
ClntDisconnectAll(k) ==
    /\ enabled' = enabled \ {ClerkEnd(k, j) : j \in Server}
    /\ cut' = TRUE
    /\ UNCHANGED <<servers, call, tester, connected, instance, saved, holder, ops, revived>>

ClntConnectAll(k) ==
    /\ enabled' = enabled \cup {ClerkEnd(k, j) : j \in Server}
    /\ UNCHANGED <<servers, call, tester, connected, instance, saved, holder, ops, cut, revived>>

-----------------------------------------------------------------------------
(* Shutdown and restart, in the order of the code *)

\* ShutdownServer cuts the server off ...
ShutdownServer(i) ==
    /\ Begin /\ Up(i)
    /\ Rewire(disconnect(Wires, i, Server))
    /\ tester' = [at |-> "disconnected", srv |-> i]
    /\ cut' = TRUE
    /\ UNCHANGED <<servers, call, instance, saved, holder, revived>>

\* A slip for the runs: it stays on the network.
LeaveServer ==
    /\ tester.at = "disconnected"
    /\ tester' = [tester EXCEPT !.at = "deleted"]
    /\ UNCHANGED <<netVars, connected, instance, saved, holder, ops, cut, revived>>

\* ... deletes it from the network ...
DeleteServer ==
    /\ tester.at = "disconnected"
    /\ servers' = [servers EXCEPT ![tester.srv] = 0]
    /\ tester' = [tester EXCEPT !.at = "deleted"]
    /\ UNCHANGED <<enabled, call, connected, instance, saved, holder, ops, cut, revived>>

\* ... and shutdownServer takes a copy of its Persister before it kills it.
shutdownServer ==
    /\ tester.at = "deleted"
    /\ holder' = [holder EXCEPT ![tester.srv] = 0]
    /\ tester' = Idle
    /\ UNCHANGED <<netVars, connected, instance, saved, ops, cut, revived>>

\* StartServer makes an instance with fresh, disabled ends and a copy of the
\* Persister as its own ...
StartServer(i) ==
    /\ Begin /\ ~Up(i) /\ instance[i] < MaxInstance
    /\ instance' = [instance EXCEPT ![i] = @ + 1]
    /\ holder' = [holder EXCEPT ![i] = instance[i] + 1]
    /\ tester' = [at |-> "starting", srv |-> i]
    /\ UNCHANGED <<netVars, connected, saved, cut, revived>>

\* ... and puts it on the network.
AddServer ==
    /\ tester.at = "starting"
    /\ servers' = [servers EXCEPT ![tester.srv] = instance[tester.srv]]
    /\ tester' = Idle
    /\ UNCHANGED <<enabled, call, connected, instance, saved, holder, ops, cut, revived>>

-----------------------------------------------------------------------------
(* The servers and the clerks *)

\* Persister.Save by an instance of i: into the tester's Persister, or into one
\* that nobody will read again.
Save(i, gen, x) ==
    saved' = IF holder[i] = gen THEN [saved EXCEPT ![i] = @ \cup {x}] ELSE saved

\* A handler has saved what it was told, and returns.
Handle(c) ==
    /\ HandlerReturns(c)
    /\ Save(call[c].end.to, call[c].server, c)
    /\ UNCHANGED <<enabled, servers, tester, connected, instance, holder, ops, cut, revived>>

\* An instance of i, the newest or one before it, saves what it will tell j,
\* before it calls.
SaveFirst(c, i, gen, j) ==
    /\ call[c].at = "none"
    /\ gen \in 1..instance[i] /\ i # j
    /\ call' = [call EXCEPT ![c].at = "saved", ![c].end = [from |-> i, gen |-> gen, to |-> j]]
    /\ Save(i, gen, c)
    /\ UNCHANGED <<enabled, servers, tester, connected, instance, holder, ops, cut, revived>>

\* A clerk calls a server (Clnt.Call).
ClntCall(c, k, j) ==
    /\ call[c].at = "none"
    /\ call' = [call EXCEPT ![c].at = "sent", ![c].end = ClerkEnd(k, j)]
    /\ UNCHANGED <<enabled, servers, grpVars>>

Net(c) == processReq(c) /\ UNCHANGED grpVars

Next ==
    \/ \E i \in Server :
          \/ DisconnectAll(i) \/ ConnectOne(i) \/ Partition(i)
          \/ ShutdownServer(i) \/ StartServer(i)
    \/ ConnectAll
    \/ DeleteServer \/ shutdownServer \/ AddServer
    \/ \E k \in Clerk : ClntDisconnectAll(k) \/ ClntConnectAll(k)
    \/ \E c \in Call :
          \/ \E i, j \in Server, gen \in 1..MaxInstance : SaveFirst(c, i, gen, j)
          \/ \E k \in Clerk, j \in Server : ClntCall(c, k, j)
          \/ Send(c) /\ UNCHANGED grpVars
          \/ Handle(c)
          \/ Net(c)

\* The goroutines of the network run.  A handler is known to return only in an
\* instance that has not been shut down: a killed one may leave it waiting.
Fairness ==
    \A c \in Call :
        /\ WF_vars(Net(c))
        /\ WF_vars(Handle(c) /\ servers[call[c].end.to] = call[c].server)

Spec == Init /\ [][Next]_vars /\ Fairness

-----------------------------------------------------------------------------
(* Properties *)

\* The network's calls and servers, the tester's instances and Persisters.
TypeOK ==
    /\ NetTypeOK
    /\ tester \in [at : {"idle", "disconnected", "deleted", "starting"}, srv : Server]
    /\ instance \in [Server -> 1..MaxInstance]
    /\ saved \in [Server -> SUBSET Call]
    /\ holder \in [Server -> 0..MaxInstance]

\* "to avoid the possibility of the server returning a positive reply to an Append
\* but persisting the result in the superseded Persister": what a server did for a
\* call that returned true is in the Persister its next instance starts from.
AckedSurvives ==
    \A c \in Call : call[c].at \in {"replying", "ok"} => c \in saved[call[c].end.to]

\* What holds of a call whose handler may have run.
DurableCall(c) ==
    LET m == call[c]
    IN  /\ m.at # "none" => m.end \in End
        /\ m.at \in {"none", "saved", "sent"} => m.handler = "no"
        /\ m.at = "answered" => m.handler = "done"
        /\ m.at \in {"chosen", "waiting", "answered"} \/ m.handler # "no"
              => m.server \in 1..instance[m.end.to]
        /\ m.handler = "done" /\ holder[m.end.to] = m.server => c \in saved[m.end.to]
        /\ m.at \in {"replying", "ok"} => c \in saved[m.end.to]

\* Why that is so: the instance on the network is the one that saves into the
\* tester's Persister, and has been since it was started; so a handler of that
\* instance that is done has left its result there.
DurableInv ==
    /\ TypeOK
    /\ \A i \in Server : holder[i] \in {0, instance[i]} /\ servers[i] \in {0, holder[i]}
    /\ tester.at = "deleted" => servers[tester.srv] = 0
    /\ tester.at = "starting" => holder[tester.srv] = instance[tester.srv]
    /\ \A c \in Call : DurableCall(c)

\* What a server saved before it called another is in the Persister its next
\* instance starts from, if the other has handled the call: no superseded instance
\* speaks for a server, as long as the test connects no server that is down.
TellsSaved ==
    \A c \in Call :
        ~revived /\ call[c].handler # "no" /\ call[c].end.from \in Server
            => c \in saved[call[c].end.from]

\* When no end is disabled and no server shut down, a Call that returned false will
\* not be handled any more: this is the network of kvsrv1's clerks, which resend.
NoLateHandler ==
    ~cut => \A c \in Call : call[c].at = "failed" => call[c].handler # "running"

\* A partition made around any leader l of a group of odd size leaves l in a minority,
\* and whatever was connected before, two servers can call each other exactly on the
\* same side.
PartitionSplits ==
    (\A i \in Server : Up(i)) => \A l \in Server :
        LET p == MakePartition(l)
            w == PartitionWires(Wires, p[1], p[2])
            same(i, j) == (i \in ToSet(p[1])) <=> (j \in ToSet(p[1]))
        IN  /\ l \in ToSet(p[2]) /\ 2 * Len(p[2]) < N
            /\ ToSet(p[1]) \cup ToSet(p[2]) = Server
            /\ \A i, j \in Server : EndName(i, j) \in w.enabled <=> same(i, j)

\* Every Call returns, even when the instance it reached never answers because it
\* was killed.
CallReturns == \A c \in Call : Pending(c) ~> ~Pending(c)
=============================================================================
