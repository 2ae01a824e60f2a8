-------------------------- MODULE ServerGrpProofs --------------------------
(***************************************************************************)
(* What a server has acknowledged survives its shutdown, for a group of    *)
(* any size, any number of calls, restarts and operations of the test.     *)
(* The argument does not depend on which ends are enabled.                 *)
(***************************************************************************)
EXTENDS ServerGrp, TLAPS

\* What the invariant is about.
durableVars == <<servers, call, tester, instance, saved, holder>>

LEMMA InitDurable == Init => DurableInv
<1> SUFFICES ASSUME Init PROVE DurableInv
    BY Zenon
<1>1. 1 \in 1..MaxInstance /\ 0 \in 0..MaxInstance /\ 1 \in 0..MaxInstance /\ 0 \in Server
    BY LabRPCAssumption, GroupAssumption
<1>2. Unused \in CallState
    BY Zenon, <1>1 DEF Unused, CallState, Places
<1>3. TypeOK
    BY Zenon, <1>1, <1>2 DEF Init, TypeOK, NetTypeOK, Idle
<1>4. ASSUME NEW c \in Call PROVE DurableCall(c)
    BY Zenon DEF Init, DurableCall, Unused
<1> QED BY Zenon, <1>3, <1>4 DEF DurableInv, Init, Idle

\* Connecting and disconnecting servers and clerks.
LEMMA UnchangedDurable == DurableInv /\ UNCHANGED durableVars => DurableInv'
BY DEF DurableInv, durableVars, TypeOK, NetTypeOK, DurableCall

\* The steps that take a call on, and nothing else.
LEMMA CallDurable ==
    ASSUME DurableInv, NEW c \in Call, NEW m \in CallState,
           call' = [call EXCEPT ![c] = m],
           UNCHANGED <<servers, tester, instance, saved, holder>>,
           DurableCall(c)'
    PROVE  DurableInv'
<1>1. TypeOK'
    BY Zenon DEF DurableInv, TypeOK, NetTypeOK
<1>2. ASSUME NEW d \in Call PROVE DurableCall(d)'
  <2>1. CASE d = c
      BY Zenon, <2>1
  <2>2. CASE d # c
    <3>1. call'[d] = call[d] /\ DurableCall(d)
        BY Zenon, <2>2 DEF DurableInv, TypeOK, NetTypeOK
    <3> QED BY Zenon, <3>1 DEF DurableCall
  <2> QED BY Zenon, <2>1, <2>2
<1> QED BY Zenon, <1>1, <1>2 DEF DurableInv

\* A step of the network moves one call to another place; it looks a server up, or
\* starts the handler, on the way.
LEMMA NetDurable == ASSUME DurableInv, NEW c \in Call, processReq(c), UNCHANGED grpVars
                    PROVE  DurableInv'
<1>1. /\ call[c] \in CallState /\ call \in [Call -> CallState] /\ DurableCall(c)
      /\ servers \in [Server -> 0..MaxInstance] /\ instance \in [Server -> 1..MaxInstance]
    BY Zenon DEF DurableInv, TypeOK, NetTypeOK
<1>2. UNCHANGED <<servers, tester, instance, saved, holder>>
    BY Zenon DEF grpVars, processReq, readEndnameInfo, DropRequest, Dispatch, TakeReply, WaitTimer,
           LetOut, DropReply, Arrives
<1>3. ASSUME NEW place \in {"failed", "answered", "replying", "unreachable", "ok"},
             Goto(c, place),
             call[c].at \notin {"none", "saved"},
             place = "answered" => call[c].at = "waiting" /\ call[c].handler = "done",
             place \in {"replying", "ok"} => c \in saved[call[c].end.to]
      PROVE  DurableInv'
  <2> DEFINE m == [call[c] EXCEPT !.at = place]
  <2>1. m \in CallState /\ call' = [call EXCEPT ![c] = m]
      BY Zenon, <1>1, <1>3 DEF CallState, Places, Goto
  <2>2. /\ call'[c].at = place /\ call'[c].end = call[c].end
        /\ call'[c].server = call[c].server /\ call'[c].handler = call[c].handler
      BY Zenon, <1>1, <1>3 DEF CallState, Goto
  <2>3. DurableCall(c)'
      BY Zenon, <1>1, <1>2, <1>3, <2>2 DEF DurableCall
  <2> HIDE DEF m
  <2> QED BY ZenonT(30), <1>2, <2>1, <2>3, CallDurable
<1>4. CASE readEndnameInfo(c)
  <2> DEFINE server == servers[call[c].end.to]
             m == [call[c] EXCEPT !.at = "chosen", !.server = server]
  <2>1. CASE call[c].end \in enabled /\ server # 0
    <3>1. call' = [call EXCEPT ![c] = m] /\ call[c].at = "sent" /\ call[c].end \in End
        BY ZenonT(30), <1>1, <1>4, <2>1 DEF readEndnameInfo, DurableCall
    <3>2. call[c].end.to \in Server
        BY Zenon, <3>1 DEF End
    <3>3. server \in 0..MaxInstance /\ server \in 1..instance[call[c].end.to]
      <4>1. instance[call[c].end.to] \in 1..MaxInstance
            /\ server \in {0, instance[call[c].end.to]}
          BY Zenon, <1>1, <3>2 DEF DurableInv
      <4> QED BY <2>1, <4>1, LabRPCAssumption
    <3>4. m \in CallState
        BY ZenonT(30), <1>1, <3>3 DEF CallState, Places
    <3>5. /\ call'[c].at = "chosen" /\ call'[c].end = call[c].end
          /\ call'[c].server = server /\ call'[c].handler = "no"
        BY Zenon, <1>1, <3>1 DEF CallState, DurableCall
    <3>6. DurableCall(c)'
        BY Zenon, <1>2, <3>1, <3>3, <3>5 DEF DurableCall
    <3> HIDE DEF m
    <3> QED BY Zenon, <1>2, <3>1, <3>4, <3>6, CallDurable
  <2>2. CASE ~(call[c].end \in enabled /\ server # 0)
      BY Zenon, <1>3, <1>4, <2>2 DEF readEndnameInfo
  <2> QED BY Zenon, <2>1, <2>2
<1>5. CASE Dispatch(c)
  <2> DEFINE m == [call[c] EXCEPT !.at = "waiting", !.handler = "running"]
  <2>1. m \in CallState /\ call' = [call EXCEPT ![c] = m] /\ call[c].at = "chosen"
      BY ZenonT(30), <1>1, <1>5 DEF CallState, Places, Dispatch
  <2>2. /\ call'[c].at = "waiting" /\ call'[c].end = call[c].end
        /\ call'[c].server = call[c].server /\ call'[c].handler = "running"
      BY Zenon, <1>1, <2>1 DEF CallState
  <2>3. DurableCall(c)'
      BY Zenon, <1>1, <1>2, <2>1, <2>2 DEF DurableCall
  <2> HIDE DEF m
  <2> QED BY Zenon, <1>2, <2>1, <2>3, CallDurable
<1>6. CASE TakeReply(c)
    BY Zenon, <1>3, <1>6 DEF TakeReply
<1>7. CASE LetOut(c)
  <2>1. CASE isServerDead(c)
      BY Zenon, <1>3, <1>7, <2>1 DEF LetOut
  <2>2. CASE ~isServerDead(c)
    <3>1. call[c].at = "answered" /\ servers[call[c].end.to] = call[c].server
        BY Zenon, <1>7, <2>2 DEF LetOut, isServerDead
    <3>2. call[c].end.to \in Server /\ call[c].server # 0 /\ call[c].handler = "done"
        BY <1>1, <3>1 DEF DurableCall, End
    <3>3. holder[call[c].end.to] = call[c].server
        BY Zenon, <3>1, <3>2 DEF DurableInv
    <3>4. c \in saved[call[c].end.to]
        BY Zenon, <1>1, <3>2, <3>3 DEF DurableCall
    <3> QED BY Zenon, <1>3, <1>7, <2>2, <3>1, <3>4 DEF LetOut
  <2> QED BY Zenon, <2>1, <2>2
<1>8. CASE DropRequest(c) \/ WaitTimer(c) \/ DropReply(c)
    BY Zenon, <1>3, <1>8 DEF DropRequest, WaitTimer, DropReply
<1>9. CASE Arrives(c)
    BY Zenon, <1>1, <1>3, <1>9 DEF Arrives, DurableCall
<1> QED BY Zenon, <1>4, <1>5, <1>6, <1>7, <1>8, <1>9 DEF processReq

\* A handler is done: what it saved is in the tester's Persister, or it runs in an
\* instance that holds it no more.
LEMMA HandleDurable == ASSUME DurableInv, NEW c \in Call, Handle(c) PROVE DurableInv'
<1> DEFINE to == call[c].end.to
           m == [call[c] EXCEPT !.handler = "done"]
<1>1. call[c] \in CallState /\ call \in [Call -> CallState] /\ DurableCall(c)
      /\ saved \in [Server -> SUBSET Call] /\ call[c].handler = "running"
    BY Zenon DEF DurableInv, TypeOK, NetTypeOK, Handle, HandlerReturns
<1>2. call' = [call EXCEPT ![c] = m] /\ UNCHANGED <<servers, tester, instance, holder>>
    BY Zenon DEF Handle, HandlerReturns
<1>3. m \in CallState
    BY Zenon, <1>1 DEF CallState
<1>4. to \in Server
    BY Zenon, <1>1 DEF DurableCall, End
<1>5. saved' = IF holder[to] = call[c].server THEN [saved EXCEPT ![to] = @ \cup {c}] ELSE saved
    BY Zenon DEF Handle, Save
<1>6. saved' \in [Server -> SUBSET Call] /\ \A i \in Server : saved[i] \subseteq saved'[i]
    BY Zenon, <1>1, <1>4, <1>5
<1>7. TypeOK'
    BY Zenon, <1>2, <1>3, <1>6 DEF DurableInv, TypeOK, NetTypeOK
<1>8. ASSUME NEW d \in Call PROVE DurableCall(d)'
  <2>1. CASE d = c
    <3>1. /\ call'[d].at = call[d].at /\ call'[d].end = call[d].end
          /\ call'[d].server = call[d].server /\ call'[d].handler = "done"
        BY Zenon, <1>1, <1>2, <2>1 DEF CallState
    <3>2. holder[to] = call[c].server => c \in saved'[to]
        BY Zenon, <1>1, <1>4, <1>5
    <3> QED BY Zenon, <1>1, <1>2, <1>4, <1>6, <2>1, <3>1, <3>2 DEF DurableCall
  <2>2. CASE d # c
    <3>1. call'[d] = call[d] /\ DurableCall(d)
        BY Zenon, <1>1, <1>2, <2>2 DEF DurableInv
    <3>2. call[d].handler # "no" \/ call[d].at \in {"replying", "ok"} => call[d].end.to \in Server
        BY Zenon, <3>1 DEF DurableCall, End
    <3> QED BY Zenon, <1>2, <1>6, <3>1, <3>2 DEF DurableCall
  <2> QED BY Zenon, <2>1, <2>2
<1> QED BY Zenon, <1>2, <1>7, <1>8 DEF DurableInv

\* A call that begins, and what a server saves before it.
LEMMA BeginDurable ==
    ASSUME DurableInv, NEW c \in Call,
           \/ \E i, j \in Server, gen \in 1..MaxInstance : SaveFirst(c, i, gen, j)
           \/ \E k \in Clerk, j \in Server : ClntCall(c, k, j)
           \/ Send(c) /\ UNCHANGED grpVars
    PROVE  DurableInv'
<1>1. call[c] \in CallState /\ call \in [Call -> CallState] /\ DurableCall(c)
      /\ saved \in [Server -> SUBSET Call]
    BY Zenon DEF DurableInv, TypeOK, NetTypeOK
<1>2. ASSUME NEW place \in {"saved", "sent"}, NEW e \in End, call[c].handler = "no",
             call' = [call EXCEPT ![c].at = place, ![c].end = e],
             UNCHANGED <<servers, tester, instance, holder>>,
             saved' \in [Server -> SUBSET Call], \A i \in Server : saved[i] \subseteq saved'[i]
      PROVE  DurableInv'
  <2> DEFINE m == [call[c] EXCEPT !.at = place, !.end = e]
  <2>1. m \in CallState /\ call' = [call EXCEPT ![c] = m]
      BY ZenonT(30), <1>1, <1>2 DEF CallState, Places
  <2>2. TypeOK'
      BY <1>2, <2>1 DEF DurableInv, TypeOK, NetTypeOK
  <2>3. ASSUME NEW d \in Call PROVE DurableCall(d)'
    <3>1. CASE d = c
      <4>1. call'[d].at = place /\ call'[d].end = e /\ call'[d].handler = "no"
          BY Zenon, <1>1, <1>2, <3>1 DEF CallState
      <4> QED BY Zenon, <4>1 DEF DurableCall
    <3>2. CASE d # c
      <4>1. call'[d] = call[d] /\ DurableCall(d)
          BY Zenon, <1>1, <1>2, <3>2 DEF DurableInv
      <4>2. call[d].handler # "no" \/ call[d].at \in {"replying", "ok"}
                => call[d].end.to \in Server
          BY Zenon, <4>1 DEF DurableCall, End
      <4> QED BY Zenon, <1>2, <4>1, <4>2 DEF DurableCall
    <3> QED BY Zenon, <3>1, <3>2
  <2> QED BY Zenon, <1>2, <2>2, <2>3 DEF DurableInv
<1>3. ASSUME NEW i \in Server, NEW j \in Server, NEW gen \in 1..MaxInstance,
             SaveFirst(c, i, gen, j)
      PROVE  DurableInv'
  <2> DEFINE e == [from |-> i, gen |-> gen, to |-> j]
  <2>1. e \in End /\ call[c].at = "none"
      BY Zenon, <1>3 DEF End, SaveFirst
  <2>2. saved' \in [Server -> SUBSET Call] /\ \A x \in Server : saved[x] \subseteq saved'[x]
      BY ZenonT(30), <1>1, <1>3 DEF SaveFirst, Save
  <2>3. call[c].handler = "no"
      BY Zenon, <1>1, <2>1 DEF DurableCall
  <2> QED BY Zenon, <1>2, <1>3, <2>1, <2>2, <2>3 DEF SaveFirst
<1>4. ASSUME NEW k \in Clerk, NEW j \in Server, ClntCall(c, k, j) PROVE DurableInv'
  <2>1. ClerkEnd(k, j) \in End /\ call[c].at = "none"
      BY <1>4, LabRPCAssumption DEF End, ClerkEnd, ClntCall
  <2>2. call[c].handler = "no"
      BY Zenon, <1>1, <2>1 DEF DurableCall
  <2> QED BY ZenonT(30), <1>1, <1>2, <1>4, <2>1, <2>2 DEF ClntCall, grpVars
<1>5. CASE Send(c) /\ UNCHANGED grpVars
  <2>1. call[c].at = "saved" /\ call[c].end \in End /\ call[c].handler = "no"
      BY Zenon, <1>1, <1>5 DEF DurableCall, Send
  <2>2. call' = [call EXCEPT ![c].at = "sent", ![c].end = call[c].end]
      BY Zenon, <1>1, <1>5 DEF Send, Goto, CallState
  <2> QED BY ZenonT(30), <1>1, <1>2, <1>5, <2>1, <2>2 DEF Send, grpVars
<1> QED BY Zenon, <1>3, <1>4, <1>5

\* The server leaves the network while its instance still holds the Persister ...
LEMMA DeleteDurable == DurableInv /\ DeleteServer => DurableInv'
<1> SUFFICES ASSUME DurableInv, DeleteServer PROVE DurableInv'
    BY Zenon
<1>1. tester.srv \in Server /\ servers \in [Server -> 0..MaxInstance]
    BY Zenon DEF DurableInv, TypeOK, NetTypeOK
<1>2. /\ servers' = [servers EXCEPT ![tester.srv] = 0]
      /\ tester' = [tester EXCEPT !.at = "deleted"]
      /\ UNCHANGED <<call, instance, saved, holder>>
    BY Zenon DEF DeleteServer
<1>3. tester'.srv = tester.srv /\ tester'.at = "deleted"
      /\ tester' \in [at : {"idle", "disconnected", "deleted", "starting"}, srv : Server]
    BY Zenon, <1>2 DEF DurableInv, TypeOK
<1>4. servers' \in [Server -> 0..MaxInstance] /\ servers'[tester.srv] = 0
    BY <1>1, <1>2, LabRPCAssumption
<1>5. TypeOK'
    BY Zenon, <1>2, <1>3, <1>4 DEF DurableInv, TypeOK, NetTypeOK
<1>6. \A i \in Server : holder'[i] \in {0, instance'[i]} /\ servers'[i] \in {0, holder'[i]}
    BY Zenon, <1>1, <1>2 DEF DurableInv
<1>7. \A c \in Call : DurableCall(c)'
    BY Zenon, <1>2 DEF DurableInv, DurableCall
<1> QED BY Zenon, <1>3, <1>4, <1>5, <1>6, <1>7 DEF DurableInv

\* ... which it loses after that.
LEMMA ShutdownDurable == DurableInv /\ shutdownServer => DurableInv'
<1> SUFFICES ASSUME DurableInv, shutdownServer PROVE DurableInv'
    BY Zenon
<1>1. /\ tester.srv \in Server /\ holder \in [Server -> 0..MaxInstance]
      /\ servers[tester.srv] = 0 /\ 0 \in Server
    BY GroupAssumption DEF DurableInv, TypeOK, NetTypeOK, shutdownServer
<1>2. /\ holder' = [holder EXCEPT ![tester.srv] = 0] /\ tester' = Idle
      /\ UNCHANGED <<servers, call, instance, saved>>
    BY Zenon DEF shutdownServer, netVars
<1>3. TypeOK'
    BY Zenon, <1>1, <1>2, LabRPCAssumption DEF DurableInv, TypeOK, NetTypeOK, Idle
<1>4. \A i \in Server : holder'[i] \in {0, instance'[i]} /\ servers'[i] \in {0, holder'[i]}
    BY Zenon, <1>1, <1>2 DEF DurableInv
<1>5. ASSUME NEW c \in Call PROVE DurableCall(c)'
  <2>1. DurableCall(c)
      BY Zenon DEF DurableInv
  <2>2. call[c].handler = "done" => call[c].end.to \in Server /\ call[c].server # 0
      BY <2>1 DEF DurableCall, End
  <2>3. call[c].handler = "done" /\ holder'[call[c].end.to] = call[c].server
            => holder[call[c].end.to] = call[c].server
      BY Zenon, <1>1, <1>2, <2>2
  <2> QED BY Zenon, <1>2, <2>1, <2>3 DEF DurableCall
<1> QED BY Zenon, <1>2, <1>3, <1>4, <1>5 DEF DurableInv, Idle

\* No call has reached the instance that is being started.
LEMMA StartDurable == ASSUME DurableInv, NEW i \in Server, StartServer(i) PROVE DurableInv'
<1>1. /\ instance \in [Server -> 1..MaxInstance] /\ holder \in [Server -> 0..MaxInstance]
      /\ instance[i] < MaxInstance /\ holder[i] = 0 /\ servers[i] = 0 /\ MaxInstance \in Nat
    BY Zenon, LabRPCAssumption DEF DurableInv, TypeOK, StartServer, Up
<1>2. /\ instance' = [instance EXCEPT ![i] = @ + 1]
      /\ holder' = [holder EXCEPT ![i] = instance[i] + 1]
      /\ tester' = [at |-> "starting", srv |-> i]
      /\ UNCHANGED <<servers, call, saved>>
    BY Zenon DEF StartServer, netVars
<1>3. instance' \in [Server -> 1..MaxInstance] /\ holder' \in [Server -> 0..MaxInstance]
      /\ holder'[i] = instance'[i] /\ instance'[i] = instance[i] + 1
    BY <1>1, <1>2
<1>4. TypeOK'
    BY Zenon, <1>2, <1>3 DEF DurableInv, TypeOK, NetTypeOK
<1>5. \A x \in Server : holder'[x] \in {0, instance'[x]} /\ servers'[x] \in {0, holder'[x]}
    BY Zenon, <1>1, <1>2 DEF DurableInv
<1>6. ASSUME NEW c \in Call PROVE DurableCall(c)'
  <2>1. DurableCall(c)
      BY Zenon DEF DurableInv
  <2>2. ASSUME call[c].handler # "no" \/ call[c].at \in {"chosen", "waiting", "answered"}
        PROVE  /\ call[c].server \in 1..instance'[call[c].end.to]
               /\ holder'[call[c].end.to] = call[c].server
                     => holder[call[c].end.to] = call[c].server
    <3>1. call[c].end.to \in Server /\ call[c].server \in 1..instance[call[c].end.to]
        BY Zenon, <2>1, <2>2 DEF DurableCall, End
    <3> QED BY SMTT(30), <1>1, <1>2, <3>1
  <2> QED BY Zenon, <1>2, <2>1, <2>2 DEF DurableCall
<1> QED BY Zenon, <1>2, <1>3, <1>4, <1>5, <1>6 DEF DurableInv

LEMMA AddDurable == DurableInv /\ AddServer => DurableInv'
<1> SUFFICES ASSUME DurableInv, AddServer PROVE DurableInv'
    BY Zenon
<1>1. /\ tester.srv \in Server /\ servers \in [Server -> 0..MaxInstance] /\ 0 \in Server
      /\ instance[tester.srv] \in 0..MaxInstance /\ holder[tester.srv] = instance[tester.srv]
    BY GroupAssumption, LabRPCAssumption DEF DurableInv, TypeOK, NetTypeOK, AddServer
<1>2. /\ servers' = [servers EXCEPT ![tester.srv] = instance[tester.srv]] /\ tester' = Idle
      /\ UNCHANGED <<call, instance, saved, holder>>
    BY Zenon DEF AddServer
<1>3. TypeOK'
    BY Zenon, <1>1, <1>2 DEF DurableInv, TypeOK, NetTypeOK, Idle
<1>4. \A i \in Server : holder'[i] \in {0, instance'[i]} /\ servers'[i] \in {0, holder'[i]}
    BY Zenon, <1>1, <1>2 DEF DurableInv
<1>5. \A c \in Call : DurableCall(c)'
    BY Zenon, <1>2 DEF DurableInv, DurableCall
<1> QED BY Zenon, <1>2, <1>3, <1>4, <1>5 DEF DurableInv, Idle

\* ShutdownServer begins with cutting the server off.
LEMMA IsolateDurable == ASSUME DurableInv, NEW i \in Server, ShutdownServer(i) PROVE DurableInv'
<1>1. tester' = [at |-> "disconnected", srv |-> i]
      /\ UNCHANGED <<servers, call, instance, saved, holder>>
    BY Zenon DEF ShutdownServer
<1>2. TypeOK'
    BY Zenon, <1>1 DEF DurableInv, TypeOK, NetTypeOK
<1>3. \A c \in Call : DurableCall(c)'
    BY Zenon, <1>1 DEF DurableInv, DurableCall
<1> QED BY Zenon, <1>1, <1>2, <1>3 DEF DurableInv

LEMMA NextDurable == DurableInv /\ [Next]_vars => DurableInv'
<1> SUFFICES ASSUME DurableInv, [Next]_vars PROVE DurableInv'
    BY Zenon
<1>1. CASE UNCHANGED vars
    BY Zenon, <1>1, UnchangedDurable DEF vars, netVars, grpVars, durableVars
<1>2. ASSUME NEW i \in Server, DisconnectAll(i) \/ ConnectOne(i) \/ Partition(i) PROVE DurableInv'
  <2>1. UNCHANGED durableVars
      BY Zenon, <1>2 DEF DisconnectAll, ConnectOne, Partition, durableVars
  <2> QED BY Zenon, <2>1, UnchangedDurable
<1>3. ASSUME NEW k \in Clerk, ClntDisconnectAll(k) \/ ClntConnectAll(k) PROVE DurableInv'
    BY Zenon, <1>3, UnchangedDurable DEF ClntDisconnectAll, ClntConnectAll, durableVars
<1>4. CASE ConnectAll
    BY Zenon, <1>4, UnchangedDurable DEF ConnectAll, durableVars
<1>5. ASSUME NEW c \in Call, Net(c) PROVE DurableInv'
    BY Zenon, <1>5, NetDurable DEF Net
<1> QED BY Zenon, <1>1, <1>2, <1>3, <1>4, <1>5, IsolateDurable, StartDurable, DeleteDurable,
           ShutdownDurable, AddDurable, BeginDurable, HandleDurable DEF Next

\* A Call that returned true was carried out by an instance whose Persister is the
\* one the next instance starts from: ShutdownServer deletes the server before it
\* supersedes the Persister, and processReq looks again before it lets a reply out.
THEOREM AcknowledgedIsDurable == Spec => []AckedSurvives
<1>1. DurableInv => AckedSurvives
    BY Zenon DEF DurableInv, DurableCall, AckedSurvives
<1> QED BY <1>1, InitDurable, NextDurable, PTL DEF Spec

\* The books of the tester and the network: which instance holds the Persister, which
\* server answers a call, and where each handler in flight runs, at every step of
\* ShutdownServer, StartServer and processReq.
THEOREM InstancesAreTracked == Spec => []DurableInv
BY InitDurable, NextDurable, PTL DEF Spec
=============================================================================
