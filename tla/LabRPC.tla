------------------------------ MODULE LabRPC ------------------------------
(***************************************************************************)
(* The simulated network of src/labrpc/labrpc.go: client ends, the servers *)
(* registered under their names, and processReq, the goroutine that takes  *)
(* one Call through the network.  What a handler does and who registers    *)
(* servers is left to the module that extends this one.                    *)
(*                                                                         *)
(* A server name stands for one instance after another.  An instance that  *)
(* was deleted or replaced is not stopped: handlers it has begun run on.   *)
(***************************************************************************)
EXTENDS Naturals

CONSTANTS
    Server,         \* server names
    Clerk,          \* callers that are not servers
    Call,           \* the calls that are made
    NoEnd,          \* of a call that is not made yet
    MaxInstance     \* bound: instances of one server, numbered from 1

ASSUME LabRPCAssumption ==
    /\ Server \cap Clerk = {}
    /\ MaxInstance \in Nat \ {0}

VARIABLES
    enabled,    \* Network.enabled, as the set of ends that are
    servers,    \* Network.servers: the instance under each name, 0 for nil
    call        \* each call: the goroutines of Call, processReq and the handler

netVars == <<enabled, servers, call>>

\* A client end: its owner, the owner's instance, and the server it is connected
\* to.  Connect follows MakeEnd at once, so the name gives all three.
End == [from : Server \cup Clerk, gen : 1..MaxInstance, to : Server]

\* none, saved: before ClientEnd.Call, when the caller has yet to save what it will
\* say, and has; sent: in endCh; chosen: an instance was looked up; waiting: for the
\* handler; answered: its reply was received; replying: the reply goes back;
\* unreachable: a failure goes back after a delay; ok, failed: Call has returned
\* true, false.
Places == {"none", "saved", "sent", "chosen", "waiting", "answered", "replying",
           "unreachable", "ok", "failed"}

\* server: the instance looked up, 0 before; handler: the goroutine of its handler.
CallState == [at : Places, end : End \cup {NoEnd}, server : 0..MaxInstance,
              handler : {"no", "running", "done"}]

NetTypeOK ==
    /\ servers \in [Server -> 0..MaxInstance]
    /\ call \in [Call -> CallState]

Unused == [at |-> "none", end |-> NoEnd, server |-> 0, handler |-> "no"]

-----------------------------------------------------------------------------
(* ClientEnd.Call and Network.processReq *)

Goto(c, place) == call' = [call EXCEPT ![c].at = place]

\* Slips for the runs: only the end is looked at; the timer of processReq gives up
\* whatever became of the server, or never.
EndDisabled(c) == call[c].end \notin enabled

GiveUp(c) == TRUE

NeverGiveUp(c) == FALSE

isServerDead(c) ==
    \/ call[c].end \notin enabled
    \/ servers[call[c].end.to] # call[c].server

\* readEndnameInfo, at the start of processReq: where the request goes is settled.
readEndnameInfo(c) ==
    LET server == servers[call[c].end.to]
    IN  /\ call[c].at = "sent"
        /\ IF call[c].end \in enabled /\ server # 0
           THEN call' = [call EXCEPT ![c].at = "chosen", ![c].server = server]
           ELSE Goto(c, "unreachable")
        /\ UNCHANGED <<enabled, servers>>

\* An unreliable network drops requests.
DropRequest(c) ==
    /\ call[c].at = "chosen"
    /\ Goto(c, "failed")
    /\ UNCHANGED <<enabled, servers>>

\* The handler is started in a goroutine of its own, on the instance looked up.
Dispatch(c) ==
    /\ call[c].at = "chosen"
    /\ call' = [call EXCEPT ![c].at = "waiting", ![c].handler = "running"]
    /\ UNCHANGED <<enabled, servers>>

\* Server.dispatch and Service.dispatch, up to the handler's return.  Nothing ties
\* it to the instance being registered, or to anyone waiting for it.
HandlerReturns(c) ==
    /\ call[c].handler = "running"
    /\ call' = [call EXCEPT ![c].handler = "done"]

\* The select in processReq takes the reply ...
TakeReply(c) ==
    /\ call[c].at = "waiting" /\ call[c].handler = "done"
    /\ Goto(c, "answered")
    /\ UNCHANGED <<enabled, servers>>

\* Whether the timer of the select ends the wait.
StopsWaiting(c) == isServerDead(c)

\* ... or its timer fires, and the wait ends if the server is dead.  The handler
\* may still be running.
WaitTimer(c) ==
    /\ call[c].at = "waiting"
    /\ StopsWaiting(c)
    /\ Goto(c, "failed")
    /\ UNCHANGED <<enabled, servers>>

\* After the wait the server is looked at once more before the reply is let out.
LetOut(c) ==
    /\ call[c].at = "answered"
    /\ IF isServerDead(c) THEN Goto(c, "failed") ELSE Goto(c, "replying")
    /\ UNCHANGED <<enabled, servers>>

\* An unreliable network drops replies.
DropReply(c) ==
    /\ call[c].at = "answered"
    /\ Goto(c, "failed")
    /\ UNCHANGED <<enabled, servers>>

\* The reply, or the failure to reach the server, gets to Call, after any delay.
Arrives(c) ==
    /\ \/ call[c].at = "replying" /\ Goto(c, "ok")
       \/ call[c].at = "unreachable" /\ Goto(c, "failed")
    /\ UNCHANGED <<enabled, servers>>

processReq(c) ==
    \/ readEndnameInfo(c)
    \/ DropRequest(c)
    \/ Dispatch(c)
    \/ TakeReply(c)
    \/ WaitTimer(c)
    \/ LetOut(c)
    \/ DropReply(c)
    \/ Arrives(c)

\* The request is handed to the network.
Send(c) ==
    /\ call[c].at = "saved"
    /\ Goto(c, "sent")
    /\ UNCHANGED <<enabled, servers>>

\* Call has not returned.
Pending(c) == call[c].at \notin {"none", "saved", "ok", "failed"}
=============================================================================
