-------------------------------- MODULE KV --------------------------------
(***************************************************************************)
(* The versioned key/value server of src/kvsrv1/server.go and the clerks   *)
(* of src/kvsrv1/client.go, which resend over the unreliable network of    *)
(* src/labrpc until a call is answered.                                    *)
(*                                                                         *)
(* A clerk has one call at a time.  Call returns false when the request or *)
(* its reply was lost, and it never returns before the server has either   *)
(* handled the request or will never do so (NoLateHandler of ServerGrp).   *)
(***************************************************************************)
EXTENDS Integers, FiniteSets

CONSTANTS
    Client, Key, Value,
    NoValue     \* the value of a reply that carries none

\* The bound of the instance that is checked.
CONSTANT MaxVersion     \* clerks name versions below this one

ASSUME KVAssumption ==
    /\ NoValue \notin Value
    /\ MaxVersion \in Nat

VARIABLES
    data,       \* KVServer.data, a function on the keys that exist
    versions,   \* KVServer.versions, on the same keys
    clerk,      \* the call each client is in, the network included
    performed   \* history: how often the server performed the client's Put

serverVars == <<data, versions>>
vars == <<data, versions, clerk, performed>>

Errors == {"OK", "ErrNoKey", "ErrVersion", "ErrMaybe"}

\* at: where the call is.  op .. version are the arguments, firstAttempt the clerk's
\* flag, err .. gotVersion the reply and then what the clerk returned.
Call == [at : {"idle", "request", "reply"}, op : {"Get", "Put"}, key : Key,
         value : Value \cup {NoValue}, version : Nat, firstAttempt : BOOLEAN,
         err : Errors, got : Value \cup {NoValue}, gotVersion : Nat]

GetRequest(k) ==
    [at |-> "request", op |-> "Get", key |-> k, value |-> NoValue, version |-> 0,
     firstAttempt |-> TRUE, err |-> "OK", got |-> NoValue, gotVersion |-> 0]

PutRequest(k, v, version) ==
    [at |-> "request", op |-> "Put", key |-> k, value |-> v, version |-> version,
     firstAttempt |-> TRUE, err |-> "OK", got |-> NoValue, gotVersion |-> 0]

\* A clerk before its first call.
NoCall(k) == [GetRequest(k) EXCEPT !.at = "idle"]

\* MakeKVServer, MakeClerk
Init ==
    /\ data = [k \in {} |-> NoValue]
    /\ versions = [k \in {} |-> 0]
    /\ clerk \in [Client -> {NoCall(k) : k \in Key}]
    /\ performed = [c \in Client |-> 0]

-----------------------------------------------------------------------------
(* The server *)

Assign(f, k, v) == [x \in DOMAIN f \cup {k} |-> IF x = k THEN v ELSE f[x]]

Reply(c, err, v, version) ==
    clerk' = [clerk EXCEPT ![c].at = "reply", ![c].err = err, ![c].got = v,
                           ![c].gotVersion = version]

\* KVServer.Get
Get(c) ==
    LET k == clerk[c].key
    IN  /\ clerk[c].at = "request" /\ clerk[c].op = "Get"
        /\ IF k \notin DOMAIN data THEN Reply(c, "ErrNoKey", NoValue, 0)
                                   ELSE Reply(c, "OK", data[k], versions[k])
        /\ UNCHANGED <<serverVars, performed>>

\* A slip for the runs: any version the key ever had is accepted.
AcceptsOld(k, version) ==
    IF k \in DOMAIN versions THEN version <= versions[k] ELSE version = 0

NextVersion(version) == version + 1

\* The versions the server accepts for a key: that of the key, or 0 for a new one.
Accepts(k, version) ==
    IF k \in DOMAIN versions THEN version = versions[k] ELSE version = 0

\* KVServer.Put
Put(c) ==
    LET k == clerk[c].key
        version == clerk[c].version
    IN  /\ clerk[c].at = "request" /\ clerk[c].op = "Put"
        /\ \/ /\ Accepts(k, version)
              /\ data' = Assign(data, k, clerk[c].value)
              /\ versions' = Assign(versions, k, NextVersion(version))
              /\ performed' = [performed EXCEPT ![c] = @ + 1]
              /\ Reply(c, "OK", NoValue, 0)
           \/ /\ ~Accepts(k, version)
              /\ Reply(c, IF k \in DOMAIN versions THEN "ErrVersion" ELSE "ErrNoKey",
                       NoValue, 0)
              /\ UNCHANGED <<serverVars, performed>>

-----------------------------------------------------------------------------
(* The network and the clerk's loop *)

\* Call returned false, on the way there or on the way back, and the clerk tries
\* again.  (Get has no firstAttempt.)
Resend(c) ==
    /\ clerk[c].at # "idle"
    /\ clerk' = [clerk EXCEPT ![c].at = "request",
                              ![c].firstAttempt = @ /\ clerk[c].op = "Get"]
    /\ UNCHANGED <<serverVars, performed>>

\* Slips for the runs: the clerk tries again after an ErrVersion; it takes the
\* ErrVersion of a resend for its own success, or for a plain failure.
AnsweredWell(c, op) == clerk[c].at = "reply" /\ clerk[c].op = op /\ clerk[c].err # "ErrVersion"

PutResultOptimistic(c) ==
    IF clerk[c].err = "ErrVersion" /\ ~clerk[c].firstAttempt THEN "OK" ELSE clerk[c].err

PutResultPlain(c) == clerk[c].err

Answered(c, op) == clerk[c].at = "reply" /\ clerk[c].op = op

\* What Clerk.Put returns for the server's answer.
PutResult(c) ==
    IF clerk[c].err = "ErrVersion" /\ ~clerk[c].firstAttempt THEN "ErrMaybe" ELSE clerk[c].err

\* The clerk's Get or Put returns to the application.
GetReturns(c) ==
    /\ Answered(c, "Get")
    /\ clerk' = [clerk EXCEPT ![c].at = "idle"]
    /\ UNCHANGED <<serverVars, performed>>

PutReturns(c) ==
    /\ Answered(c, "Put")
    /\ clerk' = [clerk EXCEPT ![c].at = "idle", ![c].err = PutResult(c)]
    /\ UNCHANGED <<serverVars, performed>>

\* The application calls the clerk.
CallGet(c, k) ==
    /\ clerk[c].at = "idle"
    /\ clerk' = [clerk EXCEPT ![c] = GetRequest(k)]
    /\ UNCHANGED <<serverVars, performed>>

CallPut(c, k, v, version) ==
    /\ clerk[c].at = "idle"
    /\ clerk' = [clerk EXCEPT ![c] = PutRequest(k, v, version)]
    /\ performed' = [performed EXCEPT ![c] = 0]
    /\ UNCHANGED serverVars

Server(c) == Get(c) \/ Put(c)
Returns(c) == GetReturns(c) \/ PutReturns(c)

Next ==
    \E c \in Client :
        \/ \E k \in Key : CallGet(c, k)
        \/ \E k \in Key, v \in Value, version \in 0..(MaxVersion - 1) :
              CallPut(c, k, v, version)
        \/ Server(c)
        \/ Resend(c)
        \/ Returns(c)

\* The server handles what reaches it; a clerk that keeps trying is answered some
\* time, however many calls are lost.
Fairness == \A c \in Client : WF_vars(Server(c)) /\ SF_vars(Returns(c))

Spec == Init /\ [][Next]_vars /\ Fairness

-----------------------------------------------------------------------------
(* The store of module VersionedStore that the server and the clerks        *)
(* implement: a missing key is one at version 0, and a call has taken its    *)
(* step when its Put was performed or when the last try was answered.        *)

KvState(k) ==
    IF k \in DOMAIN data THEN [Value |-> data[k], Version |-> versions[k]]
                         ELSE [Value |-> NoValue, Version |-> 0]

KvInput(c) ==
    [Op |-> clerk[c].op, Key |-> clerk[c].key, Value |-> clerk[c].value,
     Version |-> clerk[c].version]

KvOutput(err, v, version) == [Value |-> v, Version |-> version, Err |-> err]

KvOutputs(c) ==
    IF clerk[c].op = "Get" \/ clerk[c].at = "idle"
    THEN IF clerk[c].at = "request" THEN {}
         ELSE {KvOutput(clerk[c].err, clerk[c].got, clerk[c].gotVersion)}
    ELSE {KvOutput(e, NoValue, 0) :
             e \in IF performed[c] > 0 THEN {"OK", "ErrMaybe"}
                   ELSE IF clerk[c].at = "reply" THEN {"ErrVersion", "ErrNoKey", "ErrMaybe"}
                   ELSE {}}

Store == INSTANCE VersionedStore WITH
    state <- [k \in Key |-> KvState(k)],
    input <- [c \in Client |-> KvInput(c)],
    busy  <- [c \in Client |-> clerk[c].at # "idle"],
    may   <- [c \in Client |-> KvOutputs(c)]

-----------------------------------------------------------------------------
(* Properties *)

\* The two maps of the server have the same keys, and every call is one of the two
\* RPCs.
TypeOK ==
    /\ DOMAIN data \subseteq Key /\ DOMAIN versions = DOMAIN data
    /\ \A k \in DOMAIN data : data[k] \in Value /\ versions[k] \in Nat \ {0}
    /\ clerk \in [Client -> Call]
    /\ performed \in [Client -> Nat]

\* What Put tells the application is true: OK when it was performed, ErrVersion or
\* ErrNoKey only when it was not, ErrMaybe when the clerk cannot know.
PutHonest ==
    \A c \in Client : clerk[c].at = "idle" /\ clerk[c].op = "Put" =>
        /\ clerk[c].err = "OK" => performed[c] = 1
        /\ clerk[c].err \in {"ErrVersion", "ErrNoKey"} => performed[c] = 0

\* What holds of a clerk's call while the server may have performed it.
ResendOK(m, n) ==
    /\ m.op = "Get" /\ m.at = "reply" => m.err \in {"OK", "ErrNoKey"}
    /\ m.op = "Put" =>
          /\ m.value \in Value /\ m.got = NoValue /\ m.gotVersion = 0
          /\ n \in {0, 1}
          /\ n = 1 => m.key \in DOMAIN data /\ m.version < versions[m.key]
          /\ m.at = "request" /\ m.firstAttempt => n = 0
          /\ m.at = "reply" =>
                \/ m.err = "OK" /\ n = 1
                \/ m.err = "ErrNoKey" /\ n = 0
                \/ m.err = "ErrVersion" /\ (m.firstAttempt => n = 0)
          /\ m.at = "idle" =>
                /\ m.err = "OK" => n = 1
                /\ m.err \in {"ErrVersion", "ErrNoKey"} => n = 0

\* Why resending is safe: a Put that was performed has spent the version it names,
\* so no resend is accepted; the first try of a Put that is still unanswered was not
\* performed; and the server never answers ErrNoKey to a Put it has performed.
ResendInv == TypeOK /\ \A c \in Client : ResendOK(clerk[c], performed[c])

\* Seen through the clerks the server is linearizable: however requests and replies
\* are lost and resent, every Get and Put takes one step of the store of VersionedStore
\* (KvModel, with the errors and versions that the server answers besides) between its
\* call and its return, and returns what that step allows.
Linearizable == Store!Spec

\* Get and Put return to the application.
CallsReturn == \A c \in Client : clerk[c].at # "idle" ~> clerk[c].at = "idle"
=============================================================================
