------------------------------ MODULE KVProofs ------------------------------
(***************************************************************************)
(* The clerks of module KV tell the truth, and the server seen through     *)
(* them implements the store of module VersionedStore, for any number of   *)
(* clients, keys, values and lost calls.                                   *)
(***************************************************************************)
EXTENDS KV, TLAPS

\* The server and the clerks start right: no key, no call.
LEMMA InitResend == Init => ResendInv
<1> SUFFICES ASSUME Init PROVE ResendInv
    BY Zenon
<1>1. TypeOK
  <2>1. \A k \in Key : NoCall(k) \in Call
      BY Zenon DEF NoCall, GetRequest, Call, Errors
  <2>2. clerk \in [Client -> Call]
      BY Zenon, <2>1 DEF Init
  <2>3. data = [k \in {} |-> NoValue] /\ versions = [k \in {} |-> 0]
      BY Zenon DEF Init
  <2>4. performed \in [Client -> Nat]
      BY Zenon DEF Init
  <2> QED BY Zenon, <2>2, <2>3, <2>4 DEF TypeOK
<1>2. ASSUME NEW c \in Client PROVE ResendOK(clerk[c], performed[c])
  <2>1. PICK k \in Key : clerk[c] = NoCall(k)
      BY Zenon DEF Init
  <2>2. NoCall(k).op = "Get" /\ NoCall(k).at = "idle"
      BY Zenon DEF NoCall, GetRequest
  <2> QED BY Zenon, <2>1, <2>2 DEF ResendOK
<1> QED BY Zenon, <1>1, <1>2 DEF ResendInv

\* A step that leaves the server alone keeps the promises of the calls it leaves alone.
LEMMA ClerkStep ==
    ASSUME ResendInv, NEW c \in Client, NEW m \in Call, NEW n \in Nat,
           clerk' = [clerk EXCEPT ![c] = m],
           performed' = [performed EXCEPT ![c] = n],
           UNCHANGED serverVars,
           ResendOK(m, n)
    PROVE  ResendInv'
<1>1. TypeOK'
    BY Zenon DEF ResendInv, TypeOK, serverVars
<1>2. ASSUME NEW d \in Client PROVE ResendOK(clerk[d], performed[d])'
  <2>1. ResendOK(clerk[d], performed[d])
      BY Zenon DEF ResendInv
  <2>2. \/ clerk'[d] = clerk[d] /\ performed'[d] = performed[d]
        \/ clerk'[d] = m /\ performed'[d] = n
      BY Zenon DEF ResendInv, TypeOK
  <2>3. data' = data /\ versions' = versions
      BY Zenon DEF serverVars
  <2> QED BY <2>1, <2>2, <2>3 DEF ResendOK
<1> QED BY Zenon, <1>1, <1>2 DEF ResendInv

\* The record a clerk's variable holds is one of its calls.
LEMMA ClerkIsCall ==
    ASSUME TypeOK, NEW c \in Client
    PROVE  /\ clerk[c] \in Call
           /\ performed[c] \in Nat
           /\ performed = [performed EXCEPT ![c] = performed[c]]
BY Zenon DEF TypeOK

LEMMA CallResend ==
    ASSUME ResendInv, NEW c \in Client,
           \/ \E k \in Key : CallGet(c, k)
           \/ \E k \in Key, v \in Value, version \in 0..(MaxVersion - 1) :
                 CallPut(c, k, v, version)
    PROVE  ResendInv'
<1>1. ASSUME NEW k \in Key, CallGet(c, k) PROVE ResendInv'
  <2>1. GetRequest(k) \in Call /\ ResendOK(GetRequest(k), performed[c])
      BY Zenon DEF GetRequest, Call, Errors, ResendOK
  <2> QED BY Zenon, <1>1, <2>1, ClerkIsCall, ClerkStep DEF CallGet, ResendInv
<1>2. ASSUME NEW k \in Key, NEW v \in Value, NEW version \in 0..(MaxVersion - 1),
             CallPut(c, k, v, version)
      PROVE  ResendInv'
  <2>0. version \in Nat
      BY KVAssumption
  <2>1. PutRequest(k, v, version) \in Call /\ ResendOK(PutRequest(k, v, version), 0)
      BY <2>0 DEF PutRequest, Call, Errors, ResendOK
  <2> QED BY Zenon, <1>2, <2>1, ClerkStep DEF CallPut
<1> QED BY Zenon, <1>1, <1>2

LEMMA ResendResend == ASSUME ResendInv, NEW c \in Client, Resend(c) PROVE ResendInv'
<1> DEFINE m == [clerk[c] EXCEPT !.at = "request",
                                 !.firstAttempt = @ /\ clerk[c].op = "Get"]
<1>1. clerk[c] \in Call /\ ResendOK(clerk[c], performed[c]) /\ clerk[c].at # "idle"
    BY Zenon, ClerkIsCall DEF ResendInv, Resend
<1>2. m \in Call
    BY Zenon, <1>1 DEF Call
<1>3. ResendOK(m, performed[c])
    BY Zenon, <1>1 DEF ResendOK, Call
<1>4. clerk' = [clerk EXCEPT ![c] = m]
    BY Zenon DEF Resend
<1>5. performed' = [performed EXCEPT ![c] = performed[c]] /\ performed[c] \in Nat
    BY Zenon, ClerkIsCall DEF Resend, ResendInv
<1>6. UNCHANGED serverVars
    BY Zenon DEF Resend
<1> QED BY Zenon, <1>2, <1>3, <1>4, <1>5, <1>6, ClerkStep

LEMMA ReturnsResend == ASSUME ResendInv, NEW c \in Client, Returns(c) PROVE ResendInv'
<1>1. clerk[c] \in Call /\ ResendOK(clerk[c], performed[c])
    BY Zenon, ClerkIsCall DEF ResendInv
<1>2. performed[c] \in Nat /\ performed = [performed EXCEPT ![c] = performed[c]]
    BY Zenon, ClerkIsCall DEF ResendInv
<1>3. CASE GetReturns(c)
  <2> DEFINE m == [clerk[c] EXCEPT !.at = "idle"]
  <2>1. m \in Call /\ ResendOK(m, performed[c])
      BY Zenon, <1>1, <1>3 DEF GetReturns, Answered, Call, ResendOK
  <2>2. clerk' = [clerk EXCEPT ![c] = m] /\ performed' = performed /\ UNCHANGED serverVars
      BY Zenon, <1>3 DEF GetReturns
  <2> QED BY Zenon, <1>2, <2>1, <2>2, ClerkStep
<1>4. CASE PutReturns(c)
  <2> DEFINE m == [clerk[c] EXCEPT !.at = "idle", !.err = PutResult(c)]
  <2>0. PutResult(c) \in Errors
      BY Zenon, <1>1 DEF PutResult, Call, Errors
  <2>1. m \in Call
      BY Zenon, <1>1, <2>0 DEF Call
  <2>2. ResendOK(m, performed[c])
      BY Zenon, <1>1, <1>4 DEF PutReturns, Answered, Call, ResendOK, PutResult
  <2>3. clerk' = [clerk EXCEPT ![c] = m] /\ performed' = performed /\ UNCHANGED serverVars
      BY Zenon, <1>4 DEF PutReturns
  <2> QED BY Zenon, <1>2, <2>1, <2>2, <2>3, ClerkStep
<1> QED BY Zenon, <1>3, <1>4 DEF Returns

\* What the server leaves of the call it answers.
LEMMA ReplyIsCall ==
    ASSUME NEW m \in Call, NEW err \in Errors, NEW v \in Value \cup {NoValue}, NEW n \in Nat
    PROVE  [m EXCEPT !.at = "reply", !.err = err, !.got = v, !.gotVersion = n] \in Call
BY Zenon DEF Call

LEMMA GetResend == ASSUME ResendInv, NEW c \in Client, Get(c) PROVE ResendInv'
<1> DEFINE m(err, v, n) == [clerk[c] EXCEPT !.at = "reply", !.err = err, !.got = v,
                                            !.gotVersion = n]
           k == clerk[c].key
<1>1. clerk[c] \in Call /\ clerk[c].op = "Get" /\ performed[c] \in Nat
      /\ performed' = [performed EXCEPT ![c] = performed[c]] /\ UNCHANGED serverVars
    BY Zenon, ClerkIsCall DEF ResendInv, Get
<1>2. CASE k \notin DOMAIN data
  <2>1. clerk' = [clerk EXCEPT ![c] = m("ErrNoKey", NoValue, 0)]
      BY Zenon, <1>2 DEF Get, Reply
  <2>2. m("ErrNoKey", NoValue, 0) \in Call
      BY Zenon, <1>1, ReplyIsCall DEF Errors
  <2>3. ResendOK(m("ErrNoKey", NoValue, 0), performed[c])
      BY Zenon, <1>1 DEF ResendOK, Call
  <2> QED BY Zenon, <1>1, <2>1, <2>2, <2>3, ClerkStep
<1>3. CASE k \in DOMAIN data
  <2>1. clerk' = [clerk EXCEPT ![c] = m("OK", data[k], versions[k])]
      BY Zenon, <1>3 DEF Get, Reply
  <2>2. data[k] \in Value /\ versions[k] \in Nat
      BY Zenon, <1>3 DEF ResendInv, TypeOK
  <2>3. m("OK", data[k], versions[k]) \in Call
      BY Zenon, <1>1, <2>2, ReplyIsCall DEF Errors
  <2>4. ResendOK(m("OK", data[k], versions[k]), performed[c])
      BY Zenon, <1>1 DEF ResendOK, Call
  <2> QED BY Zenon, <1>1, <2>1, <2>3, <2>4, ClerkStep
<1> QED BY Zenon, <1>2, <1>3

\* A Put that the server refuses changes nothing but the call.
LEMMA RefusedResend ==
    ASSUME ResendInv, NEW c \in Client, Put(c), ~Accepts(clerk[c].key, clerk[c].version)
    PROVE  ResendInv'
<1> DEFINE err == IF clerk[c].key \in DOMAIN versions THEN "ErrVersion" ELSE "ErrNoKey"
           m == [clerk[c] EXCEPT !.at = "reply", !.err = err, !.got = NoValue, !.gotVersion = 0]
<1>1. clerk[c] \in Call /\ clerk[c].op = "Put" /\ clerk[c].at = "request"
      /\ performed[c] \in Nat
    BY Zenon, ClerkIsCall DEF ResendInv, Put
<1>2. performed' = [performed EXCEPT ![c] = performed[c]] /\ UNCHANGED serverVars
    BY Zenon, ClerkIsCall DEF ResendInv, Put
<1>3. clerk' = [clerk EXCEPT ![c] = m]
    BY Zenon DEF Put, Reply
<1>4. m \in Call
    BY Zenon, <1>1, ReplyIsCall DEF Errors
<1>5. ResendOK(m, performed[c])
  <2>1. ResendOK(clerk[c], performed[c]) /\ DOMAIN versions = DOMAIN data
      BY Zenon DEF ResendInv, TypeOK
  <2> QED BY Zenon, <1>1, <2>1 DEF ResendOK, Call
<1> QED BY Zenon, <1>1, <1>2, <1>3, <1>4, <1>5, ClerkStep

\* The keys and versions after a Put that the server accepts.
LEMMA AcceptedMaps ==
    ASSUME TypeOK, NEW c \in Client, Put(c), Accepts(clerk[c].key, clerk[c].version)
    PROVE  LET k == clerk[c].key
               version == clerk[c].version
           IN  /\ DOMAIN data' = DOMAIN data \cup {k} /\ DOMAIN versions' = DOMAIN data \cup {k}
               /\ data'[k] = clerk[c].value /\ versions'[k] = version + 1
               /\ k \in DOMAIN data => versions[k] = version
               /\ k \notin DOMAIN data => version = 0
               /\ \A x \in DOMAIN data :
                     x # k => data'[x] = data[x] /\ versions'[x] = versions[x]
BY Zenon DEF TypeOK, Put, Accepts, Assign, NextVersion

LEMMA AcceptedResend ==
    ASSUME ResendInv, NEW c \in Client, Put(c), Accepts(clerk[c].key, clerk[c].version)
    PROVE  ResendInv'
<1> DEFINE k == clerk[c].key
           m == [clerk[c] EXCEPT !.at = "reply", !.err = "OK", !.got = NoValue, !.gotVersion = 0]
<1>1. TypeOK /\ clerk[c] \in Call /\ clerk[c].op = "Put" /\ clerk[c].at = "request"
      /\ performed[c] \in Nat /\ k \in Key /\ clerk[c].version \in Nat
    BY Zenon, ClerkIsCall DEF ResendInv, Put, Call
<1>2. clerk' = [clerk EXCEPT ![c] = m] /\ performed' = [performed EXCEPT ![c] = @ + 1]
    BY Zenon DEF Put, Reply
<1>3. m \in Call
    BY Zenon, <1>1, ReplyIsCall DEF Errors
<1>4. /\ DOMAIN data' = DOMAIN data \cup {k} /\ DOMAIN versions' = DOMAIN data \cup {k}
      /\ data'[k] = clerk[c].value /\ versions'[k] = clerk[c].version + 1
      /\ k \in DOMAIN data => versions[k] = clerk[c].version
      /\ \A x \in DOMAIN data : x # k => data'[x] = data[x] /\ versions'[x] = versions[x]
    BY Zenon, <1>1, AcceptedMaps
<1>5. ResendOK(clerk[c], performed[c])
    BY Zenon DEF ResendInv
<1>6. performed[c] = 0 /\ clerk[c].value \in Value
    BY <1>1, <1>4, <1>5 DEF ResendOK
<1>7. TypeOK'
  <2>1. clerk' \in [Client -> Call] /\ performed' \in [Client -> Nat]
      BY <1>1, <1>2, <1>3 DEF TypeOK
  <2>2. \A x \in DOMAIN data' : data'[x] \in Value /\ versions'[x] \in Nat \ {0}
      BY <1>1, <1>4, <1>6 DEF TypeOK
  <2>3. DOMAIN data' \subseteq Key /\ DOMAIN versions' = DOMAIN data'
      BY Zenon, <1>1, <1>4 DEF TypeOK
  <2> QED BY Zenon, <2>1, <2>2, <2>3 DEF TypeOK
<1>8. ASSUME NEW d \in Client PROVE ResendOK(clerk[d], performed[d])'
  <2>1. CASE d = c
    <3>1. clerk'[d] = m /\ performed'[d] = 1
        BY <1>1, <1>2, <1>6, <2>1 DEF TypeOK
    <3>2. m.op = "Put" /\ m.at = "reply" /\ m.err = "OK" /\ m.value \in Value /\ m.got = NoValue
          /\ m.gotVersion = 0 /\ m.key = k /\ m.version = clerk[c].version
        BY Zenon, <1>1, <1>6 DEF Call
    <3> HIDE DEF m
    <3> QED BY <1>1, <1>4, <3>1, <3>2 DEF ResendOK
  <2>2. CASE d # c
    <3>1. clerk'[d] = clerk[d] /\ performed'[d] = performed[d] /\ clerk[d].version \in Nat
        BY Zenon, <1>1, <1>2, <2>2 DEF TypeOK, Call
    <3>2. ResendOK(clerk[d], performed[d])
        BY Zenon DEF ResendInv
    <3>3. ASSUME NEW x \in DOMAIN data
          PROVE  /\ x \in DOMAIN data'
                 /\ versions[x] \in Nat
                 /\ versions'[x] \in Nat /\ versions[x] <= versions'[x]
        BY <1>1, <1>4 DEF TypeOK
    <3> QED BY <3>1, <3>2, <3>3 DEF ResendOK
  <2> QED BY Zenon, <2>1, <2>2
<1> QED BY Zenon, <1>7, <1>8 DEF ResendInv

LEMMA NextResend == ResendInv /\ [Next]_vars => ResendInv'
<1> SUFFICES ASSUME ResendInv, [Next]_vars PROVE ResendInv'
    BY Zenon
<1>1. CASE UNCHANGED vars
    BY Zenon, <1>1 DEF vars, ResendInv, TypeOK, ResendOK
<1>2. ASSUME NEW c \in Client, Put(c) PROVE ResendInv'
    BY Zenon, <1>2, RefusedResend, AcceptedResend
<1> QED BY Zenon, <1>1, <1>2, CallResend, GetResend, ResendResend, ReturnsResend DEF Next, Server

\* Resending is safe for any number of clients, keys and resends: a Put that was
\* performed has spent the version it names (kvsrv1/server.go, Put).
THEOREM ResendsAreSafe == Spec => []ResendInv
BY InitResend, NextResend, PTL DEF Spec

\* Clerk.Put tells the application the truth about its Put, however often it was
\* resent: OK only if it was performed, ErrVersion and ErrNoKey only if it was not.
THEOREM PutsAreHonest == Spec => []PutHonest
<1>1. ResendInv => PutHonest
    BY Zenon DEF ResendInv, ResendOK, PutHonest
<1> QED BY <1>1, InitResend, NextResend, PTL DEF Spec

-----------------------------------------------------------------------------
(* Every step is a step of the store, or none. *)

\* The variables of the store, as module KV maps them.
state == [k \in Key |-> KvState(k)]
input == [c \in Client |-> KvInput(c)]
busy == [c \in Client |-> clerk[c].at # "idle"]
may == [c \in Client |-> KvOutputs(c)]

\* The store sees a step of c in its call only.
LEMMA OtherCalls ==
    ASSUME TypeOK, NEW c \in Client,
           \A d \in Client \ {c} : clerk'[d] = clerk[d] /\ performed'[d] = performed[d]
    PROVE  /\ input' = [input EXCEPT ![c] = KvInput(c)']
           /\ busy' = [busy EXCEPT ![c] = (clerk'[c].at # "idle")]
           /\ may' = [may EXCEPT ![c] = KvOutputs(c)']
<1>1. \A d \in Client \ {c} : KvInput(d)' = KvInput(d) /\ KvOutputs(d)' = KvOutputs(d)
    BY Zenon DEF KvInput, KvOutputs, KvOutput
<1>2. input' = [input EXCEPT ![c] = KvInput(c)']
    BY Zenon, <1>1 DEF input
<1>3. busy' = [busy EXCEPT ![c] = (clerk'[c].at # "idle")]
    BY Zenon DEF busy
<1>4. may' = [may EXCEPT ![c] = KvOutputs(c)']
    BY Zenon, <1>1 DEF may
<1> QED BY Zenon, <1>2, <1>3, <1>4

\* The store's steps in these terms.
LEMMA StoreCall ==
    ASSUME NEW c \in Client, ~busy[c], input'[c] \in Store!KvInput,
           input' = [input EXCEPT ![c] = input'[c]], busy' = [busy EXCEPT ![c] = TRUE],
           may' = [may EXCEPT ![c] = {}], state' = state
    PROVE  Store!Call(c)
BY Zenon DEF Store!Call, state, input, busy, may

LEMMA StoreStep ==
    ASSUME NEW c \in Client, busy[c], may[c] = {}, NEW k, k = input[c].Key,
           state' = [state EXCEPT ![k] = Store!After(state[k], input[c])],
           may' = [may EXCEPT ![c] = Store!Outputs(state[k], input[c])],
           input' = input, busy' = busy
    PROVE  Store!Step(c)
BY Zenon DEF Store!Step, state, input, busy, may

LEMMA StoreAgain ==
    ASSUME NEW c \in Client, busy[c],
           input[c].Op = "Get" \/ \A out \in may[c] : out.Err # "OK",
           may' = [may EXCEPT ![c] = {}], state' = state, input' = input, busy' = busy
    PROVE  Store!Again(c)
BY Zenon DEF Store!Again, state, input, busy, may

LEMMA StoreReturn ==
    ASSUME NEW c \in Client, busy[c], NEW out \in may[c], may' = [may EXCEPT ![c] = {out}],
           busy' = [busy EXCEPT ![c] = FALSE], state' = state, input' = input
    PROVE  Store!Return(c)
BY Zenon DEF Store!Return, state, input, busy, may

\* A step of a clerk alone leaves the store's state as it is.
LEMMA SameState == ASSUME UNCHANGED serverVars PROVE state' = state
BY Zenon DEF serverVars, state, KvState

LEMMA CallImplements ==
    ASSUME ResendInv, NEW c \in Client,
           \/ \E k \in Key : CallGet(c, k)
           \/ \E k \in Key, v \in Value, version \in 0..(MaxVersion - 1) :
                 CallPut(c, k, v, version)
    PROVE  Store!Call(c)
<1>1. TypeOK /\ clerk \in [Client -> Call] /\ performed \in [Client -> Nat]
    BY Zenon DEF ResendInv, TypeOK
<1>2. ASSUME NEW m \in Call, clerk[c].at = "idle", clerk' = [clerk EXCEPT ![c] = m],
             \A d \in Client \ {c} : performed'[d] = performed[d],
             m.at = "request", m.op = "Put" => performed'[c] = 0, UNCHANGED serverVars
      PROVE  Store!Call(c)
  <2>1. clerk'[c] = m /\ \A d \in Client \ {c} : clerk'[d] = clerk[d]
      BY Zenon, <1>1, <1>2
  <2>2. /\ input' = [input EXCEPT ![c] = KvInput(c)']
        /\ busy' = [busy EXCEPT ![c] = (clerk'[c].at # "idle")]
        /\ may' = [may EXCEPT ![c] = KvOutputs(c)']
      BY Zenon, <1>1, <1>2, <2>1, OtherCalls
  <2>3. KvOutputs(c)' = {}
      BY <1>2, <2>1 DEF KvOutputs, Call
  <2>4. KvInput(c)' \in Store!KvInput
      BY Zenon, <2>1 DEF KvInput, Store!KvInput, Call
  <2>5. ~busy[c] /\ input'[c] = KvInput(c)' /\ clerk'[c].at # "idle"
      BY Zenon, <1>2, <2>1 DEF busy, input
  <2>6. state' = state
      BY Zenon, <1>2, SameState
  <2> QED BY Zenon, <2>2, <2>3, <2>4, <2>5, <2>6, StoreCall
<1>3. ASSUME NEW k \in Key, CallGet(c, k) PROVE Store!Call(c)
  <2>1. GetRequest(k) \in Call /\ GetRequest(k).at = "request" /\ GetRequest(k).op = "Get"
      BY Zenon DEF GetRequest, Call, Errors
  <2> QED BY Zenon, <1>2, <1>3, <2>1 DEF CallGet
<1>4. ASSUME NEW k \in Key, NEW v \in Value, NEW version \in 0..(MaxVersion - 1),
             CallPut(c, k, v, version)
      PROVE  Store!Call(c)
  <2>0. version \in Nat
      BY KVAssumption
  <2>1. PutRequest(k, v, version) \in Call /\ PutRequest(k, v, version).at = "request"
      BY Zenon, <2>0 DEF PutRequest, Call, Errors
  <2>2. performed'[c] = 0 /\ \A d \in Client \ {c} : performed'[d] = performed[d]
      BY Zenon, <1>1, <1>4 DEF CallPut
  <2> QED BY Zenon, <1>2, <1>4, <2>1, <2>2 DEF CallPut
<1> QED BY Zenon, <1>3, <1>4

\* What a step of the server, of the network or of the clerk's loop leaves of the
\* call: what was asked.
LEMMA SameInput ==
    ASSUME TypeOK, NEW c \in Client, Server(c) \/ Resend(c) \/ Returns(c)
    PROVE  /\ \A d \in Client \ {c} : clerk'[d] = clerk[d] /\ performed'[d] = performed[d]
           /\ clerk'[c].op = clerk[c].op /\ clerk'[c].key = clerk[c].key
           /\ clerk'[c].value = clerk[c].value /\ clerk'[c].version = clerk[c].version
           /\ input' = input
           /\ clerk[c].at # "idle"
<1>0. clerk[c] \in Call
    BY Zenon, ClerkIsCall
<1>1. /\ \A d \in Client \ {c} : clerk'[d] = clerk[d] /\ performed'[d] = performed[d]
      /\ clerk'[c].op = clerk[c].op /\ clerk'[c].key = clerk[c].key
      /\ clerk'[c].value = clerk[c].value /\ clerk'[c].version = clerk[c].version
      /\ clerk[c].at # "idle"
  <2>1. CASE Resend(c)
      BY Zenon, <1>0, <2>1 DEF TypeOK, Resend, Call
  <2>2. CASE GetReturns(c)
      BY Zenon, <1>0, <2>2 DEF TypeOK, GetReturns, Answered, Call
  <2>3. CASE PutReturns(c)
      BY Zenon, <1>0, <2>3 DEF TypeOK, PutReturns, Answered, Call
  <2>4. CASE Get(c)
      BY <1>0, <2>4 DEF TypeOK, Get, Reply, Call
  <2>5. CASE Put(c)
      BY <1>0, <2>5 DEF TypeOK, Put, Reply, Call
  <2> QED BY Zenon, <2>1, <2>2, <2>3, <2>4, <2>5 DEF Server, Returns
<1>2. KvInput(c)' = KvInput(c)
    BY Zenon, <1>1 DEF KvInput
<1>3. input' = [input EXCEPT ![c] = KvInput(c)']
    BY Zenon, <1>1, OtherCalls
<1>4. input' = input
    BY Zenon, <1>2, <1>3 DEF input
<1> QED BY Zenon, <1>1, <1>4

\* A lost call: the step that the store has seen of it is taken again, unless it was
\* a Put that was performed.
LEMMA ResendImplements ==
    ASSUME ResendInv, NEW c \in Client, Resend(c)
    PROVE  Store!Again(c) \/ UNCHANGED <<state, input, busy, may>>
<1>1. TypeOK /\ clerk[c] \in Call /\ performed[c] \in Nat
    BY Zenon, ClerkIsCall DEF ResendInv
<1>2. clerk[c].at # "idle" /\ clerk'[c].at = "request" /\ clerk'[c].op = clerk[c].op
      /\ performed' = performed /\ clerk[c].op \in {"Get", "Put"} /\ UNCHANGED serverVars
    BY Zenon, <1>1 DEF Resend, TypeOK, Call
<1>3. input' = input /\ \A d \in Client \ {c} : clerk'[d] = clerk[d] /\ performed'[d] = performed[d]
    BY Zenon, <1>1, SameInput
<1>4. busy' = [busy EXCEPT ![c] = TRUE] /\ may' = [may EXCEPT ![c] = KvOutputs(c)']
    BY Zenon, <1>1, <1>2, <1>3, OtherCalls
<1>5. busy[c] = TRUE /\ busy' = busy /\ may[c] = KvOutputs(c) /\ input[c].Op = clerk[c].op
    BY Zenon, <1>2, <1>4 DEF busy, may, input, KvInput
<1>6. state' = state
    BY Zenon, <1>2, SameState
<1>7. CASE clerk[c].op = "Get"
  <2>1. KvOutputs(c)' = {}
      BY Zenon, <1>2, <1>7 DEF KvOutputs
  <2> QED BY Zenon, <1>3, <1>4, <1>5, <1>6, <1>7, <2>1, StoreAgain
<1>8. CASE clerk[c].op = "Put" /\ performed[c] = 0
  <2>1. KvOutputs(c)' = {}
      BY <1>2, <1>8 DEF KvOutputs
  <2>2. \A out \in KvOutputs(c) : out.Err # "OK"
      BY <1>2, <1>8 DEF KvOutputs, KvOutput
  <2> QED BY Zenon, <1>3, <1>4, <1>5, <1>6, <2>1, <2>2, StoreAgain
<1>9. CASE clerk[c].op = "Put" /\ performed[c] > 0
  <2>1. KvOutputs(c)' = KvOutputs(c)
      BY Zenon, <1>2, <1>9 DEF KvOutputs
  <2>2. may' = may
      BY Zenon, <1>4, <1>5, <2>1 DEF may
  <2> QED BY Zenon, <1>3, <1>5, <1>6, <2>2
<1> QED BY <1>1, <1>2, <1>7, <1>8, <1>9

LEMMA ReturnsImplements ==
    ASSUME ResendInv, NEW c \in Client, Returns(c)
    PROVE  Store!Return(c)
<1>1. TypeOK /\ clerk[c] \in Call /\ performed[c] \in Nat /\ ResendOK(clerk[c], performed[c])
    BY Zenon, ClerkIsCall DEF ResendInv
<1>2. clerk[c].at = "reply" /\ clerk'[c].at = "idle" /\ performed' = performed
      /\ clerk'[c].got = clerk[c].got /\ clerk'[c].gotVersion = clerk[c].gotVersion
      /\ UNCHANGED serverVars
    BY <1>1 DEF Returns, GetReturns, PutReturns, Answered, TypeOK, Call
<1>3. input' = input /\ \A d \in Client \ {c} : clerk'[d] = clerk[d] /\ performed'[d] = performed[d]
    BY Zenon, <1>1, SameInput
<1>4. busy' = [busy EXCEPT ![c] = FALSE] /\ may' = [may EXCEPT ![c] = KvOutputs(c)']
    BY Zenon, <1>1, <1>2, <1>3, OtherCalls
<1>5. busy[c] = TRUE /\ may[c] = KvOutputs(c) /\ state' = state
    BY Zenon, <1>2, SameState DEF busy, may
<1>6. KvOutputs(c)' = {KvOutput(clerk'[c].err, clerk[c].got, clerk[c].gotVersion)}
    BY Zenon, <1>2 DEF KvOutputs, KvOutput
<1>7. KvOutput(clerk'[c].err, clerk[c].got, clerk[c].gotVersion) \in KvOutputs(c)
  <2>1. CASE GetReturns(c)
    <3>1. clerk'[c].err = clerk[c].err /\ clerk[c].op = "Get"
        BY Zenon, <1>1, <2>1 DEF GetReturns, Answered, TypeOK, Call
    <3> QED BY Zenon, <1>2, <3>1 DEF KvOutputs
  <2>2. CASE PutReturns(c)
    <3>1. clerk'[c].err = PutResult(c) /\ clerk[c].op = "Put"
        BY Zenon, <1>1, <2>2 DEF PutReturns, Answered, TypeOK, Call
    <3>2. clerk[c].got = NoValue /\ clerk[c].gotVersion = 0
        BY Zenon, <1>1, <3>1 DEF ResendOK
    <3>3. PutResult(c) \in IF performed[c] > 0 THEN {"OK", "ErrMaybe"}
                           ELSE {"ErrVersion", "ErrNoKey", "ErrMaybe"}
        BY <1>1, <1>2, <3>1 DEF ResendOK, PutResult
    <3> QED BY Zenon, <1>2, <3>1, <3>2, <3>3 DEF KvOutputs
  <2> QED BY Zenon, <2>1, <2>2 DEF Returns
<1> QED BY Zenon, <1>3, <1>4, <1>5, <1>6, <1>7, StoreReturn

LEMMA GetImplements ==
    ASSUME ResendInv, NEW c \in Client, Get(c)
    PROVE  Store!Step(c)
<1> DEFINE k == clerk[c].key
<1>1. TypeOK /\ clerk[c] \in Call /\ k \in Key
    BY Zenon, ClerkIsCall DEF ResendInv, Call
<1>2. clerk[c].at = "request" /\ clerk[c].op = "Get" /\ clerk'[c].at = "reply"
      /\ performed' = performed /\ UNCHANGED serverVars
    BY <1>1 DEF Get, Reply, TypeOK, Call
<1>3. /\ input' = input /\ clerk'[c].op = "Get"
      /\ \A d \in Client \ {c} : clerk'[d] = clerk[d] /\ performed'[d] = performed[d]
    BY Zenon, <1>1, <1>2, SameInput DEF Server
<1>4. busy' = [busy EXCEPT ![c] = TRUE] /\ may' = [may EXCEPT ![c] = KvOutputs(c)']
    BY Zenon, <1>1, <1>2, <1>3, OtherCalls
<1>5. /\ busy[c] = TRUE /\ busy' = busy /\ may[c] = {} /\ state' = state
      /\ input[c].Op = "Get" /\ input[c].Key = k /\ state[k] = KvState(k)
    BY Zenon, <1>1, <1>2, <1>4, SameState DEF busy, may, KvOutputs, input, KvInput, state
<1>6. KvOutputs(c)' = Store!Outputs(state[k], input[c])
  <2>1. KvOutputs(c)' = {KvOutput(clerk'[c].err, clerk'[c].got, clerk'[c].gotVersion)}
      BY Zenon, <1>2, <1>3 DEF KvOutputs, KvOutput
  <2>2. CASE k \notin DOMAIN data
    <3>1. clerk'[c].err = "ErrNoKey" /\ clerk'[c].got = NoValue /\ clerk'[c].gotVersion = 0
        BY <1>1, <2>2 DEF Get, Reply, TypeOK, Call
    <3>2. KvState(k).Version = 0 /\ KvState(k).Value = NoValue
        BY Zenon, <2>2 DEF KvState
    <3> QED BY Zenon, <1>5, <2>1, <3>1, <3>2 DEF Store!Outputs, KvOutput
  <2>3. CASE k \in DOMAIN data
    <3>1. clerk'[c].err = "OK" /\ clerk'[c].got = data[k] /\ clerk'[c].gotVersion = versions[k]
        BY <1>1, <2>3 DEF Get, Reply, TypeOK, Call
    <3>2. KvState(k).Version = versions[k] /\ KvState(k).Value = data[k] /\ versions[k] # 0
        BY Zenon, <1>1, <2>3 DEF KvState, TypeOK
    <3> QED BY Zenon, <1>5, <2>1, <3>1, <3>2 DEF Store!Outputs, KvOutput
  <2> QED BY Zenon, <2>2, <2>3
<1>7. Store!After(state[k], input[c]) = state[k]
    BY Zenon, <1>5 DEF Store!After, Store!Changes
<1>8. [state EXCEPT ![k] = state[k]] = state
    BY Zenon DEF state
<1>9. /\ busy[c] /\ may[c] = {} /\ k = input[c].Key /\ input' = input /\ busy' = busy
      /\ state' = [state EXCEPT ![k] = Store!After(state[k], input[c])]
    BY Zenon, <1>3, <1>5, <1>7, <1>8
<1>10. may' = [may EXCEPT ![c] = Store!Outputs(state[k], input[c])]
    BY Zenon, <1>4, <1>6
<1> QED BY Zenon, <1>9, <1>10, StoreStep

\* A refused Put is a step of the store that changes nothing, or, when an earlier try
\* was performed, no step at all.
LEMMA RefusedImplements ==
    ASSUME ResendInv, NEW c \in Client, Put(c), ~Accepts(clerk[c].key, clerk[c].version)
    PROVE  Store!Step(c) \/ UNCHANGED <<state, input, busy, may>>
<1> DEFINE k == clerk[c].key
<1>1. /\ TypeOK /\ clerk[c] \in Call /\ performed[c] \in Nat /\ k \in Key
      /\ clerk[c].version \in Nat /\ ResendOK(clerk[c], performed[c])
    BY Zenon, ClerkIsCall DEF ResendInv, Call
<1>2. clerk[c].at = "request" /\ clerk[c].op = "Put" /\ clerk'[c].at = "reply"
      /\ performed' = performed /\ UNCHANGED serverVars
    BY <1>1 DEF Put, Reply, TypeOK, Call
<1>3. /\ input' = input /\ clerk'[c].op = "Put"
      /\ \A d \in Client \ {c} : clerk'[d] = clerk[d] /\ performed'[d] = performed[d]
    BY Zenon, <1>1, <1>2, SameInput DEF Server
<1>4. busy' = [busy EXCEPT ![c] = TRUE] /\ may' = [may EXCEPT ![c] = KvOutputs(c)']
    BY Zenon, <1>1, <1>2, <1>3, OtherCalls
<1>5. /\ busy[c] = TRUE /\ busy' = busy /\ may[c] = KvOutputs(c) /\ state' = state
      /\ input[c].Op = "Put" /\ input[c].Key = k /\ input[c].Version = clerk[c].version
      /\ state[k] = KvState(k)
    BY Zenon, <1>1, <1>2, <1>4, SameState DEF busy, may, input, KvInput, state
<1>6. CASE performed[c] > 0
  <2>1. KvOutputs(c)' = KvOutputs(c)
      BY Zenon, <1>2, <1>3, <1>6 DEF KvOutputs
  <2>2. may' = may
      BY Zenon, <1>4, <1>5, <2>1 DEF may
  <2> QED BY Zenon, <1>3, <1>5, <2>2
<1>7. CASE performed[c] = 0
  <2>1. KvOutputs(c) = {}
      BY <1>2, <1>7 DEF KvOutputs
  <2>2. ~Store!Changes(state[k], input[c])
    <3>1. KvState(k).Version # clerk[c].version
        BY Zenon, <1>1 DEF KvState, Accepts, TypeOK
    <3> QED BY Zenon, <1>5, <3>1 DEF Store!Changes
  <2>3. KvOutputs(c)' = {KvOutput(e, NoValue, 0) : e \in {"ErrVersion", "ErrNoKey", "ErrMaybe"}}
      BY <1>2, <1>3, <1>7 DEF KvOutputs, KvOutput
  <2>4. KvOutputs(c)' = Store!Outputs(state[k], input[c])
      BY Zenon, <1>5, <2>2, <2>3 DEF Store!Outputs, KvOutput
  <2>5. state = [state EXCEPT ![k] = Store!After(state[k], input[c])]
      BY Zenon, <2>2 DEF Store!After, state
  <2> QED BY Zenon, <1>3, <1>4, <1>5, <2>1, <2>4, <2>5, StoreStep
<1> QED BY <1>1, <1>6, <1>7

LEMMA AcceptedImplements ==
    ASSUME ResendInv, NEW c \in Client, Put(c), Accepts(clerk[c].key, clerk[c].version)
    PROVE  Store!Step(c)
<1> DEFINE k == clerk[c].key
           version == clerk[c].version
<1>1. /\ TypeOK /\ clerk[c] \in Call /\ performed[c] \in Nat /\ k \in Key
      /\ version \in Nat /\ ResendOK(clerk[c], performed[c])
    BY Zenon, ClerkIsCall DEF ResendInv, Call
<1>2. clerk[c].at = "request" /\ clerk[c].op = "Put" /\ clerk'[c].at = "reply"
      /\ performed' = [performed EXCEPT ![c] = @ + 1]
    BY <1>1 DEF Put, Reply, TypeOK, Call
<1>3. /\ input' = input /\ clerk'[c].op = "Put"
      /\ \A d \in Client \ {c} : clerk'[d] = clerk[d] /\ performed'[d] = performed[d]
    BY Zenon, <1>1, <1>2, SameInput DEF Server
<1>4. busy' = [busy EXCEPT ![c] = TRUE] /\ may' = [may EXCEPT ![c] = KvOutputs(c)']
    BY Zenon, <1>1, <1>2, <1>3, OtherCalls
<1>5. /\ DOMAIN data' = DOMAIN data \cup {k} /\ DOMAIN versions' = DOMAIN data \cup {k}
      /\ data'[k] = clerk[c].value /\ versions'[k] = version + 1
      /\ k \in DOMAIN data => versions[k] = version
      /\ k \notin DOMAIN data => version = 0
      /\ \A x \in DOMAIN data : x # k => data'[x] = data[x] /\ versions'[x] = versions[x]
    BY Zenon, <1>1, AcceptedMaps
<1>6. performed[c] = 0 /\ performed'[c] = 1
    BY <1>1, <1>2, <1>5 DEF ResendOK, TypeOK
<1>7. /\ busy[c] = TRUE /\ busy' = busy /\ may[c] = {}
      /\ input[c].Op = "Put" /\ input[c].Key = k /\ input[c].Version = version
      /\ input[c].Value = clerk[c].value /\ state[k] = KvState(k)
  <2>1. KvOutputs(c) = {}
      BY <1>2, <1>6 DEF KvOutputs
  <2> QED BY Zenon, <1>1, <1>2, <1>4, <2>1 DEF busy, may, input, KvInput, state
<1>8. KvState(k).Version = version
    BY Zenon, <1>5 DEF KvState
<1>9. Store!Changes(state[k], input[c])
    BY Zenon, <1>7, <1>8 DEF Store!Changes
<1>10. KvOutputs(c)' = Store!Outputs(state[k], input[c])
  <2>1. KvOutputs(c)' = {KvOutput(e, NoValue, 0) : e \in {"OK", "ErrMaybe"}}
      BY <1>2, <1>3, <1>6 DEF KvOutputs, KvOutput
  <2> QED BY Zenon, <1>7, <1>9, <2>1 DEF Store!Outputs, KvOutput
<1>11. state' = [state EXCEPT ![k] = Store!After(state[k], input[c])]
  <2>1. Store!After(state[k], input[c]) = [Value |-> clerk[c].value, Version |-> version + 1]
      BY Zenon, <1>7, <1>8, <1>9 DEF Store!After
  <2>2. ASSUME NEW x \in Key
        PROVE  KvState(x)' = IF x = k THEN [Value |-> clerk[c].value, Version |-> version + 1]
                                      ELSE KvState(x)
      BY Zenon, <1>5 DEF KvState
  <2> HIDE DEF k, version
  <2> QED BY Zenon, <1>1, <2>1, <2>2 DEF state
<1> QED BY Zenon, <1>3, <1>4, <1>7, <1>10, <1>11, StoreStep

LEMMA NextImplements ==
    ResendInv /\ [Next]_vars => [Store!Next]_<<state, input, busy, may>>
<1> SUFFICES ASSUME ResendInv, [Next]_vars
             PROVE  Store!Next \/ UNCHANGED <<state, input, busy, may>>
    BY Zenon
<1>1. CASE UNCHANGED vars
    BY Zenon, <1>1 DEF vars, state, input, busy, may, KvState, KvInput, KvOutputs, KvOutput
<1>2. ASSUME NEW c \in Client,
             Store!Call(c) \/ Store!Step(c) \/ Store!Again(c) \/ Store!Return(c)
      PROVE  Store!Next
    BY Zenon, <1>2 DEF Store!Next
<1>3. ASSUME NEW c \in Client, Put(c)
      PROVE  Store!Step(c) \/ UNCHANGED <<state, input, busy, may>>
    BY Zenon, <1>3, RefusedImplements, AcceptedImplements
<1> QED BY Zenon, <1>1, <1>2, <1>3, CallImplements, GetImplements, ResendImplements,
           ReturnsImplements DEF Next, Server

LEMMA InitImplements == Init => Store!Init
<1> SUFFICES ASSUME Init PROVE Store!Init
    BY Zenon
<1>1. state = [k \in Key |-> [Value |-> NoValue, Version |-> 0]]
    BY Zenon DEF Init, state, KvState
<1>2. ASSUME NEW c \in Client
      PROVE  clerk[c].at = "idle" /\ KvInput(c) \in Store!KvInput
             /\ KvOutputs(c) \in SUBSET Store!KvOutput
  <2>1. PICK k \in Key : clerk[c] = NoCall(k)
      BY Zenon DEF Init
  <2>2. /\ clerk[c].at = "idle" /\ clerk[c].op = "Get" /\ clerk[c].key = k
        /\ clerk[c].value = NoValue /\ clerk[c].version = 0 /\ clerk[c].err = "OK"
        /\ clerk[c].got = NoValue /\ clerk[c].gotVersion = 0
      BY Zenon, <2>1 DEF NoCall, GetRequest
  <2> QED BY <2>2 DEF KvInput, Store!KvInput, KvOutputs, KvOutput, Store!KvOutput
<1>3. input \in [Client -> Store!KvInput] /\ busy = [c \in Client |-> FALSE]
      /\ may \in [Client -> SUBSET Store!KvOutput]
    BY Zenon, <1>2 DEF input, busy, may
<1> QED BY Zenon, <1>1, <1>3 DEF Store!Init, state, input, busy, may

\* The server of kvsrv1, seen through clerks that resend what was lost, is
\* linearizable: every Get and Put takes one step of the store, for any number of
\* clients, keys, values and versions.
THEOREM ServerIsLinearizable == Spec => Linearizable
<1>1. Spec => []ResendInv
    BY InitResend, NextResend, PTL DEF Spec
<1>2. Store!Spec <=> Store!Init /\ [][Store!Next]_<<state, input, busy, may>>
    BY Zenon DEF Store!Spec, Store!storeVars, state, input, busy, may
<1> QED BY <1>1, <1>2, InitImplements, NextImplements, PTL DEF Spec, Linearizable
=============================================================================
