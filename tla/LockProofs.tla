----------------------------- MODULE LockProofs -----------------------------
(***************************************************************************)
(* The lock of module Lock excludes, for any number of clients and of lost *)
(* calls.  The argument rests on what KVProofs shows of the server and its *)
(* clerks.                                                                 *)
(***************************************************************************)
EXTENDS Lock, KVProofs

LEMMA InitLock == LockInit => LockInv
<1> SUFFICES ASSUME LockInit PROVE LockInv
    BY Zenon
<1>1. ResendInv
    BY Zenon, InitResend DEF LockInit
<1>2. pc \in [Client -> PCs] /\ lockVersion \in [Client -> Nat]
    BY Zenon DEF LockInit, PCs
<1>3. ASSUME NEW c \in Client PROVE LockOK(c)
  <2>1. PICK k \in Key : clerk[c] = NoCall(k)
      BY Zenon DEF LockInit, Init
  <2>2. clerk[c].at = "idle" /\ pc[c] = "new" /\ DOMAIN data = {}
      BY Zenon, <2>1 DEF LockInit, Init, NoCall, GetRequest
  <2> QED BY Zenon, <2>2 DEF LockOK
<1> QED BY Zenon, <1>1, <1>2, <1>3 DEF LockInv

\* A step of c that leaves the server alone: what it promises c is all there is to show.
LEMMA LocalStep ==
    ASSUME LockInv, NEW c \in Client, ResendInv',
           UNCHANGED serverVars,
           \A d \in Client \ {c} :
               /\ clerk'[d] = clerk[d] /\ performed'[d] = performed[d]
               /\ pc'[d] = pc[d] /\ lockVersion'[d] = lockVersion[d],
           pc' \in [Client -> PCs], lockVersion' \in [Client -> Nat],
           LockOK(c)'
    PROVE  LockInv'
<1>1. ASSUME NEW d \in Client, d # c PROVE LockOK(d)'
  <2>1. LockOK(d)
      BY Zenon DEF LockInv
  <2>2. /\ clerk'[d] = clerk[d] /\ performed'[d] = performed[d] /\ pc'[d] = pc[d]
        /\ lockVersion'[d] = lockVersion[d] /\ data' = data /\ versions' = versions
      BY Zenon, <1>1 DEF serverVars
  <2> QED BY <2>1, <2>2 DEF LockOK, Holds, SeenFree
<1> QED BY Zenon, <1>1 DEF LockInv

\* What a client knows of the values of the lock.
LEMMA LockValues ==
    ASSUME LockInv, NEW c \in Client
    PROVE  /\ c \in Value /\ Free \in Value /\ NoValue \notin Value /\ c # Free /\ lockKey \in Key
           /\ clerk[c] \in Call /\ clerk[c].key = lockKey /\ performed[c] \in Nat
           /\ pc[c] \in PCs /\ lockVersion[c] \in Nat
           /\ ResendOK(clerk[c], performed[c]) /\ LockOK(c)
<1>1. clerk[c] \in Call /\ performed[c] \in Nat
    BY Zenon, ClerkIsCall DEF LockInv, ResendInv
<1>2. clerk[c].key = lockKey
    BY Zenon, <1>1, LockAssumption DEF Call
<1> QED BY Zenon, <1>1, <1>2, LockAssumption, KVAssumption DEF LockInv, ResendInv

\* The clerk goes on with another call.
LEMMA NextCallResend ==
    ASSUME LockInv, NEW c \in Client, NEW m,
           \/ m = GetRequest(lockKey)
           \/ \E v \in Value, version \in Nat : m = PutRequest(lockKey, v, version),
           NextCall(c, m)
    PROVE  /\ ResendInv'
           /\ clerk' = [clerk EXCEPT ![c] = m] /\ performed' = [performed EXCEPT ![c] = 0]
           /\ clerk'[c] = m /\ performed'[c] = 0
           /\ UNCHANGED serverVars
           /\ \A d \in Client \ {c} : clerk'[d] = clerk[d] /\ performed'[d] = performed[d]
<1>1. m \in Call /\ ResendOK(m, 0)
  <2>1. CASE m = GetRequest(lockKey)
      BY Zenon, <2>1, LockValues DEF GetRequest, Call, Errors, ResendOK
  <2>2. ASSUME NEW v \in Value, NEW version \in Nat, m = PutRequest(lockKey, v, version)
        PROVE  m \in Call /\ ResendOK(m, 0)
      BY <2>2, LockValues DEF PutRequest, Call, Errors, ResendOK
  <2> QED BY Zenon, <2>1, <2>2
<1>2. /\ clerk' = [clerk EXCEPT ![c] = m] /\ performed' = [performed EXCEPT ![c] = 0]
      /\ UNCHANGED serverVars
    BY Zenon DEF NextCall
<1>3. ResendInv'
    BY Zenon, <1>1, <1>2, ClerkStep DEF LockInv
<1> QED BY Zenon, <1>2, <1>3 DEF LockInv, ResendInv, TypeOK

-----------------------------------------------------------------------------
(* The client's own steps *)

LEMMA MakeLockLock == ASSUME LockInv, NEW c \in Client, MakeLock(c) PROVE LockInv'
<1> DEFINE m == PutRequest(lockKey, Free, 0)
<1>1. NextCall(c, m) /\ pc[c] = "new" /\ pc' = [pc EXCEPT ![c] = "making"]
      /\ lockVersion' = lockVersion
    BY Zenon DEF MakeLock, Goto
<1>2. /\ ResendInv' /\ clerk'[c] = m /\ performed'[c] = 0 /\ UNCHANGED serverVars
      /\ \A d \in Client \ {c} : clerk'[d] = clerk[d] /\ performed'[d] = performed[d]
    BY Zenon, <1>1, LockValues, NextCallResend
<1>3. m.at = "request" /\ m.op = "Put" /\ m.value = Free /\ m.version = 0
    BY Zenon DEF PutRequest
<1> HIDE DEF m
<1>4. LockOK(c)'
    BY <1>1, <1>2, <1>3, LockValues DEF LockOK, LockInv, serverVars
<1> QED BY Zenon, <1>1, <1>2, <1>4, LocalStep DEF LockInv, PCs

LEMMA AcquireLock == ASSUME LockInv, NEW c \in Client, Acquire(c) PROVE LockInv'
<1> DEFINE m == GetRequest(lockKey)
<1>1. NextCall(c, m) /\ pc[c] = "idle" /\ pc' = [pc EXCEPT ![c] = "getting"]
      /\ lockVersion' = lockVersion
    BY Zenon DEF Acquire, Goto
<1>2. /\ ResendInv' /\ clerk'[c] = m /\ performed'[c] = 0 /\ UNCHANGED serverVars
      /\ \A d \in Client \ {c} : clerk'[d] = clerk[d] /\ performed'[d] = performed[d]
    BY Zenon, <1>1, LockValues, NextCallResend
<1>3. m.at = "request" /\ m.op = "Get"
    BY Zenon DEF GetRequest
<1> HIDE DEF m
<1>4. LockOK(c)'
    BY Zenon, <1>1, <1>2, <1>3 DEF LockOK, LockInv
<1> QED BY Zenon, <1>1, <1>2, <1>4, LocalStep DEF LockInv, PCs

LEMMA ReleaseLock == ASSUME LockInv, NEW c \in Client, Release(c) PROVE LockInv'
<1> DEFINE m == PutRequest(lockKey, Free, lockVersion[c])
<1>1. NextCall(c, m) /\ pc[c] = "held" /\ pc' = [pc EXCEPT ![c] = "releasing"]
      /\ lockVersion' = lockVersion
    BY Zenon DEF Release, Goto
<1>2. /\ ResendInv' /\ clerk'[c] = m /\ performed'[c] = 0 /\ UNCHANGED serverVars
      /\ \A d \in Client \ {c} : clerk'[d] = clerk[d] /\ performed'[d] = performed[d]
    BY Zenon, <1>1, LockValues, NextCallResend
<1>3. m.at = "request" /\ m.op = "Put" /\ m.value = Free /\ m.version = lockVersion[c]
    BY Zenon DEF PutRequest
<1> HIDE DEF m
<1>4. LockOK(c)'
    BY <1>1, <1>2, <1>3, LockValues DEF LockOK, LockInv, Holds, serverVars
<1> QED BY Zenon, <1>1, <1>2, <1>4, LocalStep DEF LockInv, PCs

\* A Get or a Put returns: the call is idle, and the server has no part in it.
LEMMA ReturnedResend ==
    ASSUME LockInv, NEW c \in Client, Returns(c)
    PROVE  /\ ResendInv' /\ clerk'[c].at = "idle" /\ UNCHANGED serverVars
           /\ \A d \in Client : performed'[d] = performed[d]
           /\ \A d \in Client \ {c} : clerk'[d] = clerk[d]
<1>1. clerk[c] \in Call
    BY Zenon, LockValues
<1>2. clerk \in [Client -> Call] /\ performed' = performed /\ UNCHANGED serverVars
    BY Zenon DEF LockInv, ResendInv, TypeOK, Returns, GetReturns, PutReturns
<1>3. clerk'[c].at = "idle" /\ \A d \in Client \ {c} : clerk'[d] = clerk[d]
    BY <1>1, <1>2 DEF Returns, GetReturns, PutReturns, Call
<1> QED BY Zenon, <1>2, <1>3, ReturnsResend DEF LockInv

LEMMA LockMadeLock == ASSUME LockInv, NEW c \in Client, LockMade(c) PROVE LockInv'
<1>1. Returns(c) /\ pc[c] = "making" /\ pc' = [pc EXCEPT ![c] = "idle"]
      /\ lockVersion' = lockVersion
    BY Zenon DEF LockMade, Goto, Returns
<1>2. /\ ResendInv' /\ clerk'[c].at = "idle" /\ UNCHANGED serverVars
      /\ \A d \in Client : performed'[d] = performed[d]
      /\ \A d \in Client \ {c} : clerk'[d] = clerk[d]
    BY Zenon, <1>1, ReturnedResend
<1>3. LockOK(c)'
  <2>1. LockOK(c) /\ data' = data /\ pc'[c] = "idle"
      BY Zenon, <1>1, <1>2, LockValues DEF LockInv, serverVars
  <2> QED BY Zenon, <1>1, <1>2, <2>1 DEF LockOK
<1> QED BY Zenon, <1>1, <1>2, <1>3, LocalStep DEF LockInv, PCs

\* A Release that was answered was performed.
LEMMA ReleasedLock == ASSUME LockInv, NEW c \in Client, Released(c) PROVE LockInv'
<1>1. Returns(c) /\ pc[c] = "releasing" /\ pc' = [pc EXCEPT ![c] = "idle"]
      /\ lockVersion' = lockVersion /\ clerk[c].at = "reply"
    BY Zenon DEF Released, Goto, Returns, PutReturns, Answered
<1>2. /\ ResendInv' /\ clerk'[c].at = "idle" /\ UNCHANGED serverVars
      /\ \A d \in Client : performed'[d] = performed[d]
      /\ \A d \in Client \ {c} : clerk'[d] = clerk[d]
    BY Zenon, <1>1, ReturnedResend
<1>3. LockOK(c)'
  <2>1. LockOK(c) /\ data' = data /\ pc'[c] = "idle"
      BY Zenon, <1>1, <1>2, LockValues DEF LockInv, serverVars
  <2> QED BY Zenon, <1>1, <1>2, <2>1 DEF LockOK
<1> QED BY Zenon, <1>1, <1>2, <1>3, LocalStep DEF LockInv, PCs

\* The loop of Acquire goes on with a Get.
LEMMA GetAgainLock ==
    ASSUME LockInv, NEW c \in Client, pc[c] \in {"getting", "putting"},
           NextCall(c, GetRequest(lockKey)), pc' = [pc EXCEPT ![c] = "getting"],
           lockVersion' = lockVersion
    PROVE  LockInv'
<1> DEFINE m == GetRequest(lockKey)
<1>1. /\ ResendInv' /\ clerk'[c] = m /\ performed'[c] = 0 /\ UNCHANGED serverVars
      /\ \A d \in Client \ {c} : clerk'[d] = clerk[d] /\ performed'[d] = performed[d]
    BY Zenon, LockValues, NextCallResend
<1>2. m.at = "request" /\ m.op = "Get"
    BY Zenon DEF GetRequest
<1> HIDE DEF m
<1>3. LockOK(c)'
    BY Zenon, <1>1, <1>2 DEF LockOK, LockInv
<1> QED BY Zenon, <1>1, <1>3, LocalStep DEF LockInv, PCs

LEMMA AcquireGotLock == ASSUME LockInv, NEW c \in Client, AcquireGot(c) PROVE LockInv'
<1>1. /\ pc[c] = "getting" /\ clerk[c].at = "reply" /\ clerk[c].op = "Get"
      /\ clerk[c].got \in Value \cup {NoValue} /\ clerk[c].gotVersion \in Nat
      /\ pc \in [Client -> PCs]
    BY Zenon, LockValues DEF AcquireGot, Answered, Call, LockInv
<1>2. ASSUME clerk[c].err = "ErrNoKey" \/ clerk[c].got = Free,
             NextCall(c, PutRequest(lockKey, c, clerk[c].gotVersion)),
             pc' = [pc EXCEPT ![c] = "putting"], lockVersion' = lockVersion
      PROVE  LockInv'
  <2> DEFINE m == PutRequest(lockKey, c, clerk[c].gotVersion)
  <2>1. /\ ResendInv' /\ clerk'[c] = m /\ performed'[c] = 0 /\ UNCHANGED serverVars
        /\ \A d \in Client \ {c} : clerk'[d] = clerk[d] /\ performed'[d] = performed[d]
      BY Zenon, <1>1, <1>2, LockValues, NextCallResend
  <2>2. m.at = "request" /\ m.op = "Put" /\ m.value = c /\ m.version = clerk[c].gotVersion
      BY Zenon DEF PutRequest
  <2>3. SeenFree(clerk[c].gotVersion)
      BY Zenon, <1>1, <1>2, LockValues DEF LockOK
  <2> HIDE DEF m
  <2>4. LockOK(c)'
      BY Zenon, <1>1, <1>2, <2>1, <2>2, <2>3 DEF LockOK, SeenFree, serverVars
  <2> QED BY Zenon, <1>1, <1>2, <2>1, <2>4, LocalStep DEF LockInv, PCs
<1>3. ASSUME clerk[c].got = c, GetReturns(c), pc' = [pc EXCEPT ![c] = "held"],
             lockVersion' = [lockVersion EXCEPT ![c] = clerk[c].gotVersion]
      PROVE  LockInv'
  <2>1. /\ ResendInv' /\ clerk'[c].at = "idle" /\ UNCHANGED serverVars
        /\ \A d \in Client : performed'[d] = performed[d]
        /\ \A d \in Client \ {c} : clerk'[d] = clerk[d]
      BY Zenon, <1>3, ReturnedResend DEF Returns
  <2>2. Holds(c, clerk[c].gotVersion)
      BY Zenon, <1>1, <1>3, LockValues DEF LockOK
  <2>3. pc'[c] = "held" /\ lockVersion'[c] = clerk[c].gotVersion
        /\ pc' \in [Client -> PCs] /\ lockVersion' \in [Client -> Nat]
        /\ \A d \in Client \ {c} : pc'[d] = pc[d] /\ lockVersion'[d] = lockVersion[d]
      BY Zenon, <1>1, <1>3 DEF LockInv, PCs
  <2>4. LockOK(c)'
      BY Zenon, <2>1, <2>2, <2>3 DEF LockOK, Holds, serverVars
  <2> QED BY Zenon, <2>1, <2>3, <2>4, LocalStep
<1>4. ASSUME NextCall(c, GetRequest(lockKey)), UNCHANGED <<pc, lockVersion>> PROVE LockInv'
  <2>1. pc' = [pc EXCEPT ![c] = "getting"]
      BY Zenon, <1>1, <1>4
  <2> QED BY Zenon, <1>1, <1>4, <2>1, GetAgainLock
<1> QED BY Zenon, <1>2, <1>3, <1>4 DEF AcquireGot, Goto

LEMMA AcquirePutLock == ASSUME LockInv, NEW c \in Client, AcquirePut(c) PROVE LockInv'
<1>1. /\ pc[c] = "putting" /\ clerk[c].at = "reply" /\ clerk[c].op = "Put"
      /\ clerk[c].version \in Nat
      /\ pc \in [Client -> PCs]
    BY Zenon, LockValues DEF AcquirePut, Answered, Call, LockInv
<1>2. ASSUME PutResult(c) = "OK", PutReturns(c), pc' = [pc EXCEPT ![c] = "held"],
             lockVersion' = [lockVersion EXCEPT ![c] = VersionHeld(clerk[c].version)]
      PROVE  LockInv'
  <2>1. /\ ResendInv' /\ clerk'[c].at = "idle" /\ UNCHANGED serverVars
        /\ \A d \in Client : performed'[d] = performed[d]
        /\ \A d \in Client \ {c} : clerk'[d] = clerk[d]
      BY Zenon, <1>2, ReturnedResend DEF Returns
  <2>2. performed[c] = 1
      BY Zenon, <1>1, <1>2, LockValues DEF PutResult, ResendOK
  <2>3. Holds(c, clerk[c].version + 1)
      BY <1>1, <2>2, LockValues DEF LockOK
  <2>4. pc'[c] = "held" /\ lockVersion'[c] = clerk[c].version + 1
        /\ pc' \in [Client -> PCs] /\ lockVersion' \in [Client -> Nat]
        /\ \A d \in Client \ {c} : pc'[d] = pc[d] /\ lockVersion'[d] = lockVersion[d]
      BY <1>1, <1>2 DEF LockInv, PCs, VersionHeld
  <2>5. LockOK(c)'
      BY Zenon, <2>1, <2>3, <2>4 DEF LockOK, Holds, serverVars
  <2> QED BY Zenon, <2>1, <2>4, <2>5, LocalStep
<1>3. ASSUME NextCall(c, GetRequest(lockKey)), pc' = [pc EXCEPT ![c] = "getting"],
             lockVersion' = lockVersion
      PROVE  LockInv'
    BY Zenon, <1>1, <1>3, GetAgainLock
<1> QED BY Zenon, <1>2, <1>3 DEF AcquirePut, Goto

-----------------------------------------------------------------------------
(* The network and the server *)

LEMMA ResendLock ==
    ASSUME LockInv, NEW c \in Client, Resend(c), UNCHANGED <<pc, lockVersion>> PROVE LockInv'
<1>1. clerk[c] \in Call /\ clerk \in [Client -> Call] /\ clerk[c].at # "idle"
    BY Zenon, LockValues DEF LockInv, ResendInv, TypeOK, Resend
<1>2. performed' = performed /\ UNCHANGED serverVars /\ ResendInv'
    BY Zenon, ResendResend DEF Resend, LockInv
<1>3. /\ clerk'[c].at = "request" /\ clerk'[c].op = clerk[c].op
      /\ clerk'[c].value = clerk[c].value /\ clerk'[c].version = clerk[c].version
      /\ \A d \in Client \ {c} : clerk'[d] = clerk[d]
    BY Zenon, <1>1 DEF Resend, Call
<1>4. LockOK(c)'
  <2>1. /\ LockOK(c) /\ data' = data /\ versions' = versions /\ pc'[c] = pc[c]
        /\ lockVersion'[c] = lockVersion[c] /\ performed'[c] = performed[c]
      BY Zenon, <1>1, <1>2, LockValues DEF serverVars
  <2>2. CASE pc[c] \in {"new", "making", "idle"}
      BY ZenonT(30), <1>1, <1>3, <2>1, <2>2 DEF LockOK
  <2>3. CASE pc[c] \in {"getting", "held"}
      BY Zenon, <1>1, <1>3, <2>1, <2>3 DEF LockOK
  <2>4. CASE pc[c] = "putting"
      BY ZenonT(30), <1>3, <2>1, <2>4 DEF LockOK, Holds, SeenFree
  <2>5. CASE pc[c] = "releasing"
      BY Zenon, <1>3, <2>1, <2>5 DEF LockOK, Holds
  <2> QED BY Zenon, <2>2, <2>3, <2>4, <2>5, LockValues DEF PCs
<1> QED BY Zenon, <1>2, <1>3, <1>4, LocalStep DEF LockInv

\* What the server leaves of the call it answers.
LEMMA Replied ==
    ASSUME LockInv, NEW c \in Client, NEW err, NEW v, NEW version, Reply(c, err, v, version)
    PROVE  /\ clerk'[c].at = "reply" /\ clerk'[c].op = clerk[c].op
           /\ clerk'[c].value = clerk[c].value /\ clerk'[c].version = clerk[c].version
           /\ clerk'[c].err = err /\ clerk'[c].got = v /\ clerk'[c].gotVersion = version
           /\ \A d \in Client \ {c} : clerk'[d] = clerk[d]
<1>1. clerk[c] \in Call /\ clerk \in [Client -> Call]
    BY Zenon, LockValues DEF LockInv, ResendInv, TypeOK
<1> QED BY Zenon, <1>1 DEF Reply, Call

\* A client that reads the lock learns what is stored, with its version.
LEMMA GetLock ==
    ASSUME LockInv, NEW c \in Client, Get(c), UNCHANGED <<pc, lockVersion>> PROVE LockInv'
<1>1. /\ performed' = performed /\ UNCHANGED serverVars /\ ResendInv'
      /\ clerk[c].op = "Get" /\ clerk[c].at = "request" /\ clerk[c].key = lockKey
    BY Zenon, GetResend, LockValues DEF Get, LockInv
<1>2. pc[c] = "getting"
    BY Zenon, <1>1, LockValues DEF LockOK, PCs
<1>3. /\ clerk'[c].at = "reply" /\ clerk'[c].op = "Get"
      /\ \A d \in Client \ {c} : clerk'[d] = clerk[d]
      /\ IF lockKey \in DOMAIN data
         THEN clerk'[c].err = "OK" /\ clerk'[c].got = data[lockKey]
              /\ clerk'[c].gotVersion = versions[lockKey]
         ELSE clerk'[c].err = "ErrNoKey" /\ clerk'[c].got = NoValue /\ clerk'[c].gotVersion = 0
  <2>1. CASE lockKey \in DOMAIN data
    <3>1. Reply(c, "OK", data[lockKey], versions[lockKey])
        BY Zenon, <1>1, <2>1 DEF Get
    <3> QED BY <1>1, <2>1, <3>1, Replied
  <2>2. CASE lockKey \notin DOMAIN data
    <3>1. Reply(c, "ErrNoKey", NoValue, 0)
        BY Zenon, <1>1, <2>2 DEF Get
    <3> QED BY <1>1, <2>2, <3>1, Replied
  <2> QED BY Zenon, <2>1, <2>2
<1>4. lockKey \in DOMAIN data => data[lockKey] \in Value /\ versions[lockKey] \in Nat
    BY Zenon DEF LockInv, ResendInv, TypeOK
<1>5. LockOK(c)'
  <2>1. data' = data /\ versions' = versions /\ pc'[c] = "getting"
      BY Zenon, <1>1, <1>2 DEF serverVars
  <2>2. c # NoValue /\ Free # NoValue /\ NoValue \notin Value
      BY Zenon, LockValues
  <2>3. CASE lockKey \in DOMAIN data
      BY SMTT(30), <1>3, <1>4, <2>1, <2>2, <2>3 DEF LockOK, Holds, SeenFree
  <2>4. CASE lockKey \notin DOMAIN data
      BY SMTT(30), <1>3, <2>1, <2>2, <2>4 DEF LockOK, SeenFree
  <2> QED BY Zenon, <2>3, <2>4
<1> QED BY Zenon, <1>1, <1>3, <1>5, LocalStep DEF LockInv

\* A Put that is refused changes nothing but the call; the Put of a Release that was
\* not performed yet cannot be refused.
LEMMA RefusedLock ==
    ASSUME LockInv, NEW c \in Client, Put(c), ~Accepts(lockKey, clerk[c].version),
           UNCHANGED <<pc, lockVersion>>
    PROVE  LockInv'
<1>1. /\ performed' = performed /\ UNCHANGED serverVars /\ ResendInv'
      /\ clerk[c].op = "Put" /\ clerk[c].at = "request" /\ clerk[c].key = lockKey
    BY ZenonT(30), RefusedResend, LockValues DEF Put, LockInv
<1>2. /\ clerk'[c].at = "reply" /\ clerk'[c].op = "Put" /\ clerk'[c].value = clerk[c].value
      /\ clerk'[c].version = clerk[c].version
      /\ \A d \in Client \ {c} : clerk'[d] = clerk[d]
    BY Zenon, <1>1, Replied DEF Put
<1>3. pc[c] \in {"making", "putting", "releasing"}
    BY Zenon, <1>1, LockValues DEF LockOK, PCs
<1>4. pc[c] = "releasing" => performed[c] # 0
  <2>1. ASSUME Holds(c, clerk[c].version) PROVE FALSE
      BY Zenon, <2>1 DEF Holds, Accepts, LockInv, ResendInv, TypeOK
  <2> QED BY Zenon, <2>1, LockValues DEF LockOK
<1>5. LockOK(c)'
  <2>1. /\ LockOK(c) /\ data' = data /\ versions' = versions /\ pc'[c] = pc[c]
        /\ lockVersion'[c] = lockVersion[c] /\ performed'[c] = performed[c]
      BY ZenonT(30), <1>1, LockValues DEF serverVars
  <2>2. CASE pc[c] = "making"
      BY ZenonT(30), <1>2, <2>1, <2>2 DEF LockOK
  <2>3. CASE pc[c] = "putting"
      BY ZenonT(30), <1>2, <2>1, <2>3 DEF LockOK, Holds, SeenFree
  <2>4. CASE pc[c] = "releasing"
      BY ZenonT(30), <1>2, <1>4, <2>1, <2>4 DEF LockOK
  <2> QED BY Zenon, <1>3, <2>2, <2>3, <2>4
<1> QED BY ZenonT(30), <1>1, <1>2, <1>5, LocalStep DEF LockInv

\* A Put that is accepted takes a free lock, or gives back one's own.
LEMMA AcceptedLock ==
    ASSUME LockInv, NEW c \in Client, Put(c), Accepts(lockKey, clerk[c].version),
           UNCHANGED <<pc, lockVersion>>
    PROVE  LockInv'
<1>1. /\ TypeOK /\ ResendInv' /\ clerk[c].op = "Put" /\ clerk[c].at = "request"
      /\ clerk[c].key = lockKey /\ clerk[c].version \in Nat
    BY Zenon, AcceptedResend, LockValues DEF Put, LockInv, ResendInv, Call
<1>2. /\ lockKey \in DOMAIN data' /\ data'[lockKey] = clerk[c].value
      /\ versions'[lockKey] = clerk[c].version + 1
      /\ lockKey \in DOMAIN data => versions[lockKey] = clerk[c].version
      /\ lockKey \notin DOMAIN data => clerk[c].version = 0
    BY Zenon, <1>1, AcceptedMaps
<1>3. /\ clerk'[c].at = "reply" /\ clerk'[c].op = "Put" /\ clerk'[c].value = clerk[c].value
      /\ clerk'[c].version = clerk[c].version
      /\ \A d \in Client \ {c} : clerk'[d] = clerk[d]
    BY Zenon, <1>1, Replied DEF Put
<1>4. performed[c] = 0
  <2>1. performed[c] = 1 => lockKey \in DOMAIN data /\ clerk[c].version < versions[lockKey]
      BY Zenon, <1>1, LockValues DEF ResendOK
  <2>2. performed[c] \in {0, 1}
      BY Zenon, <1>1, LockValues DEF ResendOK
  <2> QED BY SMTT(30), <1>1, <1>2, <2>1, <2>2
<1>5. performed'[c] = 1 /\ \A d \in Client \ {c} : performed'[d] = performed[d]
    BY SMTT(30), <1>1, <1>4 DEF Put, TypeOK
<1>6. pc[c] \in {"making", "putting", "releasing"}
    BY Zenon, <1>1, LockValues DEF LockOK, PCs
<1>7. /\ clerk[c].value = IF pc[c] = "putting" THEN c ELSE Free
      /\ lockKey \in DOMAIN data =>
            /\ data[lockKey] = IF pc[c] = "releasing" THEN c ELSE Free
            /\ versions[lockKey] \in Nat \ {0}
  <2>1. clerk[c].value = IF pc[c] = "putting" THEN c ELSE Free
      BY Zenon, <1>6, LockValues DEF LockOK
  <2>2. lockKey \in DOMAIN data => versions[lockKey] \in Nat \ {0}
      BY Zenon, <1>1 DEF TypeOK
  <2>0. LockOK(c)
      BY Zenon, LockValues
  <2>3. CASE pc[c] = "making"
    <3>1. clerk[c].version = 0
        BY Zenon, <2>0, <2>3 DEF LockOK
    <3> QED BY Zenon, <1>2, <2>1, <2>2, <3>1
  <2>4. CASE pc[c] = "putting"
    <3>1. SeenFree(clerk[c].version)
        BY Zenon, <1>4, <2>0, <2>4 DEF LockOK
    <3> QED BY SMTT(30), <1>1, <1>2, <2>1, <2>2, <2>4, <3>1 DEF SeenFree
  <2>5. CASE pc[c] = "releasing"
    <3>1. Holds(c, clerk[c].version)
        BY Zenon, <1>4, <2>0, <2>5 DEF LockOK
    <3> QED BY Zenon, <2>1, <2>2, <2>5, <3>1 DEF Holds
  <2> QED BY Zenon, <1>6, <2>3, <2>4, <2>5
<1>8. LockOK(c)'
  <2>0. LockOK(c) /\ pc'[c] = pc[c] /\ c # Free
      BY Zenon, LockValues
  <2>1. /\ clerk'[c].at = "reply" /\ clerk'[c].op = "Put" /\ clerk'[c].value = clerk[c].value
        /\ clerk'[c].version = clerk[c].version /\ performed'[c] # 0
      BY <1>3, <1>5
  <2>2. CASE pc[c] = "making"
    <3>1. data'[lockKey] # c /\ clerk[c].value = Free /\ clerk[c].version = 0
        BY Zenon, <1>2, <1>7, <2>0, <2>2 DEF LockOK
    <3> QED BY ZenonT(30), <2>0, <2>1, <2>2, <3>1 DEF LockOK
  <2>3. CASE pc[c] = "putting"
    <3>1. clerk[c].value = c
        BY Zenon, <1>7, <2>3
    <3>2. Holds(c, clerk[c].version + 1)'
        BY ZenonT(30), <1>2, <2>1, <3>1 DEF Holds
    <3> QED BY Zenon, <2>0, <2>1, <2>3, <3>1, <3>2 DEF LockOK
  <2>4. CASE pc[c] = "releasing"
    <3>1. data'[lockKey] # c /\ clerk[c].value = Free
        BY Zenon, <1>2, <1>7, <2>0, <2>4
    <3> QED BY ZenonT(30), <2>0, <2>1, <2>4, <3>1 DEF LockOK
  <2> QED BY Zenon, <1>6, <2>2, <2>3, <2>4
<1>9. ASSUME NEW d \in Client, d # c PROVE LockOK(d)'
  <2>1. /\ clerk'[d] = clerk[d] /\ performed'[d] = performed[d] /\ pc'[d] = pc[d]
        /\ lockVersion'[d] = lockVersion[d]
      BY Zenon, <1>3, <1>5, <1>9
  <2>2. data'[lockKey] # d /\ ~(lockKey \in DOMAIN data /\ data[lockKey] = d)
    <3>1. d # Free /\ d # c
        BY Zenon, <1>9, LockValues
    <3> QED BY Zenon, <1>2, <1>7, <3>1
  <2>3. ASSUME NEW v \in Nat, SeenFree(v) PROVE SeenFree(v)'
      BY SMTT(30), <1>1, <1>2, <1>7, <2>3 DEF SeenFree
  <2>4. clerk[d].version \in Nat /\ clerk[d].gotVersion \in Nat
      BY Zenon, LockValues DEF Call
  <2>5. LockOK(d)
      BY Zenon, LockValues
  <2>6. ~Holds(d, lockVersion[d]) /\ ~Holds(d, clerk[d].version)
        /\ ~Holds(d, clerk[d].version + 1) /\ ~Holds(d, clerk[d].gotVersion)
      BY Zenon, <2>2 DEF Holds
  <2> QED BY ZenonT(30), <2>1, <2>2, <2>3, <2>4, <2>5, <2>6 DEF LockOK
<1> QED BY ZenonT(30), <1>1, <1>8, <1>9 DEF LockInv

LEMMA NextLock == LockInv /\ [LockNext]_lockVars => LockInv'
<1> SUFFICES ASSUME LockInv, [LockNext]_lockVars PROVE LockInv'
    BY Zenon
<1>1. CASE UNCHANGED lockVars
  <2>1. UNCHANGED <<data, versions, clerk, performed, pc, lockVersion>>
      BY ZenonT(30), <1>1 DEF lockVars, vars
  <2>2. ResendInv'
      BY Zenon, <2>1 DEF LockInv, ResendInv, TypeOK, ResendOK
  <2> QED BY <2>1, <2>2 DEF LockInv, LockOK, Holds, SeenFree
<1>2. ASSUME NEW c \in Client, Put(c), UNCHANGED <<pc, lockVersion>> PROVE LockInv'
    BY Zenon, <1>2, RefusedLock, AcceptedLock
<1>3. ASSUME NEW c \in Client, Network(c) PROVE LockInv'
    BY Zenon, <1>2, <1>3, ResendLock, GetLock DEF Network, Server
<1>4. ASSUME NEW c \in Client, Return(c) PROVE LockInv'
    BY Zenon, <1>4, LockMadeLock, AcquireGotLock, AcquirePutLock, ReleasedLock DEF Return
<1> QED BY Zenon, <1>1, <1>3, <1>4, MakeLockLock, AcquireLock, ReleaseLock DEF LockNext

\* A version at which the lock was seen free takes it from nobody, and a Put that was
\* performed holds it, for any number of clients and losses (lock.go).
THEOREM LockIsAccounted == LockSpec => []LockInv
BY InitLock, NextLock, PTL DEF LockSpec

\* At most one client is between the return of Acquire and the call of Release,
\* however many there are and however often their calls are lost and resent.
THEOREM LockExcludes == LockSpec => []MutualExclusion
<1>1. LockInv => MutualExclusion
    BY SMTT(30) DEF LockInv, LockOK, Holds, MutualExclusion
<1> QED BY <1>1, InitLock, NextLock, PTL DEF LockSpec

\* The client that holds the lock is the one the server stores, at the version its
\* Release will name.
THEOREM HolderIsStored == LockSpec => []HolderOnServer
<1>1. LockInv => HolderOnServer
    BY Zenon DEF LockInv, LockOK, Holds, HolderOnServer
<1> QED BY <1>1, InitLock, NextLock, PTL DEF LockSpec

\* When Release has returned the lock is given back, although its result is not
\* looked at.
THEOREM ReleaseIsDone == LockSpec => []ReleaseReleases
<1>1. LockInv => ReleaseReleases
    BY Zenon DEF LockInv, LockOK, ReleaseReleases
<1> QED BY <1>1, InitLock, NextLock, PTL DEF LockSpec
=============================================================================
