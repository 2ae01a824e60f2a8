------------------------------- MODULE Lock -------------------------------
(***************************************************************************)
(* The lock of src/kvsrv1/lock/lock.go: clients that make, acquire and     *)
(* release a lock kept under one key of the server of module KV, through   *)
(* clerks that resend.  What a client does between the return of one clerk *)
(* call and the next one is local, so it is part of the step that returns. *)
(***************************************************************************)
EXTENDS KV

CONSTANTS
    lockKey,    \* the name of the lock
    Free        \* the empty string: nobody holds the lock

ASSUME LockAssumption ==
    /\ Key = {lockKey}
    /\ Free \notin Client
    /\ Value = Client \cup {Free}

VARIABLES
    pc,         \* what the client is doing
    lockVersion \* Lock.version

lockVars == <<vars, pc, lockVersion>>

PCs == {"new", "making", "idle", "getting", "putting", "held", "releasing"}

LockInit ==
    /\ Init
    /\ pc = [c \in Client |-> "new"]
    /\ lockVersion = [c \in Client |-> 0]

\* The client's clerk goes on with another call, from idle or from an answer.
NextCall(c, request) ==
    /\ clerk' = [clerk EXCEPT ![c] = request]
    /\ performed' = [performed EXCEPT ![c] = 0]
    /\ UNCHANGED serverVars

Goto(c, label) == pc' = [pc EXCEPT ![c] = label]

\* MakeLock: whether the key was there already does not matter.
MakeLock(c) ==
    /\ pc[c] = "new"
    /\ NextCall(c, PutRequest(lockKey, Free, 0))
    /\ Goto(c, "making")
    /\ UNCHANGED lockVersion

LockMade(c) ==
    /\ pc[c] = "making"
    /\ PutReturns(c)
    /\ Goto(c, "idle")
    /\ UNCHANGED lockVersion

\* Acquire: the first Get of the loop.
Acquire(c) ==
    /\ pc[c] = "idle"
    /\ NextCall(c, GetRequest(lockKey))
    /\ Goto(c, "getting")
    /\ UNCHANGED lockVersion

\* The Get returned.  A free lock is tried at the version it was seen at (0 when the
\* key does not exist), one's own is held, and for another's the loop goes on.
AcquireGot(c) ==
    LET seen == clerk[c].got
        version == clerk[c].gotVersion
    IN  /\ pc[c] = "getting"
        /\ Answered(c, "Get")
        /\ \/ /\ clerk[c].err = "ErrNoKey" \/ seen = Free
              /\ NextCall(c, PutRequest(lockKey, c, version))
              /\ Goto(c, "putting")
              /\ UNCHANGED lockVersion
           \/ /\ seen = c
              /\ GetReturns(c)
              /\ Goto(c, "held")
              /\ lockVersion' = [lockVersion EXCEPT ![c] = version]
           \/ /\ seen \notin {Free, NoValue, c}
              /\ NextCall(c, GetRequest(lockKey))
              /\ UNCHANGED <<pc, lockVersion>>

\* A slip for the runs: the lock's version is the one the Put named.
VersionPut(version) == version

\* What lk.version becomes after a Put that named a version.
VersionHeld(version) == version + 1

\* The Put returned: only OK is sure.
AcquirePut(c) ==
    /\ pc[c] = "putting"
    /\ Answered(c, "Put")
    /\ \/ /\ PutResult(c) = "OK"
          /\ PutReturns(c)
          /\ Goto(c, "held")
          /\ lockVersion' = [lockVersion EXCEPT ![c] = VersionHeld(clerk[c].version)]
       \/ /\ PutResult(c) # "OK"
          /\ NextCall(c, GetRequest(lockKey))
          /\ Goto(c, "getting")
          /\ UNCHANGED lockVersion

\* Release, when the client is done with what the lock protects.
Release(c) ==
    /\ pc[c] = "held"
    /\ lockVersion[c] < MaxVersion
    /\ NextCall(c, PutRequest(lockKey, Free, lockVersion[c]))
    /\ Goto(c, "releasing")
    /\ UNCHANGED lockVersion

\* The result of the Put is not looked at.
Released(c) ==
    /\ pc[c] = "releasing"
    /\ PutReturns(c)
    /\ Goto(c, "idle")
    /\ UNCHANGED lockVersion

Network(c) == (Server(c) \/ Resend(c)) /\ UNCHANGED <<pc, lockVersion>>

Handled(c) == Server(c) /\ UNCHANGED <<pc, lockVersion>>

Return(c) == LockMade(c) \/ AcquireGot(c) \/ AcquirePut(c) \/ Released(c)

LockNext ==
    \E c \in Client :
        \/ MakeLock(c) \/ Acquire(c) \/ Release(c)
        \/ Return(c)
        \/ Network(c)

\* As in KV; and a client that holds the lock releases it.
LockFairness ==
    \A c \in Client :
        /\ WF_lockVars(Handled(c))
        /\ SF_lockVars(Return(c))
        /\ WF_lockVars(Release(c))

LockSpec == LockInit /\ [][LockNext]_lockVars /\ LockFairness

-----------------------------------------------------------------------------
(* Properties *)

\* At most one client is between the return of Acquire and the call of Release.
MutualExclusion ==
    \A c, d \in Client : pc[c] = "held" /\ pc[d] = "held" => c = d

\* Who holds the lock is what the server stores, at the version the client will
\* release: a holder is never evicted, and no late Put of another client can
\* succeed against it.
HolderOnServer ==
    \A c \in Client : pc[c] = "held" =>
        /\ lockKey \in DOMAIN data /\ data[lockKey] = c
        /\ versions[lockKey] = lockVersion[c]

\* After Release has returned the lock is not the client's any more, although the
\* code ignores what the Put returned (ErrMaybe "是可接受的").
ReleaseReleases ==
    \A c \in Client :
        pc[c] \in {"new", "making", "idle"} /\ lockKey \in DOMAIN data
            => data[lockKey] # c

\* The lock is c's on the server, at a version; and a version at which a Put can only
\* take a free lock.
Holds(c, version) ==
    lockKey \in DOMAIN data /\ data[lockKey] = c /\ versions[lockKey] = version

SeenFree(version) ==
    version > 0 =>
        /\ lockKey \in DOMAIN data /\ version <= versions[lockKey]
        /\ version = versions[lockKey] => data[lockKey] = Free

\* What a client may rely on, at each place of Acquire and Release.
LockOK(c) ==
    LET m == clerk[c]
        stored == lockKey \in DOMAIN data /\ data[lockKey] = c
    IN  /\ pc[c] \in {"new", "idle", "held"} <=> m.at = "idle"
        /\ pc[c] \in {"new", "making", "idle"} => ~stored
        /\ pc[c] = "making" => m.op = "Put" /\ m.value = Free /\ m.version = 0
        /\ pc[c] = "getting" => m.op = "Get"
        /\ pc[c] = "getting" /\ m.at = "reply" =>
              /\ m.err = "ErrNoKey" => m.got = NoValue
              /\ m.got \in {NoValue, Free} => SeenFree(m.gotVersion)
              /\ m.got = c => Holds(c, m.gotVersion)
        /\ pc[c] = "putting" =>
              /\ m.op = "Put" /\ m.value = c
              /\ IF performed[c] = 0 THEN SeenFree(m.version) ELSE Holds(c, m.version + 1)
        /\ pc[c] = "held" => Holds(c, lockVersion[c])
        /\ pc[c] = "releasing" =>
              /\ m.op = "Put" /\ m.value = Free
              /\ IF performed[c] = 0 THEN m.at = "request" /\ Holds(c, m.version) ELSE ~stored

\* Why the lock works: a version at which the lock was seen free names a free lock
\* or none, so a Put at it takes nothing from a client that holds it; and a client
\* whose Put was performed has the lock, whether it has been told so or not, until
\* its own Release is performed.
LockInv ==
    /\ ResendInv
    /\ pc \in [Client -> PCs]
    /\ lockVersion \in [Client -> Nat]
    /\ \A c \in Client : LockOK(c)

\* As long as clients release it, the lock goes to some client that wants it: no
\* loss of a request or reply leaves it with nobody, or with a client that does not
\* know.
SomeoneGetsTheLock ==
    (\E c \in Client : pc[c] \in {"getting", "putting"})
        ~> (\E c \in Client : pc[c] = "held")
=============================================================================
