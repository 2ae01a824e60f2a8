-------------------------- MODULE VersionedStore --------------------------
(***************************************************************************)
(* What the key/value servers promise: KvModel of src/models1/kv.go, the   *)
(* sequential store against which the tests check the history of the       *)
(* clerks' operations for linearizability.  Every operation takes its step *)
(* at one moment between its call and its return, on the state the steps   *)
(* before it have left, and returns an output that step allows.            *)
(***************************************************************************)
EXTENDS Naturals

CONSTANTS Client, Key, Value, NoValue

VARIABLES
    state,      \* KvState of each key
    input,      \* KvInput of each client's operation, the last one
    busy,       \* whether it has yet to return
    may         \* the KvOutputs its step allows, {} before the step; then the one returned

storeVars == <<state, input, busy, may>>

KvState == [Value : Value \cup {NoValue}, Version : Nat]

KvInput == [Op : {"Get", "Put"}, Key : Key, Value : Value \cup {NoValue}, Version : Nat]

KvOutput == [Value : Value \cup {NoValue}, Version : Nat,
             Err : {"OK", "ErrNoKey", "ErrVersion", "ErrMaybe"}]

\* Whether Step changes the state.
Changes(st, inp) == inp.Op = "Put" /\ st.Version = inp.Version

\* The outputs Step accepts.  Of a Get it looks at the value; here the version and
\* the error are the key's as well.  ErrNoKey is how the server refuses a Put to a
\* key it does not have, a case that KvModel leaves out.
Outputs(st, inp) ==
    IF inp.Op = "Get"
    THEN {[Value |-> st.Value, Version |-> st.Version,
           Err |-> IF st.Version = 0 THEN "ErrNoKey" ELSE "OK"]}
    ELSE {[Value |-> NoValue, Version |-> 0, Err |-> e] :
             e \in IF Changes(st, inp) THEN {"OK", "ErrMaybe"}
                                       ELSE {"ErrVersion", "ErrNoKey", "ErrMaybe"}}

\* The state after Step.
After(st, inp) ==
    IF Changes(st, inp) THEN [Value |-> inp.Value, Version |-> st.Version + 1] ELSE st

Init ==
    /\ state = [k \in Key |-> [Value |-> NoValue, Version |-> 0]]
    /\ input \in [Client -> KvInput]
    /\ busy = [c \in Client |-> FALSE]
    /\ may \in [Client -> SUBSET KvOutput]

Call(c) ==
    /\ ~busy[c]
    /\ input'[c] \in KvInput
    /\ input' = [input EXCEPT ![c] = input'[c]]
    /\ busy' = [busy EXCEPT ![c] = TRUE]
    /\ may' = [may EXCEPT ![c] = {}]
    /\ UNCHANGED state

\* The operation takes effect.
Step(c) ==
    LET k == input[c].Key
    IN  /\ busy[c] /\ may[c] = {}
        /\ state' = [state EXCEPT ![k] = After(state[k], input[c])]
        /\ may' = [may EXCEPT ![c] = Outputs(state[k], input[c])]
        /\ UNCHANGED <<input, busy>>

\* A step that changed nothing may be taken again: the last one counts.
Again(c) ==
    /\ busy[c]
    /\ input[c].Op = "Get" \/ \A out \in may[c] : out.Err # "OK"
    /\ may' = [may EXCEPT ![c] = {}]
    /\ UNCHANGED <<state, input, busy>>

Return(c) ==
    /\ busy[c]
    /\ \E out \in may[c] : may' = [may EXCEPT ![c] = {out}]
    /\ busy' = [busy EXCEPT ![c] = FALSE]
    /\ UNCHANGED <<state, input>>

Next == \E c \in Client : Call(c) \/ Step(c) \/ Again(c) \/ Return(c)

Spec == Init /\ [][Next]_storeVars
=============================================================================
