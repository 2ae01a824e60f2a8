----------------------------- MODULE ShardCfg -----------------------------
(***************************************************************************)
(* Shard configurations, src/shardkv1/shardcfg/shardcfg.go: groups join    *)
(* and leave, and Rebalance deals the shards out to them.  A group is its  *)
(* gid; the names of its servers play no part in the assignment.           *)
(***************************************************************************)
EXTENDS Integers, Sequences, SequencesExt

CONSTANTS
    NShards,
    MaxGid,     \* gids are 1..MaxGid; 0 stands for no group
    MaxGids     \* how many gids one call names

\* The bound of the instance that is checked.
CONSTANT MaxNum     \* configurations that are made

ASSUME ShardCfgAssumption ==
    /\ NShards \in 1..256 /\ MaxGid \in Nat \ {0} /\ MaxGids \in Nat \ {0}
    /\ MaxNum \in Nat

VARIABLES
    Num, Shards, Groups,    \* ShardConfig
    result                  \* what the last operation returned

vars == <<Num, Shards, Groups, result>>

Gid == 1..MaxGid
Shard == 0..(NShards - 1)

\* MakeShardConfig
Init ==
    /\ Num = 0
    /\ Shards = [s \in Shard |-> 0]
    /\ Groups = {}
    /\ result = TRUE

-----------------------------------------------------------------------------
(* Rebalance *)

count(shards, g) == Cardinality({s \in Shard : shards[s] = g})

\* analyze: of the groups with the most and with the fewest shards, the smallest gid.
most(shards, groups) ==
    CHOOSE g \in groups : \A h \in groups :
        count(shards, h) < count(shards, g) \/ (count(shards, h) = count(shards, g) /\ g <= h)

least(shards, groups) ==
    CHOOSE g \in groups : \A h \in groups :
        count(shards, h) > count(shards, g) \/ (count(shards, h) = count(shards, g) /\ g <= h)

\* Slips for the runs: all shards are dealt out anew; none is moved afterwards.
AssignAll(shards, groups) ==
    FoldLeft(LAMBDA assigned, i : [assigned EXCEPT ![i - 1] = least(assigned, groups)],
             shards, [i \in 1..NShards |-> i])

\* Each shard whose group is gone goes to the group with the fewest, in turn.
AssignUnassigned(shards, groups) ==
    FoldLeft(LAMBDA assigned, i :
                 IF assigned[i - 1] \in groups THEN assigned
                 ELSE [assigned EXCEPT ![i - 1] = least(assigned, groups)],
             shards, [i \in 1..NShards |-> i])

\* The first shard of the fullest group moves to the emptiest one, until they differ
\* by less than two.
RECURSIVE MoveShards(_, _)
MoveShards(shards, groups) ==
    LET mg == most(shards, groups)
        lg == least(shards, groups)
        moved == CHOOSE s \in Shard : shards[s] = mg /\ \A t \in Shard : t < s => shards[t] # mg
    IN  IF count(shards, mg) < count(shards, lg) + 2 THEN shards
        ELSE MoveShards([shards EXCEPT ![moved] = lg], groups)

RebalancedUnassigned(shards, groups) ==
    IF groups = {} THEN [s \in Shard |-> 0] ELSE AssignUnassigned(shards, groups)

Rebalanced(shards, groups) ==
    IF groups = {} THEN [s \in Shard |-> 0]
    ELSE MoveShards(AssignUnassigned(shards, groups), groups)

-----------------------------------------------------------------------------
(* The operations *)

Rebalance ==
    /\ Shards' = Rebalanced(Shards, Groups)
    /\ UNCHANGED <<Num, Groups, result>>

\* Join of a map of groups: the gids are taken in the order of the map, which is any
\* order, and the first that is there already ends the call.
Joined(gids) ==
    \/ /\ gids \cap Groups = {} /\ Num < MaxNum
       /\ Groups' = Groups \cup gids
       /\ Num' = Num + 1 /\ result' = TRUE
    \/ /\ gids \cap Groups # {}
       /\ \E before \in SUBSET (gids \ Groups) : Groups' = Groups \cup before
       /\ Num' = Num /\ result' = FALSE

\* Leave of a list of gids: the first that is not there, or that the list named
\* before, ends the call.
Left(gids) ==
    LET gone(n) == ToSet(SubSeq(gids, 1, n))
        refused == {i \in DOMAIN gids : gids[i] \notin Groups \ gone(i - 1)}
    IN  \/ /\ refused = {} /\ Num < MaxNum
           /\ Groups' = Groups \ ToSet(gids)
           /\ Num' = Num + 1 /\ result' = TRUE
        \/ /\ refused # {}
           /\ \E i \in refused : /\ \A j \in refused : i <= j
                                 /\ Groups' = Groups \ gone(i - 1)
           /\ Num' = Num /\ result' = FALSE

Join(gids) == Joined(gids) /\ UNCHANGED Shards

Leave(gids) == Left(gids) /\ UNCHANGED Shards

\* JoinBalance and LeaveBalance rebalance what Join and Leave accepted.
JoinBalance(gids) ==
    /\ Joined(gids)
    /\ Shards' = IF result' THEN Rebalanced(Shards, Groups') ELSE Shards

LeaveBalance(gids) ==
    /\ Left(gids)
    /\ Shards' = IF result' THEN Rebalanced(Shards, Groups') ELSE Shards

JoinArgs == {gids \in SUBSET Gid : Cardinality(gids) \in 1..MaxGids}
LeaveArgs == UNION {[1..n -> Gid] : n \in 1..MaxGids}

Next ==
    \/ Rebalance
    \/ \E gids \in JoinArgs : Join(gids) \/ JoinBalance(gids)
    \/ \E gids \in LeaveArgs : Leave(gids) \/ LeaveBalance(gids)

Spec == Init /\ [][Next]_vars

-----------------------------------------------------------------------------
(* Properties *)

Balanced(shards, groups) ==
    /\ \A s \in Shard : shards[s] \in (IF groups = {} THEN {0} ELSE groups)
    /\ \A g, h \in groups : count(shards, g) <= count(shards, h) + 1

\* Rebalancing ends with what CheckConfig demands from every configuration that the
\* calls lead to, also one that a refused Join or Leave left half changed: every shard
\* has a group and no group has two shards more than another.  JoinBalance and
\* LeaveBalance rebalance what Join and Leave lead to, so this is said of them as well.
CheckConfig == Balanced(Rebalanced(Shards, Groups), Groups)

\* From a balanced assignment Rebalance moves no shard from one group to another that
\* was a member before as well: a Join only feeds the new groups, a Leave only deals
\* out the shards of the groups that left.
NoNeedlessMove ==
    [][Balanced(Shards, Groups) =>
         \A s \in Shard :
            \/ Shards'[s] = Shards[s]
            \/ Shards[s] \notin Groups'
            \/ Shards'[s] \notin Groups]_vars
=============================================================================
