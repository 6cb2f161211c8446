----------------------------- MODULE KafkaGroup -----------------------------
(***************************************************************************)
(* What SimpleConsumer needs of a Kafka broker (external, modelled from    *)
(* how the consumer uses it): the partitions' logs with retention, the     *)
(* tracked offsets of the consumer groups, and the group coordinator that  *)
(* rebalances a group and fences commits of an older generation.  The      *)
(* operators below are conjuncts of the actions of SimpleConsumer.         *)
(***************************************************************************)
EXTENDS Integers, FiniteSets

CONSTANTS
    Consumers,      \* consumer processes
    Partitions,     \* partitions of the topic
    Groups,         \* group ids
    MaxOffset       \* bound on the length of a log

ASSUME GroupAssumption == MaxOffset \in Nat

NoOffset == -1      \* "no tracked offset"
Nobody == "nobody"

VARIABLES
    logStart,       \* per partition, the first retained offset
    logEnd,         \* per partition, the offset of the next record
    committed,      \* per group and partition, the tracked offset
    generation,     \* per group, the number of rebalances completed
    members,        \* per group, the consumers the coordinator counts on
    rejoined,       \* per group, the members that joined the rebalance under way
    rebalancing,    \* per group, is a rebalance under way?
    owner           \* per group and partition, the owner in this generation

logVars   == <<logStart, logEnd>>
groupVars == <<generation, members, rejoined, rebalancing, owner>>
brokerVars == <<logVars, committed, groupVars>>

BrokerInit ==
    /\ logStart = [p \in Partitions |-> 0]
    /\ logEnd \in [Partitions -> 0 .. MaxOffset]
    /\ committed = [g \in Groups |-> [p \in Partitions |-> NoOffset]]
    /\ generation = [g \in Groups |-> 0]
    /\ members = [g \in Groups |-> {}]
    /\ rejoined = [g \in Groups |-> {}]
    /\ rebalancing = [g \in Groups |-> FALSE]
    /\ owner = [g \in Groups |-> [p \in Partitions |-> Nobody]]

BrokerTypeOK ==
    /\ logStart \in [Partitions -> Nat]
    /\ logEnd \in [Partitions -> Nat]
    /\ \A p \in Partitions : logStart[p] <= logEnd[p] /\ logEnd[p] <= MaxOffset
    /\ committed \in [Groups -> [Partitions -> Nat \cup {NoOffset}]]
    /\ generation \in [Groups -> Nat]
    /\ members \in [Groups -> SUBSET Consumers]
    /\ rejoined \in [Groups -> SUBSET Consumers]
    /\ rebalancing \in [Groups -> BOOLEAN]
    /\ owner \in [Groups -> [Partitions -> Consumers \cup {Nobody}]]

-----------------------------------------------------------------------------
Produce(p) ==
    /\ logEnd[p] < MaxOffset
    /\ logEnd' = [logEnd EXCEPT ![p] = @ + 1]
    /\ UNCHANGED <<logStart, committed, groupVars>>

(* Retention deletes the oldest records, whoever has read them. *)
Retention(p) ==
    /\ logStart[p] < logEnd[p]
    /\ logStart' = [logStart EXCEPT ![p] = @ + 1]
    /\ UNCHANGED <<logEnd, committed, groupVars>>

(* A JoinGroup request: it starts a rebalance or takes part in the one under way. *)
JoinGroup(g, c) ==
    /\ members' = [members EXCEPT ![g] = @ \cup {c}]
    /\ rejoined' = [rejoined EXCEPT ![g] = @ \cup {c}]
    /\ rebalancing' = [rebalancing EXCEPT ![g] = TRUE]
    /\ UNCHANGED <<generation, owner>>

(* LeaveGroup, or a session timeout. *)
LeaveGroup(g, c) ==
    /\ members' = [members EXCEPT ![g] = @ \ {c}]
    /\ rejoined' = [rejoined EXCEPT ![g] = @ \ {c}]
    /\ rebalancing' = [rebalancing EXCEPT ![g] = (members[g] # {c})]
    /\ UNCHANGED <<generation, owner>>

(* Every member has joined: a new generation, with an assignment computed by *)
(* the leader.  Which one is left open.                                      *)
CompleteRebalance(g) ==
    /\ rebalancing[g] /\ members[g] # {} /\ rejoined[g] = members[g]
    /\ generation' = [generation EXCEPT ![g] = @ + 1]
    /\ \E assignment \in [Partitions -> members[g]] :
          owner' = [owner EXCEPT ![g] = assignment]
    /\ rejoined' = [rejoined EXCEPT ![g] = {}]
    /\ rebalancing' = [rebalancing EXCEPT ![g] = FALSE]
    /\ UNCHANGED <<logVars, committed, members>>

(* The coordinator's fence on a commit. *)
Accepts(g, c, gen) == c \in members[g] /\ gen = generation[g]

(* Offsets to commit: a partition mapped to NoOffset is not in the request. *)
CommitOffsets(g, offsets) ==
    committed' = [committed EXCEPT ![g] =
        [p \in Partitions |-> IF offsets[p] = NoOffset THEN @[p] ELSE offsets[p]]]
=============================================================================
