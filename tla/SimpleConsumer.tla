--------------------------- MODULE SimpleConsumer ---------------------------
(***************************************************************************)
(* kafka-examples SimpleConsumer.java with SeekToBeginningListener.java:   *)
(* processes that subscribe to one topic, poll in a loop, print what they  *)
(* get and leave committing to the client's auto-commit.  A step of the    *)
(* KafkaConsumer that happens inside poll() is an action of its own; the   *)
(* client and the broker behave as kafka-clients 1.0.1 does under the      *)
(* properties that configure() sets.                                       *)
(***************************************************************************)
EXTENDS KafkaGroup

CONSTANTS
    FromBeginning,   \* the consumers started with --from-beginning
    GroupIds,        \* the values given to --group-id
    GroupOption,     \* each consumer's --group-id, or NoGroup
    NoGroup,
    ListenerMayFail, \* can beginningOffsets/endOffsets throw in the listener?
    MaxStarts,       \* bound on the number of process starts
    MaxEvictions     \* bound on the session timeouts of processes that are up

Uuids == Groups \ GroupIds

ASSUME ConsumerAssumption ==
    /\ FromBeginning \subseteq Consumers
    /\ GroupIds \subseteq Groups
    /\ GroupOption \in [Consumers -> GroupIds \cup {NoGroup}] /\ NoGroup \notin Groups
    /\ ListenerMayFail \in BOOLEAN
    /\ MaxStarts \in Nat /\ MaxEvictions \in Nat

VARIABLES
    pc,         \* "down", "subscribed", "joining" (in poll, waiting for an
                \* assignment), "polling", "printing" (in the for loop)
    groupId,    \* the group.id property configure() put
    memberGen,  \* the generation of the assignment a consumer works under
    assigned,   \* the partitions of that assignment
    fetchState, \* per partition: "valid" (it has a position), "lookup" (it needs
                \* the tracked offset), "earliest" or "latest" (it awaits a reset)
    position,   \* per partition, the offset the next poll returns
    printedTo,  \* per partition, the offset the for loop prints next
    request,    \* the auto-commit on the wire: [gen, at], gen = 0 if there is none
    usedIds,    \* history: UUIDs taken by earlier starts
    printed,    \* history: per group and partition, the offsets printed
    skipped,    \* history: per group and partition, the offsets passed over
    starts, evictions   \* counters for the bounds

consumerVars == <<pc, groupId, memberGen, assigned, fetchState, position, printedTo>>
history == <<usedIds, printed, skipped, starts, evictions>>
vars == <<brokerVars, consumerVars, request, history>>

NoRequest == [gen |-> 0, at |-> [p \in Partitions |-> NoOffset]]
FetchStates == {"valid", "lookup", "earliest", "latest"}

Covered(g, p) == printed[g][p] \cup skipped[g][p]

Init ==
    /\ BrokerInit
    /\ pc = [c \in Consumers |-> "down"]
    /\ groupId = [c \in Consumers |-> NoGroup]
    /\ memberGen = [c \in Consumers |-> 0]
    /\ assigned = [c \in Consumers |-> {}]
    /\ fetchState = [c \in Consumers |-> [p \in Partitions |-> "lookup"]]
    /\ position = [c \in Consumers |-> [p \in Partitions |-> 0]]
    /\ printedTo = [c \in Consumers |-> [p \in Partitions |-> 0]]
    /\ request = [c \in Consumers |-> NoRequest]
    /\ usedIds = {}
    /\ printed = [g \in Groups |-> [p \in Partitions |-> {}]]
    /\ skipped = [g \in Groups |-> [p \in Partitions |-> {}]]
    /\ starts = 0 /\ evictions = 0

-----------------------------------------------------------------------------
(* What c knows of its assignment is gone: revoked, or lost with the process. *)
Forget(c) ==
    /\ memberGen' = [memberGen EXCEPT ![c] = 0]
    /\ assigned' = [assigned EXCEPT ![c] = {}]
    /\ fetchState' = [fetchState EXCEPT ![c] = [p \in Partitions |-> "lookup"]]
    /\ position' = [position EXCEPT ![c] = [p \in Partitions |-> 0]]
    /\ printedTo' = [printedTo EXCEPT ![c] = [p \in Partitions |-> 0]]

(* Process start: parseArgs, configure, the constructor and subscribe.  A    *)
(* process without --group-id invents a fresh group id.                      *)
Start(c) ==
    /\ pc[c] = "down" /\ starts < MaxStarts /\ request[c] = NoRequest
    /\ starts' = starts + 1
    /\ \E g \in Groups :
          /\ IF GroupOption[c] = NoGroup THEN g \in Uuids \ usedIds
                                         ELSE g = GroupOption[c]
          /\ groupId' = [groupId EXCEPT ![c] = g]
          /\ usedIds' = usedIds \cup ({g} \cap Uuids)
    /\ pc' = [pc EXCEPT ![c] = "subscribed"]
    /\ UNCHANGED <<brokerVars, memberGen, assigned, fetchState, position, printedTo, request,
                   printed, skipped, evictions>>

(* The first poll of a process sends JoinGroup; one that waits in poll for   *)
(* an assignment and was left out of a newer rebalance sends it again.       *)
Join(c) ==
    LET g == groupId[c] IN
    /\ \/ pc[c] = "subscribed"
       \/ /\ pc[c] = "joining"
          /\ c \notin members[g] \/ (rebalancing[g] /\ c \notin rejoined[g])
    /\ JoinGroup(g, c)
    /\ pc' = [pc EXCEPT ![c] = "joining"]
    /\ UNCHANGED <<logVars, committed, groupId, memberGen, assigned, fetchState, position,
                   printedTo, request, history>>

(* What auto-commit sends: the position of every partition that has one. *)
Consumed(c) ==
    [p \in Partitions |-> IF p \in assigned[c] /\ fetchState[c][p] = "valid"
                          THEN position[c][p] ELSE NoOffset]

(* The synchronous auto-commit that precedes a rejoin or a close goes        *)
(* through; one that is refused or times out is only logged.                 *)
CommitSync(c) ==
    /\ Accepts(groupId[c], c, memberGen[c])
    /\ CommitOffsets(groupId[c], Consumed(c))

(* A poll that has heard of a rebalance, or that its member was evicted,     *)
(* commits, revokes (onPartitionsRevoked is empty) and joins again.          *)
Rejoin(c) ==
    LET g == groupId[c] IN
    /\ pc[c] = "polling" /\ request[c] = NoRequest
    /\ rebalancing[g] \/ c \notin members[g]
    /\ CommitSync(c) \/ UNCHANGED committed
    /\ JoinGroup(g, c)
    /\ pc' = [pc EXCEPT ![c] = "joining"]
    /\ Forget(c)
    /\ UNCHANGED <<logVars, groupId, request, history>>

\* Mutant: the listener seeks only if the group had no generation before.
ReceiveAssignment_SeekOnce(c) ==
    LET g == groupId[c] IN
    /\ pc[c] = "joining" /\ ~rebalancing[g] /\ c \in members[g]
    /\ memberGen' = [memberGen EXCEPT ![c] = generation[g]]
    /\ assigned' = [assigned EXCEPT ![c] = {p \in Partitions : owner[g][p] = c}]
    /\ fetchState' = [fetchState EXCEPT ![c] = [p \in Partitions |->
          IF c \in FromBeginning /\ generation[g] = 1 THEN "earliest" ELSE "lookup"]]
    /\ pc' = [pc EXCEPT ![c] = "polling"]
    /\ UNCHANGED <<brokerVars, groupId, position, printedTo, request, history>>

(* The SyncGroup answer, then the rebalance listener, both inside poll.  The *)
(* plain subscribe has no listener: every partition starts from a lookup.    *)
(* SeekToBeginningListener asks for both ends of the log first; if a request *)
(* throws, the client logs it and goes on, and seekToBeginning is not called.*)
ReceiveAssignment(c) ==
    LET g == groupId[c] IN
    /\ pc[c] = "joining" /\ ~rebalancing[g] /\ c \in members[g]
    /\ memberGen' = [memberGen EXCEPT ![c] = generation[g]]
    /\ assigned' = [assigned EXCEPT ![c] = {p \in Partitions : owner[g][p] = c}]
    /\ \E seek \in {"lookup", "earliest"} :
          /\ seek = "earliest" => c \in FromBeginning
          /\ seek = "lookup" => c \notin FromBeginning \/ ListenerMayFail
          /\ fetchState' = [fetchState EXCEPT ![c] = [p \in Partitions |-> seek]]
    /\ pc' = [pc EXCEPT ![c] = "polling"]
    /\ UNCHANGED <<brokerVars, groupId, position, printedTo, request, history>>

(* The position of c in p becomes o, and what it passes over is skipped. *)
MoveTo(c, p, o, passed) ==
    /\ position' = [position EXCEPT ![c][p] = o]
    /\ printedTo' = [printedTo EXCEPT ![c][p] = o]
    /\ fetchState' = [fetchState EXCEPT ![c][p] = "valid"]
    /\ skipped' = [skipped EXCEPT ![groupId[c]][p] = @ \cup (passed \ printed[groupId[c]][p])]

Fetching(c, p, s) == pc[c] = "polling" /\ p \in assigned[c] /\ fetchState[c][p] = s

(* The tracked offset if there is one.  Without one auto.offset.reset says   *)
(* where to go: "latest", the default, for --from-beginning too, because     *)
(* startConsuming puts "earliest" after the consumer copied the properties.  *)
LookUpPosition(c, p) ==
    /\ Fetching(c, p, "lookup")
    /\ IF committed[groupId[c]][p] # NoOffset
       THEN MoveTo(c, p, committed[groupId[c]][p], {})
       ELSE MoveTo(c, p, logEnd[p], 0 .. logEnd[p] - 1)
    /\ UNCHANGED <<brokerVars, pc, groupId, memberGen, assigned, request,
                   usedIds, printed, starts, evictions>>

ResetToEarliest(c, p) ==
    /\ Fetching(c, p, "earliest")
    /\ MoveTo(c, p, logStart[p], 0 .. logStart[p] - 1)
    /\ UNCHANGED <<brokerVars, pc, groupId, memberGen, assigned, request,
                   usedIds, printed, starts, evictions>>

\* Mutant: auto.offset.reset=none: every poll throws and the loop catches it.
OutOfRange_Throws(c, p) ==
    /\ Fetching(c, p, "valid")
    /\ position[c][p] < logStart[p]
    /\ UNCHANGED vars

(* Retention overtook the position: the default reset again. *)
OutOfRange(c, p) ==
    /\ Fetching(c, p, "valid")
    /\ position[c][p] < logStart[p]
    /\ fetchState' = [fetchState EXCEPT ![c][p] = "latest"]
    /\ UNCHANGED <<brokerVars, pc, groupId, memberGen, assigned, position, printedTo,
                   request, history>>

ResetToLatest(c, p) ==
    /\ Fetching(c, p, "latest")
    /\ MoveTo(c, p, logEnd[p], position[c][p] .. logEnd[p] - 1)
    /\ UNCHANGED <<brokerVars, pc, groupId, memberGen, assigned, request,
                   usedIds, printed, starts, evictions>>

(* poll returns records of some partitions and moves their positions. *)
PollReturns(c) ==
    /\ pc[c] = "polling"
    /\ \E next \in [Partitions -> 0 .. MaxOffset] :
          /\ next # position[c]
          /\ \A p \in Partitions :
                \/ next[p] = position[c][p]
                \/ /\ Fetching(c, p, "valid") /\ logStart[p] <= position[c][p]
                   /\ position[c][p] < next[p] /\ next[p] <= logEnd[p]
          /\ position' = [position EXCEPT ![c] = next]
    /\ pc' = [pc EXCEPT ![c] = "printing"]
    /\ UNCHANGED <<brokerVars, groupId, memberGen, assigned, fetchState, printedTo,
                   request, history>>

(* One round of the for loop over the returned records. *)
PrintRecord(c, p) ==
    /\ pc[c] = "printing" /\ printedTo[c][p] < position[c][p]
    /\ printed' = [printed EXCEPT ![groupId[c]][p] = @ \cup {printedTo[c][p]}]
    /\ printedTo' = [printedTo EXCEPT ![c][p] = @ + 1]
    /\ UNCHANGED <<brokerVars, pc, groupId, memberGen, assigned, fetchState, position,
                   request, usedIds, skipped, starts, evictions>>

\* Mutant: the last record of a batch is dropped (an off-by-one in the loop).
EndOfBatch_Early(c) ==
    /\ pc[c] = "printing" /\ \A p \in Partitions : printedTo[c][p] + 1 >= position[c][p]
    /\ pc' = [pc EXCEPT ![c] = "polling"]
    /\ printedTo' = [printedTo EXCEPT ![c] = position[c]]
    /\ UNCHANGED <<brokerVars, groupId, memberGen, assigned, fetchState, position,
                   request, history>>

EndOfBatch(c) ==
    /\ pc[c] = "printing" /\ printedTo[c] = position[c]
    /\ pc' = [pc EXCEPT ![c] = "polling"]
    /\ UNCHANGED <<brokerVars, groupId, memberGen, assigned, fetchState, position, printedTo,
                   request, history>>

\* Mutant: the commit goes out while the loop still prints the batch.
AutoCommit_BeforePrint(c) ==
    /\ pc[c] \in {"polling", "printing"} /\ request[c] = NoRequest
    /\ Consumed(c) # NoRequest.at
    /\ request' = [request EXCEPT ![c] = [gen |-> memberGen[c], at |-> Consumed(c)]]
    /\ UNCHANGED <<brokerVars, consumerVars, history>>

(* A poll after the auto-commit interval sends the positions it starts from, *)
(* those of the batch the loop has just printed.                             *)
AutoCommit(c) ==
    /\ pc[c] = "polling" /\ request[c] = NoRequest
    /\ Consumed(c) # NoRequest.at
    /\ request' = [request EXCEPT ![c] = [gen |-> memberGen[c], at |-> Consumed(c)]]
    /\ UNCHANGED <<brokerVars, consumerVars, history>>

(* What a commit in mid-batch passes over: returned by poll, not yet printed. *)
Abandoned(c, p) ==
    {o \in printedTo[c][p] .. position[c][p] - 1 :
        Consumed(c)[p] # NoOffset /\ o \notin printed[groupId[c]][p]}

(* An Error (not an Exception) in the loop leaves the try-with-resources     *)
(* block: close() commits the positions, printed or not, and leaves.         *)
CloseOnError(c) ==
    LET g == groupId[c] IN
    /\ pc[c] \in {"joining", "polling", "printing"} /\ request[c] = NoRequest
    /\ \/ /\ CommitSync(c)
          /\ skipped' = [skipped EXCEPT ![g] =
                [p \in Partitions |-> @[p] \cup Abandoned(c, p)]]
       \/ UNCHANGED <<committed, skipped>>
    /\ IF c \in members[g] THEN LeaveGroup(g, c) ELSE UNCHANGED groupVars
    /\ pc' = [pc EXCEPT ![c] = "down"]
    /\ Forget(c)
    /\ UNCHANGED <<logVars, groupId, request, usedIds, printed, starts, evictions>>

(* The process is killed: nothing is committed and nobody leaves the group. *)
Crash(c) ==
    /\ pc[c] # "down"
    /\ pc' = [pc EXCEPT ![c] = "down"]
    /\ Forget(c)
    /\ UNCHANGED <<brokerVars, groupId, request, history>>

-----------------------------------------------------------------------------
(* The broker and the network (external). *)

\* Mutant: the coordinator stores a commit without looking at its generation.
AnswerCommit_Unfenced(c) ==
    /\ request[c] # NoRequest
    /\ CommitOffsets(groupId[c], request[c].at)
    /\ request' = [request EXCEPT ![c] = NoRequest]
    /\ UNCHANGED <<logVars, groupVars, consumerVars, history>>

(* The coordinator answers an auto-commit: it stores it, or fences it off. *)
AnswerCommit(c) ==
    /\ request[c] # NoRequest
    /\ IF Accepts(groupId[c], c, request[c].gen)
       THEN CommitOffsets(groupId[c], request[c].at)
       ELSE UNCHANGED committed
    /\ request' = [request EXCEPT ![c] = NoRequest]
    /\ UNCHANGED <<logVars, groupVars, consumerVars, history>>

LoseCommit(c) ==
    /\ request[c] # NoRequest
    /\ request' = [request EXCEPT ![c] = NoRequest]
    /\ UNCHANGED <<brokerVars, consumerVars, history>>

(* The session of a member runs out: it is down, or was paused too long and  *)
(* goes on working until its next poll finds out.                            *)
Expire(g, c) ==
    LET up == groupId[c] = g /\ pc[c] \in {"joining", "polling", "printing"} IN
    /\ c \in members[g]
    /\ up => evictions < MaxEvictions
    /\ evictions' = evictions + (IF up THEN 1 ELSE 0)
    /\ LeaveGroup(g, c)
    /\ UNCHANGED <<logVars, committed, consumerVars, request, usedIds, printed, skipped, starts>>

Broker ==
    /\ \/ \E p \in Partitions : Produce(p) \/ Retention(p)
       \/ \E g \in Groups : CompleteRebalance(g)
    /\ UNCHANGED <<consumerVars, request, history>>

ConsumerLoop(c) ==
    \/ Join(c) \/ Rejoin(c) \/ ReceiveAssignment(c)
    \/ \E p \in Partitions :
          LookUpPosition(c, p) \/ ResetToEarliest(c, p) \/ OutOfRange(c, p) \/ ResetToLatest(c, p)
    \/ PollReturns(c) \/ (\E p \in Partitions : PrintRecord(c, p)) \/ EndOfBatch(c)

Next ==
    \/ Broker
    \/ \E c \in Consumers :
          \/ Start(c) \/ ConsumerLoop(c) \/ AutoCommit(c)
          \/ CloseOnError(c) \/ Crash(c)
          \/ AnswerCommit(c) \/ LoseCommit(c) \/ (\E g \in Groups : Expire(g, c))

Spec == Init /\ [][Next]_vars

(* while (true) polls for ever, whatever poll throws; the coordinator ends   *)
(* rebalances and the sessions of dead members, and a request is answered or *)
(* times out.  Nothing makes a process start, die, or be evicted while up.   *)
Fairness ==
    /\ \A c \in Consumers :
          /\ WF_vars(ConsumerLoop(c))
          /\ WF_vars(AnswerCommit(c) \/ LoseCommit(c))
          /\ \A g \in Groups : WF_vars(pc[c] = "down" /\ Expire(g, c))
    /\ \A g \in Groups :
          WF_vars(CompleteRebalance(g) /\ UNCHANGED <<consumerVars, request, history>>)

FairSpec == Spec /\ Fairness

-----------------------------------------------------------------------------
ConsumerTypeOK ==
    /\ pc \in [Consumers -> {"down", "subscribed", "joining", "polling", "printing"}]
    /\ groupId \in [Consumers -> Groups \cup {NoGroup}]
    /\ memberGen \in [Consumers -> Nat]
    /\ assigned \in [Consumers -> SUBSET Partitions]
    /\ fetchState \in [Consumers -> [Partitions -> FetchStates]]
    /\ position \in [Consumers -> [Partitions -> Nat]]
    /\ printedTo \in [Consumers -> [Partitions -> Nat]]
    /\ request \in [Consumers -> [gen : Nat, at : [Partitions -> Nat \cup {NoOffset}]]]
    /\ \A c \in Consumers :
          pc[c] # "down" \/ request[c] # NoRequest => groupId[c] \in Groups

HistoryTypeOK ==
    /\ usedIds \subseteq Groups
    /\ printed \in [Groups -> [Partitions -> SUBSET Nat]]
    /\ skipped \in [Groups -> [Partitions -> SUBSET Nat]]
    /\ starts \in Nat /\ evictions \in Nat

TypeOK == BrokerTypeOK /\ ConsumerTypeOK /\ HistoryTypeOK

(* The auto-commit never runs ahead of the print loop: whatever crashes,     *)
(* evictions and late commits happen, every record below a tracked offset    *)
(* was printed by a member of the group, or passed over by a reset of the    *)
(* position or by the commit of a close in mid-batch.  A restart therefore   *)
(* prints again, but never silently misses, what a crash interrupted.        *)
CommitCovered ==
    \A g \in Groups, p \in Partitions :
        \A o \in 0 .. committed[g][p] - 1 : o \in Covered(g, p)

(* Why: what a member holds below the record it prints next is covered, it   *)
(* commits its positions only when the loop has caught up with them, and so  *)
(* is what an auto-commit on the wire carries.                               *)
PositionCovered ==
    \A c \in Consumers, p \in Partitions :
        p \in assigned[c] /\ fetchState[c][p] \in {"valid", "latest"} =>
            /\ \A o \in 0 .. printedTo[c][p] - 1 : o \in Covered(groupId[c], p)
            /\ printedTo[c][p] <= position[c][p]
            /\ pc[c] # "printing" => printedTo[c][p] = position[c][p]

RequestCovered ==
    \A c \in Consumers, p \in Partitions :
        \A o \in 0 .. request[c].at[p] - 1 : o \in Covered(groupId[c], p)

OnlyWorkersAssigned ==
    \A c \in Consumers : assigned[c] # {} => pc[c] \in {"polling", "printing"}

CoveredInv == TypeOK /\ CommitCovered /\ PositionCovered /\ RequestCovered /\ OnlyWorkersAssigned

(* The group's tracked offsets are checkpoints of a feed: SimpleConsumer      *)
(* implements CheckpointedFeed, with a record handled once it is covered.     *)
Feed == INSTANCE CheckpointedFeed WITH
    Feeds <- Groups \X Partitions,
    handled <- [f \in Groups \X Partitions |-> Covered(f[1], f[2])],
    checkpoint <- [f \in Groups \X Partitions |-> committed[f[1]][f[2]]]

ImplementsFeed == Feed!FeedSpec

(* In a group without --from-beginning consumers a tracked offset never goes *)
(* back: a commit that arrives late, from an evicted member or from a        *)
(* crashed one cannot undo what the partition's new owner committed.         *)
Seekers(g) == {c \in FromBeginning : GroupOption[c] \in {g, NoGroup}}

TrackedOffsetsGrow ==
    [][\A g \in Groups, p \in Partitions :
          Seekers(g) = {} => committed'[g][p] >= committed[g][p]]_vars

(* On each assignment a --from-beginning consumer starts at the oldest        *)
(* retained record, whatever its group has tracked, for a partition it        *)
(* already had as for a new one.                                              *)
SeeksToBeginning ==
    [][\A c \in FromBeginning, p \in Partitions :
          fetchState[c][p] \in {"lookup", "earliest"} /\ fetchState'[c][p] = "valid"
          => position'[c][p] = logStart[p]]_vars

(* Comment of startConsuming: --from-beginning opts for the "earliest" offset *)
(* of a partition "if there is no tracked offset for this group".             *)
EarliestIfNotTracked ==
    [][\A c \in FromBeginning, p \in Partitions :
          /\ fetchState[c][p] \in {"lookup", "earliest"} /\ fetchState'[c][p] = "valid"
          /\ committed[groupId[c]][p] = NoOffset
          => position'[c][p] = logStart[p]]_vars

Live(g) == \E c \in Consumers : groupId[c] = g /\ pc[c] # "down"

(* Crashes, evictions and rebalances do not strand a record: while a group   *)
(* has a process up, every record is eventually printed or passed over, or   *)
(* retention takes it.                                                       *)
RecordsGetPrinted ==
    \A g \in Groups, p \in Partitions, o \in 0 .. MaxOffset - 1 :
        o < logEnd[p] /\ Live(g)
        ~> o \in Covered(g, p) \/ o < logStart[p] \/ ~Live(g)

(* Why TrackedOffsetsGrow holds: the members that the coordinator listens to *)
(* own what they are assigned, and neither their positions nor their         *)
(* requests are behind the tracked offset; older ones are fenced off.        *)
NotBehind ==
    \A c \in Consumers, p \in Partitions :
        LET g == groupId[c] IN
        p \in assigned[c] /\ Seekers(g) = {} /\ Accepts(g, c, memberGen[c]) =>
            /\ owner[g][p] = c
            /\ fetchState[c][p] # "earliest"
            /\ fetchState[c][p] \in {"valid", "latest"} => position[c][p] >= committed[g][p]

RequestNotBehind ==
    \A c \in Consumers, p \in Partitions :
        LET g == groupId[c] IN
        /\ request[c].at[p] # NoOffset
        /\ Seekers(g) = {} /\ Accepts(g, c, request[c].gen)
        => owner[g][p] = c /\ request[c].at[p] >= committed[g][p]

(* Consumers know no generation the coordinator has not reached. *)
GenerationsPast ==
    \A c \in Consumers :
        pc[c] # "down" \/ request[c] # NoRequest =>
            memberGen[c] <= generation[groupId[c]] /\ request[c].gen <= generation[groupId[c]]

(* A consumer is in the group its command line says, if it says one. *)
GroupAsConfigured ==
    \A c \in Consumers : groupId[c] \in {NoGroup, GroupOption[c]} \/ GroupOption[c] = NoGroup

(* A request on the wire is not ahead of the position it was taken from. *)
PositionPastRequest ==
    \A c \in Consumers, p \in Partitions :
        p \in assigned[c] /\ request[c].at[p] # NoOffset =>
            fetchState[c][p] \in {"valid", "latest"} /\ position[c][p] >= request[c].at[p]

QuietJoin ==
    \A c \in Consumers : pc[c] \in {"subscribed", "joining"} => request[c] = NoRequest

IdleGeneration ==
    \A c \in Consumers : pc[c] \in {"down", "subscribed", "joining"} => memberGen[c] = 0

LatestOvertaken ==
    \A c \in Consumers, p \in Partitions :
        p \in assigned[c] /\ fetchState[c][p] = "latest" => position[c][p] < logStart[p]

FencedInv ==
    /\ TypeOK /\ OnlyWorkersAssigned /\ GroupAsConfigured /\ GenerationsPast /\ QuietJoin
    /\ IdleGeneration /\ LatestOvertaken /\ PositionPastRequest
    /\ NotBehind /\ RequestNotBehind
=============================================================================
