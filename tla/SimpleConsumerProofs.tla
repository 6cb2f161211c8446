------------------------ MODULE SimpleConsumerProofs ------------------------
(***************************************************************************)
(* Proofs about SimpleConsumer, for any consumers, partitions, groups and  *)
(* bounds.                                                                 *)
(***************************************************************************)
EXTENDS SimpleConsumer, TLAPS

(* A commit replaces the group's tracked offsets of the partitions it names. *)
LEMMA CommitEffect ==
    ASSUME committed \in [Groups -> [Partitions -> Nat \cup {-1}]],
           NEW g \in Groups, NEW offsets \in [Partitions -> Nat \cup {-1}],
           CommitOffsets(g, offsets)
    PROVE  /\ committed' \in [Groups -> [Partitions -> Nat \cup {-1}]]
           /\ \A h \in Groups, p \in Partitions :
                 committed'[h][p] = IF h = g /\ offsets[p] # -1 THEN offsets[p]
                                                               ELSE committed[h][p]
<1> DEFINE new == [p \in Partitions |-> IF offsets[p] = -1 THEN committed[g][p] ELSE offsets[p]]
<1>1. new \in [Partitions -> Nat \cup {-1}]
  OBVIOUS
<1>2. committed' = [committed EXCEPT ![g] = new]
  BY DEF CommitOffsets, NoOffset
<1>3. \A p \in Partitions : new[p] = IF offsets[p] # -1 THEN offsets[p] ELSE committed[g][p]
  OBVIOUS
<1> HIDE DEF new
<1> QED
  BY <1>1, <1>2, <1>3

(* Leaving a group keeps the coordinator's state well typed. *)
LEMMA LeaveGroupEffect ==
    ASSUME BrokerTypeOK, NEW g \in Groups, NEW c \in Consumers, LeaveGroup(g, c)
    PROVE  /\ generation' = generation /\ owner' = owner
           /\ members' \in [Groups -> SUBSET Consumers]
           /\ rejoined' \in [Groups -> SUBSET Consumers]
           /\ rebalancing' \in [Groups -> BOOLEAN]
           /\ \A h \in Groups : members'[h] \subseteq members[h]
  BY DEF BrokerTypeOK, LeaveGroup

LEMMA TypeInit ==
    ASSUME Init PROVE TypeOK
  BY GroupAssumption, ConsumerAssumption
  DEF Init, BrokerInit, TypeOK, BrokerTypeOK, ConsumerTypeOK, HistoryTypeOK,
      NoRequest, FetchStates, NoOffset

LEMMA TypeStep ==
    ASSUME TypeOK, [Next]_vars PROVE TypeOK'
<1> USE GroupAssumption, ConsumerAssumption
<1> USE DEF TypeOK, BrokerTypeOK, ConsumerTypeOK, HistoryTypeOK, FetchStates, NoOffset
<1>1. CASE Broker
  <2>1. ASSUME NEW p \in Partitions, Produce(p) PROVE BrokerTypeOK'
    BY <2>1 DEF Produce, groupVars
  <2>2. ASSUME NEW p \in Partitions, Retention(p) PROVE BrokerTypeOK'
    BY <2>2 DEF Retention, groupVars
  <2>3. ASSUME NEW g \in Groups, CompleteRebalance(g) PROVE BrokerTypeOK'
    BY <2>3 DEF CompleteRebalance, logVars
  <2>4. ConsumerTypeOK' /\ HistoryTypeOK'
    BY <1>1 DEF Broker, consumerVars, history
  <2> QED
    BY <1>1, <2>1, <2>2, <2>3, <2>4 DEF Broker
<1>2. ASSUME NEW c \in Consumers, Start(c) PROVE TypeOK'
  BY <1>2 DEF Start, brokerVars, logVars, groupVars, Uuids
<1>3. ASSUME NEW c \in Consumers, Join(c) PROVE TypeOK'
  BY <1>3 DEF Join, JoinGroup, logVars, history
<1>4. ASSUME NEW c \in Consumers, Rejoin(c) PROVE TypeOK'
  <2>1. Consumed(c) \in [Partitions -> Nat \cup {-1}]
    BY DEF Consumed
  <2>2. committed' \in [Groups -> [Partitions -> Nat \cup {-1}]]
    BY <2>1, <1>4, CommitEffect DEF Rejoin, CommitSync
  <2> QED
    BY <2>2, <1>4 DEF Rejoin, JoinGroup, Forget, logVars, history
<1>5. ASSUME NEW c \in Consumers, ReceiveAssignment(c) PROVE TypeOK'
  BY <1>5 DEF ReceiveAssignment, brokerVars, logVars, groupVars, history
<1>6. ASSUME NEW c \in Consumers, NEW p \in Partitions, NEW o \in Nat, NEW passed \in SUBSET Nat,
             pc[c] # "down", MoveTo(c, p, o, passed)
      PROVE /\ position' \in [Consumers -> [Partitions -> Nat]]
            /\ printedTo' \in [Consumers -> [Partitions -> Nat]]
            /\ fetchState' \in [Consumers -> [Partitions -> FetchStates]]
            /\ skipped' \in [Groups -> [Partitions -> SUBSET Nat]]
  BY <1>6, ZenonT(30) DEF MoveTo
<1>7. ASSUME NEW c \in Consumers, NEW p \in Partitions, LookUpPosition(c, p) PROVE TypeOK'
  <2>1. pc[c] # "down" /\ committed[groupId[c]][p] \in Nat \cup {-1}
    BY <1>7 DEF LookUpPosition, Fetching
  <2>2. PICK o \in Nat, passed \in SUBSET Nat : MoveTo(c, p, o, passed)
    <3>1. 0 .. logEnd[p] - 1 \in SUBSET Nat /\ {} \in SUBSET Nat
      OBVIOUS
    <3> QED
      BY <2>1, <3>1, <1>7 DEF LookUpPosition
  <2> QED
    BY <1>6, <1>7, <2>1, <2>2 DEF LookUpPosition, brokerVars, logVars, groupVars
<1>8. ASSUME NEW c \in Consumers, NEW p \in Partitions, ResetToEarliest(c, p) PROVE TypeOK'
  <2> pc[c] # "down" /\ 0 .. logStart[p] - 1 \in SUBSET Nat
    BY <1>8 DEF ResetToEarliest, Fetching
  <2> QED
    BY <1>6, <1>8 DEF ResetToEarliest, brokerVars, logVars, groupVars
<1>9. ASSUME NEW c \in Consumers, NEW p \in Partitions, OutOfRange(c, p) PROVE TypeOK'
  BY <1>9 DEF OutOfRange, brokerVars, logVars, groupVars, history
<1>10. ASSUME NEW c \in Consumers, NEW p \in Partitions, ResetToLatest(c, p) PROVE TypeOK'
  <2> pc[c] # "down" /\ position[c][p] .. logEnd[p] - 1 \in SUBSET Nat
    BY <1>10 DEF ResetToLatest, Fetching
  <2> QED
    BY <1>6, <1>10 DEF ResetToLatest, brokerVars, logVars, groupVars
<1>11. ASSUME NEW c \in Consumers, PollReturns(c) PROVE TypeOK'
  BY <1>11 DEF PollReturns, brokerVars, logVars, groupVars, history
<1>12. ASSUME NEW c \in Consumers, NEW p \in Partitions, PrintRecord(c, p) PROVE TypeOK'
  BY <1>12 DEF PrintRecord, brokerVars, logVars, groupVars
<1>13. ASSUME NEW c \in Consumers, EndOfBatch(c) PROVE TypeOK'
  BY <1>13 DEF EndOfBatch, brokerVars, logVars, groupVars, history
<1>14. ASSUME NEW c \in Consumers, AutoCommit(c) PROVE TypeOK'
  <2>1. Consumed(c) \in [Partitions -> Nat \cup {-1}]
    BY DEF Consumed
  <2> QED
    BY <2>1, <1>14 DEF AutoCommit, brokerVars, logVars, groupVars, consumerVars, history
<1>15. ASSUME NEW c \in Consumers, CloseOnError(c) PROVE TypeOK'
  <2>0. groupId[c] \in Groups
    BY <1>15 DEF CloseOnError
  <2>1. Consumed(c) \in [Partitions -> Nat \cup {-1}]
    BY DEF Consumed
  <2>2. committed' \in [Groups -> [Partitions -> Nat \cup {-1}]]
    BY <2>1, <1>15, CommitEffect DEF CloseOnError, CommitSync
  <2>3. skipped' \in [Groups -> [Partitions -> SUBSET Nat]]
    <3>1. ASSUME NEW p \in Partitions PROVE Abandoned(c, p) \in SUBSET Nat
      BY DEF Abandoned
    <3>2. skipped[groupId[c]] \in [Partitions -> SUBSET Nat]
      BY <2>0
    <3>3. [p \in Partitions |-> skipped[groupId[c]][p] \cup Abandoned(c, p)]
            \in [Partitions -> SUBSET Nat]
      BY <3>1, <3>2
    <3> QED
      BY <2>0, <3>3, <1>15 DEF CloseOnError
  <2>4. /\ generation' = generation /\ owner' = owner
        /\ members' \in [Groups -> SUBSET Consumers]
        /\ rejoined' \in [Groups -> SUBSET Consumers]
        /\ rebalancing' \in [Groups -> BOOLEAN]
    <3>1. CASE c \in members[groupId[c]]
      <4>1. LeaveGroup(groupId[c], c)
        BY <3>1, <1>15 DEF CloseOnError
      <4> QED
        BY <2>0, <4>1, LeaveGroupEffect
    <3>2. CASE c \notin members[groupId[c]]
      BY <3>2, <1>15 DEF CloseOnError, groupVars
    <3> QED
      BY <3>1, <3>2
  <2> QED
    BY <2>2, <2>3, <2>4, <1>15 DEF CloseOnError, Forget, logVars
<1>16. ASSUME NEW c \in Consumers, Crash(c) PROVE TypeOK'
  BY <1>16 DEF Crash, Forget, brokerVars, logVars, groupVars, history
<1>17. ASSUME NEW c \in Consumers, AnswerCommit(c) PROVE TypeOK'
  <2>1. committed' \in [Groups -> [Partitions -> Nat \cup {-1}]]
    <3>1. request[c].at \in [Partitions -> Nat \cup {-1}] /\ groupId[c] \in Groups
      BY <1>17 DEF AnswerCommit
    <3>2. CASE ~Accepts(groupId[c], c, request[c].gen)
      BY <3>2, <1>17 DEF AnswerCommit
    <3>3. CASE Accepts(groupId[c], c, request[c].gen)
      BY <3>1, <3>3, <1>17, CommitEffect DEF AnswerCommit
    <3> QED
      BY <3>2, <3>3
  <2> QED
    BY <2>1, <1>17 DEF AnswerCommit, NoRequest, logVars, groupVars, consumerVars, history
<1>18. ASSUME NEW c \in Consumers, LoseCommit(c) PROVE TypeOK'
  BY <1>18 DEF LoseCommit, NoRequest, brokerVars, logVars, groupVars, consumerVars, history
<1>19. ASSUME NEW c \in Consumers, NEW g \in Groups, Expire(g, c) PROVE TypeOK'
  BY <1>19 DEF Expire, LeaveGroup, logVars, consumerVars
<1>20. CASE UNCHANGED vars
  BY <1>20 DEF vars, brokerVars, logVars, groupVars, consumerVars, history
<1> QED
  BY <1>1, <1>2, <1>3, <1>4, <1>5, <1>7, <1>8, <1>9, <1>10, <1>11, <1>12, <1>13, <1>14,
     <1>15, <1>16, <1>17, <1>18, <1>19, <1>20 DEF Next, ConsumerLoop

(* Every variable stays in the set of values its declaration describes.      *)
THEOREM TypeCorrect == Spec => []TypeOK
<1>1. TypeOK /\ [Next]_vars => TypeOK'
  BY TypeStep
<1> QED
  BY <1>1, TypeInit, PTL DEF Spec


-----------------------------------------------------------------------------
(* What has been printed or passed over stays so, in every step. *)
LEMMA CoveredGrows ==
    ASSUME TypeOK, [Next]_vars
    PROVE  \A g \in Groups, p \in Partitions : Covered(g, p) \subseteq Covered(g, p)'
<1> USE DEF Covered
<1>1. ASSUME NEW c \in Consumers, NEW p \in Partitions, NEW o, NEW passed, pc[c] # "down",
             MoveTo(c, p, o, passed), UNCHANGED printed
      PROVE  \A g \in Groups, q \in Partitions : Covered(g, q) \subseteq Covered(g, q)'
  BY <1>1 DEF MoveTo, TypeOK, ConsumerTypeOK, HistoryTypeOK
<1>2. ASSUME NEW c \in Consumers, NEW p \in Partitions,
             LookUpPosition(c, p) \/ ResetToEarliest(c, p) \/ ResetToLatest(c, p)
      PROVE  \A g \in Groups, q \in Partitions : Covered(g, q) \subseteq Covered(g, q)'
  <2>1. pc[c] # "down" /\ UNCHANGED printed
    BY <1>2 DEF LookUpPosition, ResetToEarliest, ResetToLatest, Fetching
  <2>2. PICK o, passed : MoveTo(c, p, o, passed)
    BY <1>2 DEF LookUpPosition, ResetToEarliest, ResetToLatest
  <2> QED
    BY <1>1, <2>1, <2>2
<1>3. ASSUME NEW c \in Consumers, NEW p \in Partitions, PrintRecord(c, p)
      PROVE  \A g \in Groups, q \in Partitions : Covered(g, q) \subseteq Covered(g, q)'
  BY <1>3 DEF PrintRecord, TypeOK, ConsumerTypeOK, HistoryTypeOK
<1>4. ASSUME NEW c \in Consumers, CloseOnError(c)
      PROVE  \A g \in Groups, q \in Partitions : Covered(g, q) \subseteq Covered(g, q)'
  <2>1. UNCHANGED printed
    BY <1>4 DEF CloseOnError
  <2>2. CASE UNCHANGED skipped
    BY <2>1, <2>2
  <2>3. CASE skipped' = [skipped EXCEPT ![groupId[c]] =
                            [p \in Partitions |-> @[p] \cup Abandoned(c, p)]]
    BY <2>1, <2>3 DEF TypeOK, ConsumerTypeOK, HistoryTypeOK
  <2> QED
    BY <1>4, <2>2, <2>3 DEF CloseOnError
<1>5. ASSUME UNCHANGED <<printed, skipped>>
      PROVE  \A g \in Groups, q \in Partitions : Covered(g, q) \subseteq Covered(g, q)'
  BY <1>5
<1> QED
  BY <1>2, <1>3, <1>4, <1>5
  DEF Next, Broker, Start, ConsumerLoop, Join, Rejoin, ReceiveAssignment, OutOfRange,
      PollReturns, EndOfBatch, AutoCommit, Crash, AnswerCommit, LoseCommit, Expire, history, vars

(* What auto-commit sends is covered once the loop has printed its batch. *)
LEMMA ConsumedCovered ==
    ASSUME CoveredInv, NEW c \in Consumers, pc[c] # "printing", NEW p \in Partitions
    PROVE  \A o \in 0 .. Consumed(c)[p] - 1 : o \in Covered(groupId[c], p)
  BY DEF CoveredInv, PositionCovered, Consumed, NoOffset, TypeOK, ConsumerTypeOK

LEMMA CommitCoveredStep ==
    ASSUME CoveredInv, [Next]_vars
    PROVE  CommitCovered'
<1> USE DEF CoveredInv, TypeOK, BrokerTypeOK, ConsumerTypeOK, NoOffset
<1>0. \A g \in Groups, p \in Partitions : Covered(g, p) \subseteq Covered(g, p)'
  BY CoveredGrows
<1>1. CASE UNCHANGED committed
  BY <1>0, <1>1 DEF CommitCovered
<1>2. ASSUME NEW g \in Groups, NEW offsets \in [Partitions -> Nat \cup {-1}],
             CommitOffsets(g, offsets),
             \A p \in Partitions : \A o \in 0 .. offsets[p] - 1 : o \in Covered(g, p)'
      PROVE  CommitCovered'
  <2> SUFFICES ASSUME NEW h \in Groups, NEW p \in Partitions, NEW o \in 0 .. committed'[h][p] - 1
               PROVE  o \in Covered(h, p)'
    BY DEF CommitCovered
  <2>1. committed'[h][p] = IF h = g /\ offsets[p] # -1 THEN offsets[p] ELSE committed[h][p]
    BY <1>2, CommitEffect
  <2> QED
    BY <1>0, <1>2, <2>1 DEF CommitCovered
<1>3. ASSUME NEW c \in Consumers, groupId[c] \in Groups,
             CommitSync(c), UNCHANGED groupId,
             \A p \in Partitions : \A o \in 0 .. Consumed(c)[p] - 1 : o \in Covered(groupId[c], p)'
      PROVE  CommitCovered'
  <2>1. Consumed(c) \in [Partitions -> Nat \cup {-1}]
    BY DEF Consumed
  <2> QED
    BY <1>2, <1>3, <2>1 DEF CommitSync
<1>4. ASSUME NEW c \in Consumers, Rejoin(c) PROVE CommitCovered'
  <2>1. pc[c] # "printing" /\ groupId[c] \in Groups /\ UNCHANGED groupId
    BY <1>4 DEF Rejoin
  <2>2. \A p \in Partitions : \A o \in 0 .. Consumed(c)[p] - 1 : o \in Covered(groupId[c], p)'
    BY <1>0, <2>1, ConsumedCovered
  <2> QED
    BY <1>1, <1>3, <1>4, <2>1, <2>2 DEF Rejoin
<1>5. ASSUME NEW c \in Consumers, CloseOnError(c) PROVE CommitCovered'
  <2>1. groupId[c] \in Groups /\ UNCHANGED <<groupId, printed>>
    BY <1>5 DEF CloseOnError
  <2>2. CASE CommitSync(c) /\ skipped' = [skipped EXCEPT ![groupId[c]] =
                                  [p \in Partitions |-> @[p] \cup Abandoned(c, p)]]
    <3>1. ASSUME NEW p \in Partitions, NEW o \in 0 .. Consumed(c)[p] - 1
          PROVE  o \in Covered(groupId[c], p)'
      <4>1. /\ p \in assigned[c] /\ fetchState[c][p] = "valid"
            /\ Consumed(c)[p] = position[c][p] /\ Consumed(c)[p] # NoOffset
        BY <3>1 DEF Consumed
      <4>2. CASE o < printedTo[c][p]
        BY <1>0, <2>1, <3>1, <4>1, <4>2 DEF PositionCovered
      <4>3. CASE printedTo[c][p] <= o /\ o \notin printed[groupId[c]][p]
        <5>1. o \in Abandoned(c, p)
          BY <3>1, <4>1, <4>3 DEF Abandoned
        <5> QED
          BY <2>1, <2>2, <5>1 DEF Covered, HistoryTypeOK
      <4>4. CASE o \in printed[groupId[c]][p]
        BY <2>1, <4>4 DEF Covered
      <4> QED
        BY <3>1, <4>2, <4>3, <4>4
    <3> QED
      BY <1>3, <2>1, <2>2, <3>1
  <2> QED
    BY <1>1, <1>5, <2>2 DEF CloseOnError
<1>6. ASSUME NEW c \in Consumers, AnswerCommit(c) PROVE CommitCovered'
  <2>1. groupId[c] \in Groups /\ UNCHANGED groupId
        /\ request[c].at \in [Partitions -> Nat \cup {-1}]
    BY <1>6 DEF AnswerCommit, consumerVars
  <2>2. \A p \in Partitions : \A o \in 0 .. request[c].at[p] - 1 : o \in Covered(groupId[c], p)'
    BY <1>0, <2>1 DEF RequestCovered
  <2> QED
    BY <1>1, <1>2, <1>6, <2>1, <2>2 DEF AnswerCommit
<1> QED
  BY <1>1, <1>4, <1>5, <1>6, ZenonT(30)
  DEF Next, Broker, Produce, Retention, CompleteRebalance, Start, ConsumerLoop, Join,
      ReceiveAssignment, LookUpPosition, ResetToEarliest, OutOfRange, ResetToLatest, PollReturns,
      PrintRecord, EndOfBatch, AutoCommit, Crash, LoseCommit, Expire, vars, brokerVars

LEMMA OnlyWorkersAssignedStep ==
    ASSUME TypeOK, OnlyWorkersAssigned, [Next]_vars
    PROVE  OnlyWorkersAssigned'
<1> USE DEF TypeOK, ConsumerTypeOK, OnlyWorkersAssigned
<1>1. ASSUME NEW c \in Consumers, Start(c) \/ Join(c) PROVE OnlyWorkersAssigned'
  BY <1>1 DEF Start, Join
<1>2. ASSUME NEW c \in Consumers, Rejoin(c) \/ CloseOnError(c) \/ Crash(c)
      PROVE  OnlyWorkersAssigned'
  BY <1>2 DEF Rejoin, CloseOnError, Crash, Forget
<1>3. ASSUME NEW c \in Consumers, ReceiveAssignment(c) PROVE OnlyWorkersAssigned'
  BY <1>3 DEF ReceiveAssignment
<1>4. ASSUME NEW c \in Consumers, PollReturns(c) \/ EndOfBatch(c) PROVE OnlyWorkersAssigned'
  BY <1>4 DEF PollReturns, EndOfBatch
<1>5. CASE UNCHANGED <<pc, assigned>>
  BY <1>5
<1> QED
  BY <1>1, <1>2, <1>3, <1>4, <1>5, ZenonT(30)
  DEF Next, Broker, ConsumerLoop, LookUpPosition, ResetToEarliest, OutOfRange, ResetToLatest,
      PrintRecord, AutoCommit, AnswerCommit, LoseCommit, Expire, consumerVars, vars

LEMMA NoRequestEmpty == NoRequest.gen = 0 /\ \A p \in Partitions : NoRequest.at[p] = -1
  BY DEF NoRequest, NoOffset

LEMMA RequestCoveredStep ==
    ASSUME CoveredInv, [Next]_vars
    PROVE  RequestCovered'
<1> USE DEF CoveredInv, TypeOK, ConsumerTypeOK, NoOffset
<1>0. \A g \in Groups, p \in Partitions : Covered(g, p) \subseteq Covered(g, p)'
  BY CoveredGrows
<1>1. CASE UNCHANGED <<request, groupId>>
  <2> SUFFICES ASSUME NEW c \in Consumers, NEW p \in Partitions,
                      NEW o \in 0 .. request[c].at[p] - 1
               PROVE  o \in Covered(groupId[c], p)'
    BY <1>1 DEF RequestCovered
  <2>1. o \in Covered(groupId[c], p)
    BY DEF RequestCovered
  <2>2. request[c] # NoRequest
    BY NoRequestEmpty
  <2> QED
    BY <1>0, <1>1, <2>1, <2>2
<1>2. ASSUME NEW c \in Consumers,
             \A d \in Consumers : d # c => request'[d] = request[d] /\ groupId'[d] = groupId[d],
             \A p \in Partitions : \A o \in 0 .. request'[c].at[p] - 1 : o \in Covered(groupId[c], p)',
             request'[c] = NoRequest \/ groupId'[c] = groupId[c]
      PROVE  RequestCovered'
  <2> SUFFICES ASSUME NEW d \in Consumers, NEW p \in Partitions,
                      NEW o \in 0 .. request'[d].at[p] - 1
               PROVE  o \in Covered(groupId[d], p)'
    BY DEF RequestCovered
  <2>1. CASE d = c
    <3>1. request'[c] # NoRequest
      BY <2>1, NoRequestEmpty
    <3> QED
      BY <1>2, <2>1, <3>1
  <2>2. CASE d # c
    <3>1. o \in 0 .. request[d].at[p] - 1 /\ groupId'[d] = groupId[d]
      BY <1>2, <2>2
    <3>2. request[d] # NoRequest
      BY <3>1, NoRequestEmpty
    <3>3. o \in Covered(groupId[d], p)
      BY <3>1 DEF RequestCovered
    <3> QED
      BY <1>0, <3>1, <3>2, <3>3
  <2> QED
    BY <2>1, <2>2
<1>3. ASSUME NEW c \in Consumers, Start(c) PROVE RequestCovered'
  <2>1. request' = request /\ request[c] = NoRequest
    BY <1>3 DEF Start
  <2>2. \A d \in Consumers : d # c => groupId'[d] = groupId[d]
    BY <1>3 DEF Start
  <2>3. \A p \in Partitions : 0 .. request'[c].at[p] - 1 = {}
    BY <2>1, NoRequestEmpty
  <2> QED
    BY <1>2, <2>1, <2>2, <2>3
<1>4. ASSUME NEW c \in Consumers, AutoCommit(c) PROVE RequestCovered'
  <2>1. pc[c] # "printing" /\ groupId[c] \in Groups /\ groupId' = groupId
    BY <1>4 DEF AutoCommit, consumerVars
  <2>2. \A p \in Partitions : \A o \in 0 .. Consumed(c)[p] - 1 : o \in Covered(groupId[c], p)'
    BY <1>0, <2>1, ConsumedCovered
  <2>3. request'[c].at = Consumed(c) /\ \A d \in Consumers : d # c => request'[d] = request[d]
    BY <1>4 DEF AutoCommit
  <2> QED
    BY <1>2, <2>1, <2>2, <2>3
<1>5. ASSUME NEW c \in Consumers, AnswerCommit(c) \/ LoseCommit(c) PROVE RequestCovered'
  <2>1. request'[c] = NoRequest /\ groupId' = groupId
        /\ \A d \in Consumers : d # c => request'[d] = request[d]
    BY <1>5 DEF AnswerCommit, LoseCommit, consumerVars
  <2>2. \A p \in Partitions : 0 .. request'[c].at[p] - 1 = {}
    BY <2>1, NoRequestEmpty
  <2> QED
    BY <1>2, <2>1, <2>2
<1> QED
  BY <1>1, <1>3, <1>4, <1>5, ZenonT(30)
  DEF Next, Broker, ConsumerLoop, Join, Rejoin, ReceiveAssignment, LookUpPosition,
      ResetToEarliest, OutOfRange, ResetToLatest, PollReturns, PrintRecord, EndOfBatch, Crash,
      CloseOnError, Expire, consumerVars, vars

LEMMA SplitLast ==
    ASSUME NEW n \in Nat
    PROVE  /\ \A k \in 0 .. n : k = n \/ k < n
           /\ (n + 1) - 1 = n
           /\ \A m \in Nat : n < m => n + 1 <= m
  OBVIOUS

LEMMA PositionCoveredStep ==
    ASSUME CoveredInv, [Next]_vars
    PROVE  PositionCovered'
<1> USE DEF CoveredInv, TypeOK, ConsumerTypeOK, OnlyWorkersAssigned
<1> DEFINE Good(c, p) ==
      p \in assigned[c] /\ fetchState[c][p] \in {"valid", "latest"} =>
          /\ \A o \in 0 .. printedTo[c][p] - 1 : o \in Covered(groupId[c], p)
          /\ printedTo[c][p] <= position[c][p]
          /\ pc[c] # "printing" => printedTo[c][p] = position[c][p]
<1>0. \A g \in Groups, p \in Partitions : Covered(g, p) \subseteq Covered(g, p)'
  BY CoveredGrows
(* A consumer whose own state a step leaves alone. *)
<1>1. ASSUME NEW c \in Consumers, NEW p \in Partitions,
             UNCHANGED <<assigned[c], fetchState[c][p], printedTo[c][p], position[c][p]>>,
             groupId'[c] = groupId[c], pc'[c] = "printing" => pc[c] = "printing",
             pc[c] = "printing" => pc'[c] = "printing"
      PROVE  Good(c, p)'
  <2>1. Good(c, p)
    BY DEF PositionCovered
  <2>2. p \in assigned[c] => groupId[c] \in Groups
    OBVIOUS
  <2> QED
    BY <1>0, <1>1, <2>1, <2>2
<1>2. ASSUME NEW c \in Consumers, assigned'[c] = {}, NEW p \in Partitions PROVE Good(c, p)'
  BY <1>2
(* It is enough to look at the consumer that takes the step. *)
<1>3. ASSUME NEW c \in Consumers, \A p \in Partitions : Good(c, p)',
             \A d \in Consumers : d # c =>
                /\ UNCHANGED <<assigned[d], fetchState[d], printedTo[d], position[d]>>
                /\ UNCHANGED <<groupId[d], pc[d]>>
      PROVE  PositionCovered'
  <2>1. ASSUME NEW d \in Consumers, NEW p \in Partitions, d # c PROVE Good(d, p)'
    BY <1>1, <1>3, <2>1
  <2> QED
    BY <1>3, <2>1 DEF PositionCovered
<1>4. CASE UNCHANGED <<pc, groupId, assigned, fetchState, printedTo, position>>
  <2>1. ASSUME NEW d \in Consumers, NEW p \in Partitions PROVE Good(d, p)'
    BY <1>1, <1>4
  <2> QED
    BY <2>1 DEF PositionCovered
<1>5. ASSUME NEW c \in Consumers, Start(c) \/ Join(c) PROVE PositionCovered'
  <2>1. assigned'[c] = {}
    BY <1>5 DEF Start, Join
  <2> QED
    BY <1>2, <1>3, <1>5, <2>1 DEF Start, Join
<1>6. ASSUME NEW c \in Consumers, Rejoin(c) \/ CloseOnError(c) \/ Crash(c) PROVE PositionCovered'
  <2>1. assigned'[c] = {}
    BY <1>6 DEF Rejoin, CloseOnError, Crash, Forget
  <2> QED
    BY <1>2, <1>3, <1>6, <2>1 DEF Rejoin, CloseOnError, Crash, Forget
<1>7. ASSUME NEW c \in Consumers, ReceiveAssignment(c) PROVE PositionCovered'
  <2>1. ASSUME NEW p \in Partitions PROVE Good(c, p)'
    BY <1>7 DEF ReceiveAssignment
  <2> QED
    BY <1>3, <1>7, <2>1 DEF ReceiveAssignment
(* A reset or a lookup: what the position passes over has been covered before, *)
(* or is passed over now.                                                      *)
<1>8. ASSUME NEW c \in Consumers, NEW p \in Partitions, NEW o \in Nat, NEW passed,
             pc[c] = "polling", MoveTo(c, p, o, passed),
             UNCHANGED <<pc, groupId, assigned, printed>>,
             \A k \in 0 .. o - 1 : k \in Covered(groupId[c], p) \cup passed
      PROVE  PositionCovered'
  <2>1. groupId[c] \in Groups
    BY <1>8
  <2>2. \A k \in 0 .. o - 1 : k \in Covered(groupId[c], p)'
    BY <1>8, <2>1 DEF MoveTo, Covered, HistoryTypeOK
  <2>3. Good(c, p)'
    BY <1>8, <2>2 DEF MoveTo
  <2>4. ASSUME NEW q \in Partitions, q # p PROVE Good(c, q)'
    BY <1>1, <1>8, <2>4, ZenonT(30) DEF MoveTo
  <2>5. \A d \in Consumers : d # c =>
           /\ UNCHANGED <<assigned[d], fetchState[d], printedTo[d], position[d]>>
           /\ UNCHANGED <<groupId[d], pc[d]>>
    BY <1>8 DEF MoveTo
  <2>6. \A q \in Partitions : Good(c, q)'
    BY <2>3, <2>4
  <2> HIDE DEF Good
  <2> QED
    BY <1>3, <2>5, <2>6
<1>9. ASSUME NEW c \in Consumers, NEW p \in Partitions,
             LookUpPosition(c, p) \/ ResetToEarliest(c, p) \/ ResetToLatest(c, p)
      PROVE  PositionCovered'
  <2>1. /\ pc[c] = "polling" /\ p \in assigned[c] /\ groupId[c] \in Groups
        /\ UNCHANGED <<pc, groupId, assigned, printed>>
    BY <1>9 DEF LookUpPosition, ResetToEarliest, ResetToLatest, Fetching
  <2>2. CASE LookUpPosition(c, p) /\ committed[groupId[c]][p] # NoOffset
    BY <1>8, <2>1, <2>2 DEF LookUpPosition, CommitCovered, BrokerTypeOK
  <2>3. CASE LookUpPosition(c, p) /\ committed[groupId[c]][p] = NoOffset
    BY <1>8, <2>1, <2>3 DEF LookUpPosition, BrokerTypeOK
  <2>4. CASE ResetToEarliest(c, p)
    BY <1>8, <2>1, <2>4 DEF ResetToEarliest, BrokerTypeOK
  <2>5. CASE ResetToLatest(c, p)
    <3>1. fetchState[c][p] = "latest" /\ printedTo[c][p] = position[c][p]
      BY <2>1, <2>5 DEF ResetToLatest, Fetching, PositionCovered
    <3>2. \A k \in 0 .. logEnd[p] - 1 :
             k \in Covered(groupId[c], p) \cup (position[c][p] .. logEnd[p] - 1)
      <4>1. \A k \in 0 .. position[c][p] - 1 : k \in Covered(groupId[c], p)
        BY <2>1, <3>1 DEF PositionCovered
      <4>2. position[c][p] \in Nat /\ logEnd[p] \in Nat
        BY DEF BrokerTypeOK
      <4> QED
        BY <4>1, <4>2
    <3>3. MoveTo(c, p, logEnd[p], position[c][p] .. logEnd[p] - 1) /\ logEnd[p] \in Nat
      BY <2>5 DEF ResetToLatest, BrokerTypeOK
    <3> QED
      BY <1>8, <2>1, <3>2, <3>3
  <2> QED
    BY <1>9, <2>2, <2>3, <2>4, <2>5
<1>10. ASSUME NEW c \in Consumers, NEW p \in Partitions, OutOfRange(c, p) PROVE PositionCovered'
  <2>1. ASSUME NEW q \in Partitions PROVE Good(c, q)'
    <3>1. /\ q \in assigned[c] /\ fetchState'[c][q] \in {"valid", "latest"}
             => fetchState[c][q] \in {"valid", "latest"}
          /\ UNCHANGED <<pc, groupId, assigned, printedTo, position>>
      BY <1>10 DEF OutOfRange, Fetching
    <3>2. Good(c, q)
      BY DEF PositionCovered
    <3> QED
      BY <1>0, <3>1, <3>2
  <2> QED
    BY <1>3, <1>10, <2>1 DEF OutOfRange
<1>11. ASSUME NEW c \in Consumers, PollReturns(c) PROVE PositionCovered'
  <2>1. ASSUME NEW p \in Partitions PROVE Good(c, p)'
    <3>1. /\ pc[c] = "polling" /\ pc'[c] = "printing" /\ position[c][p] <= position'[c][p]
          /\ UNCHANGED <<groupId, assigned, fetchState, printedTo>>
      <4>1. PICK next \in [Partitions -> 0 .. MaxOffset] :
               /\ position' = [position EXCEPT ![c] = next]
               /\ next[p] = position[c][p] \/ position[c][p] < next[p]
        BY <1>11 DEF PollReturns
      <4>2. position[c][p] \in Nat /\ next[p] \in Nat
        BY GroupAssumption
      <4> QED
        BY <1>11, <4>1, <4>2 DEF PollReturns
    <3>2. Good(c, p)
      BY DEF PositionCovered
    <3> QED
      BY <1>0, <3>1, <3>2
  <2> QED
    BY <1>3, <1>11, <2>1 DEF PollReturns
<1>12. ASSUME NEW c \in Consumers, NEW p \in Partitions, PrintRecord(c, p) PROVE PositionCovered'
  <2>1. Good(c, p)'
    <3>1. Good(c, p) /\ groupId[c] \in Groups
      BY <1>12 DEF PositionCovered, PrintRecord
    <3>2. printedTo[c][p] \in Covered(groupId[c], p)'
      BY <1>12, <3>1 DEF PrintRecord, Covered, HistoryTypeOK
    <3>3. /\ pc'[c] = "printing" /\ printedTo'[c][p] = printedTo[c][p] + 1
          /\ printedTo[c][p] < position[c][p]
          /\ UNCHANGED <<groupId, assigned, fetchState, position>>
      BY <1>12 DEF PrintRecord
    <3>0. printedTo[c][p] \in Nat /\ position[c][p] \in Nat
      OBVIOUS
    <3>4. ASSUME p \in assigned[c], fetchState[c][p] \in {"valid", "latest"},
                 NEW k \in 0 .. printedTo[c][p]
          PROVE  k \in Covered(groupId[c], p)'
      <4>1. CASE k = printedTo[c][p]
        BY <3>2, <4>1
      <4>2. CASE k < printedTo[c][p]
        <5>1. k \in Covered(groupId[c], p)
          BY <3>1, <3>4, <4>2
        <5> QED
          BY <1>0, <3>1, <3>3, <5>1
      <4> QED
        <5>1. k = printedTo[c][p] \/ k < printedTo[c][p]
          BY <3>0, SplitLast
        <5> QED
          BY <4>1, <4>2, <5>1
    <3>5. printedTo'[c][p] - 1 = printedTo[c][p] /\ printedTo[c][p] + 1 <= position[c][p]
      BY <3>0, <3>3, SplitLast
    <3>6. SUFFICES ASSUME p \in assigned'[c], fetchState'[c][p] \in {"valid", "latest"}
                   PROVE  \A k \in 0 .. printedTo'[c][p] - 1 : k \in Covered(groupId[c], p)'
      BY <3>3, <3>5
    <3> QED
      BY <3>3, <3>4, <3>5, <3>6
  <2>2. ASSUME NEW q \in Partitions, q # p PROVE Good(c, q)'
    BY <1>1, <1>12, <2>2, ZenonT(30) DEF PrintRecord
  <2>5. \A d \in Consumers : d # c =>
           /\ UNCHANGED <<assigned[d], fetchState[d], printedTo[d], position[d]>>
           /\ UNCHANGED <<groupId[d], pc[d]>>
    BY <1>12 DEF PrintRecord
  <2>6. \A q \in Partitions : Good(c, q)'
    BY <2>1, <2>2
  <2> HIDE DEF Good
  <2> QED
    BY <1>3, <2>5, <2>6
<1>13. ASSUME NEW c \in Consumers, EndOfBatch(c) PROVE PositionCovered'
  <2>1. ASSUME NEW p \in Partitions PROVE Good(c, p)'
    <3>1. Good(c, p) /\ printedTo[c][p] = position[c][p]
          /\ UNCHANGED <<groupId, assigned, fetchState, printedTo, position>>
      BY <1>13 DEF PositionCovered, EndOfBatch
    <3> QED
      BY <1>0, <3>1
  <2> QED
    BY <1>3, <1>13, <2>1 DEF EndOfBatch
<1> QED
  BY <1>4, <1>5, <1>6, <1>7, <1>9, <1>10, <1>11, <1>12, <1>13
  DEF Next, Broker, ConsumerLoop, AutoCommit, AnswerCommit, LoseCommit, Expire, consumerVars, vars

LEMMA CoveredInvariant == Spec => []CoveredInv
<1>1. Init => CoveredInv
  <2> SUFFICES ASSUME Init PROVE CoveredInv
    OBVIOUS
  <2>1. CommitCovered /\ OnlyWorkersAssigned /\ PositionCovered
    BY DEF Init, BrokerInit, CommitCovered, OnlyWorkersAssigned, PositionCovered, NoOffset
  <2>2. RequestCovered
    BY NoRequestEmpty DEF Init, RequestCovered
  <2> QED
    BY <2>1, <2>2, TypeInit DEF CoveredInv
<1>2. CoveredInv /\ [Next]_vars => CoveredInv'
  <2> SUFFICES ASSUME CoveredInv, [Next]_vars PROVE CoveredInv'
    OBVIOUS
  <2>1. TypeOK'
    BY TypeStep DEF CoveredInv
  <2>2. OnlyWorkersAssigned'
    BY OnlyWorkersAssignedStep DEF CoveredInv
  <2> QED
    BY <2>1, <2>2, CommitCoveredStep, PositionCoveredStep, RequestCoveredStep DEF CoveredInv
<1> QED
  BY <1>1, <1>2, PTL DEF Spec

(* The auto-commit never runs ahead of the print loop.  CommitCovered is not *)
(* inductive: CoveredInv adds what is known of the positions and of the      *)
(* commit requests on the wire.                                              *)
THEOREM CommitsCovered == Spec => []CommitCovered
<1>1. CoveredInv => CommitCovered
  BY DEF CoveredInv
<1> QED
  BY <1>1, CoveredInvariant, PTL

(* SimpleConsumer implements CheckpointedFeed: a step that moves a tracked   *)
(* offset is a checkpoint of records covered by then, any other step that    *)
(* covers records is work, and the rest stutters.                            *)
THEOREM Implements == Spec => ImplementsFeed
<1> DEFINE Feeds == Groups \X Partitions
<1>1. Init => Feed!FeedInit
  BY DEF Init, BrokerInit, Feed!FeedInit, Covered, NoOffset
<1>2. CoveredInv /\ CoveredInv' /\ [Next]_vars => [Feed!FeedNext]_(Feed!feedVars)
  <2> SUFFICES ASSUME CoveredInv, CoveredInv', [Next]_vars PROVE Feed!Checkpoint
    BY DEF Feed!FeedNext
  <2> DEFINE h == [f \in Feeds |-> Covered(f[1], f[2])]
             k == [f \in Feeds |-> committed[f[1]][f[2]]]
  <2>1. k' \in [Feeds -> Nat \cup {-1}]
    BY DEF CoveredInv, TypeOK, BrokerTypeOK, NoOffset
  <2>2. h' \in [Feeds -> SUBSET Nat]
    BY DEF CoveredInv, TypeOK, HistoryTypeOK, Covered
  <2>3. ASSUME NEW f \in Feeds PROVE h[f] \subseteq h'[f]
    BY CoveredGrows DEF CoveredInv
  <2>4. ASSUME NEW f \in Feeds, NEW o \in 0 .. k'[f] - 1 PROVE o \in h'[f]
    BY DEF CoveredInv, CommitCovered
  <2> QED
    BY <2>1, <2>2, <2>3, <2>4 DEF Feed!Checkpoint
<1> QED
  BY <1>1, <1>2, CoveredInvariant, PTL DEF Spec, ImplementsFeed, Feed!FeedSpec
-----------------------------------------------------------------------------
(* The tracked offsets of a group without --from-beginning consumers only    *)
(* grow; FencedInv is the invariant.                                         *)

(* A consumer that has something assigned, or a request on the wire, is in a *)
(* group.                                                                    *)
LEMMA InGroup ==
    ASSUME FencedInv, NEW c \in Consumers, NEW p \in Partitions,
           p \in assigned[c] \/ request[c].at[p] # NoOffset \/ pc[c] # "down"
    PROVE  groupId[c] \in Groups
<1>1. request[c].at[p] # NoOffset => request[c] # NoRequest
  BY NoRequestEmpty DEF NoOffset
<1> QED
  BY <1>1 DEF FencedInv, TypeOK, ConsumerTypeOK, OnlyWorkersAssigned

LEMMA GroupAsConfiguredStep ==
    ASSUME FencedInv, [Next]_vars
    PROVE  GroupAsConfigured'
<1> USE DEF FencedInv, GroupAsConfigured, TypeOK, ConsumerTypeOK
<1>1. ASSUME NEW c \in Consumers, Start(c) PROVE GroupAsConfigured'
  BY <1>1 DEF Start
<1>2. CASE UNCHANGED groupId
  BY <1>2
<1> QED
  BY <1>1, <1>2
  DEF Next, Broker, ConsumerLoop, Join, Rejoin, ReceiveAssignment, LookUpPosition, ResetToEarliest,
      OutOfRange, ResetToLatest, PollReturns, PrintRecord, EndOfBatch, AutoCommit, AnswerCommit,
      LoseCommit, CloseOnError, Crash, Expire, consumerVars, vars

LEMMA IdleGenerationStep ==
    ASSUME FencedInv, [Next]_vars
    PROVE  IdleGeneration'
<1> USE DEF FencedInv, IdleGeneration, TypeOK, ConsumerTypeOK
<1>1. ASSUME NEW c \in Consumers, Start(c) \/ Join(c) PROVE IdleGeneration'
  BY <1>1 DEF Start, Join
<1>2. ASSUME NEW c \in Consumers, Rejoin(c) \/ CloseOnError(c) \/ Crash(c) PROVE IdleGeneration'
  BY <1>2 DEF Rejoin, CloseOnError, Crash, Forget
<1>3. ASSUME NEW c \in Consumers, ReceiveAssignment(c) PROVE IdleGeneration'
  BY <1>3 DEF ReceiveAssignment
<1>4. ASSUME NEW c \in Consumers, PollReturns(c) \/ EndOfBatch(c) PROVE IdleGeneration'
  BY <1>4 DEF PollReturns, EndOfBatch
<1>5. CASE UNCHANGED <<pc, memberGen>>
  BY <1>5
<1> QED
  BY <1>1, <1>2, <1>3, <1>4, <1>5, ZenonT(30)
  DEF Next, Broker, ConsumerLoop, LookUpPosition, ResetToEarliest, OutOfRange, ResetToLatest,
      PrintRecord, AutoCommit, AnswerCommit, LoseCommit, Expire, consumerVars, vars

LEMMA QuietJoinStep ==
    ASSUME FencedInv, [Next]_vars
    PROVE  QuietJoin'
<1> USE DEF FencedInv, QuietJoin, TypeOK, ConsumerTypeOK
<1>1. ASSUME NEW c \in Consumers, Start(c) \/ Join(c) PROVE QuietJoin'
  BY <1>1 DEF Start, Join
<1>2. ASSUME NEW c \in Consumers, Rejoin(c) \/ CloseOnError(c) \/ Crash(c) PROVE QuietJoin'
  BY <1>2 DEF Rejoin, CloseOnError, Crash
<1>3. ASSUME NEW c \in Consumers, ReceiveAssignment(c) \/ PollReturns(c) \/ EndOfBatch(c)
      PROVE  QuietJoin'
  BY <1>3 DEF ReceiveAssignment, PollReturns, EndOfBatch
<1>4. ASSUME NEW c \in Consumers, AutoCommit(c) \/ AnswerCommit(c) \/ LoseCommit(c)
      PROVE  QuietJoin'
  BY <1>4 DEF AutoCommit, AnswerCommit, LoseCommit, consumerVars
<1>5. CASE UNCHANGED <<pc, request>>
  BY <1>5
<1> QED
  BY <1>1, <1>2, <1>3, <1>4, <1>5
  DEF Next, Broker, ConsumerLoop, LookUpPosition, ResetToEarliest, OutOfRange, ResetToLatest,
      PrintRecord, Expire, consumerVars, vars

(* The coordinator's generations only grow. *)
LEMMA GenerationGrows ==
    ASSUME FencedInv, [Next]_vars
    PROVE  \A g \in Groups : generation[g] <= generation'[g]
<1> USE DEF FencedInv, TypeOK, BrokerTypeOK
<1>1. ASSUME NEW g \in Groups, CompleteRebalance(g)
      PROVE  \A h \in Groups : generation[h] <= generation'[h]
  BY <1>1 DEF CompleteRebalance
<1>2. CASE UNCHANGED generation
  BY <1>2
<1>3. ASSUME NEW c \in Consumers, Join(c) \/ Rejoin(c) PROVE UNCHANGED generation
  BY <1>3 DEF Join, Rejoin, JoinGroup
<1>4. ASSUME NEW c \in Consumers, CloseOnError(c) PROVE UNCHANGED generation
  BY <1>4 DEF CloseOnError, LeaveGroup, groupVars
<1>5. ASSUME NEW c \in Consumers, NEW g \in Groups, Expire(g, c) PROVE UNCHANGED generation
  BY <1>5 DEF Expire, LeaveGroup
<1> QED
  BY <1>1, <1>2, <1>3, <1>4, <1>5, ZenonT(30)
  DEF Next, Broker, Produce, Retention, ConsumerLoop, Start, ReceiveAssignment, LookUpPosition,
      ResetToEarliest, OutOfRange, ResetToLatest, PollReturns, PrintRecord, EndOfBatch, AutoCommit,
      AnswerCommit, LoseCommit, Crash, brokerVars, groupVars, vars

LEMMA GenerationsPastStep ==
    ASSUME FencedInv, [Next]_vars
    PROVE  GenerationsPast'
<1> USE DEF FencedInv, TypeOK, BrokerTypeOK, ConsumerTypeOK
<1>0. \A g \in Groups : generation[g] <= generation'[g] /\ generation'[g] \in Nat
  BY GenerationGrows, TypeStep
(* A consumer that learns of no generation. *)
<1>1. ASSUME NEW c \in Consumers, groupId'[c] = groupId[c],
             memberGen'[c] \in {0, memberGen[c]},
             request'[c].gen \in {0, memberGen[c], request[c].gen},
             pc'[c] # "down" \/ request'[c] # NoRequest => pc[c] # "down" \/ request[c] # NoRequest
      PROVE  pc'[c] # "down" \/ request'[c] # NoRequest =>
                /\ memberGen'[c] <= generation'[groupId[c]]
                /\ request'[c].gen <= generation'[groupId[c]]
  <2> SUFFICES ASSUME pc[c] # "down" \/ request[c] # NoRequest
               PROVE  /\ memberGen'[c] <= generation'[groupId[c]]
                      /\ request'[c].gen <= generation'[groupId[c]]
    BY <1>1
  <2>1. /\ memberGen[c] <= generation[groupId[c]] /\ request[c].gen <= generation[groupId[c]]
        /\ groupId[c] \in Groups /\ memberGen[c] \in Nat /\ request[c].gen \in Nat
    BY DEF GenerationsPast
  <2> QED
    BY <1>0, <1>1, <2>1
<1>2. CASE UNCHANGED <<pc, groupId, memberGen, request>>
  BY <1>1, <1>2 DEF GenerationsPast
<1>3. ASSUME NEW c \in Consumers, Start(c) PROVE GenerationsPast'
  <2>1. /\ memberGen[c] = 0 /\ request[c].gen = 0 /\ groupId'[c] \in Groups
        /\ UNCHANGED <<memberGen, request>>
    BY <1>3, NoRequestEmpty DEF Start, IdleGeneration
  <2>2. \A d \in Consumers : d # c => groupId'[d] = groupId[d] /\ pc'[d] = pc[d]
    BY <1>3 DEF Start
  <2>3. memberGen'[c] <= generation'[groupId'[c]] /\ request'[c].gen <= generation'[groupId'[c]]
    BY <1>0, <2>1
  <2>4. ASSUME NEW d \in Consumers, d # c, pc'[d] # "down" \/ request'[d] # NoRequest
        PROVE  /\ memberGen'[d] <= generation'[groupId'[d]]
               /\ request'[d].gen <= generation'[groupId'[d]]
    BY <1>1, <2>1, <2>2, <2>4
  <2> QED
    BY <2>3, <2>4 DEF GenerationsPast
<1>4. ASSUME NEW c \in Consumers, ReceiveAssignment(c) PROVE GenerationsPast'
  <2>1. /\ memberGen'[c] = generation[groupId[c]] /\ groupId[c] \in Groups /\ pc[c] # "down"
        /\ request'[c] = request[c] /\ groupId' = groupId /\ generation' = generation
    BY <1>4 DEF ReceiveAssignment, brokerVars, groupVars
  <2>2. \A d \in Consumers : d # c =>
           UNCHANGED <<memberGen[d], pc[d], request[d], groupId[d]>>
    BY <1>4 DEF ReceiveAssignment
  <2> QED
    BY <1>0, <1>1, <2>1, <2>2, ZenonT(30) DEF GenerationsPast
<1>5. ASSUME NEW c \in Consumers, Join(c) \/ Rejoin(c) \/ CloseOnError(c) \/ Crash(c)
      PROVE  GenerationsPast'
  <2>1. /\ UNCHANGED <<groupId, request>> /\ memberGen'[c] \in {0, memberGen[c]}
        /\ pc[c] # "down"
        /\ \A d \in Consumers : d # c => UNCHANGED <<memberGen[d], pc[d]>>
    BY <1>5 DEF Join, Rejoin, CloseOnError, Crash, Forget, history
  <2> QED
    BY <1>1, <2>1 DEF GenerationsPast
<1>6. ASSUME NEW c \in Consumers, PollReturns(c) \/ EndOfBatch(c) PROVE GenerationsPast'
  <2>1. /\ UNCHANGED <<groupId, request, memberGen>> /\ pc[c] # "down"
        /\ \A d \in Consumers : d # c => pc'[d] = pc[d]
    BY <1>6 DEF PollReturns, EndOfBatch
  <2> QED
    BY <1>1, <2>1 DEF GenerationsPast
<1>7. ASSUME NEW c \in Consumers, AutoCommit(c) \/ AnswerCommit(c) \/ LoseCommit(c)
      PROVE  GenerationsPast'
  <2>1. /\ UNCHANGED consumerVars /\ request'[c].gen \in {0, memberGen[c]}
        /\ request'[c] # NoRequest => pc[c] # "down"
        /\ \A d \in Consumers : d # c => request'[d] = request[d]
    BY <1>7, NoRequestEmpty DEF AutoCommit, AnswerCommit, LoseCommit
  <2> QED
    BY <1>1, <2>1 DEF GenerationsPast, consumerVars
<1> QED
  BY <1>2, <1>3, <1>4, <1>5, <1>6, <1>7
  DEF Next, Broker, ConsumerLoop, LookUpPosition, ResetToEarliest, OutOfRange, ResetToLatest,
      PrintRecord, Expire, consumerVars, vars

LEMMA LatestOvertakenStep ==
    ASSUME FencedInv, [Next]_vars
    PROVE  LatestOvertaken'
<1> USE DEF FencedInv, TypeOK, BrokerTypeOK, ConsumerTypeOK
<1>1. \A p \in Partitions : logStart[p] <= logStart'[p] /\ logStart'[p] \in Nat
  <2>1. ASSUME NEW p \in Partitions, Retention(p)
        PROVE  \A q \in Partitions : logStart[q] <= logStart'[q]
    BY <2>1 DEF Retention
  <2>2. CASE UNCHANGED logStart
    BY <2>2
  <2>3. BrokerTypeOK'
    BY TypeStep
  <2>4. \A q \in Partitions : logStart[q] <= logStart'[q]
    BY <2>1, <2>2, ZenonT(30)
    DEF Next, Broker, Produce, CompleteRebalance, ConsumerLoop, Start, Join, Rejoin,
        ReceiveAssignment, LookUpPosition, ResetToEarliest, OutOfRange, ResetToLatest, PollReturns,
        PrintRecord, EndOfBatch, AutoCommit, AnswerCommit, LoseCommit, CloseOnError, Crash, Expire,
        brokerVars, logVars, vars
  <2> QED
    BY <2>3, <2>4
(* It is enough to look at what has become "latest" or moved. *)
<1>2. ASSUME \A c \in Consumers, p \in Partitions :
                p \in assigned'[c] /\ fetchState'[c][p] = "latest" =>
                    \/ position'[c][p] < logStart[p]
                    \/ p \in assigned[c] /\ fetchState[c][p] = "latest"
                       /\ position'[c][p] = position[c][p]
      PROVE  LatestOvertaken'
  <2> SUFFICES ASSUME NEW c \in Consumers, NEW p \in Partitions, p \in assigned'[c],
                      fetchState'[c][p] = "latest"
               PROVE  position'[c][p] < logStart'[p]
    BY DEF LatestOvertaken
  <2>1. position'[c][p] < logStart[p]
    BY <1>2 DEF LatestOvertaken
  <2>2. position'[c][p] \in Nat /\ logStart[p] \in Nat
    BY TypeStep
  <2> QED
    BY <1>1, <2>1, <2>2
<1>3. CASE UNCHANGED <<assigned, fetchState, position>>
  BY <1>2, <1>3
<1>4. ASSUME NEW c \in Consumers, Rejoin(c) \/ CloseOnError(c) \/ Crash(c)
      PROVE  LatestOvertaken'
  <2>1. Forget(c)
    BY <1>4 DEF Rejoin, CloseOnError, Crash
  <2>2. \A d \in Consumers, p \in Partitions :
              p \in assigned'[d] => /\ p \in assigned[d]
                                   /\ fetchState'[d][p] = fetchState[d][p]
                                   /\ position'[d][p] = position[d][p]
    BY <2>1 DEF Forget
  <2> QED
    BY <1>2, <2>2
<1>5. ASSUME NEW c \in Consumers, ReceiveAssignment(c) PROVE LatestOvertaken'
  BY <1>2, <1>5 DEF ReceiveAssignment
<1>6. ASSUME NEW c \in Consumers, NEW p \in Partitions,
             LookUpPosition(c, p) \/ ResetToEarliest(c, p) \/ ResetToLatest(c, p)
      PROVE  LatestOvertaken'
  <2>1. /\ fetchState'[c][p] = "valid" /\ assigned' = assigned
        /\ \A d \in Consumers, q \in Partitions : d # c \/ q # p =>
              fetchState'[d][q] = fetchState[d][q] /\ position'[d][q] = position[d][q]
    BY <1>6 DEF LookUpPosition, ResetToEarliest, ResetToLatest, MoveTo
  <2> QED
    BY <1>2, <2>1
<1>7. ASSUME NEW c \in Consumers, NEW p \in Partitions, OutOfRange(c, p) PROVE LatestOvertaken'
  <2>1. /\ position[c][p] < logStart[p] /\ UNCHANGED <<assigned, position>>
        /\ \A d \in Consumers, q \in Partitions : d # c \/ q # p =>
              fetchState'[d][q] = fetchState[d][q]
    BY <1>7 DEF OutOfRange
  <2> QED
    BY <1>2, <2>1
<1>8. ASSUME NEW c \in Consumers, PollReturns(c) PROVE LatestOvertaken'
  <2>1. UNCHANGED <<assigned, fetchState>>
    BY <1>8 DEF PollReturns
  <2>2. \A p \in Partitions : fetchState[c][p] = "latest" => position'[c][p] = position[c][p]
    BY <1>8 DEF PollReturns, Fetching
  <2>3. \A d \in Consumers : d # c => position'[d] = position[d]
    BY <1>8 DEF PollReturns
  <2> QED
    BY <1>2, <2>1, <2>2, <2>3
<1> QED
  BY <1>3, <1>4, <1>5, <1>6, <1>7, <1>8
  DEF Next, Broker, ConsumerLoop, Start, Join, PrintRecord, EndOfBatch, AutoCommit, AnswerCommit,
      LoseCommit, Expire, consumerVars, vars

-----------------------------------------------------------------------------
(* What a step may do to an assignment and to the coordinator's view of it. *)

(* A partition is newly assigned only by the answer a joining consumer gets. *)
LEMMA AssignedByAnswer ==
    ASSUME FencedInv, [Next]_vars, NEW c \in Consumers, assigned'[c] # {}
    PROVE  \/ ReceiveAssignment(c)
           \/ UNCHANGED <<assigned[c], memberGen[c], groupId[c]>>
              /\ \A p \in Partitions : fetchState'[c][p] = "earliest" => fetchState[c][p] = "earliest"
<1> USE DEF FencedInv, TypeOK, ConsumerTypeOK, FetchStates
<1>1. ASSUME NEW d \in Consumers, ReceiveAssignment(d), d # c
      PROVE  UNCHANGED <<assigned[c], memberGen[c], groupId[c], fetchState[c]>>
  BY <1>1 DEF ReceiveAssignment
<1>2. ASSUME NEW d \in Consumers, Rejoin(d) \/ CloseOnError(d) \/ Crash(d)
      PROVE  UNCHANGED <<assigned[c], memberGen[c], groupId[c], fetchState[c]>>
  BY <1>2 DEF Rejoin, CloseOnError, Crash, Forget
<1>3. ASSUME NEW d \in Consumers, Start(d)
      PROVE  UNCHANGED <<assigned[c], memberGen[c], groupId[c], fetchState[c]>>
  <2>1. d # c
    BY <1>3 DEF Start, OnlyWorkersAssigned
  <2> QED
    BY <1>3, <2>1 DEF Start
<1>4. ASSUME NEW d \in Consumers, NEW q \in Partitions,
             LookUpPosition(d, q) \/ ResetToEarliest(d, q) \/ ResetToLatest(d, q) \/ OutOfRange(d, q)
      PROVE  UNCHANGED <<assigned[c], memberGen[c], groupId[c]>>
             /\ \A p \in Partitions : fetchState'[c][p] = "earliest" => fetchState[c][p] = "earliest"
  <2>1. PICK s \in {"valid", "latest"} : fetchState' = [fetchState EXCEPT ![d][q] = s]
    BY <1>4 DEF LookUpPosition, ResetToEarliest, ResetToLatest, OutOfRange, MoveTo
  <2>2. UNCHANGED <<assigned, memberGen, groupId>>
    BY <1>4 DEF LookUpPosition, ResetToEarliest, ResetToLatest, OutOfRange
  <2> QED
    BY <2>1, <2>2
<1>5. CASE UNCHANGED <<assigned, memberGen, groupId, fetchState>>
  BY <1>5
<1> QED
  BY <1>1, <1>2, <1>3, <1>4, <1>5, ZenonT(30)
  DEF Next, Broker, ConsumerLoop, Join, PollReturns, PrintRecord, EndOfBatch, AutoCommit,
      AnswerCommit, LoseCommit, Expire, consumerVars, vars

(* Ownership changes only with the generation. *)
LEMMA OwnerFixed ==
    ASSUME FencedInv, [Next]_vars, NEW g \in Groups, generation'[g] = generation[g]
    PROVE  owner'[g] = owner[g]
<1> USE DEF FencedInv, TypeOK, BrokerTypeOK
<1>1. ASSUME NEW h \in Groups, CompleteRebalance(h) PROVE owner'[g] = owner[g]
  <2>1. h # g
    BY <1>1 DEF CompleteRebalance
  <2> QED
    BY <1>1, <2>1 DEF CompleteRebalance
<1>2. ASSUME NEW c \in Consumers, Join(c) \/ Rejoin(c) PROVE UNCHANGED owner
  BY <1>2 DEF Join, Rejoin, JoinGroup
<1>3. ASSUME NEW c \in Consumers, CloseOnError(c) PROVE UNCHANGED owner
  BY <1>3 DEF CloseOnError, LeaveGroup, groupVars
<1>4. ASSUME NEW c \in Consumers, NEW h \in Groups, Expire(h, c) PROVE UNCHANGED owner
  BY <1>4 DEF Expire, LeaveGroup
<1>5. CASE UNCHANGED owner
  BY <1>5
<1> QED
  BY <1>1, <1>2, <1>3, <1>4, <1>5, ZenonT(30)
  DEF Next, Broker, Produce, Retention, ConsumerLoop, Start, ReceiveAssignment, LookUpPosition,
      ResetToEarliest, OutOfRange, ResetToLatest, PollReturns, PrintRecord, EndOfBatch, AutoCommit,
      AnswerCommit, LoseCommit, Crash, brokerVars, groupVars, vars

(* Who becomes a member has nothing assigned and nothing on the wire. *)
LEMMA NewMemberIsIdle ==
    ASSUME FencedInv, [Next]_vars, NEW g \in Groups, NEW c \in Consumers,
           c \in members'[g], c \notin members[g]
    PROVE  assigned'[c] = {} /\ request'[c] = NoRequest
<1> USE DEF FencedInv, TypeOK, BrokerTypeOK, ConsumerTypeOK
<1>1. ASSUME NEW d \in Consumers, Join(d) PROVE assigned'[c] = {} /\ request'[c] = NoRequest
  <2>1. d = c
    BY <1>1 DEF Join, JoinGroup
  <2> QED
    BY <1>1, <2>1 DEF Join, OnlyWorkersAssigned, QuietJoin
<1>2. ASSUME NEW d \in Consumers, Rejoin(d) PROVE assigned'[c] = {} /\ request'[c] = NoRequest
  <2>1. d = c
    BY <1>2 DEF Rejoin, JoinGroup
  <2> QED
    BY <1>2, <2>1 DEF Rejoin, Forget
<1>3. ASSUME NEW d \in Consumers, CloseOnError(d) PROVE FALSE
  <2>1. groupId[d] \in Groups
    BY <1>3 DEF CloseOnError
  <2> QED
    BY <1>3, <2>1, LeaveGroupEffect DEF CloseOnError, groupVars
<1>4. ASSUME NEW d \in Consumers, NEW h \in Groups, Expire(h, d) PROVE FALSE
  BY <1>4, LeaveGroupEffect DEF Expire
<1>5. CASE UNCHANGED members
  BY <1>5
<1> QED
  BY <1>1, <1>2, <1>3, <1>4, <1>5, ZenonT(30)
  DEF Next, Broker, Produce, Retention, CompleteRebalance, ConsumerLoop, Start, ReceiveAssignment,
      LookUpPosition, ResetToEarliest, OutOfRange, ResetToLatest, PollReturns, PrintRecord,
      EndOfBatch, AutoCommit, AnswerCommit, LoseCommit, Crash, brokerVars, groupVars, vars

(* So a member the coordinator listens to was one before the step. *)
LEMMA AcceptedBefore ==
    ASSUME FencedInv, [Next]_vars, NEW g \in Groups, NEW c \in Consumers, NEW gen \in Nat,
           Accepts(g, c, gen)', gen <= generation[g],
           assigned'[c] # {} \/ request'[c] # NoRequest
    PROVE  Accepts(g, c, gen) /\ owner'[g] = owner[g]
<1>1. gen = generation'[g] /\ c \in members'[g]
  BY DEF Accepts
<1>2. generation'[g] = generation[g]
  <2>1. generation[g] <= generation'[g]
    BY GenerationGrows
  <2>2. generation[g] \in Nat
    BY DEF FencedInv, TypeOK, BrokerTypeOK
  <2> QED
    BY <1>1, <2>1, <2>2
<1>3. c \in members[g]
  BY <1>1, NewMemberIsIdle
<1> QED
  BY <1>1, <1>2, <1>3, OwnerFixed DEF Accepts

(* A position only moves forward while its partition stays assigned. *)
LEMMA PositionGrows ==
    ASSUME FencedInv, [Next]_vars, NEW c \in Consumers, NEW p \in Partitions,
           p \in assigned[c], p \in assigned'[c], fetchState[c][p] \in {"valid", "latest"}
    PROVE  fetchState'[c][p] \in {"valid", "latest"} /\ position'[c][p] >= position[c][p]
<1> USE DEF FencedInv, TypeOK, BrokerTypeOK, ConsumerTypeOK
<1>0. position[c][p] \in Nat /\ pc[c] \in {"polling", "printing"}
  BY DEF OnlyWorkersAssigned
<1>1. ASSUME NEW d \in Consumers,
             Rejoin(d) \/ CloseOnError(d) \/ Crash(d) \/ ReceiveAssignment(d)
      PROVE  UNCHANGED <<fetchState[c], position[c]>>
  <2>1. d # c
    BY <1>0, <1>1 DEF Rejoin, CloseOnError, Crash, Forget, ReceiveAssignment
  <2> QED
    BY <1>1, <2>1 DEF Rejoin, CloseOnError, Crash, Forget, ReceiveAssignment
<1>2. ASSUME NEW d \in Consumers, NEW q \in Partitions,
             LookUpPosition(d, q) \/ ResetToEarliest(d, q)
      PROVE  UNCHANGED <<fetchState[c][p], position[c][p]>>
  <2>1. d # c \/ q # p
    BY <1>2 DEF LookUpPosition, ResetToEarliest, Fetching
  <2> QED
    BY <1>2, <2>1 DEF LookUpPosition, ResetToEarliest, MoveTo
<1>3. ASSUME NEW d \in Consumers, NEW q \in Partitions, ResetToLatest(d, q)
      PROVE  fetchState'[c][p] \in {"valid", "latest"} /\ position'[c][p] >= position[c][p]
  <2>1. CASE d = c /\ q = p
    <3>1. position[c][p] < logStart[p]
      BY <1>3, <2>1 DEF ResetToLatest, Fetching, LatestOvertaken
    <3>2. position'[c][p] = logEnd[p] /\ fetchState'[c][p] = "valid"
      BY <1>3, <2>1 DEF ResetToLatest, MoveTo
    <3>3. logStart[p] <= logEnd[p] /\ logStart[p] \in Nat /\ logEnd[p] \in Nat
      OBVIOUS
    <3> QED
      BY <1>0, <3>1, <3>2, <3>3
  <2>2. CASE d # c \/ q # p
    <3>1. UNCHANGED <<fetchState[c][p], position[c][p]>>
      BY <1>3, <2>2 DEF ResetToLatest, MoveTo
    <3> QED
      BY <1>0, <3>1
  <2> QED
    BY <2>1, <2>2
<1>4. ASSUME NEW d \in Consumers, NEW q \in Partitions, OutOfRange(d, q)
      PROVE  fetchState'[c][p] \in {"valid", "latest"} /\ position'[c][p] >= position[c][p]
  BY <1>0, <1>4 DEF OutOfRange
<1>5. ASSUME NEW d \in Consumers, PollReturns(d)
      PROVE  UNCHANGED fetchState[c][p] /\ position'[c][p] >= position[c][p]
  <2>1. PICK next \in [Partitions -> 0 .. MaxOffset] :
           /\ position' = [position EXCEPT ![d] = next]
           /\ \A q \in Partitions : next[q] = position[d][q] \/ position[d][q] < next[q]
    BY <1>5 DEF PollReturns
  <2>2. next[p] \in Nat
    BY <2>1, GroupAssumption
  <2>3. position'[c][p] \in Nat /\ position'[c][p] >= position[c][p]
    BY <2>1, <2>2
  <2> QED
    BY <1>0, <1>5, <2>3 DEF PollReturns
<1>6. CASE UNCHANGED <<fetchState[c][p], position[c][p]>>
  BY <1>0, <1>6
<1>7. CASE UNCHANGED <<fetchState, position>>
  BY <1>6, <1>7
<1>8. CASE UNCHANGED fetchState[c][p] /\ position'[c][p] >= position[c][p]
  BY <1>8
<1>9. CASE UNCHANGED <<fetchState[c], position[c]>>
  BY <1>6, <1>9
<1> QED
  BY <1>1, <1>2, <1>3, <1>4, <1>5, <1>6, <1>7, <1>8, <1>9, ZenonT(30)
  DEF Next, Broker, ConsumerLoop, Start, Join, PrintRecord, EndOfBatch, AutoCommit, AnswerCommit,
      LoseCommit, Expire, consumerVars, vars

(* A lookup ends with the position found, or with the assignment. *)
LEMMA LookUpEnds ==
    ASSUME FencedInv, [Next]_vars, NEW c \in Consumers, NEW p \in Partitions,
           p \in assigned[c], p \in assigned'[c], fetchState[c][p] = "lookup"
    PROVE  fetchState'[c][p] = "lookup" \/ LookUpPosition(c, p)
<1> USE DEF FencedInv, TypeOK, BrokerTypeOK, ConsumerTypeOK
<1>1. ASSUME NEW d \in Consumers,
             Rejoin(d) \/ CloseOnError(d) \/ Crash(d) \/ ReceiveAssignment(d)
      PROVE  fetchState'[c][p] = "lookup"
  <2>1. d # c
    BY <1>1 DEF Rejoin, CloseOnError, Crash, Forget, ReceiveAssignment, OnlyWorkersAssigned
  <2> QED
    BY <1>1, <2>1 DEF Rejoin, CloseOnError, Crash, Forget, ReceiveAssignment
<1>2. ASSUME NEW d \in Consumers, NEW q \in Partitions,
             ResetToEarliest(d, q) \/ ResetToLatest(d, q) \/ OutOfRange(d, q)
      PROVE  fetchState'[c][p] = "lookup"
  <2>1. d # c \/ q # p
    BY <1>2 DEF ResetToEarliest, ResetToLatest, OutOfRange, Fetching
  <2> QED
    BY <1>2, <2>1 DEF ResetToEarliest, ResetToLatest, OutOfRange, MoveTo
<1>3. ASSUME NEW d \in Consumers, NEW q \in Partitions, LookUpPosition(d, q)
      PROVE  fetchState'[c][p] = "lookup" \/ LookUpPosition(c, p)
  <2>1. CASE d # c \/ q # p
    BY <1>3, <2>1 DEF LookUpPosition, MoveTo
  <2> QED
    BY <1>3, <2>1
<1>4. CASE UNCHANGED fetchState
  BY <1>4
<1> QED
  BY <1>1, <1>2, <1>3, <1>4
  DEF Next, Broker, ConsumerLoop, Start, Join, PollReturns, PrintRecord, EndOfBatch, AutoCommit,
      AnswerCommit, LoseCommit, Expire, consumerVars, vars

LEMMA PositionPastRequestStep ==
    ASSUME FencedInv, [Next]_vars
    PROVE  PositionPastRequest'
<1> USE DEF FencedInv, TypeOK, ConsumerTypeOK
<1> SUFFICES ASSUME NEW c \in Consumers, NEW p \in Partitions, p \in assigned'[c],
                    request'[c].at[p] # NoOffset
             PROVE  fetchState'[c][p] \in {"valid", "latest"} /\ position'[c][p] >= request'[c].at[p]
  BY DEF PositionPastRequest
<1>0. request'[c] # NoRequest
  BY NoRequestEmpty DEF NoOffset
<1>1. CASE request'[c] = request[c]
  <2>1. ~ReceiveAssignment(c)
    BY <1>0, <1>1 DEF QuietJoin, ReceiveAssignment
  <2>2. p \in assigned[c]
    BY <2>1, AssignedByAnswer
  <2>3. /\ fetchState[c][p] \in {"valid", "latest"} /\ position[c][p] >= request[c].at[p]
        /\ position[c][p] \in Nat /\ request[c].at[p] \in Nat
    BY <1>1, <2>2 DEF PositionPastRequest
  <2>4. fetchState'[c][p] \in {"valid", "latest"} /\ position'[c][p] >= position[c][p]
    BY <2>2, <2>3, PositionGrows
  <2>5. position'[c][p] \in Nat
    BY TypeStep
  <2> QED
    BY <1>1, <2>3, <2>4, <2>5
<1>2. CASE AutoCommit(c)
  <2>1. request'[c].at[p] = Consumed(c)[p] /\ UNCHANGED <<assigned, fetchState, position>>
    BY <1>2 DEF AutoCommit, consumerVars
  <2>2. fetchState[c][p] = "valid" /\ request'[c].at[p] = position[c][p]
    BY <2>1 DEF Consumed
  <2> QED
    BY <2>1, <2>2
<1>3. ASSUME NEW d \in Consumers, AutoCommit(d) PROVE d = c \/ request'[c] = request[c]
  BY <1>3 DEF AutoCommit
<1>4. ASSUME NEW d \in Consumers, AnswerCommit(d) \/ LoseCommit(d) PROVE request'[c] = request[c]
  BY <1>0, <1>4 DEF AnswerCommit, LoseCommit
<1> QED
  BY <1>1, <1>2, <1>3, <1>4, ZenonT(30)
  DEF Next, Broker, ConsumerLoop, Start, Join, Rejoin, ReceiveAssignment, LookUpPosition,
      ResetToEarliest, OutOfRange, ResetToLatest, PollReturns, PrintRecord, EndOfBatch, CloseOnError,
      Crash, Expire, history, vars

-----------------------------------------------------------------------------
(* A tracked offset of a group without --from-beginning consumers is moved   *)
(* by the partition's owner, forwards, and not past the owner's position;    *)
(* the owner has no request on the wire afterwards.                          *)
LEMMA MovedByOwner ==
    ASSUME FencedInv, [Next]_vars, NEW g \in Groups, NEW p \in Partitions, Seekers(g) = {},
           committed'[g][p] # committed[g][p]
    PROVE  /\ committed'[g][p] >= committed[g][p]
           /\ UNCHANGED owner
           /\ \E c \in Consumers :
                 /\ owner[g][p] = c /\ groupId'[c] = g /\ request'[c] = NoRequest
                 /\ p \in assigned'[c] => position'[c][p] >= committed'[g][p]
<1>0. ASSUME NEW h \in Groups, NEW offsets \in [Partitions -> Nat \cup {-1}],
             CommitOffsets(h, offsets)
      PROVE  g = h /\ offsets[p] # -1 /\ committed'[g][p] = offsets[p]
  <2>0. committed \in [Groups -> [Partitions -> Nat \cup {-1}]]
    BY DEF FencedInv, TypeOK, BrokerTypeOK, NoOffset
  <2>1. \A k \in Groups, q \in Partitions :
           committed'[k][q] = IF k = h /\ offsets[q] # -1 THEN offsets[q] ELSE committed[k][q]
    BY <1>0, <2>0, CommitEffect
  <2> QED
    BY <2>1
<1> USE DEF FencedInv, TypeOK, BrokerTypeOK, ConsumerTypeOK, NoOffset
(* A commit that its sender makes in the same step. *)
<1>1. ASSUME NEW c \in Consumers, groupId[c] \in Groups, CommitSync(c)
      PROVE  groupId[c] = g /\ owner[g][p] = c /\ committed'[g][p] >= committed[g][p]
  <2>1. Consumed(c) \in [Partitions -> Nat \cup {-1}]
    BY DEF Consumed
  <2>3. g = groupId[c] /\ Consumed(c)[p] # -1 /\ committed'[g][p] = Consumed(c)[p]
    BY <1>0, <1>1, <2>1 DEF CommitSync
  <2>4. p \in assigned[c] /\ fetchState[c][p] = "valid" /\ Consumed(c)[p] = position[c][p]
    BY <2>3 DEF Consumed
  <2> QED
    BY <1>1, <2>3, <2>4, ZenonT(30) DEF CommitSync, NotBehind
<1>2. ASSUME NEW c \in Consumers, Rejoin(c) \/ CloseOnError(c)
      PROVE  /\ groupId[c] \in Groups /\ UNCHANGED <<owner, groupId>>
             /\ request'[c] = NoRequest /\ assigned'[c] = {} /\ CommitSync(c)
  <2>1. CASE Rejoin(c)
    BY <2>1 DEF Rejoin, JoinGroup, Forget
  <2>2. CASE CloseOnError(c)
    <3>1. groupId[c] \in Groups /\ CommitSync(c) /\ request'[c] = NoRequest /\ assigned'[c] = {}
          /\ UNCHANGED groupId
      BY <2>2 DEF CloseOnError, Forget
    <3>2. UNCHANGED owner
      BY <2>2 DEF CloseOnError, LeaveGroup, groupVars
    <3> QED
      BY <3>1, <3>2
  <2> QED
    BY <1>2, <2>1, <2>2
<1>3. ASSUME NEW c \in Consumers, Rejoin(c) \/ CloseOnError(c)
      PROVE  /\ committed'[g][p] >= committed[g][p]
             /\ UNCHANGED owner
             /\ owner[g][p] = c /\ groupId'[c] = g /\ request'[c] = NoRequest
             /\ p \in assigned'[c] => position'[c][p] >= committed'[g][p]
  BY <1>1, <1>2, <1>3
(* The coordinator's answer to one on the wire. *)
<1>4. ASSUME NEW c \in Consumers, AnswerCommit(c)
      PROVE  /\ committed'[g][p] >= committed[g][p]
             /\ UNCHANGED owner
             /\ owner[g][p] = c /\ groupId'[c] = g /\ request'[c] = NoRequest
             /\ p \in assigned'[c] => position'[c][p] >= committed'[g][p]
  <2>1. groupId[c] \in Groups /\ request[c].at \in [Partitions -> Nat \cup {-1}]
    BY <1>4 DEF AnswerCommit
  <2>2. Accepts(groupId[c], c, request[c].gen) /\ CommitOffsets(groupId[c], request[c].at)
    BY <1>4 DEF AnswerCommit
  <2>4. g = groupId[c] /\ request[c].at[p] # -1 /\ committed'[g][p] = request[c].at[p]
    BY <1>0, <2>1, <2>2
  <2>5. owner[g][p] = c /\ request[c].at[p] >= committed[g][p]
    BY <2>2, <2>4 DEF RequestNotBehind
  <2>6. p \in assigned[c] => position[c][p] >= request[c].at[p]
    BY <2>4 DEF PositionPastRequest
  <2>7. request'[c] = NoRequest /\ UNCHANGED <<owner, groupId, assigned, position>>
    BY <1>4 DEF AnswerCommit, groupVars, consumerVars
  <2> QED
    BY <2>4, <2>5, <2>6, <2>7
<1> QED
  BY <1>3, <1>4, ZenonT(30)
  DEF Next, Broker, Produce, Retention, CompleteRebalance, ConsumerLoop, Start, Join,
      ReceiveAssignment, LookUpPosition, ResetToEarliest, OutOfRange, ResetToLatest, PollReturns,
      PrintRecord, EndOfBatch, AutoCommit, Crash, LoseCommit, Expire, brokerVars, vars

LEMMA RequestNotBehindStep ==
    ASSUME FencedInv, [Next]_vars
    PROVE  RequestNotBehind'
<1>5. ASSUME NEW g \in Groups, NEW p \in Partitions, Seekers(g) = {},
             committed'[g][p] # committed[g][p]
      PROVE  \E d \in Consumers : owner[g][p] = d /\ request'[d] = NoRequest
  BY <1>5, MovedByOwner
<1> USE DEF FencedInv, TypeOK, BrokerTypeOK, ConsumerTypeOK, NoOffset
<1> SUFFICES ASSUME NEW c \in Consumers, NEW p \in Partitions, NEW g, g = groupId'[c],
                    request'[c].at[p] # -1, Seekers(g) = {}, Accepts(g, c, request[c].gen)'
             PROVE  owner'[g][p] = c /\ request'[c].at[p] >= committed'[g][p]
  BY DEF RequestNotBehind, Seekers
<1>0. request'[c] # NoRequest /\ g \in Groups
  <2>1. request'[c] # NoRequest
    BY NoRequestEmpty
  <2> QED
    BY <2>1, TypeStep
<1>1. CASE request'[c] = request[c]
  <2>1. groupId'[c] = groupId[c]
    <3>1. ASSUME NEW d \in Consumers, Start(d) PROVE groupId'[c] = groupId[c]
      <4>1. d # c
        BY <1>0, <1>1, <3>1 DEF Start
      <4> QED
        BY <3>1, <4>1 DEF Start
    <3>2. CASE UNCHANGED groupId
      BY <3>2
    <3> QED
      BY <3>1, <3>2, ZenonT(30)
      DEF Next, Broker, ConsumerLoop, Join, Rejoin, ReceiveAssignment, LookUpPosition,
          ResetToEarliest, OutOfRange, ResetToLatest, PollReturns, PrintRecord, EndOfBatch,
          AutoCommit, AnswerCommit, LoseCommit, CloseOnError, Crash, Expire, consumerVars, vars
  <2>2. request[c].gen \in Nat /\ request[c].gen <= generation[g]
    BY <1>0, <1>1, <2>1 DEF GenerationsPast
  <2>3. Accepts(g, c, request[c].gen)' => request'[c].gen = generation'[g] /\ c \in members'[g]
    BY DEF Accepts
  <2>4. Accepts(g, c, request[c].gen) /\ owner'[g] = owner[g]
    BY <1>0, <1>1, <2>2, <2>3, AcceptedBefore DEF Accepts
  <2>5. owner[g][p] = c /\ request[c].at[p] >= committed[g][p]
    BY <1>1, <2>1, <2>4 DEF RequestNotBehind
  <2>6. committed'[g][p] = committed[g][p]
    <3> SUFFICES ASSUME committed'[g][p] # committed[g][p] PROVE FALSE
      OBVIOUS
    <3>1. PICK d \in Consumers : owner[g][p] = d /\ request'[d] = NoRequest
      BY <1>0, <1>5
    <3> QED
      BY <1>0, <2>5, <3>1
  <2> QED
    BY <1>1, <2>4, <2>5, <2>6
<1>2. CASE AutoCommit(c)
  <2>1. /\ request'[c].at[p] = Consumed(c)[p] /\ request'[c].gen = memberGen[c]
        /\ UNCHANGED <<groupId, owner, committed, generation, members>>
    BY <1>2 DEF AutoCommit, consumerVars, brokerVars, groupVars
  <2>2. p \in assigned[c] /\ fetchState[c][p] = "valid" /\ request'[c].at[p] = position[c][p]
    BY <2>1 DEF Consumed
  <2>3. Accepts(g, c, memberGen[c])
    BY <2>1 DEF Accepts
  <2> QED
    BY <2>1, <2>2, <2>3 DEF NotBehind
<1>3. ASSUME NEW d \in Consumers, AutoCommit(d) PROVE d = c \/ request'[c] = request[c]
  BY <1>3 DEF AutoCommit
<1>4. ASSUME NEW d \in Consumers, AnswerCommit(d) \/ LoseCommit(d) PROVE request'[c] = request[c]
  BY <1>0, <1>4 DEF AnswerCommit, LoseCommit
<1> QED
  BY <1>1, <1>2, <1>3, <1>4, ZenonT(30)
  DEF Next, Broker, ConsumerLoop, Start, Join, Rejoin, ReceiveAssignment, LookUpPosition,
      ResetToEarliest, OutOfRange, ResetToLatest, PollReturns, PrintRecord, EndOfBatch, CloseOnError,
      Crash, Expire, history, vars

LEMMA NotBehindStep ==
    ASSUME FencedInv, [Next]_vars
    PROVE  NotBehind'
<1> USE DEF FencedInv, TypeOK, BrokerTypeOK, ConsumerTypeOK, NoOffset
<1> SUFFICES ASSUME NEW c \in Consumers, NEW p \in Partitions, NEW g, g = groupId'[c],
                    p \in assigned'[c], Seekers(g) = {}, Accepts(g, c, memberGen[c])'
             PROVE  /\ owner'[g][p] = c
                    /\ fetchState'[c][p] # "earliest"
                    /\ fetchState'[c][p] \in {"valid", "latest"} =>
                          position'[c][p] >= committed'[g][p]
  BY DEF NotBehind, Seekers
<1>0. g \in Groups
  <2>1. pc'[c] # "down"
    BY OnlyWorkersAssignedStep DEF OnlyWorkersAssigned
  <2> QED
    BY <2>1, TypeStep
<1>1. CASE ReceiveAssignment(c)
  <2>1. /\ groupId[c] = g /\ UNCHANGED owner /\ assigned'[c] = {q \in Partitions : owner[g][q] = c}
        /\ fetchState'[c][p] \in {"lookup", "earliest"}
        /\ fetchState'[c][p] = "earliest" => c \in FromBeginning
    BY <1>1 DEF ReceiveAssignment, brokerVars, groupVars
  <2>2. c \notin FromBeginning
    <3>1. c \in FromBeginning => c \in Seekers(g)
      BY <1>0, <2>1, ConsumerAssumption DEF Seekers, GroupAsConfigured
    <3> QED
      BY <3>1
  <2> QED
    BY <2>1, <2>2
<1>2. CASE ~ReceiveAssignment(c)
  <2>1. /\ p \in assigned[c] /\ memberGen'[c] = memberGen[c] /\ groupId[c] = g
        /\ fetchState'[c][p] = "earliest" => fetchState[c][p] = "earliest"
    BY <1>2, AssignedByAnswer
  <2>2. memberGen[c] \in Nat /\ memberGen[c] <= generation[g]
    BY <2>1 DEF OnlyWorkersAssigned, GenerationsPast
  <2>3. Accepts(g, c, memberGen[c]) /\ owner'[g] = owner[g]
    <3>1. c \in members'[g] /\ memberGen[c] = generation'[g]
      BY <2>1 DEF Accepts
    <3> QED
      BY <1>0, <2>2, <3>1, AcceptedBefore, ZenonT(30) DEF Accepts
  <2>4. /\ owner[g][p] = c /\ fetchState[c][p] # "earliest"
        /\ fetchState[c][p] \in {"valid", "latest"} => position[c][p] >= committed[g][p]
    <3>1. p \in assigned[c] /\ Seekers(groupId[c]) = {} /\ Accepts(groupId[c], c, memberGen[c])
      BY <2>1, <2>3
    <3> QED
      BY <2>1, <3>1 DEF NotBehind
  <2>5. CASE committed'[g][p] # committed[g][p]
    <3>1. PICK d \in Consumers :
             owner[g][p] = d /\ (p \in assigned'[d] => position'[d][p] >= committed'[g][p])
      BY <1>0, <2>5, MovedByOwner
    <3> QED
      BY <2>1, <2>3, <2>4, <3>1
  <2>6. CASE committed'[g][p] = committed[g][p]
    <3>1. CASE fetchState[c][p] \in {"valid", "latest"}
      <4>1. position'[c][p] >= position[c][p] /\ position[c][p] >= committed[g][p]
        BY <2>1, <2>4, <3>1, PositionGrows
      <4>2. position'[c][p] \in Nat /\ position[c][p] \in Nat /\ committed[g][p] \in Nat \cup {-1}
        BY <1>0, TypeStep
      <4> QED
        BY <2>1, <2>3, <2>4, <2>6, <4>1, <4>2
    <3>2. CASE fetchState[c][p] = "lookup"
      <4>1. fetchState'[c][p] # "lookup" => LookUpPosition(c, p)
        BY <2>1, <3>2, LookUpEnds
      <4>2. LookUpPosition(c, p) => position'[c][p] >= committed[g][p]
        BY <1>0, <2>1 DEF LookUpPosition, MoveTo
      <4> QED
        BY <2>1, <2>3, <2>4, <2>6, <4>1, <4>2
    <3> QED
      BY <2>4, <3>1, <3>2 DEF FetchStates
  <2> QED
    BY <2>5, <2>6
<1> QED
  BY <1>1, <1>2

(* A member acts for its group only within the generation that owns the       *)
(* partition, and in a group without --from-beginning consumers neither the  *)
(* owner's position nor its request on the wire is behind the tracked offset.*)
THEOREM FencedInvariant == Spec => []FencedInv
<1>1. Init => FencedInv
  <2> SUFFICES ASSUME Init PROVE FencedInv
    OBVIOUS
  <2>1. TypeOK
    BY TypeInit
  <2>2. OnlyWorkersAssigned /\ GroupAsConfigured /\ IdleGeneration /\ LatestOvertaken /\ NotBehind
    BY DEF Init, OnlyWorkersAssigned, GroupAsConfigured, IdleGeneration, LatestOvertaken, NotBehind
  <2>3. GenerationsPast /\ QuietJoin
    BY DEF Init, GenerationsPast, QuietJoin
  <2>4. PositionPastRequest /\ RequestNotBehind
    BY NoRequestEmpty DEF Init, PositionPastRequest, RequestNotBehind, NoOffset
  <2> QED
    BY <2>1, <2>2, <2>3, <2>4 DEF FencedInv
<1>2. FencedInv /\ [Next]_vars => FencedInv'
  <2> SUFFICES ASSUME FencedInv, [Next]_vars PROVE FencedInv'
    OBVIOUS
  <2>1. TypeOK' /\ OnlyWorkersAssigned'
    BY TypeStep, OnlyWorkersAssignedStep DEF FencedInv
  <2> QED
    BY <2>1, GroupAsConfiguredStep, GenerationsPastStep, QuietJoinStep, IdleGenerationStep,
       LatestOvertakenStep, PositionPastRequestStep, NotBehindStep, RequestNotBehindStep
    DEF FencedInv
<1> QED
  BY <1>1, <1>2, PTL DEF Spec

(* In a group without --from-beginning consumers a tracked offset never goes *)
(* back, whatever crashes, evictions and late commits happen: only the owner *)
(* of a partition in the current generation is listened to, and neither its  *)
(* position nor its request is behind the offset (FencedInv).                *)
THEOREM OffsetsGrow == Spec => TrackedOffsetsGrow
<1>1. FencedInv /\ [Next]_vars =>
         [\A g \in Groups, p \in Partitions :
             Seekers(g) = {} => committed'[g][p] >= committed[g][p]]_vars
  <2> SUFFICES ASSUME FencedInv, [Next]_vars, NEW g \in Groups, NEW p \in Partitions,
                      Seekers(g) = {}
               PROVE  committed'[g][p] >= committed[g][p]
    OBVIOUS
  <2>1. CASE committed'[g][p] # committed[g][p]
    BY <2>1, MovedByOwner
  <2>2. CASE committed'[g][p] = committed[g][p]
    BY <2>2 DEF FencedInv, TypeOK, BrokerTypeOK, NoOffset
  <2> QED
    BY <2>1, <2>2
<1> QED
  BY <1>1, FencedInvariant, PTL DEF Spec, TrackedOffsetsGrow
=============================================================================
