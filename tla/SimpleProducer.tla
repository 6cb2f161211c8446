--------------------------- MODULE SimpleProducer ---------------------------
(***************************************************************************)
(* kafka-examples SimpleProducer.java: one thread sends Total consecutive  *)
(* keys with acks=1 and drops the future that KafkaProducer.send returns.  *)
(* The client library (record accumulator, sender thread) and the broker   *)
(* (a leader and its replicated prefix per partition) are external: they   *)
(* are modelled from the configuration this program gives them, acks=1 and *)
(* the default of no retries.                                              *)
(***************************************************************************)
EXTENDS Naturals, FiniteSets, SequencesExt

CONSTANTS
    Total,          \* number of events (100000 in the code)
    Partitions,     \* partitions of the topic ufo_sightings
    PartitionOf,    \* the default partitioner: the partition of each key
    BufferMax,      \* records the accumulator holds before send() blocks
    InFlightMax,    \* batches of a partition the sender may have outstanding
    FailoverMax     \* bound on the number of leader changes

ASSUME ProducerAssumption ==
    /\ Total \in Nat /\ BufferMax \in Nat \ {0} /\ InFlightMax \in Nat \ {0}
    /\ FailoverMax \in Nat
    /\ PartitionOf \in [0 .. Total - 1 -> Partitions]

Keys == 0 .. Total - 1

VARIABLES
    pc,          \* "sending" (the for loop), "closing" (the implicit close), "done", "crashed"
    ufoId,       \* the loop counter, which is also the next key
    buffer,      \* per partition, the keys the accumulator holds
    inflight,    \* per partition, the batches sent and not yet answered
    log,         \* per partition, the keys in the leader's log
    replicated,  \* per partition, the length of the prefix a follower has
    lost,        \* history: keys refused by send, failed in flight or truncated
    failovers    \* history: leader changes so far

vars == <<pc, ufoId, buffer, inflight, log, replicated, lost, failovers>>

Empty == [p \in Partitions |-> <<>>]

Init ==
    /\ pc = "sending" /\ ufoId = 0
    /\ buffer = Empty /\ inflight = Empty /\ log = Empty
    /\ replicated = [p \in Partitions |-> 0]
    /\ lost = {} /\ failovers = 0

Buffered == FoldSet(LAMBDA p, n : n + Len(buffer[p]), 0, Partitions)

-----------------------------------------------------------------------------
(* The program. *)

(* producer.send(data) hands the record to the accumulator and returns. *)
Send ==
    /\ pc = "sending" /\ ufoId < Total
    /\ Buffered < BufferMax
    /\ buffer' = [buffer EXCEPT ![PartitionOf[ufoId]] = Append(@, ufoId)]
    /\ ufoId' = ufoId + 1
    /\ UNCHANGED <<pc, inflight, log, replicated, lost, failovers>>

\* Mutant: the loop bound is <= and the last send fails.
SendFails_OffByOne ==
    /\ pc = "sending" /\ ufoId <= Total
    /\ ufoId' = ufoId + 1
    /\ UNCHANGED <<pc, buffer, inflight, log, replicated, lost, failovers>>

\* Mutant: a send that reports a failure has queued the record all the same.
SendFails_Queued ==
    /\ pc = "sending" /\ ufoId < Total
    /\ lost' = lost \cup {ufoId}
    /\ buffer' = [buffer EXCEPT ![PartitionOf[ufoId]] = Append(@, ufoId)]
    /\ ufoId' = ufoId + 1
    /\ UNCHANGED <<pc, inflight, log, replicated, failovers>>

(* send() fails: no memory or no metadata within max.block.ms.  The error is *)
(* printed or left in the future nobody reads; ufoId++ has happened already. *)
SendFails ==
    /\ pc = "sending" /\ ufoId < Total
    /\ lost' = lost \cup {ufoId}
    /\ ufoId' = ufoId + 1
    /\ UNCHANGED <<pc, buffer, inflight, log, replicated, failovers>>

(* The end of the try-with-resources block calls close(), which flushes. *)
BeginClose ==
    /\ pc = "sending" /\ ufoId = Total
    /\ pc' = "closing"
    /\ UNCHANGED <<ufoId, buffer, inflight, log, replicated, lost, failovers>>

\* Mutant: main returns without the try-with-resources close.
FinishClose_NoFlush ==
    /\ pc = "closing"
    /\ pc' = "done"
    /\ UNCHANGED <<ufoId, buffer, inflight, log, replicated, lost, failovers>>

FinishClose ==
    /\ pc = "closing"
    /\ buffer = Empty /\ inflight = Empty
    /\ pc' = "done"
    /\ UNCHANGED <<ufoId, buffer, inflight, log, replicated, lost, failovers>>

(* The JVM dies: what is only in client memory is gone.  Requests already on *)
(* the wire may still reach the broker.                                      *)
Crash ==
    /\ pc \in {"sending", "closing"}
    /\ pc' = "crashed"
    /\ lost' = lost \cup UNION {ToSet(buffer[p]) : p \in Partitions}
    /\ buffer' = Empty
    /\ UNCHANGED <<ufoId, inflight, log, replicated, failovers>>

-----------------------------------------------------------------------------
(* The client library's sender thread and the broker (external). *)

\* Mutant: only a full accumulator is drained, so a last small batch waits forever.
Drain_FullOnly(p) ==
    /\ Len(buffer[p]) >= BufferMax /\ Len(inflight[p]) < InFlightMax
    /\ inflight' = [inflight EXCEPT ![p] = Append(@, buffer[p])]
    /\ buffer' = [buffer EXCEPT ![p] = <<>>]
    /\ UNCHANGED <<pc, ufoId, log, replicated, lost, failovers>>

(* The sender drains a partition's buffer into one more batch. *)
Drain(p) ==
    /\ buffer[p] # <<>> /\ Len(inflight[p]) < InFlightMax
    /\ inflight' = [inflight EXCEPT ![p] = Append(@, buffer[p])]
    /\ buffer' = [buffer EXCEPT ![p] = <<>>]
    /\ UNCHANGED <<pc, ufoId, log, replicated, lost, failovers>>

(* The leader appends the oldest batch and, with acks=1, answers at once. *)
LeaderAppends(p) ==
    /\ inflight[p] # <<>>
    /\ log' = [log EXCEPT ![p] = @ \o Head(inflight[p])]
    /\ inflight' = [inflight EXCEPT ![p] = Tail(@)]
    /\ UNCHANGED <<pc, ufoId, buffer, replicated, lost, failovers>>

\* Mutant: retries # 0 with several batches in flight.
BatchFails_Retried(p) ==
    /\ inflight[p] # <<>>
    /\ inflight' = [inflight EXCEPT ![p] = Append(Tail(@), Head(@))]
    /\ UNCHANGED <<pc, ufoId, buffer, log, replicated, lost, failovers>>

(* The oldest batch fails; there are no retries and no callback to tell. *)
BatchFails(p) ==
    /\ inflight[p] # <<>>
    /\ lost' = lost \cup ToSet(Head(inflight[p]))
    /\ inflight' = [inflight EXCEPT ![p] = Tail(@)]
    /\ UNCHANGED <<pc, ufoId, buffer, log, replicated, failovers>>

Replicate(p) ==
    /\ replicated[p] < Len(log[p])
    /\ replicated' = [replicated EXCEPT ![p] = @ + 1]
    /\ UNCHANGED <<pc, ufoId, buffer, inflight, log, lost, failovers>>

(* A follower becomes leader: answered records it does not have are lost. *)
LeaderFails(p) ==
    /\ failovers < FailoverMax
    /\ failovers' = failovers + 1
    /\ log' = [log EXCEPT ![p] = SubSeq(@, 1, replicated[p])]
    /\ lost' = lost \cup ToSet(SubSeq(log[p], replicated[p] + 1, Len(log[p])))
    /\ UNCHANGED <<pc, ufoId, buffer, inflight, replicated>>

Program == Send \/ SendFails \/ BeginClose \/ FinishClose

Client == \E p \in Partitions : Drain(p) \/ LeaderAppends(p) \/ BatchFails(p)

Next ==
    \/ Program
    \/ Crash
    \/ Client
    \/ \E p \in Partitions : Replicate(p) \/ LeaderFails(p)

(* The JVM schedules the main thread and the sender thread; nothing makes a *)
(* crash, a failover or a replication happen.                               *)
Spec ==
    /\ Init /\ [][Next]_vars
    /\ WF_vars(Program)
    /\ \A p \in Partitions : WF_vars(Drain(p)) /\ WF_vars(LeaderAppends(p) \/ BatchFails(p))

-----------------------------------------------------------------------------
TypeOK ==
    /\ pc \in {"sending", "closing", "done", "crashed"}
    /\ ufoId \in 0 .. Total
    /\ buffer \in [Partitions -> Seq(Keys)]
    /\ inflight \in [Partitions -> Seq(Seq(Keys))]
    /\ log \in [Partitions -> Seq(Keys)]
    /\ replicated \in [Partitions -> Nat]
    /\ lost \subseteq Keys
    /\ failovers \in 0 .. FailoverMax

(* All that is on its way to partition p, oldest first. *)
Pipeline(p) == log[p] \o FlattenSeq(inflight[p]) \o buffer[p]

(* Per partition the events stay in the order the loop generated them and    *)
(* none is there twice, from the log through the batches in flight to the    *)
(* accumulator, whatever fails on the way.                                   *)
EventsInOrder ==
    /\ TypeOK
    /\ \A p \in Partitions :
          LET s == Pipeline(p)
          IN  \A i, j \in DOMAIN s : i < j => s[i] < s[j]

(* Every key the loop has passed is in exactly one place: lost, or on its    *)
(* way to (or in) the log of its own partition.  Nothing vanishes untold and *)
(* nothing counted as lost shows up in a log.                                *)
EveryEventAccounted ==
    \A k \in Keys :
        Cardinality({p \in Partitions : k \in ToSet(Pipeline(p))})
          + (IF k \in lost THEN 1 ELSE 0) = (IF k < ufoId THEN 1 ELSE 0)

(* When main returns normally nothing waits in the client any more: every    *)
(* event is in its log or was refused, failed or truncated.                  *)
CloseFlushes ==
    pc = "done" => lost \cup UNION {ToSet(log[p]) : p \in Partitions} = Keys

(* Unless the JVM dies, the program ends: close() does not hang on a batch.  *)
Terminates == <>(pc \in {"done", "crashed"})
=============================================================================
