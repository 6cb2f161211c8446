------------------------ MODULE SimpleProducerProofs ------------------------
(***************************************************************************)
(* Theorems about SimpleProducer, for any number of events, partitions,    *)
(* batches in flight and leader changes: its types, that close leaves      *)
(* nothing behind, that the events of a partition stay in order, and that  *)
(* every event is accounted for.                                           *)
(***************************************************************************)
EXTENDS SimpleProducer, SequenceTheorems, FiniteSetTheorems, TLAPS

(* What the elements of the sequences of the model are. *)
LEMMA ElementsIn == ASSUME NEW S, NEW s \in Seq(S) PROVE ToSet(s) \subseteq S
BY LenProperties, ElementOfSeq DEF ToSet

LEMMA ElementsOfConcat ==
    ASSUME NEW S, NEW s \in Seq(S), NEW t \in Seq(S)
    PROVE  s \o t \in Seq(S) /\ ToSet(s \o t) = ToSet(s) \cup ToSet(t)
<1>1. Range(s \o t) = Range(s) \cup Range(t)
  BY RangeConcatenation
<1> QED
  BY <1>1, ConcatProperties DEF ToSet, Range

LEMMA ElementsOfAppend ==
    ASSUME NEW S, NEW s \in Seq(S), NEW e \in S
    PROVE  Append(s, e) \in Seq(S) /\ ToSet(Append(s, e)) = ToSet(s) \cup {e}
<1>1. <<e>> \in Seq(S) /\ ToSet(<<e>>) = {e}
  BY DEF ToSet
<1>2. Append(s, e) = s \o <<e>>
  BY AppendIsConcat
<1>3. ASSUME NEW t \in Seq(S) PROVE s \o t \in Seq(S) /\ ToSet(s \o t) = ToSet(s) \cup ToSet(t)
  BY ElementsOfConcat
<1> HIDE DEF ToSet
<1> QED
  BY <1>1, <1>2, <1>3, Zenon

LEMMA ElementsOfTail ==
    ASSUME NEW S, NEW s \in Seq(S), s # <<>>
    PROVE  /\ Head(s) \in S /\ Tail(s) \in Seq(S)
           /\ ToSet(s) = {Head(s)} \cup ToSet(Tail(s))
<1>1. /\ Head(s) \in S /\ Tail(s) \in Seq(S) /\ Len(Tail(s)) = Len(s) - 1
      /\ \A i \in 1 .. Len(Tail(s)) : Tail(s)[i] = s[i + 1]
      /\ Len(s) \in Nat \ {0} /\ Head(s) = s[1]
  BY HeadTailProperties, EmptySeq
<1>2. DOMAIN s = 1 .. Len(s) /\ DOMAIN Tail(s) = 1 .. Len(Tail(s))
  BY <1>1, LenProperties
<1>3. ASSUME NEW e \in ToSet(s) PROVE e \in {Head(s)} \cup ToSet(Tail(s))
  <2>1. PICK i \in 1 .. Len(s) : e = s[i]
    BY <1>2 DEF ToSet
  <2>2. CASE i = 1
    BY <1>1, <2>1, <2>2
  <2>3. CASE i # 1
    <3>1. i - 1 \in 1 .. Len(Tail(s)) /\ Tail(s)[i - 1] = e
      BY <1>1, <2>1, <2>3
    <3> QED
      BY <1>2, <3>1, Zenon DEF ToSet
  <2> QED
    BY <2>2, <2>3
<1>4. ASSUME NEW e \in ToSet(Tail(s)) PROVE e \in ToSet(s)
  <2>1. PICK i \in 1 .. Len(Tail(s)) : e = Tail(s)[i]
    BY <1>2, <1>4 DEF ToSet
  <2>2. i + 1 \in 1 .. Len(s) /\ e = s[i + 1]
    BY <1>1, <2>1
  <2> QED
    BY <1>2, <2>2 DEF ToSet
<1>5. Head(s) \in ToSet(s)
  BY <1>1, <1>2 DEF ToSet
<1> QED
  BY <1>1, <1>3, <1>4, <1>5

LEMMA PartsJoin ==
    ASSUME NEW S, NEW s \in Seq(S), NEW n \in Nat, n <= Len(s)
    PROVE  /\ SubSeq(s, 1, n) \in Seq(S) /\ SubSeq(s, n + 1, Len(s)) \in Seq(S)
           /\ s = SubSeq(s, 1, n) \o SubSeq(s, n + 1, Len(s))
<1>1. Len(s) \in Nat /\ \A i \in 1 .. Len(s) : s[i] \in S
  BY LenProperties, ElementOfSeq
<1>2. SubSeq(s, 1, n) \in Seq(S) /\ SubSeq(s, n + 1, Len(s)) \in Seq(S)
  BY <1>1, SubSeqProperties
<1>3. SubSeq(s, 1, Len(s)) = s
  BY SubSeqFull
<1>4. 1 \in 1 .. Len(s) + 1 /\ n \in 1 - 1 .. Len(s) /\ Len(s) \in n .. Len(s)
  BY <1>1
<1> QED
  BY <1>2, <1>3, <1>4, ConcatAdjacentSubSeq, Zenon

LEMMA ElementsOfParts ==
    ASSUME NEW S, NEW s \in Seq(S), NEW n \in Nat, n <= Len(s)
    PROVE  /\ SubSeq(s, 1, n) \in Seq(S) /\ Len(SubSeq(s, 1, n)) = n
           /\ \A i \in 1 .. n : SubSeq(s, 1, n)[i] = s[i]
           /\ ToSet(s) = ToSet(SubSeq(s, 1, n)) \cup ToSet(SubSeq(s, n + 1, Len(s)))
<1> DEFINE front == SubSeq(s, 1, n)
           back == SubSeq(s, n + 1, Len(s))
<1>1. Len(s) \in Nat /\ \A i \in 1 .. Len(s) : s[i] \in S
  BY LenProperties, ElementOfSeq
<1>2. /\ front \in Seq(S) /\ Len(front) = n
      /\ \A i \in 1 .. n : front[i] = s[i]
  BY <1>1, SubSeqProperties
<1>3. back \in Seq(S)
  BY <1>1, SubSeqProperties
<1>4. front \o back = s
  BY PartsJoin
<1> HIDE DEF front, back
<1>5. ToSet(front \o back) = ToSet(front) \cup ToSet(back)
  BY <1>2, <1>3, ElementsOfConcat
<1> QED
  BY <1>2, <1>4, <1>5 DEF front, back

-----------------------------------------------------------------------------
(* The types; what is replicated of a log is no longer than the log.         *)
LogsOK == TypeOK /\ \A p \in Partitions : replicated[p] <= Len(log[p])

LEMMA LogsInit == Init => LogsOK
BY ProducerAssumption DEF Init, LogsOK, TypeOK, Empty, Keys

LEMMA LogsStep ==
    ASSUME LogsOK, [Next]_vars
    PROVE  LogsOK'
<1> USE DEF LogsOK, TypeOK, Keys
<1>0. /\ Total \in Nat /\ FailoverMax \in Nat
      /\ \A p \in Partitions : /\ log[p] \in Seq(Keys) /\ buffer[p] \in Seq(Keys)
                               /\ inflight[p] \in Seq(Seq(Keys)) /\ replicated[p] \in Nat
                               /\ Len(log[p]) \in Nat
  BY ProducerAssumption, LenProperties
<1>1. CASE Send
  <2>1. ufoId \in Keys /\ PartitionOf[ufoId] \in Partitions
    BY <1>1, ProducerAssumption DEF Send
  <2>2. Append(buffer[PartitionOf[ufoId]], ufoId) \in Seq(Keys)
    BY <1>0, <2>1, AppendProperties
  <2> QED
    BY <1>0, <1>1, <2>1, <2>2 DEF Send
<1>2. CASE SendFails
  BY <1>0, <1>2 DEF SendFails
<1>3. CASE BeginClose
  BY <1>3 DEF BeginClose
<1>4. CASE FinishClose
  BY <1>4 DEF FinishClose
<1>5. CASE Crash
  <2>1. \A p \in Partitions : ToSet(buffer[p]) \subseteq Keys
    BY <1>0, ElementsIn
  <2>2. buffer' \in [Partitions -> Seq(Keys)]
    BY <1>5, EmptySeq DEF Crash, Empty
  <2>3. lost' \subseteq Keys
    BY <1>5, <2>1 DEF Crash
  <2> QED
    BY <1>5, <2>2, <2>3 DEF Crash
<1>6. ASSUME NEW p \in Partitions, Drain(p) PROVE LogsOK'
  <2>1. Append(inflight[p], buffer[p]) \in Seq(Seq(Keys)) /\ <<>> \in Seq(Keys)
    BY <1>0, AppendProperties, EmptySeq
  <2> QED
    BY <1>0, <1>6, <2>1 DEF Drain
<1>7. ASSUME NEW p \in Partitions, LeaderAppends(p) PROVE LogsOK'
  <2>1. Head(inflight[p]) \in Seq(Keys) /\ Tail(inflight[p]) \in Seq(Seq(Keys))
    BY <1>0, <1>7, HeadTailProperties DEF LeaderAppends
  <2>2. /\ log[p] \o Head(inflight[p]) \in Seq(Keys)
        /\ Len(log[p] \o Head(inflight[p])) = Len(log[p]) + Len(Head(inflight[p]))
        /\ Len(Head(inflight[p])) \in Nat
    BY <1>0, <2>1, ConcatProperties, LenProperties
  <2> DEFINE longer == log[p] \o Head(inflight[p])
  <2>3. /\ log' = [log EXCEPT ![p] = longer] /\ inflight' = [inflight EXCEPT ![p] = Tail(@)]
        /\ UNCHANGED <<pc, ufoId, buffer, replicated, lost, failovers>>
    BY <1>7 DEF LeaderAppends
  <2>4. longer \in Seq(Keys) /\ Len(longer) >= Len(log[p]) /\ Len(longer) \in Nat
    BY <1>0, <2>2
  <2> HIDE DEF longer
  <2>5. log' \in [Partitions -> Seq(Keys)] /\ \A q \in Partitions : replicated[q] <= Len(log'[q])
    BY <1>0, <2>3, <2>4
  <2>6. inflight' \in [Partitions -> Seq(Seq(Keys))]
    BY <2>1, <2>3
  <2> QED
    BY <2>3, <2>5, <2>6
<1>8. ASSUME NEW p \in Partitions, BatchFails(p) PROVE LogsOK'
  <2>1. Head(inflight[p]) \in Seq(Keys) /\ Tail(inflight[p]) \in Seq(Seq(Keys))
    BY <1>0, <1>8, HeadTailProperties DEF BatchFails
  <2>2. ToSet(Head(inflight[p])) \subseteq Keys
    BY <2>1, ElementsIn
  <2> QED
    BY <1>0, <1>8, <2>1, <2>2 DEF BatchFails
<1>9. ASSUME NEW p \in Partitions, Replicate(p) PROVE LogsOK'
  BY <1>0, <1>9 DEF Replicate
<1>10. ASSUME NEW p \in Partitions, LeaderFails(p) PROVE LogsOK'
  <2> DEFINE kept == SubSeq(log[p], 1, replicated[p])
             cut == SubSeq(log[p], replicated[p] + 1, Len(log[p]))
  <2>1. kept \in Seq(Keys) /\ Len(kept) = replicated[p] /\ ToSet(cut) \subseteq ToSet(log[p])
    BY <1>0, ElementsOfParts
  <2>2. ToSet(log[p]) \subseteq Keys
    BY <1>0, ElementsIn
  <2>3. log' = [log EXCEPT ![p] = kept] /\ lost' = lost \cup ToSet(cut)
    BY <1>10 DEF LeaderFails
  <2>4. failovers' \in 0 .. FailoverMax /\ UNCHANGED <<pc, ufoId, buffer, inflight, replicated>>
    BY <1>0, <1>10 DEF LeaderFails
  <2> HIDE DEF kept, cut
  <2>5. log' \in [Partitions -> Seq(Keys)] /\ \A q \in Partitions : replicated[q] <= Len(log'[q])
    BY <1>0, <2>1, <2>3
  <2>6. lost' \subseteq Keys
    BY <2>1, <2>2, <2>3
  <2> QED
    BY <2>4, <2>5, <2>6
<1>11. CASE UNCHANGED vars
  BY <1>11 DEF vars
<1> QED
  BY <1>1, <1>2, <1>3, <1>4, <1>5, <1>6, <1>7, <1>8, <1>9, <1>10, <1>11 DEF Next, Program, Client

(* Type correctness of the producer, its client library and the broker. *)
THEOREM TypeCorrect == Spec => []TypeOK
<1>1. LogsOK => TypeOK
  BY DEF LogsOK
<1> QED
  BY <1>1, LogsInit, LogsStep, PTL DEF Spec

-----------------------------------------------------------------------------
(* What is on its way to partition p, or there. *)
Held(p) == ToSet(log[p]) \cup ToSet(buffer[p]) \cup UNION {ToSet(batch) : batch \in ToSet(inflight[p])}

(* No event that the loop has passed vanishes untold, and close returns when *)
(* the client is empty.                                                      *)
ToldInv ==
    /\ LogsOK
    /\ \A k \in 0 .. ufoId - 1 : k \in lost \/ \E p \in Partitions : k \in Held(p)
    /\ pc \in {"closing", "done"} => ufoId = Total
    /\ pc = "done" => buffer = Empty /\ inflight = Empty

LEMMA ToldStep ==
    ASSUME ToldInv, [Next]_vars
    PROVE  ToldInv'
<1>0. /\ Total \in Nat /\ ufoId \in 0 .. Total /\ LogsOK' /\ Keys = 0 .. Total - 1
      /\ DOMAIN log = Partitions /\ DOMAIN buffer = Partitions /\ DOMAIN inflight = Partitions
      /\ \A p \in Partitions : /\ log[p] \in Seq(Keys) /\ buffer[p] \in Seq(Keys)
                               /\ inflight[p] \in Seq(Seq(Keys)) /\ replicated[p] \in Nat
                               /\ replicated[p] <= Len(log[p])
  BY LogsStep, ProducerAssumption DEF ToldInv, LogsOK, TypeOK, Keys
(* The loop keeps the keys it has passed, and adds the one it sends. *)
<1>1. ASSUME ufoId' = ufoId, UNCHANGED pc, pc = "done" => UNCHANGED <<buffer, inflight>>,
             lost \subseteq lost',
             \A p \in Partitions : \A k \in Held(p) : k \in Held(p)' \/ k \in lost'
      PROVE  ToldInv'
  BY <1>0, <1>1 DEF ToldInv, Empty
<1>2. CASE Send
  <2>1. ufoId < Total /\ ufoId \in Keys /\ PartitionOf[ufoId] \in Partitions /\ ufoId' = ufoId + 1
    <3>1. ufoId < Total /\ ufoId' = ufoId + 1
      BY <1>2 DEF Send
    <3>2. Total \in Nat /\ ufoId \in 0 .. Total /\ Keys = 0 .. Total - 1
      BY <1>0
    <3>3. ufoId \in 0 .. Total - 1
      BY <3>1, <3>2
    <3> QED
      BY <3>1, <3>2, <3>3, ProducerAssumption
  <2> PICK at \in Partitions : at = PartitionOf[ufoId]
    BY <2>1
  <2>2. ToSet(Append(buffer[at], ufoId)) = ToSet(buffer[at]) \cup {ufoId}
    <3>1. \A s \in Seq(Keys), k \in Keys : ToSet(Append(s, k)) = ToSet(s) \cup {k}
      BY ElementsOfAppend
    <3> QED
      BY <1>0, <2>1, <3>1
  <2>3. \A p \in Partitions : Held(p) \subseteq Held(p)'
    BY <1>0, <1>2, <2>1, <2>2 DEF Send, Held
  <2>4. ufoId \in Held(at)'
    BY <1>0, <1>2, <2>1, <2>2 DEF Send, Held
  <2>5. UNCHANGED <<pc, lost>> /\ pc = "sending"
    BY <1>2 DEF Send
  <2>6. \A k \in 0 .. ufoId' - 1 : k = ufoId \/ k \in 0 .. ufoId - 1
    BY <1>0, <2>1
  <2>8. \A k \in 0 .. ufoId' - 1 : k \in lost' \/ \E p \in Partitions : k \in Held(p)'
    BY <2>3, <2>4, <2>5, <2>6 DEF ToldInv
  <2> QED
    BY <1>0, <2>5, <2>8 DEF ToldInv
<1>3. CASE SendFails
  <2>1. \A k \in 0 .. ufoId' - 1 : k = ufoId \/ k \in 0 .. ufoId - 1
    BY <1>0, <1>3 DEF SendFails
  <2>2. \A p \in Partitions : Held(p)' = Held(p)
    BY <1>3 DEF SendFails, Held
  <2> QED
    BY <1>0, <1>3, <2>1, <2>2 DEF SendFails, ToldInv
<1>4. CASE BeginClose
  <2>1. \A p \in Partitions : Held(p)' = Held(p)
    BY <1>4 DEF BeginClose, Held
  <2> QED
    BY <1>0, <1>4, <2>1 DEF BeginClose, ToldInv
<1>5. CASE FinishClose
  <2>1. \A p \in Partitions : Held(p)' = Held(p)
    BY <1>5 DEF FinishClose, Held
  <2>2. /\ UNCHANGED <<ufoId, lost, buffer, inflight>> /\ pc' = "done"
        /\ ufoId = Total /\ buffer = Empty /\ inflight = Empty /\ Empty' = Empty
    BY <1>5 DEF FinishClose, ToldInv, Empty
  <2> QED
    BY <1>0, <2>1, <2>2 DEF ToldInv
<1>6. CASE Crash
  <2>1. \A p \in Partitions : \A k \in Held(p) : k \in Held(p)' \/ k \in lost'
    BY <1>0, <1>6 DEF Crash, Held
  <2> QED
    BY <1>0, <1>6, <2>1 DEF Crash, ToldInv
<1>7. ASSUME NEW p \in Partitions, Drain(p) PROVE ToldInv'
  <2>1. ToSet(Append(inflight[p], buffer[p])) = ToSet(inflight[p]) \cup {buffer[p]}
    <3>1. \A s \in Seq(Seq(Keys)), b \in Seq(Keys) : ToSet(Append(s, b)) = ToSet(s) \cup {b}
      BY ElementsOfAppend
    <3> QED
      BY <1>0, <3>1
  <2>2. \A q \in Partitions : Held(q) \subseteq Held(q)'
    BY <1>0, <1>7, <2>1 DEF Drain, Held
  <2>3. pc # "done"
    BY <1>7 DEF Drain, ToldInv, Empty
  <2> QED
    BY <1>1, <1>7, <2>2, <2>3 DEF Drain
<1>8. ASSUME NEW p \in Partitions, LeaderAppends(p) PROVE ToldInv'
  <2>1. /\ Head(inflight[p]) \in Seq(Keys)
        /\ ToSet(inflight[p]) = {Head(inflight[p])} \cup ToSet(Tail(inflight[p]))
    BY <1>0, <1>8, ElementsOfTail DEF LeaderAppends
  <2>2. ToSet(log[p] \o Head(inflight[p])) = ToSet(log[p]) \cup ToSet(Head(inflight[p]))
    BY <1>0, <2>1, ElementsOfConcat
  <2>3. ASSUME NEW q \in Partitions PROVE Held(q) \subseteq Held(q)'
    <3>1. CASE q = p
      BY <1>0, <1>8, <2>1, <2>2, <3>1 DEF LeaderAppends, Held
    <3>2. CASE q # p
      BY <1>0, <1>8, <3>2 DEF LeaderAppends, Held
    <3> QED
      BY <3>1, <3>2
  <2>4. pc # "done"
    BY <1>8 DEF LeaderAppends, ToldInv, Empty
  <2> QED
    BY <1>1, <1>8, <2>3, <2>4 DEF LeaderAppends
<1>9. ASSUME NEW p \in Partitions, BatchFails(p) PROVE ToldInv'
  <2>1. ToSet(inflight[p]) = {Head(inflight[p])} \cup ToSet(Tail(inflight[p]))
    BY <1>0, <1>9, ElementsOfTail DEF BatchFails
  <2>2. \A q \in Partitions : \A k \in Held(q) : k \in Held(q)' \/ k \in lost'
    BY <1>0, <1>9, <2>1 DEF BatchFails, Held
  <2>3. pc # "done"
    BY <1>9 DEF BatchFails, ToldInv, Empty
  <2> QED
    BY <1>1, <1>9, <2>2, <2>3 DEF BatchFails
<1>10. ASSUME NEW p \in Partitions, Replicate(p) PROVE ToldInv'
  BY <1>1, <1>10 DEF Replicate, Held
<1>11. ASSUME NEW p \in Partitions, LeaderFails(p) PROVE ToldInv'
  <2>1. ToSet(log[p]) = ToSet(SubSeq(log[p], 1, replicated[p]))
                          \cup ToSet(SubSeq(log[p], replicated[p] + 1, Len(log[p])))
    BY <1>0, ElementsOfParts
  <2>2. \A q \in Partitions : \A k \in Held(q) : k \in Held(q)' \/ k \in lost'
    BY <1>0, <1>11, <2>1 DEF LeaderFails, Held
  <2> QED
    BY <1>1, <1>11, <2>2 DEF LeaderFails
<1>12. CASE UNCHANGED vars
  BY <1>0, <1>1, <1>12 DEF vars, Held
<1> QED
  BY <1>2, <1>3, <1>4, <1>5, <1>6, <1>7, <1>8, <1>9, <1>10, <1>11, <1>12
  DEF Next, Program, Client

(* When main returns normally, every event is in a log or was refused,       *)
(* failed or truncated: try-with-resources leaves nothing in the client.     *)
THEOREM CloseLeavesNothing == Spec => []CloseFlushes
<1>1. Init => ToldInv
  BY LogsInit, ProducerAssumption DEF Init, ToldInv
<1>2. ToldInv => CloseFlushes
  <2> SUFFICES ASSUME ToldInv, pc = "done"
               PROVE  lost \cup UNION {ToSet(log[p]) : p \in Partitions} = Keys
    BY DEF CloseFlushes
  <2>1. \A p \in Partitions : Held(p) = ToSet(log[p])
    BY DEF ToldInv, Held, Empty, ToSet
  <2>2. Keys \subseteq lost \cup UNION {ToSet(log[p]) : p \in Partitions}
    BY <2>1 DEF ToldInv, Keys
  <2>3. lost \subseteq Keys /\ \A p \in Partitions : ToSet(log[p]) \subseteq Keys
    BY ElementsIn DEF ToldInv, LogsOK, TypeOK
  <2> QED
    BY <2>2, <2>3
<1> QED
  BY <1>1, <1>2, ToldStep, PTL DEF Spec

-----------------------------------------------------------------------------
(* FlattenSeq, a recursive function over the batches.  Induction is over the *)
(* least batch for which a claim would fail.                                 *)

LEMMA LeastNumber ==
    ASSUME NEW S, S \subseteq Nat, S # {}
    PROVE  \E n \in S : \A m \in S : n <= m
<1> DEFINE less == OpToRel(<, Nat)
<1>1. IsWellFoundedOn(less, Nat)
  BY NatLessThanWellFounded
<1>2. \A i, j \in Nat : i < j => <<i, j>> \in less
  BY DEF OpToRel
<1> HIDE DEF less
<1>3. PICK n \in S : \A m \in S : <<m, n>> \notin less
  BY <1>1, WFMin
<1>4. ASSUME NEW m \in S PROVE n <= m
  <2>1. m \in Nat /\ n \in Nat
    OBVIOUS
  <2>2. ~ (m < n)
    BY <1>2, <1>3, <2>1
  <2> QED
    BY <2>1, <2>2
<1> QED
  BY <1>4

LEMMA InductionOnNat ==
    ASSUME NEW S, 0 \in S, \A n \in Nat : n \in S => n + 1 \in S
    PROVE  Nat \subseteq S
<1> SUFFICES ASSUME Nat \ S # {} PROVE FALSE
  OBVIOUS
<1>1. PICK n \in Nat \ S : \A m \in Nat \ S : n <= m
  BY LeastNumber
<1>2. n # 0 /\ n - 1 \in Nat
  BY <1>1
<1>3. n - 1 \in S
  BY <1>1, <1>2
<1> QED
  BY <1>1, <1>2, <1>3

(* Concatenation under a name, which the provers do not take apart. *)
Join(s, t) == s \o t

LEMMA Associative ==
    ASSUME NEW S, NEW s \in Seq(S), NEW t \in Seq(S), NEW u \in Seq(S)
    PROVE  Join(Join(s, t), u) = Join(s, Join(t, u))
BY ConcatAssociative DEF Join

(* f[i] joins the first i sequences of s. *)
Joins(f, s) ==
    f = [i \in 1 .. Len(s) |-> IF i = 1 THEN s[i] ELSE f[i - 1] \o s[i]]

LEMMA JoinsExist ==
    ASSUME NEW S, NEW s \in Seq(Seq(S))
    PROVE  \E f \in [1 .. Len(s) -> Seq(S)] : Joins(f, s)
<1> DEFINE Up(n) == {f \in [1 .. n -> Seq(S)] :
                        \A i \in 1 .. n : f[i] = IF i = 1 THEN s[i] ELSE f[i - 1] \o s[i]}
           Good == {n \in Nat : n <= Len(s) => Up(n) # {}}
<1>1. Len(s) \in Nat /\ \A i \in 1 .. Len(s) : s[i] \in Seq(S)
  BY LenProperties, ElementOfSeq
<1>2. 0 \in Good
  <2>1. [i \in 1 .. 0 |-> <<>>] \in Up(0)
    OBVIOUS
  <2> QED
    BY <2>1
<1> HIDE DEF Up
<1>3. ASSUME NEW n \in Nat, n \in Good PROVE n + 1 \in Good
  <2> SUFFICES ASSUME n + 1 <= Len(s) PROVE Up(n + 1) # {}
    OBVIOUS
  <2>1. PICK f \in Up(n) : TRUE
    BY <1>1, <1>3
  <2>2. f \in [1 .. n -> Seq(S)]
        /\ \A i \in 1 .. n : f[i] = IF i = 1 THEN s[i] ELSE f[i - 1] \o s[i]
    BY <2>1 DEF Up
  <2> DEFINE last == IF n = 0 THEN s[n + 1] ELSE f[n] \o s[n + 1]
             g == [i \in 1 .. n + 1 |-> IF i = n + 1 THEN last ELSE f[i]]
  <2>3. s[n + 1] \in Seq(S)
    BY <1>1
  <2>4. last \in Seq(S)
    <3>1. CASE n = 0
      BY <2>3, <3>1
    <3>2. CASE n # 0
      <4>1. f[n] \in Seq(S)
        BY <2>2, <3>2
      <4> QED
        BY <2>3, <3>2, <4>1, ConcatProperties
    <3> QED
      BY <3>1, <3>2
  <2> HIDE DEF last
  <2>5. g \in [1 .. n + 1 -> Seq(S)]
    BY <2>2, <2>4
  <2>6. ASSUME NEW i \in 1 .. n + 1
        PROVE  g[i] = IF i = 1 THEN s[i] ELSE g[i - 1] \o s[i]
    <3>1. CASE i = n + 1 /\ n = 0
      BY <3>1 DEF last
    <3>2. CASE i = n + 1 /\ n # 0
      <4>1. g[i] = last /\ g[i - 1] = f[n] /\ i # 1 /\ i = n + 1
        BY <3>2
      <4> QED
        BY <3>2, <4>1 DEF last
    <3>3. CASE i # n + 1
      <4>1. i \in 1 .. n /\ g[i] = f[i] /\ (i # 1 => g[i - 1] = f[i - 1])
        BY <3>3
      <4> QED
        BY <2>2, <4>1
    <3> QED
      BY <3>1, <3>2, <3>3
  <2> HIDE DEF g
  <2>7. g \in Up(n + 1)
    BY <2>5, <2>6 DEF Up
  <2> QED
    BY <2>7
<1>4. Len(s) \in Good
  <2> HIDE DEF Good
  <2>1. Nat \subseteq Good
    BY <1>2, <1>3, InductionOnNat
  <2> QED
    BY <1>1, <2>1 DEF Good
<1>5. PICK f \in Up(Len(s)) : TRUE
  <2>1. Len(s) <= Len(s)
    BY <1>1
  <2> QED
    BY <1>4, <2>1
<1>6. f \in [1 .. Len(s) -> Seq(S)] /\ Joins(f, s)
  BY <1>5 DEF Joins, Up
<1> QED
  BY <1>6

LEMMA JoinsUnique ==
    ASSUME NEW S, NEW s \in Seq(Seq(S)), NEW f, NEW g, Joins(f, s), Joins(g, s)
    PROVE  f = g
<1> DEFINE Good == {n \in Nat : n \in 1 .. Len(s) => f[n] = g[n]}
<1>1. Len(s) \in Nat
  BY LenProperties
<1>2. \A i \in 1 .. Len(s) : /\ f[i] = IF i = 1 THEN s[i] ELSE f[i - 1] \o s[i]
                             /\ g[i] = IF i = 1 THEN s[i] ELSE g[i - 1] \o s[i]
  BY DEF Joins
<1>3. 0 \in Good
  OBVIOUS
<1>4. ASSUME NEW n \in Nat, n \in Good PROVE n + 1 \in Good
  <2> SUFFICES ASSUME n + 1 \in 1 .. Len(s) PROVE f[n + 1] = g[n + 1]
    OBVIOUS
  <2>1. CASE n = 0
    <3>1. n + 1 = 1
      BY <2>1
    <3> QED
      BY <1>2, <3>1
  <2>2. CASE n # 0
    <3>1. n \in 1 .. Len(s) /\ n + 1 # 1 /\ (n + 1) - 1 = n
      BY <1>1, <2>2
    <3>2. f[n] = g[n]
      BY <1>4, <3>1
    <3> DEFINE m == n + 1
    <3>3. m \in 1 .. Len(s) /\ m # 1 /\ m - 1 = n
      BY <3>1
    <3> HIDE DEF m
    <3>4. f[m] = f[n] \o s[m] /\ g[m] = g[n] \o s[m]
      BY <1>2, <3>3
    <3> QED
      BY <3>2, <3>4 DEF m
  <2> QED
    BY <2>1, <2>2
<1>5. \A i \in 1 .. Len(s) : f[i] = g[i]
  <2> HIDE DEF Good
  <2>1. Nat \subseteq Good
    BY <1>3, <1>4, InductionOnNat
  <2> QED
    BY <1>1, <2>1 DEF Good
<1>6. /\ f = [i \in 1 .. Len(s) |-> f[i]]
      /\ g = [i \in 1 .. Len(s) |-> g[i]]
  <2>1. f = [i \in 1 .. Len(s) |-> IF i = 1 THEN s[i] ELSE f[i - 1] \o s[i]]
    BY DEF Joins
  <2>2. g = [i \in 1 .. Len(s) |-> IF i = 1 THEN s[i] ELSE g[i - 1] \o s[i]]
    BY DEF Joins
  <2> QED
    BY <1>2, <2>1, <2>2, Zenon
<1> QED
  BY <1>5, <1>6

(* Any function that joins gives the result. *)
LEMMA FlattenIs ==
    ASSUME NEW S, NEW s \in Seq(Seq(S)), NEW f, Joins(f, s), s # <<>>
    PROVE  FlattenSeq(s) = f[Len(s)]
<1> DEFINE Rec(g) == g = [i \in 1 .. Len(s) |-> IF i = 1 THEN s[i] ELSE g[i - 1] \o s[i]]
           flatten == CHOOSE g : Rec(g)
<1>1. Len(s) # 0
  BY EmptySeq
<1>2. FlattenSeq(s) = flatten[Len(s)]
  BY <1>1 DEF FlattenSeq
<1>3. Rec(f)
  BY Zenon DEF Joins
<1> HIDE DEF Rec
<1>4. Rec(flatten)
  BY <1>3, Zenon
<1>5. Joins(flatten, s)
  BY <1>4, Zenon DEF Joins, Rec
<1> HIDE DEF flatten
<1>6. flatten = f
  BY <1>5, JoinsUnique
<1> QED
  BY <1>2, <1>6

LEMMA FlattenType ==
    ASSUME NEW S, NEW s \in Seq(Seq(S))
    PROVE  FlattenSeq(s) \in Seq(S) /\ FlattenSeq(<<>>) = <<>>
<1>1. FlattenSeq(<<>>) = <<>>
  BY EmptySeq DEF FlattenSeq
<1>2. CASE s = <<>>
  BY <1>1, <1>2, EmptySeq
<1>3. CASE s # <<>>
  <2>1. PICK f \in [1 .. Len(s) -> Seq(S)] : Joins(f, s)
    BY JoinsExist
  <2>2. Len(s) \in 1 .. Len(s)
    BY <1>3, EmptySeq
  <2>3. f[Len(s)] \in Seq(S)
    BY <2>1, <2>2
  <2>4. FlattenSeq(s) = f[Len(s)]
    BY <1>3, <2>1, FlattenIs
  <2> QED
    BY <1>1, <2>3, <2>4, Zenon
<1> QED
  BY <1>2, <1>3

(* A batch at the end comes last. *)
LEMMA FlattenAppend ==
    ASSUME NEW S, NEW s \in Seq(Seq(S)), NEW b \in Seq(S)
    PROVE  FlattenSeq(Append(s, b)) = FlattenSeq(s) \o b
<1> DEFINE t == Append(s, b)
           n == Len(s)
<1>1. /\ n \in Nat /\ t \in Seq(Seq(S)) /\ Len(t) = n + 1
      /\ t[n + 1] = b /\ \A i \in 1 .. n : t[i] = s[i]
  BY LenProperties, AppendProperties
<1> HIDE DEF t
<1>2. PICK f \in [1 .. n -> Seq(S)] : Joins(f, s)
  BY JoinsExist
<1> DEFINE last == IF n = 0 THEN b ELSE f[n] \o b
           g == [i \in 1 .. n + 1 |-> IF i = n + 1 THEN last ELSE f[i]]
<1>3. \A i \in 1 .. n : f[i] = IF i = 1 THEN s[i] ELSE f[i - 1] \o s[i]
  BY <1>2 DEF Joins
<1> HIDE DEF n
<1>4. ASSUME NEW i \in 1 .. n + 1 PROVE g[i] = IF i = 1 THEN t[i] ELSE g[i - 1] \o t[i]
  <2>1. CASE i = n + 1 /\ n = 0
    BY <1>1, <2>1
  <2>2. CASE i = n + 1 /\ n # 0
    <3>1. g[i] = f[n] \o b /\ g[i - 1] = f[n] /\ i # 1 /\ t[i] = b
      BY <1>1, <2>2
    <3> QED
      BY <3>1
  <2>3. CASE i # n + 1
    <3>1. i \in 1 .. n /\ g[i] = f[i] /\ t[i] = s[i] /\ (i # 1 => g[i - 1] = f[i - 1])
      BY <1>1, <2>3
    <3> QED
      BY <1>3, <3>1
  <2> QED
    BY <2>1, <2>2, <2>3
<1>5. g[n + 1] = last
  BY <1>1
<1>6. g = [i \in 1 .. n + 1 |-> IF i = 1 THEN t[i] ELSE g[i - 1] \o t[i]]
  <2>1. g = [i \in 1 .. n + 1 |-> g[i]]
    OBVIOUS
  <2> HIDE DEF g
  <2> QED
    BY <1>4, <2>1
<1> HIDE DEF g
<1>7. Joins(g, t) /\ t # <<>>
  <2>1. Len(t) # 0 /\ Len(<<>>) = 0
    BY <1>1, EmptySeq
  <2>2. t # <<>>
    BY <2>1
  <2>3. Joins(g, t)
    BY <1>1, <1>6 DEF Joins
  <2> QED
    BY <2>2, <2>3
<1>8. FlattenSeq(t) = last
  BY <1>1, <1>5, <1>7, FlattenIs
<1>9. CASE n = 0
  <2>1. s = <<>>
    BY <1>9, EmptySeq DEF n
  <2> QED
    BY <1>8, <1>9, <2>1, FlattenType, ConcatEmptySeq DEF t
<1>10. CASE n # 0
  <2>1. s # <<>>
    BY <1>10, EmptySeq DEF n
  <2>2. FlattenSeq(s) = f[n]
    BY <1>2, <2>1, FlattenIs DEF n
  <2> QED
    BY <1>8, <1>10, <2>2 DEF t
<1> QED
  BY <1>9, <1>10

(* The oldest batch comes first. *)
LEMMA FlattenTail ==
    ASSUME NEW S, NEW s \in Seq(Seq(S)), s # <<>>
    PROVE  FlattenSeq(s) = Head(s) \o FlattenSeq(Tail(s))
<1> DEFINE h == Head(s)
           t == Tail(s)
           n == Len(t)
<1>1. /\ h \in Seq(S) /\ h = s[1] /\ t \in Seq(Seq(S)) /\ n \in Nat /\ Len(s) = n + 1
      /\ \A i \in 1 .. n : t[i] = s[i + 1] /\ t[i] \in Seq(S)
  <2>1. h \in Seq(S) /\ h = s[1] /\ t \in Seq(Seq(S)) /\ n = Len(s) - 1
        /\ \A i \in 1 .. n : t[i] = s[i + 1]
    BY HeadTailProperties
  <2>2. n \in Nat /\ \A i \in 1 .. n : t[i] \in Seq(S)
    BY <2>1, LenProperties, ElementOfSeq
  <2>3. Len(s) \in Nat
    BY LenProperties
  <2> QED
    BY <2>1, <2>2, <2>3
<1>2. PICK f \in [1 .. n -> Seq(S)] : Joins(f, t)
  BY <1>1, JoinsExist
<1>3. \A i \in 1 .. n : f[i] = IF i = 1 THEN t[i] ELSE f[i - 1] \o t[i]
  BY <1>2 DEF Joins
<1> HIDE DEF h, t
<1> DEFINE g == [i \in 1 .. n + 1 |-> IF i = 1 THEN h ELSE h \o f[i - 1]]
<1> HIDE DEF n
<1>4. ASSUME NEW i \in 1 .. n + 1 PROVE g[i] = IF i = 1 THEN s[i] ELSE g[i - 1] \o s[i]
  <2>1. CASE i = 1
    BY <1>1, <2>1
  <2>2. CASE i # 1
    <3>1. PICK k \in 1 .. n : i = k + 1
      <4>1. i - 1 \in 1 .. n /\ i = (i - 1) + 1
        BY <1>1, <2>2
      <4> QED
        BY <4>1
    <3>0. k \in Int /\ k \in 1 .. n + 1 /\ i - 1 = k
      BY <1>1, <3>1
    <3>2. s[i] = t[k] /\ g[i] = h \o f[k] /\ g[i - 1] = g[k] /\ f[k] \in Seq(S)
      <4>1. s[i] = t[k] /\ f[k] \in Seq(S)
        BY <1>1, <1>2, <3>1
      <4>2. g[i] = h \o f[i - 1]
        BY <2>2
      <4> QED
        BY <3>0, <4>1, <4>2
    <3>3. CASE k = 1
      <4>1. f[k] = t[k] /\ g[k] = h
        BY <1>3, <3>0, <3>3
      <4> QED
        BY <2>2, <3>2, <4>1
    <3>4. CASE k # 1
      <4>1. k - 1 \in 1 .. n
        BY <1>1, <3>4
      <4>2. f[k] = f[k - 1] \o t[k] /\ g[k] = h \o f[k - 1]
        BY <1>3, <3>0, <3>4
      <4>3. f[k - 1] \in Seq(S) /\ t[k] \in Seq(S) /\ h \in Seq(S)
        BY <1>1, <1>2, <4>1
      <4>4. Join(Join(h, f[k - 1]), t[k]) = Join(h, Join(f[k - 1], t[k]))
        BY <4>3, Associative
      <4> QED
        BY <2>2, <3>2, <4>2, <4>4 DEF Join
    <3> QED
      BY <3>3, <3>4
  <2> QED
    BY <2>1, <2>2
<1>5. g[n + 1] = IF n = 0 THEN h ELSE h \o f[n]
  BY <1>1
<1>6. g = [i \in 1 .. n + 1 |-> IF i = 1 THEN s[i] ELSE g[i - 1] \o s[i]]
  <2>1. g = [i \in 1 .. n + 1 |-> g[i]]
    OBVIOUS
  <2> HIDE DEF g
  <2> QED
    BY <1>4, <2>1
<1> HIDE DEF g
<1>7. Joins(g, s)
  BY <1>1, <1>6 DEF Joins
<1>8. FlattenSeq(s) = g[n + 1]
  BY <1>1, <1>7, FlattenIs
<1>9. CASE n = 0
  <2>1. t = <<>>
    BY <1>1, <1>9, EmptySeq DEF n
  <2>2. FlattenSeq(t) = <<>>
    BY <1>1, <2>1, FlattenType
  <2>3. FlattenSeq(s) = h /\ h \o <<>> = h
    BY <1>1, <1>5, <1>8, <1>9, ConcatEmptySeq
  <2>4. FlattenSeq(s) = h \o FlattenSeq(t)
    BY <2>2, <2>3
  <2> QED
    BY <2>4 DEF h, t
<1>10. CASE n # 0
  <2>1. t # <<>>
    BY <1>10, EmptySeq DEF n
  <2>2. FlattenSeq(t) = f[n]
    BY <1>1, <1>2, <2>1, FlattenIs DEF n
  <2> QED
    BY <1>5, <1>8, <1>10, <2>2 DEF h, t
<1> QED
  BY <1>9, <1>10

-----------------------------------------------------------------------------
(* Sequences of keys that ascend, and how they are put together. *)
Ascending(s) == \A i, j \in DOMAIN s : i < j => s[i] < s[j]
Below(s, t)  == \A a \in ToSet(s), b \in ToSet(t) : a < b

LEMMA AscendingConcat ==
    ASSUME NEW s \in Seq(Keys), NEW t \in Seq(Keys)
    PROVE  Ascending(s \o t) <=> Ascending(s) /\ Ascending(t) /\ Below(s, t)
<1> DEFINE st == s \o t
<1>1. /\ Len(s) \in Nat /\ DOMAIN s = 1 .. Len(s) /\ \A i \in 1 .. Len(s) : s[i] \in Keys
      /\ Len(t) \in Nat /\ DOMAIN t = 1 .. Len(t) /\ \A i \in 1 .. Len(t) : t[i] \in Keys
  BY LenProperties, ElementOfSeq
<1>2. /\ st \in Seq(Keys) /\ Len(st) = Len(s) + Len(t)
      /\ \A i \in 1 .. Len(s) + Len(t) : st[i] = IF i <= Len(s) THEN s[i] ELSE t[i - Len(s)]
  BY ConcatProperties
<1>3. DOMAIN st = 1 .. Len(s) + Len(t)
  BY <1>2, LenProperties
<1> HIDE DEF st
<1>4. ASSUME NEW i \in 1 .. Len(s) PROVE i \in 1 .. Len(s) + Len(t) /\ st[i] = s[i]
  BY <1>1, <1>2
<1>5. ASSUME NEW i \in 1 .. Len(t)
      PROVE  Len(s) + i \in 1 .. Len(s) + Len(t) /\ st[Len(s) + i] = t[i]
  <2> DEFINE k == Len(s) + i
  <2>1. k \in 1 .. Len(s) + Len(t) /\ ~ (k <= Len(s)) /\ k - Len(s) = i
    BY <1>1
  <2> HIDE DEF k
  <2>2. st[k] = t[i]
    BY <1>2, <2>1
  <2> QED
    BY <2>1, <2>2 DEF k
<1>6. ASSUME Ascending(st) PROVE Ascending(s) /\ Ascending(t) /\ Below(s, t)
  <2>1. ASSUME NEW i \in 1 .. Len(s), NEW j \in 1 .. Len(s), i < j PROVE s[i] < s[j]
    BY <1>3, <1>4, <1>6, <2>1 DEF Ascending
  <2>2. ASSUME NEW i \in 1 .. Len(t), NEW j \in 1 .. Len(t), i < j PROVE t[i] < t[j]
    <3>1. Len(s) + i < Len(s) + j
      BY <1>1, <2>2
    <3> QED
      BY <1>3, <1>5, <1>6, <3>1 DEF Ascending
  <2>3. ASSUME NEW i \in 1 .. Len(s), NEW j \in 1 .. Len(t) PROVE s[i] < t[j]
    <3>1. i < Len(s) + j
      BY <1>1
    <3> QED
      BY <1>3, <1>4, <1>5, <1>6, <3>1 DEF Ascending
  <2> QED
    BY <1>1, <2>1, <2>2, <2>3 DEF Ascending, Below, ToSet
<1>7. ASSUME Ascending(s), Ascending(t), Below(s, t) PROVE Ascending(st)
  <2> SUFFICES ASSUME NEW i \in 1 .. Len(s) + Len(t), NEW j \in 1 .. Len(s) + Len(t), i < j
               PROVE  st[i] < st[j]
    BY <1>3 DEF Ascending
  <2>1. CASE j <= Len(s)
    <3>1. i \in 1 .. Len(s) /\ j \in 1 .. Len(s)
      BY <1>1, <2>1
    <3> QED
      BY <1>1, <1>4, <1>7, <3>1 DEF Ascending
  <2>2. CASE i <= Len(s) /\ ~ (j <= Len(s))
    <3>1. i \in 1 .. Len(s) /\ j - Len(s) \in 1 .. Len(t) /\ st[i] = s[i] /\ st[j] = t[j - Len(s)]
      BY <1>1, <1>2, <2>2
    <3>2. s[i] \in ToSet(s) /\ t[j - Len(s)] \in ToSet(t)
      BY <1>1, <3>1 DEF ToSet
    <3> QED
      BY <1>7, <3>1, <3>2 DEF Below
  <2>3. CASE ~ (i <= Len(s))
    <3> DEFINE a == i - Len(s)
               b == j - Len(s)
    <3>1. a \in 1 .. Len(t) /\ b \in 1 .. Len(t) /\ a < b /\ st[i] = t[a] /\ st[j] = t[b]
      BY <1>1, <1>2, <2>3
    <3> HIDE DEF a, b
    <3> QED
      BY <1>1, <1>7, <3>1 DEF Ascending
  <2> QED
    BY <1>1, <2>1, <2>2, <2>3
<1> QED
  BY <1>6, <1>7 DEF st

LEMMA BelowConcat ==
    ASSUME NEW s \in Seq(Keys), NEW t \in Seq(Keys), NEW u \in Seq(Keys)
    PROVE  /\ Below(s \o t, u) <=> Below(s, u) /\ Below(t, u)
           /\ Below(u, s \o t) <=> Below(u, s) /\ Below(u, t)
<1>1. ToSet(s \o t) = ToSet(s) \cup ToSet(t)
  BY ElementsOfConcat
<1> QED
  BY <1>1 DEF Below

LEMMA NothingAscends ==
    /\ <<>> \in Seq(Keys) /\ Ascending(<<>>) /\ ToSet(<<>>) = {}
    /\ \A s : Below(s, <<>>) /\ Below(<<>>, s)
<1>1. ToSet(<<>>) = {}
  BY DEF ToSet
<1>2. Ascending(<<>>)
  BY DEF Ascending
<1> QED
  BY <1>1, <1>2, EmptySeq DEF Below

-----------------------------------------------------------------------------
(* A log, what waits in flight for it, and a buffer: in ascending order from *)
(* the one to the next.  Then the six things that happen to the three.       *)
Ordered(l, w, b) ==
    /\ Ascending(l) /\ Ascending(w) /\ Ascending(b)
    /\ Below(l, w) /\ Below(l, b) /\ Below(w, b)

Elements(l, w, b) == ToSet(l) \cup ToSet(w) \cup ToSet(b)

LEMMA OrderedIsAscending ==
    ASSUME NEW l \in Seq(Keys), NEW w \in Seq(Keys), NEW b \in Seq(Keys)
    PROVE  /\ Ascending(l \o w \o b) <=> Ordered(l, w, b)
           /\ ToSet(l \o w \o b) = Elements(l, w, b)
           /\ Elements(l, w, b) \subseteq Keys
<1> DEFINE lw == l \o w
<1>1. lw \in Seq(Keys) /\ ToSet(lw) = ToSet(l) \cup ToSet(w)
  BY ElementsOfConcat
<1>4. Ascending(lw) <=> Ascending(l) /\ Ascending(w) /\ Below(l, w)
  BY AscendingConcat
<1>6. Below(lw, b) <=> Below(l, b) /\ Below(w, b)
  BY BelowConcat
<1> HIDE DEF lw
<1>2. ToSet(lw \o b) = ToSet(lw) \cup ToSet(b)
  BY <1>1, ElementsOfConcat
<1>3. ToSet(l) \subseteq Keys /\ ToSet(w) \subseteq Keys /\ ToSet(b) \subseteq Keys
  BY ElementsIn
<1>5. Ascending(lw \o b) <=> Ascending(lw) /\ Ascending(b) /\ Below(lw, b)
  BY <1>1, AscendingConcat
<1>7. /\ Ascending(lw \o b) <=> Ordered(l, w, b)
      /\ ToSet(lw \o b) = Elements(l, w, b)
      /\ Elements(l, w, b) \subseteq Keys
  BY <1>1, <1>2, <1>3, <1>4, <1>5, <1>6 DEF Ordered, Elements
<1> QED
  BY <1>7 DEF lw

LEMMA NotBelowItself ==
    ASSUME NEW s \in Seq(Keys), NEW t \in Seq(Keys), Below(s, t)
    PROVE  ToSet(s) \cap ToSet(t) = {}
<1>1. ToSet(s) \subseteq Keys
  BY ElementsIn
<1>2. \A k \in Keys : ~ (k < k)
  BY DEF Keys
<1> QED
  BY <1>1, <1>2 DEF Below

(* An event greater than all enters the buffer. *)
LEMMA OrderedSend ==
    ASSUME NEW l \in Seq(Keys), NEW w \in Seq(Keys), NEW b \in Seq(Keys), NEW k \in Keys,
           Ordered(l, w, b), \A e \in Elements(l, w, b) : e < k
    PROVE  /\ Ordered(l, w, Append(b, k))
           /\ Elements(l, w, Append(b, k)) = Elements(l, w, b) \cup {k}
<1>1. ToSet(Append(b, k)) = ToSet(b) \cup {k}
  BY ElementsOfAppend
<1>2. Ascending(Append(b, k))
  <2>1. <<k>> \in Seq(Keys) /\ ToSet(<<k>>) = {k}
    BY DEF ToSet
  <2>2. Ascending(<<k>>)
    BY DEF Ascending
  <2>3. Below(b, <<k>>)
    BY <2>1 DEF Below, Elements
  <2>4. Ascending(b \o <<k>>)
    <3> DEFINE one == <<k>>
    <3>1. one \in Seq(Keys) /\ Ascending(one) /\ Below(b, one) /\ Ascending(b)
      BY <2>1, <2>2, <2>3 DEF Ordered
    <3> HIDE DEF one
    <3>2. Ascending(b \o one)
      BY <3>1, AscendingConcat
    <3> QED
      BY <3>2 DEF one
  <2>5. Append(b, k) = b \o <<k>>
    BY AppendIsConcat
  <2> QED
    BY <2>4, <2>5
<1>3. Below(l, Append(b, k)) /\ Below(w, Append(b, k))
  BY <1>1 DEF Below, Ordered, Elements
<1> QED
  BY <1>1, <1>2, <1>3 DEF Ordered, Elements

(* The buffer is lost. *)
LEMMA OrderedCrash ==
    ASSUME NEW l \in Seq(Keys), NEW w \in Seq(Keys), NEW b \in Seq(Keys), Ordered(l, w, b)
    PROVE  /\ Ordered(l, w, <<>>)
           /\ Elements(l, w, <<>>) = Elements(l, w, b) \ ToSet(b)
           /\ ToSet(b) \subseteq Elements(l, w, b)
<1>1. ToSet(l) \cap ToSet(b) = {} /\ ToSet(w) \cap ToSet(b) = {}
  BY NotBelowItself DEF Ordered
<1> QED
  BY <1>1, NothingAscends DEF Ordered, Elements

(* The buffer goes out. *)
LEMMA OrderedDrain ==
    ASSUME NEW l \in Seq(Keys), NEW w \in Seq(Keys), NEW b \in Seq(Keys), Ordered(l, w, b)
    PROVE  Ordered(l, w \o b, <<>>) /\ Elements(l, w \o b, <<>>) = Elements(l, w, b)
<1>1. Ascending(w \o b) /\ Below(l, w \o b)
  BY AscendingConcat, BelowConcat DEF Ordered
<1>2. ToSet(w \o b) = ToSet(w) \cup ToSet(b)
  BY ElementsOfConcat
<1> QED
  BY <1>1, <1>2, NothingAscends DEF Ordered, Elements

(* The oldest batch is appended. *)
LEMMA OrderedAppend ==
    ASSUME NEW l \in Seq(Keys), NEW h \in Seq(Keys), NEW t \in Seq(Keys), NEW b \in Seq(Keys),
           Ordered(l, h \o t, b)
    PROVE  Ordered(l \o h, t, b) /\ Elements(l \o h, t, b) = Elements(l, h \o t, b)
<1>1. /\ Ascending(h) /\ Ascending(t) /\ Below(h, t)
      /\ Below(l, h) /\ Below(l, t) /\ Below(h, b) /\ Below(t, b)
  BY AscendingConcat, BelowConcat DEF Ordered
<1>2. Ascending(l \o h)
  BY <1>1, AscendingConcat DEF Ordered
<1>3. Below(l \o h, t) /\ Below(l \o h, b)
  BY <1>1, BelowConcat DEF Ordered
<1>4. ToSet(l \o h) = ToSet(l) \cup ToSet(h) /\ ToSet(h \o t) = ToSet(h) \cup ToSet(t)
  BY ElementsOfConcat
<1> QED
  BY <1>1, <1>2, <1>3, <1>4 DEF Ordered, Elements

(* The oldest batch fails. *)
LEMMA OrderedFail ==
    ASSUME NEW l \in Seq(Keys), NEW h \in Seq(Keys), NEW t \in Seq(Keys), NEW b \in Seq(Keys),
           Ordered(l, h \o t, b)
    PROVE  /\ Ordered(l, t, b)
           /\ Elements(l, t, b) = Elements(l, h \o t, b) \ ToSet(h)
           /\ ToSet(h) \subseteq Elements(l, h \o t, b)
<1>1. /\ Ascending(h) /\ Ascending(t) /\ Below(h, t)
      /\ Below(l, h) /\ Below(l, t) /\ Below(h, b) /\ Below(t, b)
  BY AscendingConcat, BelowConcat DEF Ordered
<1>2. ToSet(h \o t) = ToSet(h) \cup ToSet(t)
  BY ElementsOfConcat
<1>3. ToSet(l) \cap ToSet(h) = {} /\ ToSet(h) \cap ToSet(t) = {} /\ ToSet(h) \cap ToSet(b) = {}
  BY <1>1, NotBelowItself
<1> QED
  BY <1>1, <1>2, <1>3 DEF Ordered, Elements

(* The end of the log is cut off. *)
LEMMA OrderedCut ==
    ASSUME NEW f \in Seq(Keys), NEW c \in Seq(Keys), NEW w \in Seq(Keys), NEW b \in Seq(Keys),
           Ordered(f \o c, w, b)
    PROVE  /\ Ordered(f, w, b)
           /\ Elements(f, w, b) = Elements(f \o c, w, b) \ ToSet(c)
           /\ ToSet(c) \subseteq Elements(f \o c, w, b)
<1>1. /\ Ascending(f) /\ Below(f, c)
      /\ Below(f, w) /\ Below(c, w) /\ Below(f, b) /\ Below(c, b)
  BY AscendingConcat, BelowConcat DEF Ordered
<1>2. ToSet(f \o c) = ToSet(f) \cup ToSet(c)
  BY ElementsOfConcat
<1>3. ToSet(f) \cap ToSet(c) = {} /\ ToSet(c) \cap ToSet(w) = {} /\ ToSet(c) \cap ToSet(b) = {}
  BY <1>1, NotBelowItself
<1> QED
  BY <1>1, <1>2, <1>3 DEF Ordered, Elements

-----------------------------------------------------------------------------
(* Inductive: what is on its way to a partition, or there, is in order; the  *)
(* loop has passed it, it belongs there and is not counted as lost; and what *)
(* the loop has passed is on its way or counted as lost.                     *)
Waiting(p) == FlattenSeq(inflight[p])
InOrder(p) == Ordered(log[p], Waiting(p), buffer[p])
At(p)      == Elements(log[p], Waiting(p), buffer[p])

PlacesOK ==
    /\ \A p \in Partitions : \A k \in At(p) : k < ufoId /\ PartitionOf[k] = p /\ k \notin lost
    /\ \A k \in lost : k < ufoId
    /\ \A k \in Keys : k < ufoId => k \in lost \/ k \in At(PartitionOf[k])

OrderInv ==
    /\ LogsOK
    /\ \A p \in Partitions : InOrder(p)
    /\ PlacesOK

LEMMA SequencesOf ==
    ASSUME LogsOK, NEW p \in Partitions
    PROVE  /\ log[p] \in Seq(Keys) /\ buffer[p] \in Seq(Keys)
           /\ inflight[p] \in Seq(Seq(Keys)) /\ Waiting(p) \in Seq(Keys)
           /\ DOMAIN log = Partitions /\ DOMAIN buffer = Partitions
           /\ DOMAIN inflight = Partitions
<1>1. /\ log[p] \in Seq(Keys) /\ buffer[p] \in Seq(Keys) /\ inflight[p] \in Seq(Seq(Keys))
      /\ DOMAIN log = Partitions /\ DOMAIN buffer = Partitions /\ DOMAIN inflight = Partitions
  BY DEF LogsOK, TypeOK
<1> QED
  BY <1>1, FlattenType DEF Waiting

LEMMA PipelineIs ==
    ASSUME LogsOK, NEW p \in Partitions
    PROVE  /\ Pipeline(p) \in Seq(Keys)
           /\ Ascending(Pipeline(p)) <=> InOrder(p)
           /\ ToSet(Pipeline(p)) = At(p) /\ At(p) \subseteq Keys
<1> DEFINE l == log[p]
           w == Waiting(p)
           b == buffer[p]
<1>1. l \in Seq(Keys) /\ w \in Seq(Keys) /\ b \in Seq(Keys)
  BY SequencesOf
<1>2. Pipeline(p) = l \o w \o b
  BY DEF Pipeline, Waiting
<1>3. (InOrder(p) <=> Ordered(l, w, b)) /\ At(p) = Elements(l, w, b)
  BY DEF InOrder, At
<1> HIDE DEF l, w, b
<1>4. l \o w \o b \in Seq(Keys)
  <2>1. l \o w \in Seq(Keys)
    BY <1>1, ConcatProperties
  <2> QED
    BY <1>1, <2>1, ConcatProperties
<1> QED
  BY <1>1, <1>2, <1>3, <1>4, OrderedIsAscending

(* A partition that a step leaves alone. *)
LEMMA Untouched ==
    ASSUME NEW p \in Partitions, UNCHANGED <<log[p], inflight[p], buffer[p]>>
    PROVE  InOrder(p)' = InOrder(p) /\ At(p)' = At(p)
BY DEF InOrder, At, Waiting

(* A step outside the loop: what leaves a partition is counted as lost. *)
LEMMA MovedKeepsPlaces ==
    ASSUME OrderInv, LogsOK', ufoId' = ufoId,
           \A p \in Partitions : InOrder(p)' /\ At(p)' \subseteq At(p),
           lost' = lost \cup UNION {At(p) \ At(p)' : p \in Partitions}
    PROVE  OrderInv'
<1>1. ASSUME NEW p \in Partitions, NEW k \in At(p)'
      PROVE  k < ufoId' /\ PartitionOf[k] = p /\ k \notin lost'
  <2>1. k \in At(p) /\ k < ufoId /\ PartitionOf[k] = p /\ k \notin lost
    BY <1>1 DEF OrderInv, PlacesOK
  <2>2. ASSUME NEW q \in Partitions, k \in At(q) \ At(q)' PROVE FALSE
    <3>1. PartitionOf[k] = q
      BY <2>2 DEF OrderInv, PlacesOK
    <3> QED
      BY <1>1, <2>1, <2>2, <3>1
  <2> QED
    BY <2>1, <2>2
<1>2. ASSUME NEW k \in lost' PROVE k < ufoId'
  BY <1>2 DEF OrderInv, PlacesOK
<1>3. ASSUME NEW k \in Keys, k < ufoId' PROVE k \in lost' \/ k \in At(PartitionOf[k])'
  <2>1. k \in lost \/ k \in At(PartitionOf[k])
    BY <1>3 DEF OrderInv, PlacesOK
  <2>2. PartitionOf[k] \in Partitions
    BY ProducerAssumption DEF Keys
  <2> QED
    BY <2>1, <2>2
<1> QED
  BY <1>1, <1>2, <1>3 DEF OrderInv, PlacesOK

(* A step that touches one partition, or none. *)
LEMMA OneMoves ==
    ASSUME OrderInv, LogsOK', ufoId' = ufoId, NEW p \in Partitions, NEW gone,
           \A q \in Partitions \ {p} : UNCHANGED <<log[q], inflight[q], buffer[q]>>,
           InOrder(p)', gone \subseteq At(p), At(p)' = At(p) \ gone,
           lost' = lost \cup gone
    PROVE  OrderInv'
<1>1. \A q \in Partitions \ {p} : InOrder(q)' /\ At(q)' = At(q)
  BY Untouched DEF OrderInv
<1>2. \A q \in Partitions : InOrder(q)' /\ At(q)' \subseteq At(q)
  BY <1>1
<1>3. UNION {At(q) \ At(q)' : q \in Partitions} = gone
  <2>1. At(p) \ At(p)' = gone
    OBVIOUS
  <2>2. \A q \in Partitions \ {p} : At(q) \ At(q)' = {}
    BY <1>1
  <2> QED
    BY <2>1, <2>2
<1> QED
  BY <1>2, <1>3, MovedKeepsPlaces

LEMMA NothingMoves ==
    ASSUME OrderInv, LogsOK', UNCHANGED <<ufoId, lost, log, inflight, buffer>>
    PROVE  OrderInv'
<1>1. \A p \in Partitions : InOrder(p)' = InOrder(p) /\ At(p)' = At(p)
  BY Untouched
<1>2. PlacesOK'
  <2>1. \A k \in Keys : At(PartitionOf[k])' = At(PartitionOf[k])
    BY <1>1, ProducerAssumption DEF Keys
  <2> QED
    BY <1>1, <2>1 DEF OrderInv, PlacesOK
<1> QED
  BY <1>1, <1>2 DEF OrderInv

-----------------------------------------------------------------------------
LEMMA SendKeepsOrder ==
    ASSUME OrderInv, LogsOK', Send
    PROVE  OrderInv'
<1>1. /\ ufoId \in Keys /\ PartitionOf[ufoId] \in Partitions /\ ufoId' = ufoId + 1
      /\ UNCHANGED <<inflight, log, lost>>
      /\ buffer' = [buffer EXCEPT ![PartitionOf[ufoId]] = Append(@, ufoId)]
  <2>1. ufoId \in 0 .. Total /\ ufoId < Total /\ Total \in Nat
    BY ProducerAssumption DEF Send, OrderInv, LogsOK, TypeOK
  <2>2. ufoId \in Keys
    BY <2>1 DEF Keys
  <2> QED
    BY <2>2, ProducerAssumption DEF Send, Keys
<1>2. PICK at \in Partitions : at = PartitionOf[ufoId]
  BY <1>1
<1>3. \A q \in Partitions \ {at} : UNCHANGED <<log[q], inflight[q], buffer[q]>>
  BY <1>1, <1>2, SequencesOf DEF OrderInv
<1>4. InOrder(at)' /\ At(at)' = At(at) \cup {ufoId}
  <2> DEFINE l == log[at]
             w == Waiting(at)
             b == buffer[at]
  <2>1. l \in Seq(Keys) /\ w \in Seq(Keys) /\ b \in Seq(Keys)
    BY SequencesOf DEF OrderInv
  <2>2. Ordered(l, w, b) /\ \A e \in Elements(l, w, b) : e < ufoId
    BY DEF OrderInv, InOrder, PlacesOK, At
  <2>3. log'[at] = l /\ Waiting(at)' = w /\ buffer'[at] = Append(b, ufoId)
    BY <1>1, <1>2, SequencesOf DEF OrderInv, Waiting
  <2> HIDE DEF l, w, b
  <2>4. /\ Ordered(l, w, Append(b, ufoId))
        /\ Elements(l, w, Append(b, ufoId)) = Elements(l, w, b) \cup {ufoId}
    BY <1>1, <2>1, <2>2, OrderedSend
  <2>5. At(at) = Elements(l, w, b)
    BY DEF At, l, w, b
  <2> QED
    BY <2>3, <2>4, <2>5 DEF InOrder, At
<1>5. \A q \in Partitions \ {at} : InOrder(q)' /\ At(q)' = At(q)
  BY <1>3, Untouched DEF OrderInv
<1>6. \A k \in Keys : k < ufoId' <=> k < ufoId \/ k = ufoId
  BY <1>1 DEF Keys
<1>7. ASSUME NEW q \in Partitions, NEW k \in At(q)'
      PROVE  k < ufoId' /\ PartitionOf[k] = q /\ k \notin lost'
  <2>1. CASE k = ufoId
    <3>1. q = at
      <4>1. ASSUME q # at PROVE FALSE
        <5>1. k \in At(q) /\ k < ufoId
          BY <1>5, <1>7, <4>1 DEF OrderInv, PlacesOK
        <5> QED
          BY <1>1, <2>1, <5>1 DEF Keys
      <4> QED
        BY <4>1
    <3>2. ufoId \notin lost
      <4>1. ~ (ufoId < ufoId)
        BY <1>1 DEF Keys
      <4> QED
        BY <4>1 DEF OrderInv, PlacesOK
    <3> QED
      BY <1>1, <1>2, <1>6, <2>1, <3>1, <3>2
  <2>2. CASE k # ufoId
    <3>1. k \in At(q)
      BY <1>4, <1>5, <1>7, <2>2
    <3>2. k \in Keys
      BY <3>1, PipelineIs DEF OrderInv
    <3> QED
      BY <1>1, <1>6, <3>1, <3>2 DEF OrderInv, PlacesOK
  <2> QED
    BY <2>1, <2>2
<1>8. ASSUME NEW k \in lost' PROVE k < ufoId'
  <2>1. k \in Keys /\ k < ufoId
    BY <1>1, <1>8 DEF OrderInv, PlacesOK, LogsOK, TypeOK
  <2> QED
    BY <1>6, <2>1
<1>9. ASSUME NEW k \in Keys, k < ufoId' PROVE k \in lost' \/ k \in At(PartitionOf[k])'
  <2>1. CASE k = ufoId
    BY <1>2, <1>4, <2>1
  <2>2. CASE k # ufoId
    <3>1. k \in lost \/ k \in At(PartitionOf[k])
      BY <1>6, <1>9, <2>2 DEF OrderInv, PlacesOK
    <3>2. PartitionOf[k] \in Partitions
      BY ProducerAssumption DEF Keys
    <3>3. At(PartitionOf[k]) \subseteq At(PartitionOf[k])'
      BY <1>4, <1>5, <3>2
    <3> QED
      BY <1>1, <3>1, <3>3
  <2> QED
    BY <2>1, <2>2
<1>10. \A q \in Partitions : InOrder(q)'
  BY <1>4, <1>5
<1> QED
  BY <1>7, <1>8, <1>9, <1>10 DEF OrderInv, PlacesOK

LEMMA SendFailsKeepsOrder ==
    ASSUME OrderInv, LogsOK', SendFails
    PROVE  OrderInv'
<1>1. /\ ufoId \in Keys /\ ufoId' = ufoId + 1
      /\ lost' = lost \cup {ufoId} /\ UNCHANGED <<inflight, log, buffer>>
  <2>1. ufoId \in 0 .. Total /\ ufoId < Total /\ Total \in Nat
    BY ProducerAssumption DEF SendFails, OrderInv, LogsOK, TypeOK
  <2>2. ufoId \in Keys
    BY <2>1 DEF Keys
  <2> QED
    BY <2>2 DEF SendFails
<1>2. \A q \in Partitions : InOrder(q)' /\ At(q)' = At(q)
  BY <1>1, Untouched DEF OrderInv
<1>3. \A k \in Keys : k < ufoId' <=> k < ufoId \/ k = ufoId
  BY <1>1 DEF Keys
<1>4. ~ (ufoId < ufoId)
  BY <1>1 DEF Keys
<1>5. ASSUME NEW q \in Partitions, NEW k \in At(q)'
      PROVE  k < ufoId' /\ PartitionOf[k] = q /\ k \notin lost'
  <2>1. k \in At(q)
    BY <1>2, <1>5
  <2>2. k \in Keys
    BY <2>1, PipelineIs DEF OrderInv
  <2>3. k < ufoId /\ PartitionOf[k] = q /\ k \notin lost
    BY <2>1 DEF OrderInv, PlacesOK
  <2> QED
    BY <1>1, <1>3, <1>4, <2>2, <2>3
<1>6. ASSUME NEW k \in lost' PROVE k < ufoId'
  <2>1. CASE k = ufoId
    BY <1>1, <1>3, <2>1
  <2>2. CASE k # ufoId
    <3>1. k \in Keys /\ k < ufoId
      BY <1>1, <1>6, <2>2 DEF OrderInv, PlacesOK, LogsOK, TypeOK
    <3> QED
      BY <1>3, <3>1
  <2> QED
    BY <2>1, <2>2
<1>7. ASSUME NEW k \in Keys, k < ufoId' PROVE k \in lost' \/ k \in At(PartitionOf[k])'
  <2>1. PartitionOf[k] \in Partitions
    BY ProducerAssumption DEF Keys
  <2> QED
    BY <1>1, <1>2, <1>3, <1>7, <2>1 DEF OrderInv, PlacesOK
<1> QED
  BY <1>2, <1>5, <1>6, <1>7 DEF OrderInv, PlacesOK

LEMMA CrashKeepsOrder ==
    ASSUME OrderInv, LogsOK', Crash
    PROVE  OrderInv'
<1>1. /\ UNCHANGED <<ufoId, inflight, log>>
      /\ \A p \in Partitions : buffer'[p] = <<>>
      /\ lost' = lost \cup UNION {ToSet(buffer[p]) : p \in Partitions}
  BY DEF Crash, Empty
<1>2. ASSUME NEW p \in Partitions
      PROVE  InOrder(p)' /\ At(p)' = At(p) \ ToSet(buffer[p]) /\ ToSet(buffer[p]) \subseteq At(p)
  <2> DEFINE l == log[p]
             w == Waiting(p)
             b == buffer[p]
  <2>1. l \in Seq(Keys) /\ w \in Seq(Keys) /\ b \in Seq(Keys) /\ Ordered(l, w, b)
    BY SequencesOf DEF OrderInv, InOrder
  <2>2. log'[p] = l /\ Waiting(p)' = w /\ buffer'[p] = <<>> /\ At(p) = Elements(l, w, b)
    BY <1>1 DEF Waiting, At
  <2> HIDE DEF l, w, b
  <2>3. /\ Ordered(l, w, <<>>) /\ Elements(l, w, <<>>) = Elements(l, w, b) \ ToSet(b)
        /\ ToSet(b) \subseteq Elements(l, w, b)
    BY <2>1, OrderedCrash
  <2>4. InOrder(p)' /\ At(p)' = Elements(l, w, <<>>)
    BY <2>2, <2>3 DEF InOrder, At
  <2> QED
    BY <2>2, <2>3, <2>4 DEF b
<1>3. \A p \in Partitions : At(p) \ At(p)' = ToSet(buffer[p])
  BY <1>2
<1>4. lost' = lost \cup UNION {At(p) \ At(p)' : p \in Partitions}
  BY <1>1, <1>3
<1>5. \A p \in Partitions : InOrder(p)' /\ At(p)' \subseteq At(p)
  BY <1>2
<1> QED
  BY <1>1, <1>4, <1>5, MovedKeepsPlaces

LEMMA DrainKeepsOrder ==
    ASSUME OrderInv, LogsOK', NEW p \in Partitions, Drain(p)
    PROVE  OrderInv'
<1> DEFINE l == log[p]
           w == Waiting(p)
           b == buffer[p]
<1>1. /\ l \in Seq(Keys) /\ w \in Seq(Keys) /\ b \in Seq(Keys) /\ Ordered(l, w, b)
      /\ inflight[p] \in Seq(Seq(Keys))
      /\ DOMAIN log = Partitions /\ DOMAIN buffer = Partitions /\ DOMAIN inflight = Partitions
  BY SequencesOf DEF OrderInv, InOrder
<1>2. /\ \A q \in Partitions \ {p} : UNCHANGED <<log[q], inflight[q], buffer[q]>>
      /\ log'[p] = l /\ inflight'[p] = Append(inflight[p], b) /\ buffer'[p] = <<>>
      /\ UNCHANGED <<ufoId, lost>>
  BY <1>1 DEF Drain
<1>3. Waiting(p)' = w \o b
  BY <1>1, <1>2, FlattenAppend DEF Waiting
<1>4. At(p) = Elements(l, w, b)
  BY DEF At
<1> HIDE DEF l, w, b
<1>5. Ordered(l, w \o b, <<>>) /\ Elements(l, w \o b, <<>>) = Elements(l, w, b)
  BY <1>1, OrderedDrain
<1>6. InOrder(p)' /\ At(p)' = Elements(l, w \o b, <<>>)
  BY <1>2, <1>3, <1>5 DEF InOrder, At
<1> DEFINE gone == {}
<1>7. gone \subseteq At(p) /\ At(p)' = At(p) \ gone /\ lost' = lost \cup gone
  BY <1>2, <1>4, <1>5, <1>6
<1> HIDE DEF gone
<1> QED
  BY <1>2, <1>6, <1>7, OneMoves

LEMMA LeaderAppendsKeepsOrder ==
    ASSUME OrderInv, LogsOK', NEW p \in Partitions, LeaderAppends(p)
    PROVE  OrderInv'
<1> DEFINE l == log[p]
           h == Head(inflight[p])
           t == FlattenSeq(Tail(inflight[p]))
           b == buffer[p]
<1>1. /\ l \in Seq(Keys) /\ b \in Seq(Keys) /\ InOrder(p) /\ inflight[p] \in Seq(Seq(Keys))
      /\ inflight[p] # <<>>
      /\ DOMAIN log = Partitions /\ DOMAIN buffer = Partitions /\ DOMAIN inflight = Partitions
  BY SequencesOf DEF OrderInv, LeaderAppends
<1>2. /\ \A q \in Partitions \ {p} : UNCHANGED <<log[q], inflight[q], buffer[q]>>
      /\ log'[p] = l \o h /\ inflight'[p] = Tail(inflight[p]) /\ buffer'[p] = b
      /\ UNCHANGED <<ufoId, lost>>
  BY <1>1 DEF LeaderAppends
<1>3. h \in Seq(Keys) /\ t \in Seq(Keys) /\ Waiting(p) = h \o t /\ Waiting(p)' = t
  <2>1. h \in Seq(Keys) /\ Tail(inflight[p]) \in Seq(Seq(Keys))
    BY <1>1, HeadTailProperties
  <2>2. t \in Seq(Keys)
    BY <2>1, FlattenType
  <2>3. Waiting(p) = h \o t
    BY <1>1, FlattenTail DEF Waiting
  <2> QED
    BY <1>2, <2>1, <2>2, <2>3 DEF Waiting
<1>4. Ordered(l, h \o t, b) /\ At(p) = Elements(l, h \o t, b)
  BY <1>1, <1>3 DEF InOrder, At
<1> HIDE DEF l, h, t, b
<1>5. Ordered(l \o h, t, b) /\ Elements(l \o h, t, b) = Elements(l, h \o t, b)
  BY <1>1, <1>3, <1>4, OrderedAppend
<1>6. InOrder(p)' /\ At(p)' = Elements(l \o h, t, b)
  BY <1>2, <1>3, <1>5 DEF InOrder, At
<1> DEFINE gone == {}
<1>7. gone \subseteq At(p) /\ At(p)' = At(p) \ gone /\ lost' = lost \cup gone
  BY <1>2, <1>4, <1>5, <1>6
<1> HIDE DEF gone
<1> QED
  BY <1>2, <1>6, <1>7, OneMoves

LEMMA BatchFailsKeepsOrder ==
    ASSUME OrderInv, LogsOK', NEW p \in Partitions, BatchFails(p)
    PROVE  OrderInv'
<1> DEFINE l == log[p]
           h == Head(inflight[p])
           t == FlattenSeq(Tail(inflight[p]))
           b == buffer[p]
<1>1. /\ l \in Seq(Keys) /\ b \in Seq(Keys) /\ InOrder(p) /\ inflight[p] \in Seq(Seq(Keys))
      /\ inflight[p] # <<>>
      /\ DOMAIN log = Partitions /\ DOMAIN buffer = Partitions /\ DOMAIN inflight = Partitions
  BY SequencesOf DEF OrderInv, BatchFails
<1>2. /\ \A q \in Partitions \ {p} : UNCHANGED <<log[q], inflight[q], buffer[q]>>
      /\ log'[p] = l /\ inflight'[p] = Tail(inflight[p]) /\ buffer'[p] = b
      /\ ufoId' = ufoId /\ lost' = lost \cup ToSet(h)
  BY <1>1 DEF BatchFails
<1>3. h \in Seq(Keys) /\ t \in Seq(Keys) /\ Waiting(p) = h \o t /\ Waiting(p)' = t
  <2>1. h \in Seq(Keys) /\ Tail(inflight[p]) \in Seq(Seq(Keys))
    BY <1>1, HeadTailProperties
  <2>2. t \in Seq(Keys)
    BY <2>1, FlattenType
  <2>3. Waiting(p) = h \o t
    BY <1>1, FlattenTail DEF Waiting
  <2> QED
    BY <1>2, <2>1, <2>2, <2>3 DEF Waiting
<1>4. Ordered(l, h \o t, b) /\ At(p) = Elements(l, h \o t, b)
  BY <1>1, <1>3 DEF InOrder, At
<1> HIDE DEF l, h, t, b
<1>5. /\ Ordered(l, t, b) /\ Elements(l, t, b) = Elements(l, h \o t, b) \ ToSet(h)
      /\ ToSet(h) \subseteq Elements(l, h \o t, b)
  BY <1>1, <1>3, <1>4, OrderedFail
<1>6. InOrder(p)' /\ At(p)' = Elements(l, t, b)
  BY <1>2, <1>3, <1>5 DEF InOrder, At
<1>7. ToSet(h) \subseteq At(p) /\ At(p)' = At(p) \ ToSet(h)
  BY <1>4, <1>5, <1>6
<1> QED
  BY <1>2, <1>6, <1>7, OneMoves

LEMMA LeaderFailsKeepsOrder ==
    ASSUME OrderInv, LogsOK', NEW p \in Partitions, LeaderFails(p)
    PROVE  OrderInv'
<1> DEFINE n == replicated[p]
           f == SubSeq(log[p], 1, n)
           c == SubSeq(log[p], n + 1, Len(log[p]))
           w == Waiting(p)
           b == buffer[p]
<1>1. /\ log[p] \in Seq(Keys) /\ w \in Seq(Keys) /\ b \in Seq(Keys) /\ InOrder(p)
      /\ n \in Nat /\ n <= Len(log[p])
      /\ DOMAIN log = Partitions /\ DOMAIN buffer = Partitions /\ DOMAIN inflight = Partitions
  BY SequencesOf DEF OrderInv, LogsOK, TypeOK
<1>2. /\ \A q \in Partitions \ {p} : UNCHANGED <<log[q], inflight[q], buffer[q]>>
      /\ log'[p] = f /\ Waiting(p)' = w /\ buffer'[p] = b
      /\ ufoId' = ufoId /\ lost' = lost \cup ToSet(c)
  BY <1>1 DEF LeaderFails, Waiting
<1>3. f \in Seq(Keys) /\ c \in Seq(Keys) /\ log[p] = f \o c
  BY <1>1, PartsJoin
<1>4. Ordered(f \o c, w, b) /\ At(p) = Elements(f \o c, w, b)
  BY <1>1, <1>3 DEF InOrder, At
<1> HIDE DEF f, c, w, b
<1>5. /\ Ordered(f, w, b) /\ Elements(f, w, b) = Elements(f \o c, w, b) \ ToSet(c)
      /\ ToSet(c) \subseteq Elements(f \o c, w, b)
  BY <1>1, <1>3, <1>4, OrderedCut
<1>6. InOrder(p)' /\ At(p)' = Elements(f, w, b)
  BY <1>2, <1>5 DEF InOrder, At
<1>7. ToSet(c) \subseteq At(p) /\ At(p)' = At(p) \ ToSet(c)
  BY <1>4, <1>5, <1>6
<1> QED
  BY <1>2, <1>6, <1>7, OneMoves

LEMMA OrderStep ==
    ASSUME OrderInv, [Next]_vars
    PROVE  OrderInv'
<1>0. LogsOK'
  BY LogsStep DEF OrderInv
<1>1. ASSUME UNCHANGED <<ufoId, lost, log, inflight, buffer>> PROVE OrderInv'
  BY <1>0, <1>1, NothingMoves
<1> QED
  BY <1>0, <1>1, SendKeepsOrder, SendFailsKeepsOrder, CrashKeepsOrder, DrainKeepsOrder,
     LeaderAppendsKeepsOrder, BatchFailsKeepsOrder, LeaderFailsKeepsOrder
  DEF Next, Program, Client, BeginClose, FinishClose, Replicate, vars

LEMMA OrderInit ==
    ASSUME Init
    PROVE  OrderInv
<1>1. /\ ufoId = 0 /\ lost = {}
      /\ \A p \in Partitions : log[p] = <<>> /\ inflight[p] = <<>> /\ buffer[p] = <<>>
  BY DEF Init, Empty
<1>2. \A p \in Partitions : Waiting(p) = <<>>
  <2>1. FlattenSeq(<<>>) = <<>>
    BY EmptySeq DEF FlattenSeq
  <2> QED
    BY <1>1, <2>1 DEF Waiting
<1>3. \A p \in Partitions : InOrder(p) /\ At(p) = {}
  BY <1>1, <1>2, NothingAscends DEF InOrder, At, Ordered, Elements
<1>4. \A k \in Keys : ~ (k < 0)
  BY DEF Keys
<1> QED
  BY <1>1, <1>3, <1>4, LogsInit DEF OrderInv, PlacesOK

-----------------------------------------------------------------------------
(* Whatever batches fail, leaders change and records are lost on the way,    *)
(* the events of a partition stay in the order of the loop and none is there *)
(* twice: the partition has one queue, and without retries nothing is        *)
(* overtaken.                                                                *)
THEOREM OrderIsKept == Spec => []EventsInOrder
<1>1. OrderInv => EventsInOrder
  <2> SUFFICES ASSUME OrderInv PROVE EventsInOrder
    OBVIOUS
  <2>1. \A p \in Partitions : Ascending(Pipeline(p))
    BY PipelineIs DEF OrderInv
  <2> QED
    BY <2>1 DEF EventsInOrder, Ascending, OrderInv, LogsOK
<1> QED
  BY <1>1, OrderInit, OrderStep, PTL DEF Spec

(* Every event that the loop has passed is in one place: counted as lost, or *)
(* on its way to, or in, the log of its own partition.                       *)
THEOREM NothingVanishes == Spec => []EveryEventAccounted
<1>1. OrderInv => EveryEventAccounted
  <2> SUFFICES ASSUME OrderInv, NEW k \in Keys
               PROVE  Cardinality({p \in Partitions : k \in ToSet(Pipeline(p))})
                        + (IF k \in lost THEN 1 ELSE 0) = (IF k < ufoId THEN 1 ELSE 0)
    BY DEF EveryEventAccounted
  <2> DEFINE places == {p \in Partitions : k \in ToSet(Pipeline(p))}
  <2>1. places = {p \in Partitions : k \in At(p)}
    BY PipelineIs DEF OrderInv
  <2>2. PartitionOf[k] \in Partitions
    BY ProducerAssumption DEF Keys
  <2>3. /\ \A p \in Partitions : k \in At(p) => k < ufoId /\ p = PartitionOf[k] /\ k \notin lost
        /\ k \in lost => k < ufoId
        /\ k < ufoId => k \in lost \/ k \in At(PartitionOf[k])
    BY DEF OrderInv, PlacesOK
  <2> HIDE DEF places
  <2>4. CASE k \in At(PartitionOf[k])
    <3>1. places = {PartitionOf[k]}
      BY <2>1, <2>2, <2>3, <2>4
    <3>2. Cardinality(places) = 1
      BY <3>1, FS_Singleton
    <3> QED
      BY <2>2, <2>3, <2>4, <3>2 DEF places
  <2>5. CASE k \notin At(PartitionOf[k])
    <3>1. places = {}
      BY <2>1, <2>3, <2>5
    <3>2. Cardinality(places) = 0
      BY <3>1, FS_EmptySet
    <3> QED
      BY <2>3, <2>5, <3>2 DEF places
  <2> QED
    BY <2>4, <2>5
<1> QED
  BY <1>1, OrderInit, OrderStep, PTL DEF Spec

=============================================================================
