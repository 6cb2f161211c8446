----------------------------- MODULE JobProofs -----------------------------
(***************************************************************************)
(* Theorems about two MapReduce programs: for ProcessLogs, that a run that *)
(* exits with 0 counted its own input and left it in total order, for any  *)
(* logs, keys and reducers; for KillJob, that the exit code of TryKill     *)
(* tells the truth, for any number of maps, failures and attempts.         *)
(***************************************************************************)
EXTENDS ProcessLogs, KillJob, FiniteSetTheorems, FunctionTheorems, SequenceTheorems,
        TLAPS

-----------------------------------------------------------------------------
(* ProcessLogs: counting in sequences and in sets of pairs. *)

(* Where the key k stands in a sequence of keys *)
Occurs(s, k) == {i \in DOMAIN s : s[i] = k}

LEMMA OccursFinite ==
    ASSUME NEW S, NEW s \in Seq(S), NEW k
    PROVE  IsFiniteSet(Occurs(s, k)) /\ Cardinality(Occurs(s, k)) \in Nat
<1>1. Len(s) \in Nat /\ DOMAIN s = 1 .. Len(s)
  OBVIOUS
<1>2. IsFiniteSet(1 .. Len(s))
  BY <1>1, FS_Interval
<1>3. Occurs(s, k) \in SUBSET (1 .. Len(s))
  BY <1>1 DEF Occurs
<1> QED
  BY <1>2, <1>3, FS_Subset, FS_CardinalityType

LEMMA OccursNone == ASSUME NEW k PROVE Cardinality(Occurs(<<>>, k)) = 0
<1>1. Occurs(<<>>, k) = {}
  BY DEF Occurs
<1> QED
  BY <1>1, FS_EmptySet

(* One more key. *)
LEMMA OccursAppend ==
    ASSUME NEW S, NEW s \in Seq(S), NEW e \in S, NEW k
    PROVE  Cardinality(Occurs(Append(s, e), k)) =
               Cardinality(Occurs(s, k)) + (IF e = k THEN 1 ELSE 0)
<1>1. /\ Len(s) \in Nat /\ DOMAIN s = 1 .. Len(s)
      /\ DOMAIN Append(s, e) = 1 .. Len(s) + 1
      /\ Append(s, e)[Len(s) + 1] = e
      /\ \A i \in 1 .. Len(s) : Append(s, e)[i] = s[i]
  OBVIOUS
<1>2. IsFiniteSet(Occurs(s, k)) /\ Cardinality(Occurs(s, k)) \in Nat
  BY OccursFinite
<1>3. CASE e = k
  <2>1. Occurs(Append(s, e), k) = Occurs(s, k) \cup {Len(s) + 1}
    BY <1>1, <1>3 DEF Occurs
  <2>2. Len(s) + 1 \notin Occurs(s, k)
    BY <1>1 DEF Occurs
  <2> QED
    BY <1>2, <1>3, <2>1, <2>2, FS_AddElement
<1>4. CASE e # k
  <2>1. Occurs(Append(s, e), k) = Occurs(s, k)
    BY <1>1, <1>4 DEF Occurs
  <2> QED
    BY <1>2, <1>4, <2>1
<1> QED
  BY <1>3, <1>4

(* The union of finite sets that have no element in common. *)
LEMMA DisjointUnion ==
    ASSUME NEW S, NEW T, IsFiniteSet(S), IsFiniteSet(T), S \cap T = {}
    PROVE  /\ IsFiniteSet(S \cup T)
           /\ Cardinality(S \cup T) = Cardinality(S) + Cardinality(T)
<1>1. Cardinality(S) \in Nat /\ Cardinality(T) \in Nat /\ Cardinality(S \cap T) = 0
  BY FS_CardinalityType, FS_EmptySet
<1>2. /\ IsFiniteSet(S \cup T)
      /\ Cardinality(S \cup T) =
             Cardinality(S) + Cardinality(T) - Cardinality(S \cap T)
  BY FS_Union, Zenon
<1> QED
  BY <1>1, <1>2

(* The keys of one sequence after those of another. *)
LEMMA OccursConcat ==
    ASSUME NEW S, NEW s \in Seq(S), NEW t \in Seq(S), NEW k
    PROVE  Cardinality(Occurs(s \o t, k)) =
               Cardinality(Occurs(s, k)) + Cardinality(Occurs(t, k))
<1> DEFINE later == {i \in Len(s) + 1 .. Len(s) + Len(t) : t[i - Len(s)] = k}
           shift == [i \in Occurs(t, k) |-> Len(s) + i]
<1>1. /\ Len(s) \in Nat /\ DOMAIN s = 1 .. Len(s)
      /\ Len(t) \in Nat /\ DOMAIN t = 1 .. Len(t)
      /\ DOMAIN (s \o t) = 1 .. Len(s) + Len(t)
      /\ \A i \in 1 .. Len(s) + Len(t) :
             (s \o t)[i] = IF i <= Len(s) THEN s[i] ELSE t[i - Len(s)]
  OBVIOUS
<1>2. Occurs(s \o t, k) = Occurs(s, k) \cup later
  BY <1>1 DEF Occurs
<1>3. Occurs(s, k) \cap later = {}
  BY <1>1 DEF Occurs
<1>4. shift \in Bijection(Occurs(t, k), later)
  <2>1. shift \in [Occurs(t, k) -> later]
    BY <1>1 DEF Occurs
  <2>2. \A i, j \in Occurs(t, k) : shift[i] = shift[j] => i = j
    BY <1>1 DEF Occurs
  <2>3. \A n \in later : \E i \in Occurs(t, k) : shift[i] = n
    <3>1. TAKE n \in later
    <3>2. n - Len(s) \in Occurs(t, k)
      BY <1>1 DEF Occurs
    <3>3. shift[n - Len(s)] = n
      BY <1>1, <3>2
    <3> QED
      BY <3>2, <3>3
  <2> HIDE DEF shift, later
  <2> QED
    BY <2>1, <2>2, <2>3, Fun_IsBij
<1>5. IsFiniteSet(later) /\ Cardinality(later) = Cardinality(Occurs(t, k))
  <2>1. ExistsBijection(Occurs(t, k), later)
    BY <1>4 DEF ExistsBijection
  <2> QED
    BY <2>1, OccursFinite, FS_Bijection
<1> HIDE DEF later
<1> QED
  BY <1>2, <1>3, <1>5, OccursFinite, DisjointUnion

(* A set of numbers, each paired with t. *)
LEMMA PairedWith ==
    ASSUME NEW S, IsFiniteSet(S), NEW t
    PROVE  IsFiniteSet({t} \X S) /\ Cardinality({t} \X S) = Cardinality(S)
<1> DEFINE pair == [i \in S |-> <<t, i>>]
<1>1. pair \in Bijection(S, {t} \X S)
  <2>1. pair \in [S -> {t} \X S] /\ \A i, j \in S : pair[i] = pair[j] => i = j
    OBVIOUS
  <2>2. \A e \in {t} \X S : \E i \in S : pair[i] = e
    OBVIOUS
  <2> HIDE DEF pair
  <2> QED
    BY <2>1, <2>2, Fun_IsBij
<1> QED
  BY <1>1, FS_Bijection DEF ExistsBijection


-----------------------------------------------------------------------------
(* ProcessLogs: what keeps its counts exact and its parts in order. *)

(* The lines with the key k that a task's attempt has mapped *)
Mapped(t, k) == {i \in LinesOf(runInput[t], k) : i <= pos[t]}

(* The lines with the key k of the tasks that have committed *)
Committed(k) ==
    UNION {{t} \X LinesOf(runInput[t], k) : t \in {u \in Tasks : part[u]}}

(* The directories there are, and how far main is *)
FilesInv ==
    /\ staging = "absent" => pc = "idle" /\ staged = <<>> /\ output = "absent"
    /\ output = "absent" => counts = NoCounts
    /\ pc \in {"stage", "sample", "order"} => output = "absent"
    /\ pc = "reduce" => output = "started"
    /\ code = 0 => pc = "idle"

(* A task's buffer holds what its attempt has mapped, and the staging        *)
(* directory what the tasks of this run have committed.                      *)
StageInv ==
    pc = "stage" =>
        /\ \A t \in Tasks : part[t] => pos[t] = Len(runInput[t])
        /\ \A t \in Tasks, k \in Keys :
               Cardinality(Occurs(buffer[t], k)) = Cardinality(Mapped(t, k))
        /\ \A k \in Keys :
               IsFiniteSet(Committed(k)) /\ CountOf(k) = Cardinality(Committed(k))

(* From the end of the first job on, what is staged is the input of the run. *)
StagedInv ==
    pc \in {"sample", "order", "reduce"} \/ (output = "complete" /\ code = 0) =>
        \A k \in Keys : CountOf(k) = Hits(runInput, k)

(* A reducer's part is missing, or it is all that the reducer has to count;  *)
(* none is missing in the end.                                               *)
PartOf(p) == [k \in {l \in MapOutput : ReducerOf(l) = p} |-> CountOf(k)]
PartsInv ==
    /\ pc = "reduce" \/ output = "complete" =>
           \A p \in 1 .. NumReduce : counts[p] \in {<<>>, PartOf(p)}
    /\ output = "complete" =>
           MapOutput = UNION {DOMAIN counts[p] : p \in 1 .. NumReduce}

LogsInv == TypeOK /\ FilesInv /\ StageInv /\ StagedInv /\ PartsInv

(* A log is a sequence of lines. *)
LEMMA LogLines ==
    ASSUME NEW logs \in Inputs, NEW t \in Tasks
    PROVE  /\ logs[t] \in Seq(Line)
           /\ Len(logs[t]) \in Nat /\ DOMAIN logs[t] = 1 .. Len(logs[t])
           /\ \A i \in 1 .. Len(logs[t]) : logs[t][i] \in Line
<1>1. logs[t] \in Seq(Line)
  BY LogsAssumption
<1> HIDE DEF Line
<1> QED
  BY <1>1

(* The lines of a log with a key are finitely many. *)
LEMMA LinesFinite ==
    ASSUME NEW logs \in Inputs, NEW t \in Tasks, NEW k
    PROVE  IsFiniteSet(LinesOf(logs[t], k))
<1>1. Len(logs[t]) \in Nat /\ DOMAIN logs[t] = 1 .. Len(logs[t])
  BY LogLines
<1>2. IsFiniteSet(1 .. Len(logs[t]))
  BY <1>1, FS_Interval
<1>3. LinesOf(logs[t], k) \in SUBSET (1 .. Len(logs[t]))
  BY <1>1 DEF LinesOf
<1> QED
  BY <1>2, <1>3, FS_Subset

(* getKVPair and map: a line is written if and only if it is valid, with its *)
(* own month and address, whatever kv held before.                           *)
LEMMA KVPairOfLine ==
    ASSUME NEW l \in Line, NEW before
    PROVE  LET pair == GetKVPair(l, before) IN
           /\ pair \in (Addresses \cup {Null}) \X (Months \cup {Null})
           /\ Writes(pair) <=> Valid(l)
           /\ Valid(l) => Key(pair) = <<l.month, l.ip>> /\ Key(pair) \in Keys
<1> DEFINE pair == GetKVPair(l, before)
<1>1. /\ l.fields \in 1 .. 4 /\ l.parts \in 1 .. 3
      /\ l.month \in Months \cup {-1} /\ l.ip \in Addresses
  BY DEF Line
<1>2. /\ pair[1] = IF l.fields > 3 THEN l.ip ELSE Null
      /\ pair[2] = IF l.fields > 3 /\ l.parts > 1 /\ l.month # -1 THEN l.month ELSE Null
      /\ pair = <<pair[1], pair[2]>>
  BY DEF GetKVPair, FillKV
<1>3. -1 \notin Months
  BY LogsAssumption
<1> HIDE DEF pair
<1>4. pair \in (Addresses \cup {Null}) \X (Months \cup {Null})
  BY <1>1, <1>2, <1>3 DEF Null
<1>5. Writes(pair) <=> Valid(l)
  BY <1>1, <1>2, <1>3 DEF Null, Writes, Valid
<1>6. Valid(l) => Key(pair) = <<l.month, l.ip>> /\ Key(pair) \in Keys
  BY <1>1, <1>2 DEF Null, Key, Valid, Keys
<1> QED
  BY <1>4, <1>5, <1>6 DEF pair

(* Keys are pairs of numbers, so Less orders them. *)
LEMMA KeysAreNumbers ==
    ASSUME NEW k \in Keys
    PROVE  k = <<k[1], k[2]>> /\ k[1] \in Nat /\ k[2] \in Nat
<1>1. Months \subseteq Nat /\ Addresses \subseteq Nat
  BY LogsAssumption
<1>2. PICK m \in Months, a \in Addresses : k = <<m, a>>
  BY DEF Keys
<1>3. m \in Nat /\ a \in Nat
  BY <1>1
<1>4. k[1] = m /\ k[2] = a
  BY <1>2
<1> QED
  BY <1>2, <1>3, <1>4

(* What stands after a key stands no further down, and only greater keys are *)
(* sent to later reducers.                                                   *)
LEMMA ReducersInOrder ==
    ASSUME points \in Seq(Keys), NEW k \in Keys, NEW l \in Keys,
           ReducerOf(k) < ReducerOf(l)
    PROVE  Less(k, l)
<1> DEFINE below(m) == {i \in DOMAIN points : ~Less(m, points[i])}
<1>1. Len(points) \in Nat /\ DOMAIN points = 1 .. Len(points)
      /\ \A i \in DOMAIN points : points[i] \in Keys
  OBVIOUS
<1>2. \A m : below(m) \in SUBSET (1 .. Len(points))
  BY <1>1
<1>3. IsFiniteSet(1 .. Len(points))
  BY <1>1, FS_Interval
<1>4. \A m : IsFiniteSet(below(m)) /\ Cardinality(below(m)) \in Nat
  BY <1>2, <1>3, FS_Subset, FS_CardinalityType
<1>5. ASSUME ~Less(k, l) PROVE below(l) \subseteq below(k)
  <2>1. SUFFICES ASSUME NEW i \in DOMAIN points, ~Less(l, points[i])
                 PROVE  ~Less(k, points[i])
    OBVIOUS
  <2>2. points[i] \in Keys
    BY <1>1
  <2> QED
    BY <1>5, <2>1, <2>2, KeysAreNumbers DEF Less
<1>6. ASSUME ~Less(k, l) PROVE Cardinality(below(l)) <= Cardinality(below(k))
  BY <1>4, <1>5, <1>6, FS_Subset
<1>7. ReducerOf(k) = 1 + Cardinality(below(k)) /\ ReducerOf(l) = 1 + Cardinality(below(l))
  BY DEF ReducerOf, PartitionOf
<1> HIDE DEF below
<1> QED
  BY <1>4, <1>6, <1>7

(* CountReducer finds each staged key at least once, and no other. *)
LEMMA CountOfStaged ==
    ASSUME staged \in Seq(Keys), NEW k
    PROVE  /\ CountOf(k) \in Nat /\ CountOf(k) = Cardinality(Occurs(staged, k))
           /\ k \in MapOutput <=> CountOf(k) # 0
<1>1. CountOf(k) = Cardinality(Occurs(staged, k))
  BY DEF CountOf, Occurs
<1>2. IsFiniteSet(Occurs(staged, k)) /\ Cardinality(Occurs(staged, k)) \in Nat
  BY OccursFinite
<1>3. k \in MapOutput <=> Occurs(staged, k) # {}
  BY DEF MapOutput, Elements, Occurs
<1> QED
  BY <1>1, <1>2, <1>3, FS_EmptySet


LEMMA LogsInit == Init => LogsInv
<1> SUFFICES ASSUME Init PROVE LogsInv
  OBVIOUS
<1> USE DEF Init
<1>1. TypeOK
  <2>1. <<>> \in Seq(Keys) /\ 0 \in 0 .. RunMax /\ 0 \in 0 .. FailMax
    BY LogsAssumption
  <2>2. pos = Fresh /\ pos \in [Tasks -> Nat] /\ \A t \in Tasks : pos[t] <= Len(runInput[t])
    BY LogLines DEF Fresh
  <2>3. kv \in [Tasks -> (Addresses \cup {Null}) \X (Months \cup {Null})]
    BY DEF NoKV
  <2>4. buffer \in [Tasks -> Seq(Keys)] /\ part \in [Tasks -> BOOLEAN]
    BY DEF Empty
  <2>5. /\ counts = [p \in 1 .. NumReduce |-> counts[p]]
        /\ \A p \in 1 .. NumReduce : counts[p] \in [DOMAIN counts[p] -> Nat]
    BY DEF NoCounts
  <2> QED
    BY <2>1, <2>2, <2>3, <2>4, <2>5 DEF TypeOK
<1>2. FilesInv /\ StageInv /\ StagedInv /\ PartsInv
  BY DEF FilesInv, StageInv, StagedInv, PartsInv
<1> QED
  BY <1>1, <1>2 DEF LogsInv

(* Steps that leave the staged keys, the split points and the parts alone    *)
(* leave alone what is said of them.                                         *)
LEMMA StagedSame ==
    ASSUME UNCHANGED <<staged, points>>
    PROVE  /\ \A k : CountOf(k)' = CountOf(k)
           /\ MapOutput' = MapOutput
           /\ \A p : PartOf(p)' = PartOf(p)
<1>1. \A k : CountOf(k)' = CountOf(k)
  BY DEF CountOf
<1>2. MapOutput' = MapOutput
  BY DEF MapOutput, Elements
<1>3. \A k : ReducerOf(k)' = ReducerOf(k)
  BY DEF ReducerOf, PartitionOf
<1> QED
  BY <1>1, <1>2, <1>3 DEF PartOf

(* A run that starts finds an empty staging directory, or is refused. *)
LEMMA MainStep ==
    ASSUME LogsInv, Main
    PROVE  LogsInv'
<1> USE DEF LogsInv
<1>1. /\ pc = "idle" /\ runs < RunMax /\ runs' = runs + 1 /\ runInput' = input
      /\ pos' = Fresh /\ kv' = NoKV /\ buffer' = Empty
      /\ part' = [t \in Tasks |-> FALSE]
      /\ UNCHANGED <<input, staged, points, output, counts, fails>>
  BY DEF Main, MainWith
<1>2. \/ staging = "absent" /\ pc' = "stage" /\ code' = -1 /\ staging' = "started"
      \/ staging # "absent" /\ pc' = "idle" /\ code' = 1 /\ staging' = staging
  BY DEF Main, MainWith
<1>3. TypeOK'
  <2>1. runs' \in 0 .. RunMax
    BY <1>1, LogsAssumption DEF TypeOK
  <2>2. pos' \in [Tasks -> Nat] /\ \A t \in Tasks : pos'[t] <= Len(runInput'[t])
    BY <1>1, LogLines DEF Fresh, TypeOK
  <2>3. kv' \in [Tasks -> (Addresses \cup {Null}) \X (Months \cup {Null})]
    BY <1>1 DEF NoKV
  <2>4. buffer' \in [Tasks -> Seq(Keys)] /\ part' \in [Tasks -> BOOLEAN]
    BY <1>1 DEF Empty
  <2> QED
    BY <1>1, <1>2, <2>1, <2>2, <2>3, <2>4 DEF TypeOK
<1>4. FilesInv'
  BY <1>1, <1>2 DEF FilesInv
<1>5. StageInv'
  <2> SUFFICES ASSUME pc' = "stage" PROVE StageInv'
    BY DEF StageInv
  <2>1. staged' = <<>>
    BY <1>1, <1>2 DEF FilesInv
  <2>2. \A t \in Tasks, k \in Keys :
            Cardinality(Occurs(buffer'[t], k)) = Cardinality(Mapped(t, k)')
    <3> TAKE t \in Tasks, k \in Keys
    <3>1. Cardinality(Occurs(buffer'[t], k)) = 0
      BY <1>1, OccursNone DEF Empty
    <3>2. Len(runInput'[t]) \in Nat /\ DOMAIN runInput'[t] = 1 .. Len(runInput'[t])
      BY <1>1, LogLines DEF TypeOK
    <3>3. Mapped(t, k)' = {}
      BY <1>1, <3>2 DEF Mapped, LinesOf, Fresh
    <3> QED
      BY <3>1, <3>3, FS_EmptySet
  <2>3. \A k \in Keys : IsFiniteSet(Committed(k)') /\ CountOf(k)' = Cardinality(Committed(k)')
    <3> TAKE k \in Keys
    <3>1. Committed(k)' = {}
      BY <1>1 DEF Committed
    <3>2. CountOf(k)' = 0
      BY <2>1, OccursNone DEF CountOf, Occurs
    <3> QED
      BY <3>1, <3>2, FS_EmptySet
  <2> QED
    BY <1>1, <2>2, <2>3 DEF StageInv
<1>6. StagedInv'
  BY <1>1, <1>2 DEF StagedInv
<1>7. PartsInv'
  BY <1>1, <1>2, StagedSame DEF PartsInv
<1> QED
  BY <1>3, <1>4, <1>5, <1>6, <1>7

(* map: one line more is mapped, and written if it is valid. *)
LEMMA MapLineStep ==
    ASSUME LogsInv, NEW t \in Tasks, MapLine(t)
    PROVE  LogsInv'
<1> USE DEF LogsInv
<1> DEFINE l == runInput[t][pos[t] + 1]
           pair == GetKVPair(l, kv[t])
<1>1. /\ pc = "stage" /\ ~part[t] /\ pos[t] < Len(runInput[t])
      /\ kv' = [kv EXCEPT ![t] = pair]
      /\ buffer' = [buffer EXCEPT ![t] =
             IF Writes(pair) THEN Append(@, Key(pair)) ELSE @]
      /\ pos' = [pos EXCEPT ![t] = @ + 1]
      /\ UNCHANGED <<input, runInput, pc, code, part, staging, staged, points,
                     output, counts, runs, fails>>
  BY DEF MapLine, fileVars
<1>2. /\ runInput \in Inputs /\ pos[t] \in Nat /\ l \in Line
      /\ Len(runInput[t]) \in Nat /\ DOMAIN runInput[t] = 1 .. Len(runInput[t])
  BY <1>1, LogLines DEF TypeOK
<1>3. /\ pair \in (Addresses \cup {Null}) \X (Months \cup {Null})
      /\ Writes(pair) <=> Valid(l)
      /\ Valid(l) => Key(pair) = <<l.month, l.ip>> /\ Key(pair) \in Keys
  BY <1>2, KVPairOfLine
<1> HIDE DEF pair
<1>4. buffer[t] \in Seq(Keys) /\ buffer'[t] = IF Valid(l) THEN Append(buffer[t], Key(pair)) ELSE buffer[t]
  BY <1>1, <1>3 DEF TypeOK
<1>5. TypeOK'
  <2>1. pos' \in [Tasks -> Nat] /\ \A u \in Tasks : pos'[u] <= Len(runInput'[u])
    BY <1>1, <1>2, SMTT(30) DEF TypeOK
  <2>2. kv' \in [Tasks -> (Addresses \cup {Null}) \X (Months \cup {Null})]
    BY <1>1, <1>3 DEF TypeOK
  <2>3. buffer'[t] \in Seq(Keys)
    BY <1>3, <1>4
  <2>4. buffer' \in [Tasks -> Seq(Keys)]
    BY <1>1, <2>3 DEF TypeOK
  <2> QED
    BY <1>1, <2>1, <2>2, <2>4 DEF TypeOK
<1>6. FilesInv'
  BY <1>1 DEF FilesInv
<1>7. \A k \in Keys : Cardinality(Occurs(buffer'[t], k)) = Cardinality(Mapped(t, k)')
  <2> TAKE k \in Keys
  <2>1. Cardinality(Occurs(buffer[t], k)) = Cardinality(Mapped(t, k))
    BY <1>1 DEF StageInv
  <2>2. IsFiniteSet(Mapped(t, k)) /\ pos[t] + 1 \notin Mapped(t, k)
    <3>1. Mapped(t, k) \in SUBSET LinesOf(runInput[t], k)
      BY DEF Mapped
    <3>2. pos[t] + 1 \notin Mapped(t, k)
      BY <1>2 DEF Mapped
    <3> QED
      BY <1>2, <3>1, <3>2, LinesFinite, FS_Subset
  <2>3. CASE Valid(l) /\ <<l.month, l.ip>> = k
    <3>1. Mapped(t, k)' = Mapped(t, k) \cup {pos[t] + 1}
      BY <1>1, <1>2, <2>3, SMTT(30) DEF Mapped, LinesOf, TypeOK
    <3>2. Cardinality(Occurs(buffer'[t], k)) = Cardinality(Occurs(buffer[t], k)) + 1
      BY <1>3, <1>4, <2>3, OccursAppend
    <3> QED
      BY <2>1, <2>2, <3>1, <3>2, FS_AddElement
  <2>4. CASE ~(Valid(l) /\ <<l.month, l.ip>> = k)
    <3>1. Mapped(t, k)' = Mapped(t, k)
      BY <1>1, <1>2, <2>4, SMTT(30) DEF Mapped, LinesOf, TypeOK
    <3>2. Cardinality(Occurs(buffer'[t], k)) = Cardinality(Occurs(buffer[t], k))
      <4>1. CASE Valid(l)
        <5>1. Cardinality(Occurs(buffer[t], k)) \in Nat
          BY <1>4, OccursFinite
        <5> QED
          BY <1>3, <1>4, <2>4, <4>1, <5>1, OccursAppend
      <4>2. CASE ~Valid(l)
        BY <1>4, <4>2
      <4> QED
        BY <4>1, <4>2
    <3> QED
      BY <2>1, <3>1, <3>2
  <2> QED
    BY <2>3, <2>4
<1>8. StageInv'
  <2>1. \A u \in Tasks : u # t => buffer'[u] = buffer[u] /\ pos'[u] = pos[u]
    BY <1>1 DEF TypeOK
  <2>2. \A u \in Tasks, k \in Keys : u # t => Mapped(u, k)' = Mapped(u, k)
    BY <1>1, <2>1 DEF Mapped
  <2>3. \A k \in Keys : Committed(k)' = Committed(k) /\ CountOf(k)' = CountOf(k)
    BY <1>1, StagedSame DEF Committed
  <2>4. \A u \in Tasks, k \in Keys :
            Cardinality(Occurs(buffer'[u], k)) = Cardinality(Mapped(u, k)')
    BY <1>1, <1>7, <2>1, <2>2 DEF StageInv
  <2>5. \A u \in Tasks : part'[u] => pos'[u] = Len(runInput'[u])
    BY <1>1, <2>1 DEF StageInv
  <2> QED
    BY <1>1, <2>3, <2>4, <2>5 DEF StageInv
<1>9. StagedInv' /\ PartsInv'
  BY <1>1, StagedSame DEF StagedInv, PartsInv, FilesInv
<1> QED
  BY <1>5, <1>6, <1>8, <1>9


(* The committer adds what the attempt has written, once for each task. *)
LEMMA CommitStep ==
    ASSUME LogsInv, NEW t \in Tasks, CommitTask(t)
    PROVE  LogsInv'
<1> USE DEF LogsInv
<1>1. /\ pc = "stage" /\ ~part[t] /\ pos[t] = Len(runInput[t])
      /\ part' = [part EXCEPT ![t] = TRUE]
      /\ staged' = staged \o buffer[t]
      /\ UNCHANGED <<input, runInput, pc, code, pos, kv, buffer,
                     staging, points, output, counts, runs, fails>>
  BY DEF CommitTask
<1>2. staged \in Seq(Keys) /\ buffer[t] \in Seq(Keys) /\ runInput \in Inputs
  BY DEF TypeOK
<1>3. staged' \in Seq(Keys)
  BY <1>1, <1>2, ConcatProperties
<1>4. TypeOK'
  BY <1>1, <1>3 DEF TypeOK
<1>5. FilesInv'
  BY <1>1 DEF FilesInv
<1>6. \A u \in Tasks : part'[u] <=> part[u] \/ u = t
  BY <1>1 DEF TypeOK
<1>7. \A k \in Keys : IsFiniteSet(Committed(k)') /\ CountOf(k)' = Cardinality(Committed(k)')
  <2> TAKE k \in Keys
  <2> DEFINE mine == {t} \X LinesOf(runInput[t], k)
  <2>1. Mapped(t, k) = LinesOf(runInput[t], k)
    <3>1. Len(runInput[t]) \in Nat /\ DOMAIN runInput[t] = 1 .. Len(runInput[t])
      BY <1>2, LogLines
    <3> QED
      BY <1>1, <3>1 DEF Mapped, LinesOf
  <2>2. /\ IsFiniteSet(mine)
        /\ Cardinality(mine) = Cardinality(LinesOf(runInput[t], k))
    BY <1>2, LinesFinite, PairedWith
  <2>3. Committed(k)' = Committed(k) \cup mine
    BY <1>1, <1>6 DEF Committed
  <2>4. Committed(k) \cap mine = {}
    BY <1>1 DEF Committed
  <2>5. IsFiniteSet(Committed(k)) /\ Cardinality(Occurs(staged, k)) = Cardinality(Committed(k))
    BY <1>1, <1>2, CountOfStaged DEF StageInv
  <2>6. Cardinality(Occurs(staged', k)) =
            Cardinality(Occurs(staged, k)) + Cardinality(Occurs(buffer[t], k))
    BY <1>1, <1>2, OccursConcat
  <2>7. Cardinality(Occurs(buffer[t], k)) = Cardinality(mine)
    BY <1>1, <2>1, <2>2 DEF StageInv
  <2>8. CountOf(k)' = Cardinality(Occurs(staged', k))
    BY DEF CountOf, Occurs
  <2> HIDE DEF mine
  <2> QED
    BY <2>2, <2>3, <2>4, <2>5, <2>6, <2>7, <2>8, DisjointUnion
<1>8. StageInv'
  <2>1. \A u \in Tasks, k \in Keys :
            Cardinality(Occurs(buffer'[u], k)) = Cardinality(Mapped(u, k)')
    BY <1>1 DEF StageInv, Mapped
  <2> QED
    BY <1>1, <1>6, <1>7, <2>1 DEF StageInv
<1>9. StagedInv' /\ PartsInv'
  BY <1>1 DEF StagedInv, PartsInv, FilesInv
<1> QED
  BY <1>4, <1>5, <1>8, <1>9

(* The next attempt of a task starts again, with nothing written. *)
LEMMA AttemptDiesStep ==
    ASSUME LogsInv, NEW t \in Tasks, AttemptDies(t)
    PROVE  LogsInv'
<1> USE DEF LogsInv
<1>1. /\ pc = "stage" /\ ~part[t] /\ fails < FailMax /\ fails' = fails + 1
      /\ pos' = [pos EXCEPT ![t] = 0]
      /\ kv' = [kv EXCEPT ![t] = <<Null, Null>>]
      /\ buffer' = [buffer EXCEPT ![t] = <<>>]
      /\ UNCHANGED <<input, runInput, pc, code, part, staging, staged, points,
                     output, counts, runs>>
  BY DEF AttemptDies, fileVars
<1>2. runInput \in Inputs
  BY DEF TypeOK
<1>3. TypeOK'
  <2>1. fails' \in 0 .. FailMax
    BY <1>1, LogsAssumption DEF TypeOK
  <2>2. pos' \in [Tasks -> Nat] /\ \A u \in Tasks : pos'[u] <= Len(runInput'[u])
    BY <1>1, <1>2, LogLines DEF TypeOK
  <2>3. kv' \in [Tasks -> (Addresses \cup {Null}) \X (Months \cup {Null})]
    BY <1>1 DEF TypeOK
  <2>4. buffer' \in [Tasks -> Seq(Keys)]
    BY <1>1 DEF TypeOK
  <2> QED
    BY <1>1, <2>1, <2>2, <2>3, <2>4 DEF TypeOK
<1>4. FilesInv'
  BY <1>1 DEF FilesInv
<1>5. StageInv'
  <2>1. \A u \in Tasks : u # t => buffer'[u] = buffer[u] /\ pos'[u] = pos[u]
    BY <1>1 DEF TypeOK
  <2>2. buffer'[t] = <<>> /\ pos'[t] = 0
    BY <1>1 DEF TypeOK
  <2>3. \A k \in Keys : Cardinality(Occurs(buffer'[t], k)) = Cardinality(Mapped(t, k)')
    <3> TAKE k \in Keys
    <3>1. DOMAIN runInput'[t] = 1 .. Len(runInput'[t])
      BY <1>1, <1>2, LogLines
    <3>2. Mapped(t, k)' = {}
      BY <1>1, <2>2, <3>1 DEF Mapped, LinesOf
    <3> QED
      BY <2>2, <3>2, OccursNone, FS_EmptySet
  <2>4. \A u \in Tasks, k \in Keys : u # t => Mapped(u, k)' = Mapped(u, k)
    BY <1>1, <2>1 DEF Mapped
  <2>5. \A k \in Keys : Committed(k)' = Committed(k) /\ CountOf(k)' = CountOf(k)
    BY <1>1, StagedSame DEF Committed
  <2>6. \A u \in Tasks, k \in Keys :
            Cardinality(Occurs(buffer'[u], k)) = Cardinality(Mapped(u, k)')
    BY <1>1, <2>1, <2>3, <2>4 DEF StageInv
  <2>7. \A u \in Tasks : part'[u] => pos'[u] = Len(runInput'[u])
    BY <1>1, <2>1 DEF StageInv
  <2> QED
    BY <1>1, <2>5, <2>6, <2>7 DEF StageInv
<1>6. StagedInv' /\ PartsInv'
  BY <1>1, StagedSame DEF StagedInv, PartsInv, FilesInv
<1> QED
  BY <1>3, <1>4, <1>5, <1>6

(* The first job ends when every task has committed: its input is staged. *)
LEMMA StageSucceedsStep ==
    ASSUME LogsInv, StageSucceeds
    PROVE  LogsInv'
<1> USE DEF LogsInv
<1>1. /\ pc = "stage" /\ (\A t \in Tasks : part[t])
      /\ pc' = "sample" /\ staging' = "complete"
      /\ UNCHANGED <<input, runInput, code, pos, kv, buffer, part, staged, points,
                     output, counts, runs, fails>>
  BY DEF StageSucceeds, taskVars
<1>2. TypeOK' /\ FilesInv' /\ StageInv'
  BY <1>1 DEF TypeOK, FilesInv, StageInv
<1>3. StagedInv'
  <2>1. \A k \in Keys : Hits(runInput, k) = Cardinality(Committed(k))
    <3>1. {u \in Tasks : part[u]} = Tasks
      BY <1>1
    <3> QED
      BY <3>1 DEF Hits, Committed
  <2>2. \A k \in Keys : CountOf(k)' = CountOf(k)
    BY <1>1, StagedSame
  <2> QED
    BY <1>1, <2>1, <2>2 DEF StagedInv, StageInv
<1>4. PartsInv'
  BY <1>1 DEF PartsInv, FilesInv
<1> QED
  BY <1>2, <1>3, <1>4

(* InputSampler changes nothing but the partition file, before any reducer   *)
(* reads it.                                                                 *)
LEMMA SampleStep ==
    ASSUME LogsInv, Sample
    PROVE  LogsInv'
<1> USE DEF LogsInv
<1>1. /\ pc = "sample" /\ pc' \in {"order", "idle"} /\ code' \in {code, 1}
      /\ UNCHANGED <<input, runInput, pos, kv, buffer, part, staging, staged,
                     output, counts, runs, fails>>
  BY DEF Sample, taskVars
<1>2. points' \in Seq(Keys)
  <2>1. CASE UNCHANGED points
    BY <2>1 DEF TypeOK
  <2>2. ASSUME NEW chosen \in [1 .. NumReduce - 1 -> Elements(staged)], points' = chosen
        PROVE  points' \in Seq(Keys)
    <3>1. Elements(staged) \subseteq Keys
      BY DEF TypeOK, Elements
    <3>2. chosen \in [1 .. NumReduce - 1 -> Keys]
      BY <3>1
    <3>3. NumReduce - 1 \in Nat
      BY LogsAssumption
    <3>4. chosen \in Seq(Keys)
      BY <3>2, <3>3, SeqDef
    <3> QED
      BY <2>2, <3>4
  <2> QED
    BY <2>1, <2>2 DEF Sample
<1>3. TypeOK'
  BY <1>1, <1>2 DEF TypeOK
<1>4. output' = "absent" /\ code' # 0
  BY <1>1 DEF FilesInv
<1>5. FilesInv' /\ StageInv' /\ PartsInv'
  BY <1>1, <1>4 DEF FilesInv, StageInv, PartsInv
<1>6. StagedInv'
  <2>1. \A k \in Keys : CountOf(k)' = CountOf(k)
    BY <1>1 DEF CountOf
  <2> QED
    BY <1>1, <2>1 DEF StagedInv
<1> QED
  BY <1>3, <1>5, <1>6


(* The second job starts without any part. *)
LEMMA OrderStep ==
    ASSUME LogsInv, Order
    PROVE  LogsInv'
<1> USE DEF LogsInv
<1>1. /\ pc = "order" /\ output = "absent" /\ counts = NoCounts
      /\ pc' = "reduce" /\ output' = "started"
      /\ UNCHANGED <<input, runInput, code, pos, kv, buffer, part, staging,
                     staged, points, counts, runs, fails>>
  BY DEF Order, taskVars, FilesInv
<1>2. TypeOK' /\ FilesInv' /\ StageInv'
  BY <1>1 DEF TypeOK, FilesInv, StageInv
<1>3. StagedInv' /\ PartsInv'
  BY <1>1, StagedSame DEF StagedInv, PartsInv, NoCounts
<1> QED
  BY <1>2, <1>3

(* A reducer that commits commits its whole part. *)
LEMMA ReduceStep ==
    ASSUME LogsInv, NEW p \in 1 .. NumReduce, Reduce(p)
    PROVE  LogsInv'
<1> USE DEF LogsInv
<1>1. /\ pc = "reduce" /\ counts' = [counts EXCEPT ![p] = PartOf(p)]
      /\ UNCHANGED <<input, runInput, pc, code, pos, kv, buffer, part, staging,
                     staged, points, output, runs, fails>>
  BY DEF Reduce, PartOf, taskVars
<1>2. /\ counts' = [q \in 1 .. NumReduce |-> counts'[q]]
      /\ counts'[p] = PartOf(p)
      /\ \A q \in 1 .. NumReduce : q # p => counts'[q] = counts[q]
  BY <1>1 DEF TypeOK
<1>3. PartOf(p) \in [DOMAIN PartOf(p) -> Nat]
  BY CountOfStaged DEF PartOf, TypeOK
<1>4. \A q \in 1 .. NumReduce : counts'[q] \in [DOMAIN counts'[q] -> Nat]
  BY <1>2, <1>3 DEF TypeOK
<1>5. TypeOK'
  BY <1>1, <1>2, <1>4 DEF TypeOK
<1>6. FilesInv' /\ StageInv'
  BY <1>1 DEF FilesInv, StageInv
<1>7. StagedInv' /\ PartsInv'
  BY <1>1, <1>2, StagedSame DEF StagedInv, PartsInv, FilesInv
<1> QED
  BY <1>5, <1>6, <1>7

(* The second job ends when every staged key is in a part. *)
LEMMA OrderSucceedsStep ==
    ASSUME LogsInv, OrderSucceeds
    PROVE  LogsInv'
<1> USE DEF LogsInv
<1>1. /\ pc = "reduce"
      /\ MapOutput = UNION {DOMAIN counts[p] : p \in 1 .. NumReduce}
      /\ output' = "complete" /\ code' = 0 /\ pc' = "idle"
      /\ UNCHANGED <<input, runInput, pos, kv, buffer, part, staging, staged,
                     points, counts, runs, fails>>
  BY DEF OrderSucceeds, taskVars
<1>2. TypeOK' /\ FilesInv' /\ StageInv'
  BY <1>1 DEF TypeOK, FilesInv, StageInv
<1>3. StagedInv' /\ PartsInv'
  BY <1>1, StagedSame DEF StagedInv, PartsInv
<1> QED
  BY <1>2, <1>3

(* A run that fails leaves its directories, and no exit code 0. *)
LEMMA RunFailsStep ==
    ASSUME LogsInv, RunFails
    PROVE  LogsInv'
<1> USE DEF LogsInv
<1>1. /\ pc # "idle" /\ fails < FailMax /\ fails' = fails + 1
      /\ pc' = "idle" /\ code' \in {1, 2}
      /\ UNCHANGED <<input, runInput, pos, kv, buffer, part, staging, staged,
                     points, output, counts, runs>>
  BY DEF RunFails, taskVars, fileVars
<1>2. fails' \in 0 .. FailMax
  BY <1>1, LogsAssumption DEF TypeOK
<1>3. TypeOK'
  BY <1>1, <1>2 DEF TypeOK
<1>4. FilesInv' /\ StageInv' /\ StagedInv'
  BY <1>1 DEF FilesInv, StageInv, StagedInv
<1>5. PartsInv'
  BY <1>1, StagedSame DEF PartsInv, FilesInv
<1> QED
  BY <1>3, <1>4, <1>5

(* Between runs: new logs, and directories that someone removes. *)
LEMMA BetweenRuns ==
    ASSUME LogsInv, NewLogs \/ CleanedByHand
    PROVE  LogsInv'
<1> USE DEF LogsInv
<1>1. CASE NewLogs
  <2>1. /\ pc = "idle" /\ input' \in Inputs
        /\ UNCHANGED <<runInput, pc, code, pos, kv, buffer, part, staging, staged,
                       points, output, counts, runs, fails>>
    BY <1>1 DEF NewLogs, taskVars, fileVars
  <2>2. TypeOK' /\ FilesInv' /\ StageInv'
    BY <2>1 DEF TypeOK, FilesInv, StageInv
  <2>3. StagedInv' /\ PartsInv'
    BY <2>1, StagedSame DEF StagedInv, PartsInv
  <2> QED
    BY <2>2, <2>3
<1>2. CASE CleanedByHand
  <2>1. /\ pc = "idle" /\ staging' = "absent" /\ staged' = <<>>
        /\ output' = "absent" /\ counts' = NoCounts
        /\ UNCHANGED <<input, runInput, pc, code, pos, kv, buffer, part, points,
                       runs, fails>>
    BY <1>2 DEF CleanedByHand, taskVars
  <2>2. /\ counts' = [p \in 1 .. NumReduce |-> counts'[p]]
        /\ \A p \in 1 .. NumReduce : counts'[p] \in [DOMAIN counts'[p] -> Nat]
    BY <2>1 DEF NoCounts
  <2>3. staged' \in Seq(Keys)
    BY <2>1
  <2>4. TypeOK'
    BY <2>1, <2>2, <2>3 DEF TypeOK
  <2>5. FilesInv' /\ StageInv' /\ StagedInv' /\ PartsInv'
    BY <2>1 DEF FilesInv, StageInv, StagedInv, PartsInv
  <2> QED
    BY <2>4, <2>5
<1> QED
  BY <1>1, <1>2

LEMMA LogsStutter ==
    ASSUME LogsInv, UNCHANGED vars
    PROVE  LogsInv'
<1> USE DEF LogsInv
<1>1. UNCHANGED <<input, runInput, pc, code, pos, kv, buffer, part, staging, staged,
                  points, output, counts, runs, fails>>
  BY DEF vars, taskVars, fileVars
<1>2. TypeOK' /\ FilesInv'
  BY <1>1 DEF TypeOK, FilesInv
<1>3. StageInv'
  <2>1. /\ \A t \in Tasks, k \in Keys : Mapped(t, k)' = Mapped(t, k)
        /\ \A k \in Keys : Committed(k)' = Committed(k) /\ CountOf(k)' = CountOf(k)
    BY <1>1, StagedSame DEF Mapped, Committed
  <2> QED
    BY <1>1, <2>1 DEF StageInv
<1>4. StagedInv' /\ PartsInv'
  BY <1>1, StagedSame DEF StagedInv, PartsInv
<1> QED
  BY <1>2, <1>3, <1>4

LEMMA LogsStep == LogsInv /\ [Next]_vars => LogsInv'
<1> SUFFICES ASSUME LogsInv, [Next]_vars PROVE LogsInv'
  OBVIOUS
<1>1. CASE \E t \in Tasks : MapLine(t) \/ CommitTask(t) \/ AttemptDies(t)
  BY <1>1, MapLineStep, CommitStep, AttemptDiesStep
<1>2. CASE \E p \in 1 .. NumReduce : Reduce(p)
  BY <1>2, ReduceStep
<1> QED
  BY <1>1, <1>2, MainStep, StageSucceedsStep, SampleStep, OrderStep, OrderSucceedsStep,
     RunFailsStep, BetweenRuns, LogsStutter DEF Next

(* A key of a complete output is in one part, with the lines of the input;   *)
(* a key of no line is in none.                                              *)
LEMMA InvCountsExactly == LogsInv => CountsAreExact
<1> SUFFICES ASSUME LogsInv, output = "complete", code = 0, NEW k \in Keys
             PROVE  LET counters == {p \in 1 .. NumReduce : k \in DOMAIN counts[p]} IN
                    IF Hits(runInput, k) = 0 THEN counters = {}
                    ELSE \E p \in counters :
                             counters = {p} /\ counts[p][k] = Hits(runInput, k)
  BY DEF CountsAreExact
<1> DEFINE counters == {p \in 1 .. NumReduce : k \in DOMAIN counts[p]}
<1>1. CountOf(k) = Hits(runInput, k) /\ (k \in MapOutput <=> CountOf(k) # 0)
  BY CountOfStaged DEF LogsInv, StagedInv, TypeOK
<1>2. k \in MapOutput <=> \E p \in 1 .. NumReduce : k \in DOMAIN counts[p]
  BY DEF LogsInv, PartsInv
<1>3. ASSUME NEW p \in 1 .. NumReduce, k \in DOMAIN counts[p]
      PROVE  ReducerOf(k) = p /\ counts[p][k] = CountOf(k)
  <2>1. counts[p] \in {<<>>, PartOf(p)}
    BY DEF LogsInv, PartsInv
  <2>2. counts[p] = PartOf(p)
    BY <1>3, <2>1
  <2> QED
    BY <1>3, <2>2 DEF PartOf
<1>4. CASE Hits(runInput, k) = 0
  <2>1. counters = {}
    BY <1>1, <1>2, <1>4
  <2> QED
    BY <1>4, <2>1
<1>5. CASE Hits(runInput, k) # 0
  <2>1. PICK p \in 1 .. NumReduce : k \in DOMAIN counts[p]
    BY <1>1, <1>2, <1>5
  <2>2. counters = {p} /\ counts[p][k] = Hits(runInput, k)
    BY <1>1, <1>3, <2>1
  <2> QED
    BY <1>5, <2>2
<1> QED
  BY <1>4, <1>5

LEMMA InvPartsOrdered == LogsInv => PartsInOrder
<1> SUFFICES ASSUME LogsInv, output = "complete",
                    NEW p \in 1 .. NumReduce, NEW q \in 1 .. NumReduce, p < q,
                    NEW k \in DOMAIN counts[p], NEW l \in DOMAIN counts[q]
             PROVE  Less(k, l)
  BY DEF PartsInOrder, LogsInv
<1>1. staged \in Seq(Keys) /\ points \in Seq(Keys)
  BY DEF LogsInv, TypeOK
<1>2. MapOutput \subseteq Keys
  BY <1>1 DEF MapOutput, Elements
<1>3. counts[p] = PartOf(p) /\ counts[q] = PartOf(q)
  BY DEF LogsInv, PartsInv
<1>4. k \in MapOutput /\ ReducerOf(k) = p /\ l \in MapOutput /\ ReducerOf(l) = q
  BY <1>3 DEF PartOf
<1> QED
  BY <1>1, <1>2, <1>4, ReducersInOrder

(* For any logs, months, addresses and number of reducers, whatever attempts *)
(* die, runs fail and logs grow: a run of ProcessLogs that exits with 0 has  *)
(* counted each month and address of its own input, in one part.             *)
THEOREM CountsOfRunsAreExact == Spec => []CountsAreExact
BY LogsInit, LogsStep, InvCountsExactly, PTL DEF Spec

(* Every field keeps its type, and the parts of a complete output, read in   *)
(* the order of their reducers, are sorted.                                  *)
THEOREM OutputIsInTotalOrder == Spec => []PartsInOrder
BY LogsInit, LogsStep, InvPartsOrdered, PTL DEF Spec

-----------------------------------------------------------------------------
(* KillJob: its exit code. *)

(* A map that found another line than "100" *)
Heeded(i) == line[i] = "100" \/ i \in unheard

(* A map is over only once its kill is with the master, which from then on   *)
(* lets the job succeed no more; an attempt that died starts again.          *)
KillInv ==
    /\ KillTypeOK
    /\ job = "running" => \A i \in Maps : tries[i] < MaxAttempts
    /\ \A i \in Maps : at[i] \in {"over", "done"} => Heeded(i) \/ killed
    /\ job = "succeeded" => \A i \in Maps : Heeded(i)
    /\ exitCode = 0 => job = "succeeded"

LEMMA KillInvInit ==
    ASSUME KillInit
    PROVE  KillInv
<1>1. MaxFailures \in Nat /\ 0 \in 0 .. MaxFailures /\ 0 \in 0 .. MaxAttempts /\ 0 < MaxAttempts
  BY KillAssumption
<1>2. KillTypeOK
  BY <1>1 DEF KillInit, KillTypeOK
<1> QED
  BY <1>1, <1>2 DEF KillInit, KillInv

LEMMA KillInvStep ==
    ASSUME KillInv, [KillNext]_killVars
    PROVE  KillInv'
<1> USE DEF KillInv, KillTypeOK, Heeded
<1>1. ASSUME NEW i \in Maps, Start(i) PROVE KillInv'
  BY <1>1 DEF Start
<1>2. ASSUME NEW i \in Maps, Map(i) PROVE KillInv'
  BY <1>2 DEF Map
<1>3. ASSUME NEW i \in Maps, Throws(i), killed' \in {killed, TRUE} PROVE KillInv'
  <2>1. failures' \in 0 .. MaxFailures
    BY <1>3, KillAssumption DEF Throws
  <2>2. killed' \in BOOLEAN /\ (killed => killed')
    <3>1. CASE killed' = killed
      BY <3>1
    <3>2. CASE killed' = TRUE
      BY <3>2
    <3> QED
      BY <1>3, <3>1, <3>2
  <2>3. KillTypeOK' /\ UNCHANGED <<line, tries, job, exitCode>>
    BY <1>3, <2>1, <2>2 DEF Throws
  <2>4. \A k \in Maps : Heeded(k) => Heeded(k)'
    BY <1>3 DEF Throws
  <2>5. Heeded(i)'
    BY <1>3 DEF Throws
  <2>6. \A k \in Maps : k # i => at'[k] = at[k]
    BY <1>3 DEF Throws
  <2>7. \A k \in Maps : at'[k] \in {"over", "done"} => Heeded(k)' \/ killed'
    BY <2>2, <2>4, <2>5, <2>6
  <2> QED
    BY <2>3, <2>4, <2>7
<1>4. ASSUME NEW i \in Maps, NewJobClient(i) PROVE KillInv'
  <2>1. CASE Throws(i) /\ UNCHANGED killed
    BY <1>3, <2>1
  <2>2. CASE ~Throws(i)
    BY <1>4, <2>2 DEF NewJobClient
  <2> QED
    BY <1>4, <2>1, <2>2 DEF NewJobClient
<1>5. ASSUME NEW i \in Maps, KillTheJob(i) PROVE KillInv'
  <2>1. CASE Throws(i) /\ killed' \in {killed, TRUE}
    BY <1>3, <2>1
  <2>2. CASE ~Throws(i)
    BY <1>5, <2>2 DEF KillTheJob
  <2> QED
    BY <1>5, <2>1, <2>2 DEF KillTheJob
<1>6. ASSUME NEW i \in Maps, End(i) PROVE KillInv'
  BY <1>6 DEF End
<1>7. ASSUME NEW i \in Maps, Dies(i) PROVE KillInv'
  <2>1. tries[i] + 1 \in 0 .. MaxAttempts
    BY <1>7, KillAssumption DEF Dies
  <2>2. KillTypeOK'
    BY <1>7, <2>1, KillAssumption DEF Dies
  <2>3. job' = "running" => \A k \in Maps : tries'[k] < MaxAttempts
    BY <1>7, <2>1, KillAssumption DEF Dies
  <2> QED
    BY <1>7, <2>2, <2>3 DEF Dies
<1>8. ASSUME NEW i \in Maps, Stopped(i) PROVE KillInv'
  BY <1>8 DEF Stopped
<1>9. CASE JobEnds
  BY <1>9 DEF JobEnds
<1>10. CASE Exit
  BY <1>10 DEF Exit
<1>11. CASE UNCHANGED killVars
  BY <1>11 DEF killVars
<1> QED
  BY <1>1, <1>2, <1>4, <1>5, <1>6, <1>7, <1>8, <1>9, <1>10, <1>11 DEF KillNext, MapStep

(* TryKill's exit code is 0 only if every map found "100" or its killJob     *)
(* threw, whichever attempts die and calls fail, in whatever order.          *)
THEOREM ExitCodeIsTrue == KillSpec => []SuccessMeansAllHundred
<1>1. KillInv => SuccessMeansAllHundred
  BY DEF KillInv, SuccessMeansAllHundred, Heeded
<1> QED
  BY <1>1, KillInvInit, KillInvStep, PTL DEF KillSpec
=============================================================================
