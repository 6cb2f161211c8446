--------------------------- MODULE SleepJobProofs ---------------------------
(***************************************************************************)
(* For every command line, every number of maps, reducers, attempts and    *)
(* kills: the state has its type, a map that is done has collected the     *)
(* keys 0 .. emitPerMapTask - 1, each once, and a reducer that is done has *)
(* reduced all of its keys.                                                *)
(***************************************************************************)
EXTENDS SleepJob, FiniteSetTheorems, FunctionTheorems, TLAPS

-----------------------------------------------------------------------------
(* The arithmetic of next, free of the state: c records share e keys. *)

(* Euclidean division by a positive divisor. *)
LEMMA Division ==
    ASSUME NEW e \in Nat, NEW c \in Nat \ {0}
    PROVE  /\ e \div c \in Nat /\ e % c \in 0 .. c - 1
           /\ e = (c * (e \div c)) + (e % c)
  OBVIOUS

(* What n records stand for, given quotient and remainder. *)
Share(n, q, r) == n * q + (IF n < r THEN n ELSE r)

(* Record n adds the quotient, and one more while the remainder lasts. *)
LEMMA ShareStep ==
    ASSUME NEW n \in Nat, NEW q \in Nat, NEW r \in Nat
    PROVE  /\ Share(n, q, r) \in Nat
           /\ Share(n + 1, q, r) = Share(n, q, r) + q + (IF r > n THEN 1 ELSE 0)
  <1>1. n * q \in Nat /\ (n + 1) * q = n * q + q
    OBVIOUS
  <1> QED  BY <1>1 DEF Share

(* All c records together stand for all the keys, and some for no more. *)
LEMMA ShareBound ==
    ASSUME NEW c \in Nat, NEW n \in 0 .. c, NEW q \in Nat, NEW r \in 0 .. c
    PROVE  Share(n, q, r) <= c * q + r /\ Share(c, q, r) = c * q + r
  <1>1. PICK d \in Nat : c = n + d
    <2>1. c - n \in Nat /\ c = n + (c - n)
      OBVIOUS
    <2> QED  BY <2>1
  <1>2. n * q \in Nat /\ d * q \in Nat /\ c * q = n * q + d * q
    BY <1>1
  <1> QED  BY <1>2 DEF Share

-----------------------------------------------------------------------------
(* The counts are ints. *)
LEMMA CountsAreInts ==
    ASSUME conf \in Configs
    PROVE  /\ mapSleepCount \in Int /\ reduceSleepCount \in Int
           /\ conf.m \in Nat \ {0} /\ conf.r \in Nat
           /\ emitPerMapTask \in Int /\ emitPerMapTask <= MaxInt
  <1>1. /\ conf.m \in Nat \ {0} /\ conf.r \in Nat
        /\ conf.mt \in Int /\ conf.rt \in Int /\ conf.recordt \in Nat
    BY SleepAssumption
  <1>2. ASSUME NEW t \in Int, NEW d \in Nat PROVE SleepCount(t, d) \in Int
    BY SleepAssumption DEF SleepCount, Clamp
  <1>3. mapSleepCount \in Int /\ reduceSleepCount \in Int
    BY <1>1, <1>2 DEF mapSleepCount, reduceSleepCount
  <1>4. reduceSleepCount * conf.r \in Int
    BY <1>1, <1>3
  <1>5. ASSUME NEW x \in Int PROVE Wrap(x) \in Int /\ Wrap(x) <= MaxInt
    <2>1. 2 * (MaxInt + 1) \in Nat \ {0} /\ x + MaxInt + 1 \in Int
      BY SleepAssumption
    <2>2. (x + MaxInt + 1) % (2 * (MaxInt + 1)) \in 0 .. 2 * (MaxInt + 1) - 1
      BY <2>1
    <2> QED  BY <2>2, SleepAssumption DEF Wrap
  <1> QED  BY <1>1, <1>3, <1>4, <1>5 DEF emitPerMapTask

(* next keeps emitCount at Emitted(records) and within an int. *)
LEMMA EmittedStep ==
    ASSUME conf \in Configs, Configured, emitPerMapTask >= 0,
           NEW n \in 0 .. mapSleepCount
    PROVE  /\ Emitted(n) \in 0 .. emitPerMapTask
           /\ Emitted(0) = 0 /\ Emitted(mapSleepCount) = emitPerMapTask
           /\ n < mapSleepCount =>
                 /\ Emit(n) \in Nat
                 /\ Emitted(n + 1) = Emitted(n) + Emit(n)
                 /\ Wrap(Emitted(n) + Emit(n)) = Emitted(n + 1)
  <1> DEFINE e == emitPerMapTask
             c == mapSleepCount
             q == e \div c
             r == e % c
  <1>1. e \in Nat /\ c \in Nat \ {0} /\ e <= MaxInt
    BY CountsAreInts DEF Configured
  <1>2. q \in Nat /\ r \in 0 .. c - 1 /\ e = c * q + r
    BY <1>1, Division
  <1>3. \A k : Emitted(k) = Share(k, q, r)
    BY DEF Emitted, Share
  <1>4. Emit(n) = q + (IF r > n THEN 1 ELSE 0)
    <2>1. Quot(e, c) = q
      BY <1>1 DEF Quot
    <2>2. c * q \in Int /\ e - c * q = r
      BY <1>1, <1>2
    <2> QED  BY <2>1, <2>2 DEF Emit
  <1>5. ASSUME NEW x \in 0 .. MaxInt PROVE Wrap(x) = x
    <2>1. x + MaxInt + 1 \in 0 .. 2 * (MaxInt + 1) - 1
      BY SleepAssumption
    <2>2. (x + MaxInt + 1) % (2 * (MaxInt + 1)) = x + MaxInt + 1
      BY <2>1, SleepAssumption
    <2> QED  BY <2>2, SleepAssumption DEF Wrap
  <1>0. n \in 0 .. c
    OBVIOUS
  <1> HIDE DEF e, c, q, r
  <1>6. ASSUME NEW k \in 0 .. c PROVE Share(k, q, r) \in 0 .. e
    <2>1. k \in Nat /\ r \in Nat /\ r \in 0 .. c
      BY <1>1, <1>2
    <2>2. Share(k, q, r) \in Nat
      BY <2>1, <1>2, ShareStep
    <2>3. Share(k, q, r) <= c * q + r
      BY <2>1, <1>1, <1>2, ShareBound
    <2> QED  BY <2>2, <2>3, <1>2
  <1>7. Share(0, q, r) = 0 /\ Share(c, q, r) = e
    <2>1. Share(0, q, r) = 0
      BY <1>1, <1>2 DEF Share
    <2> QED  BY <2>1, <1>1, <1>2, ShareBound
  <1>8. ASSUME n < c
        PROVE  /\ n + 1 \in 0 .. c /\ Emit(n) \in Nat
               /\ Share(n + 1, q, r) = Share(n, q, r) + Emit(n)
    <2>1. n \in Nat /\ n + 1 \in 0 .. c /\ r \in Nat
      BY <1>0, <1>1, <1>2, <1>8
    <2>2. Emit(n) \in Nat
      BY <1>4, <1>2
    <2>3. /\ Share(n, q, r) \in Nat
          /\ Share(n + 1, q, r) = Share(n, q, r) + q + (IF r > n THEN 1 ELSE 0)
      BY <2>1, <1>2, ShareStep
    <2> QED  BY <2>1, <2>2, <2>3, <1>2, <1>4
  <1>9. ASSUME n < c PROVE Wrap(Share(n, q, r) + Emit(n)) = Share(n + 1, q, r)
    <2>1. Share(n + 1, q, r) \in 0 .. MaxInt
      BY <1>1, <1>6, <1>8, <1>9, SleepAssumption
    <2> QED  BY <2>1, <1>5, <1>8, <1>9
  <1> QED  BY <1>3, <1>6, <1>7, <1>8, <1>9 DEF c, e
-----------------------------------------------------------------------------
(* The keys of a record come after those collected before it. *)
LEMMA Appended ==
    ASSUME NEW out \in Seq(Int), NEW first \in Int, NEW emit \in Int
    PROVE  /\ KeysFrom(first, emit) \in Seq(Int)
           /\ out \o KeysFrom(first, emit) \in Seq(Int)
           /\ (emit \in Nat /\ Len(out) = first /\ \A n \in 1 .. Len(out) : out[n] = n - 1) =>
                 /\ Len(out \o KeysFrom(first, emit)) = first + emit
                 /\ \A n \in 1 .. first + emit : (out \o KeysFrom(first, emit))[n] = n - 1
  <1> DEFINE keys == KeysFrom(first, emit)
             len == IF emit > 0 THEN emit ELSE 0
  <1>1. len \in Nat /\ keys = [n \in 1 .. len |-> first + n - 1]
    BY DEF KeysFrom
  <1>2. keys \in Seq(Int) /\ Len(keys) = len
    BY <1>1
  <1> HIDE DEF keys
  <1>3. ASSUME emit \in Nat, Len(out) = first, \A n \in 1 .. Len(out) : out[n] = n - 1
        PROVE  /\ Len(out \o keys) = first + emit
               /\ \A n \in 1 .. first + emit : (out \o keys)[n] = n - 1
    <2>1. len = emit /\ first \in Nat
      BY <1>3
    <2>2. Len(out \o keys) = first + emit
      <3>1. Len(out \o keys) = Len(out) + Len(keys)
        BY <1>2
      <3> QED  BY <3>1, <1>2, <1>3, <2>1
    <2>3. ASSUME NEW n \in 1 .. first + emit PROVE (out \o keys)[n] = n - 1
      <3>0. n \in Int
        BY <1>3, <2>1
      <3>1. CASE n <= first
        BY <3>1, <1>2, <1>3, <2>1
      <3>2. CASE n > first
        <4>1. n - first \in 1 .. len /\ (out \o keys)[n] = keys[n - first]
          BY <3>2, <1>2, <1>3, <2>1
        <4>2. keys[n - first] = first + (n - first) - 1
          BY <4>1, <1>1
        <4> QED  BY <3>0, <4>1, <4>2, <2>1
      <3>3. n <= first \/ n > first
        BY <3>0, <2>1
      <3> QED  BY <3>1, <3>2, <3>3
    <2> QED  BY <2>2, <2>3
  <1>4. out \o keys \in Seq(Int)
    BY <1>2
  <1> QED  BY <1>2, <1>3, <1>4 DEF keys

(* The command line, and with it every count, never changes. *)
LEMMA ConfStays ==
    ASSUME [Next]_vars
    PROVE  /\ conf' = conf /\ Maps' = Maps /\ Reducers' = Reducers
           /\ mapSleepCount' = mapSleepCount /\ reduceSleepCount' = reduceSleepCount
           /\ emitPerMapTask' = emitPerMapTask /\ Configured' = Configured
  <1>1. conf' = conf
    BY DEF Next, vars, MapStep, MapStart, NewAttempt, MapRecord, NextAndMap, MapEnd, MapKilled,
           MapFails, OutputLost, ReduceStep, ReduceStart, Reduce, ReduceEnd, ReduceKilled,
           JobSucceeds
  <1>2. mapSleepCount' = mapSleepCount /\ reduceSleepCount' = reduceSleepCount
    BY <1>1 DEF mapSleepCount, reduceSleepCount
  <1> QED  BY <1>1, <1>2 DEF Maps, Reducers, emitPerMapTask, Configured

-----------------------------------------------------------------------------
LEMMA TypeInit ==
    ASSUME Init PROVE TypeOK
  <1>1. kills \in 0 .. KillMax
    BY SleepAssumption DEF Init
  <1> QED  BY <1>1 DEF Init, TypeOK

(* A failed attempt changes neither the reader nor the output. *)
LEMMA TypeMapFails ==
    ASSUME TypeOK, NEW i \in Maps, MapFails(i), conf' = conf,
           kills' \in 0 .. KillMax
    PROVE  TypeOK'
  <1>1. Maps' = Maps /\ Reducers' = Reducers /\ mapSleepCount' = mapSleepCount
    BY DEF Maps, Reducers, mapSleepCount
  <1>2. job' \in {"running", "succeeded", "failed"}
    BY DEF TypeOK, MapFails
  <1>3. task' \in [Maps -> {"pending", "running", "done"}] /\ attempts' \in [Maps -> Nat]
    BY DEF TypeOK, MapFails
  <1> QED  BY <1>1, <1>2, <1>3 DEF TypeOK, MapFails, redVars

LEMMA TypeStep ==
    ASSUME TypeOK, [Next]_vars PROVE TypeOK'
  <1> USE ConfStays
  <1>0. /\ mapSleepCount \in Int /\ KillMax \in Nat /\ kills \in Nat
        /\ conf' \in Configs
    BY CountsAreInts, SleepAssumption DEF TypeOK
  <1>1. ASSUME NEW i \in Maps, MapStart(i) PROVE TypeOK'
    <2>1. CASE ~Configured
      BY <1>1, <2>1, TypeMapFails DEF MapStart, NewAttempt, TypeOK
    <2>2. CASE Configured
      <3>1. /\ job' = job /\ attempts' = attempts /\ kills' = kills
            /\ UNCHANGED redVars
            /\ task' = [task EXCEPT ![i] = "running"] /\ records' = [records EXCEPT ![i] = 0]
            /\ emitCount' = [emitCount EXCEPT ![i] = 0] /\ count' = [count EXCEPT ![i] = 0]
            /\ output' = [output EXCEPT ![i] = <<>>]
        BY <1>1, <2>2 DEF MapStart, NewAttempt
      <3> QED  BY <3>1, <1>0 DEF TypeOK, redVars
    <2> QED  BY <2>1, <2>2
  <1>2. ASSUME NEW i \in Maps, MapRecord(i) PROVE TypeOK'
    <2>1. CASE conf.array = "big"
      BY <1>2, <2>1, TypeMapFails DEF MapRecord, NextAndMap, TypeOK
    <2>2. CASE conf.array # "big"
      <3> DEFINE emit == Emit(records[i])
      <3>1. /\ job' = job /\ attempts' = attempts /\ kills' = kills /\ task' = task
            /\ UNCHANGED redVars
            /\ records' = [records EXCEPT ![i] = @ + 1]
            /\ emitCount' = [emitCount EXCEPT ![i] = Wrap(@ + emit)]
            /\ count' = [count EXCEPT ![i] = @ + 1]
            /\ output' = [output EXCEPT ![i] = @ \o KeysFrom(emitCount[i], emit)]
            /\ records[i] < mapSleepCount
        BY <1>2, <2>2 DEF MapRecord, NextAndMap
      <3>2. records[i] \in Nat /\ records[i] + 1 \in 1 .. mapSleepCount
        BY <3>1, <1>0 DEF TypeOK
      <3>3. emit \in Int
        <4>1. mapSleepCount \in Nat \ {0} /\ emitPerMapTask \in Int
          BY <3>2, <1>0, CountsAreInts DEF TypeOK
        <4>2. Quot(emitPerMapTask, mapSleepCount) \in Int
          BY <4>1 DEF Quot
        <4> DEFINE w == Quot(emitPerMapTask, mapSleepCount)
        <4> HIDE DEF w
        <4>3. w \in Int => /\ mapSleepCount * w \in Int
                           /\ emitPerMapTask - mapSleepCount * w \in Int
                           /\ w + (IF emitPerMapTask - mapSleepCount * w > records[i] THEN 1 ELSE 0)
                                \in Int
          BY <4>1
        <4> QED  BY <4>2, <4>3 DEF Emit, w
      <3>4. Wrap(emitCount[i] + emit) \in Int
        BY <3>3, SleepAssumption DEF Wrap, TypeOK
      <3>5. output[i] \o KeysFrom(emitCount[i], emit) \in Seq(Int)
        BY <3>3, Appended DEF TypeOK
      <3> HIDE DEF emit
      <3>6. /\ records' \in [Maps -> {0} \cup 1 .. mapSleepCount]
            /\ emitCount' \in [Maps -> Int] /\ count' \in [Maps -> Nat]
            /\ output' \in [Maps -> Seq(Int)]
        BY <3>1, <3>2, <3>4, <3>5 DEF TypeOK
      <3> QED  BY <3>1, <3>6, <1>0 DEF TypeOK, redVars
    <2> QED  BY <2>1, <2>2
  <1>3. ASSUME NEW i \in Maps, MapEnd(i) PROVE TypeOK'
    BY <1>3, <1>0 DEF MapEnd, TypeOK, redVars
  <1>4. ASSUME NEW i \in Maps, MapKilled(i) PROVE TypeOK'
    <2>1. kills' \in 0 .. KillMax
      BY <1>4, <1>0 DEF MapKilled, TypeOK
    <2> QED  BY <1>4, <2>1, TypeMapFails DEF MapKilled
  <1>5. ASSUME NEW i \in Maps, OutputLost(i) PROVE TypeOK'
    BY <1>5, <1>0 DEF OutputLost, TypeOK, redVars
  <1>6. ASSUME NEW j \in Reducers, ReduceStart(j) PROVE TypeOK'
    <2>1. {k \in UNION {Collected(i) : i \in Maps} : Partition(k) = j} \in SUBSET Int
      BY DEF Collected, TypeOK
    <2> QED  BY <1>6, <2>1, <1>0 DEF ReduceStart, TypeOK, mapVars
  <1>7. ASSUME NEW j \in Reducers, Reduce(j) PROVE TypeOK'
    <2>1. PICK k \in todo[j] : todo' = [todo EXCEPT ![j] = @ \ {k}]
      BY <1>7 DEF Reduce
    <2> QED  BY <1>7, <2>1, <1>0 DEF Reduce, TypeOK, mapVars
  <1>8. ASSUME NEW j \in Reducers, ReduceEnd(j) PROVE TypeOK'
    BY <1>8, <1>0 DEF ReduceEnd, TypeOK, mapVars
  <1>9. ASSUME NEW j \in Reducers, ReduceKilled(j) PROVE TypeOK'
    BY <1>9, <1>0 DEF ReduceKilled, TypeOK, mapVars
  <1>10. CASE JobSucceeds
    BY <1>10, <1>0 DEF JobSucceeds, TypeOK, mapVars, redVars
  <1>11. CASE UNCHANGED vars
    BY <1>11 DEF TypeOK, vars, mapVars, redVars
  <1> QED
    BY <1>1, <1>2, <1>3, <1>4, <1>5, <1>6, <1>7, <1>8, <1>9, <1>10, <1>11
       DEF Next, MapStep, ReduceStep

(* SleepJob.java: the fields of every attempt have their types, and a reader *)
(* hands out no more records than sleep.job.map.sleep.count.                 *)
THEOREM TypeCorrect == Spec => []TypeOK
  <1>1. Init => TypeOK
    BY TypeInit
  <1>2. TypeOK /\ [Next]_vars => TypeOK'
    BY TypeStep
  <1> QED  BY <1>1, <1>2, PTL DEF Spec

-----------------------------------------------------------------------------
LEMMA ReaderInit ==
    ASSUME Init PROVE ReaderInv
  <1>1. \A i \in Maps : task[i] = "pending"
    BY DEF Init
  <1> QED  BY <1>1, TypeInit DEF ReaderInv

(* What ReaderInv says of one map. *)
ReaderOK(i) ==
    task[i] # "pending" =>
        /\ Configured
        /\ task[i] = "done" => records[i] = mapSleepCount
        /\ emitPerMapTask >= 0 =>
              /\ emitCount[i] = Emitted(records[i])
              /\ Len(output[i]) = emitCount[i]
              /\ \A n \in 1 .. Len(output[i]) : output[i][n] = n - 1

(* A map whose attempt goes on or is over, untouched by the step. *)
LEMMA ReaderSame ==
    ASSUME [Next]_vars, NEW i \in Maps, ReaderOK(i),
           task'[i] \in {task[i], "pending"}, records'[i] = records[i],
           emitCount'[i] = emitCount[i], output'[i] = output[i]
    PROVE  ReaderOK(i)'
  <1>1. \A n : Emitted(n)' = Emitted(n)
    BY ConfStays DEF Emitted
  <1>2. CASE task'[i] = "pending"
    BY <1>2 DEF ReaderOK
  <1>3. CASE task'[i] = task[i]
    BY <1>1, <1>3, ConfStays DEF ReaderOK
  <1> QED  BY <1>2, <1>3

LEMMA ReaderRecord ==
    ASSUME TypeOK, [Next]_vars, NEW i \in Maps, ReaderOK(i), MapRecord(i),
           conf.array # "big"
    PROVE  ReaderOK(i)'
  <1> DEFINE n == records[i]
             emit == Emit(n)
  <1>1. /\ task[i] = "running" /\ task' = task /\ n < mapSleepCount
        /\ records'[i] = n + 1
        /\ emitCount'[i] = Wrap(emitCount[i] + emit)
        /\ output'[i] = output[i] \o KeysFrom(emitCount[i], emit)
    BY DEF MapRecord, NextAndMap, TypeOK
  <1>2. Configured /\ conf \in Configs /\ n \in 0 .. mapSleepCount
    BY <1>1, CountsAreInts DEF ReaderOK, TypeOK
  <1>3. ASSUME emitPerMapTask >= 0
        PROVE  /\ emitCount'[i] = Emitted(n + 1)
               /\ Len(output'[i]) = emitCount'[i]
               /\ \A k \in 1 .. Len(output'[i]) : output'[i][k] = k - 1
    <2>1. /\ emitCount[i] = Emitted(n) /\ Len(output[i]) = Emitted(n)
          /\ \A k \in 1 .. Len(output[i]) : output[i][k] = k - 1
      BY <1>1, <1>3 DEF ReaderOK
    <2>2. /\ emit \in Nat /\ Emitted(n) \in Nat
          /\ Wrap(Emitted(n) + emit) = Emitted(n + 1)
          /\ Emitted(n + 1) = Emitted(n) + emit
      BY <1>1, <1>2, <1>3, EmittedStep
    <2>3. emitCount'[i] = Emitted(n + 1)
      BY <1>1, <2>1, <2>2
    <2> HIDE DEF emit, n
    <2>4. /\ Len(output[i] \o KeysFrom(Emitted(n), emit)) = Emitted(n) + emit
          /\ \A k \in 1 .. Emitted(n) + emit :
                 (output[i] \o KeysFrom(Emitted(n), emit))[k] = k - 1
      <3>1. output[i] \in Seq(Int) /\ Emitted(n) \in Int /\ emit \in Int
        BY <2>2 DEF TypeOK
      <3> QED  BY <3>1, <2>1, <2>2, Appended
    <2> QED  BY <1>1, <2>1, <2>2, <2>3, <2>4
  <1>4. \A k : Emitted(k)' = Emitted(k)
    BY ConfStays DEF Emitted
  <1> QED  BY <1>1, <1>2, <1>3, <1>4, ConfStays DEF ReaderOK

LEMMA ReaderStep ==
    ASSUME ReaderInv, [Next]_vars PROVE ReaderInv'
  <1>1. TypeOK /\ TypeOK' /\ Maps' = Maps
    BY TypeStep, ConfStays DEF ReaderInv
  <1>2. \A i \in Maps : ReaderOK(i)
    BY DEF ReaderInv, ReaderOK
  <1> SUFFICES ASSUME NEW h \in Maps PROVE ReaderOK(h)'
    BY <1>1 DEF ReaderInv, ReaderOK
  <1>3. ASSUME NEW i \in Maps, MapFails(i) PROVE ReaderOK(h)'
    <2>1. task'[h] \in {task[h], "pending"}
      BY <1>1, <1>3 DEF MapFails, TypeOK
    <2> QED  BY <1>2, <1>3, <2>1, ReaderSame DEF MapFails
  <1>4. ASSUME NEW i \in Maps, MapStart(i) PROVE ReaderOK(h)'
    <2>1. CASE ~Configured
      BY <1>3, <1>4, <2>1 DEF MapStart, NewAttempt
    <2>2. CASE Configured /\ h # i
      BY <1>1, <1>2, <1>4, <2>2, ReaderSame DEF MapStart, NewAttempt, TypeOK
    <2>3. CASE Configured /\ h = i
      <3>1. /\ task'[h] = "running" /\ records'[h] = 0 /\ emitCount'[h] = 0
            /\ output'[h] = <<>>
        BY <1>1, <1>4, <2>3 DEF MapStart, NewAttempt, TypeOK
      <3>2. emitPerMapTask >= 0 => Emitted(0) = 0
        <4>1. 0 \in 0 .. mapSleepCount
          BY <1>1, <2>3, CountsAreInts DEF Configured, TypeOK
        <4> QED  BY <1>1, <2>3, <4>1, EmittedStep DEF TypeOK
      <3>3. \A k : Emitted(k)' = Emitted(k)
        BY ConfStays DEF Emitted
      <3>4. Len(output'[h]) = 0 /\ 1 .. Len(output'[h]) = {}
        BY <3>1
      <3>5. Configured' /\ emitPerMapTask' = emitPerMapTask
        BY <2>3, ConfStays
      <3>6. emitPerMapTask' >= 0 => Emitted(records[h])' = 0
        BY <3>1, <3>2, <3>3, <3>5
      <3> QED  BY <3>1, <3>4, <3>5, <3>6 DEF ReaderOK
    <2> QED  BY <2>1, <2>2, <2>3
  <1>5. ASSUME NEW i \in Maps, MapRecord(i) PROVE ReaderOK(h)'
    <2>1. CASE conf.array = "big"
      BY <1>3, <1>5, <2>1 DEF MapRecord, NextAndMap
    <2>2. CASE conf.array # "big" /\ h # i
      BY <1>1, <1>2, <1>5, <2>2, ReaderSame DEF MapRecord, NextAndMap, TypeOK
    <2>3. CASE conf.array # "big" /\ h = i
      BY <1>1, <1>2, <1>5, <2>3, ReaderRecord
    <2> QED  BY <2>1, <2>2, <2>3
  <1>6. ASSUME NEW i \in Maps, MapEnd(i) PROVE ReaderOK(h)'
    <2>1. CASE h # i
      BY <1>1, <1>2, <1>6, <2>1, ReaderSame DEF MapEnd, TypeOK
    <2>2. CASE h = i
      <3>1. /\ task[h] = "running" /\ records' = records /\ emitCount' = emitCount
            /\ output' = output /\ records[h] >= mapSleepCount
        BY <1>6, <2>2 DEF MapEnd
      <3>2. Configured /\ records[h] = mapSleepCount
        <4>1. Configured
          BY <1>2, <3>1 DEF ReaderOK
        <4>2. records[h] \in {0} \cup 1 .. mapSleepCount /\ mapSleepCount \in Int
          BY <1>1, CountsAreInts DEF TypeOK
        <4> QED  BY <3>1, <4>1, <4>2 DEF Configured
      <3>3. \A n : Emitted(n)' = Emitted(n)
        BY ConfStays DEF Emitted
      <3> QED  BY <1>2, <3>1, <3>2, <3>3, ConfStays DEF ReaderOK
    <2> QED  BY <2>1, <2>2
  <1>7. ASSUME NEW i \in Maps, OutputLost(i) PROVE ReaderOK(h)'
    <2>1. task'[h] \in {task[h], "pending"}
      BY <1>1, <1>7 DEF OutputLost, TypeOK
    <2> QED  BY <1>2, <1>7, <2>1, ReaderSame DEF OutputLost
  <1>8. CASE UNCHANGED mapVars
    BY <1>2, <1>8, ReaderSame DEF mapVars
  <1> QED
    BY <1>3, <1>4, <1>5, <1>6, <1>7, <1>8
       DEF Next, vars, MapStep, MapKilled, ReduceStep, ReduceStart, Reduce, ReduceEnd,
           ReduceKilled, JobSucceeds

(* SleepJob.java: whatever attempts were killed and outputs lost, the        *)
(* records of a finished map stand for all keys of emitPerMapTask, and map   *)
(* collected each of them once.                                              *)
THEOREM OutputIsExact == Spec => []MapOutputExact
  <1>1. Init => ReaderInv
    BY ReaderInit
  <1>2. ReaderInv /\ [Next]_vars => ReaderInv'
    BY ReaderStep
  <1>3. ReaderInv => MapOutputExact
    <2> SUFFICES ASSUME ReaderInv, NEW i \in Maps, task[i] = "done", emitPerMapTask >= 0
                 PROVE  /\ Len(output[i]) = emitPerMapTask
                        /\ \A n \in 1 .. emitPerMapTask : output[i][n] = n - 1
      BY DEF MapOutputExact
    <2>1. /\ Configured /\ conf \in Configs
          /\ Len(output[i]) = Emitted(mapSleepCount)
          /\ \A n \in 1 .. Len(output[i]) : output[i][n] = n - 1
      BY DEF ReaderInv, TypeOK
    <2>2. Emitted(mapSleepCount) = emitPerMapTask
      <3>1. mapSleepCount \in 0 .. mapSleepCount
        BY <2>1, CountsAreInts DEF Configured
      <3> QED  BY <2>1, <3>1, EmittedStep
    <2> QED  BY <2>1, <2>2
  <1> QED  BY <1>1, <1>2, <1>3, PTL DEF Spec

-----------------------------------------------------------------------------
(* The keys of the reducers.  Of the keys 0 .. n * r - 1 every remainder by  *)
(* r has n: the key q * r + j for every q below n.                           *)

(* A key is given by its quotient and its remainder. *)
LEMMA OneRemainder ==
    ASSUME NEW r \in Nat \ {0}, NEW j \in 0 .. r - 1, NEW q \in Nat
    PROVE  q * r + j \in Nat /\ (q * r + j) % r = j /\ (q * r + j) \div r = q
  <1> DEFINE k == q * r + j
             d == k \div r
             e == k % r
  <1>1. k \in Nat
    <2>1. q * r \in Nat
      OBVIOUS
    <2> QED  BY <2>1
  <1>2. d \in Nat /\ e \in 0 .. r - 1 /\ k = r * d + e
    BY <1>1, Division
  <1>3. r * d + e = q * r + j
    BY <1>2
  <1> HIDE DEF d, e
  <1>4. d = q
    <2>1. CASE d < q
      <3>1. PICK g \in Nat : q = d + 1 + g
        <4>1. q - d - 1 \in Nat /\ q = d + 1 + (q - d - 1)
          BY <1>2, <2>1
        <4> QED  BY <4>1
      <3>2. q * r = r * d + r + g * r /\ g * r \in Nat /\ r * d \in Nat
        BY <1>2, <3>1
      <3> QED  BY <1>2, <1>3, <3>2
    <2>2. CASE d > q
      <3>1. PICK g \in Nat : d = q + 1 + g
        <4>1. d - q - 1 \in Nat /\ d = q + 1 + (d - q - 1)
          BY <1>2, <2>2
        <4> QED  BY <4>1
      <3>2. r * d = q * r + r + g * r /\ g * r \in Nat /\ q * r \in Nat
        BY <3>1
      <3> QED  BY <1>2, <1>3, <3>2
    <2> QED  BY <1>2, <2>1, <2>2
  <1>5. e = j
    <2>1. r * d = q * r /\ q * r \in Nat
      BY <1>4
    <2> QED  BY <1>2, <1>3, <2>1
  <1> QED  BY <1>1, <1>4, <1>5 DEF d, e

LEMMA KeysOfRemainder ==
    ASSUME NEW n \in Nat, NEW r \in Nat \ {0}, NEW j \in 0 .. r - 1
    PROVE  LET keys == {k \in 0 .. n * r - 1 : k % r = j}
           IN  IsFiniteSet(keys) /\ Cardinality(keys) = n
  <1> DEFINE keys == {k \in 0 .. n * r - 1 : k % r = j}
             key == [q \in 0 .. n - 1 |-> q * r + j]
  <1>1. n * r \in Nat
    OBVIOUS
  <1>2. ASSUME NEW q \in 0 .. n - 1 PROVE key[q] \in keys /\ key[q] \div r = q
    <2>1. q \in Nat /\ key[q] = q * r + j
      OBVIOUS
    <2>2. q * r + j \in Nat /\ (q * r + j) % r = j /\ (q * r + j) \div r = q
      BY <2>1, OneRemainder
    <2>3. q * r + j < n * r
      <3>1. PICK g \in Nat : n = q + 1 + g
        <4>1. n - q - 1 \in Nat /\ n = q + 1 + (n - q - 1)
          BY <2>1
        <4> QED  BY <4>1
      <3>2. n * r = q * r + r + g * r /\ g * r \in Nat /\ q * r \in Nat
        BY <2>1, <3>1
      <3> QED  BY <3>2
    <2> QED  BY <1>1, <2>1, <2>2, <2>3
  <1>3. ASSUME NEW k \in keys PROVE k \div r \in 0 .. n - 1 /\ key[k \div r] = k
    <2>1. k \in Nat /\ k < n * r /\ k % r = j
      BY <1>1
    <2>2. k \div r \in Nat /\ k = r * (k \div r) + j
      BY <2>1, Division
    <2>3. ASSUME k \div r >= n PROVE FALSE
      <3> DEFINE d == k \div r
      <3>1. PICK g \in Nat : d = n + g
        <4>1. d - n \in Nat /\ d = n + (d - n)
          BY <2>2, <2>3
        <4> QED  BY <4>1
      <3> HIDE DEF d
      <3>2. r * d = n * r + g * r /\ g * r \in Nat
        BY <3>1
      <3>3. k = r * d + j
        BY <2>2 DEF d
      <3> QED  BY <1>1, <2>1, <3>2, <3>3
    <2>4. k \div r \in 0 .. n - 1
      BY <2>2, <2>3
    <2>5. r * (k \div r) = (k \div r) * r
      BY <2>2
    <2> QED  BY <2>2, <2>4, <2>5
  <1> HIDE DEF keys
  <1>4. key \in [0 .. n - 1 -> keys]
    BY <1>2
  <1> HIDE DEF key
  <1>5. ExistsBijection(0 .. n - 1, keys)
    <2>1. \A a, b \in 0 .. n - 1 : key[a] = key[b] => a = b
      BY <1>2
    <2>2. \A k \in keys : \E q \in 0 .. n - 1 : key[q] = k
      BY <1>3
    <2>3. key \in Bijection(0 .. n - 1, keys)
      BY <1>4, <2>1, <2>2, Fun_IsBij
    <2> QED  BY <2>3 DEF ExistsBijection
  <1>6. IsFiniteSet(0 .. n - 1) /\ Cardinality(0 .. n - 1) = n
    BY FS_Interval
  <1> QED  BY <1>5, <1>6, FS_Bijection DEF keys

-----------------------------------------------------------------------------
(* The product of getRecordReader is an int: no key is lost to overflow. *)
KeysFit == reduceSleepCount * conf.r <= MaxInt

(* What a reducer has reduced and what it has left add up to its keys. *)
KeysOK(j) ==
    /\ rtask[j] # "pending" =>
          /\ IsFiniteSet(todo[j])
          /\ rcount[j] + Cardinality(todo[j]) = reduceSleepCount
    /\ rtask[j] = "done" => todo[j] = {}

(* Inductive. *)
KeysInv ==
    /\ ReaderInv
    /\ KeysFit => \A j \in Reducers : KeysOK(j)

LEMMA KeysFitStays ==
    ASSUME [Next]_vars PROVE KeysFit' = KeysFit
  BY ConfStays DEF KeysFit

(* A map that is done has collected the keys of all reducers. *)
LEMMA CollectedKeys ==
    ASSUME ReaderInv, KeysFit, conf.r >= 1, NEW i \in Maps, task[i] = "done"
    PROVE  /\ reduceSleepCount \in Nat
           /\ Collected(i) = 0 .. reduceSleepCount * conf.r - 1
  <1>1. /\ Configured /\ conf \in Configs /\ records[i] = mapSleepCount
        /\ conf.r \in Nat \ {0} /\ reduceSleepCount \in Nat \ {0}
        /\ mapSleepCount \in Nat \ {0}
    BY CountsAreInts DEF ReaderInv, TypeOK, Configured
  <1>2. reduceSleepCount * conf.r \in 0 .. MaxInt
    BY <1>1, SleepAssumption DEF KeysFit
  <1>3. emitPerMapTask = reduceSleepCount * conf.r
    <2> DEFINE x == reduceSleepCount * conf.r
    <2>1. x \in 0 .. MaxInt
      BY <1>2
    <2> HIDE DEF x
    <2>2. x + MaxInt + 1 \in 0 .. 2 * (MaxInt + 1) - 1
      BY <2>1, SleepAssumption
    <2>3. (x + MaxInt + 1) % (2 * (MaxInt + 1)) = x + MaxInt + 1
      BY <2>2, SleepAssumption
    <2>4. Wrap(x) = x
      BY <2>1, <2>3, SleepAssumption DEF Wrap
    <2> QED  BY <2>4 DEF emitPerMapTask, x
  <1>4. mapSleepCount \in 0 .. mapSleepCount
    BY <1>1
  <1>5. emitPerMapTask >= 0 /\ emitPerMapTask \in Nat
    BY <1>2, <1>3
  <1>6. Emitted(mapSleepCount) = emitPerMapTask
    BY <1>1, <1>4, <1>5, EmittedStep
  <1>7. Len(output[i]) = emitPerMapTask /\ \A n \in 1 .. emitPerMapTask : output[i][n] = n - 1
    BY <1>1, <1>5, <1>6 DEF ReaderInv
  <1>8. ASSUME NEW k PROVE k \in Collected(i) <=> k \in 0 .. emitPerMapTask - 1
    <2>1. Collected(i) = {output[i][n] : n \in 1 .. emitPerMapTask}
      BY <1>7 DEF Collected
    <2>2. ASSUME k \in Collected(i) PROVE k \in 0 .. emitPerMapTask - 1
      BY <1>5, <1>7, <2>1, <2>2
    <2>3. ASSUME k \in 0 .. emitPerMapTask - 1 PROVE k \in Collected(i)
      <3> DEFINE n0 == k + 1
      <3>1. n0 \in 1 .. emitPerMapTask /\ n0 - 1 = k
        BY <1>5, <2>3
      <3> HIDE DEF n0
      <3>2. output[i][n0] = k
        BY <1>7, <3>1
      <3>3. \E n \in 1 .. emitPerMapTask : output[i][n] = k
        BY <3>1, <3>2
      <3> QED  BY <2>1, <3>3
    <2> QED  BY <2>2, <2>3
  <1> QED  BY <1>1, <1>3, <1>8

(* The share that a reducer copies is all of its keys. *)
LEMMA ShareOfReducer ==
    ASSUME ReaderInv, KeysFit, NEW j \in Reducers, \A i \in Maps : task[i] = "done"
    PROVE  LET share == {k \in UNION {Collected(i) : i \in Maps} : Partition(k) = j}
           IN  IsFiniteSet(share) /\ Cardinality(share) = reduceSleepCount
  <1> DEFINE n == reduceSleepCount
             r == conf.r
  <1>1. conf.m \in Nat \ {0} /\ r \in Nat \ {0} /\ j \in 0 .. r - 1
    BY CountsAreInts DEF ReaderInv, TypeOK, Reducers
  <1>2. 0 \in Maps
    BY <1>1 DEF Maps
  <1>3. n \in Nat
    BY <1>1, <1>2, CollectedKeys
  <1>4. \A i \in Maps : Collected(i) = 0 .. n * r - 1
    BY <1>1, CollectedKeys
  <1>5. UNION {Collected(i) : i \in Maps} = 0 .. n * r - 1
    BY <1>2, <1>4
  <1>6. {k \in UNION {Collected(i) : i \in Maps} : Partition(k) = j}
          = {k \in 0 .. n * r - 1 : k % r = j}
    BY <1>5 DEF Partition
  <1> HIDE DEF n, r
  <1>7. LET keys == {k \in 0 .. n * r - 1 : k % r = j}
        IN  IsFiniteSet(keys) /\ Cardinality(keys) = n
    BY <1>1, <1>3, KeysOfRemainder
  <1> QED  BY <1>6, <1>7 DEF n

LEMMA KeysStep ==
    ASSUME KeysInv, [Next]_vars PROVE KeysInv'
  <1>1. ReaderInv' /\ TypeOK
    BY ReaderStep DEF KeysInv, ReaderInv
  <1> SUFFICES ASSUME KeysFit, NEW h \in Reducers PROVE KeysOK(h)'
    BY <1>1, KeysFitStays, ConfStays DEF KeysInv
  <1>2. KeysOK(h) /\ reduceSleepCount' = reduceSleepCount
    BY ConfStays DEF KeysInv
  <1>3. ASSUME rtask'[h] \in {rtask[h], "pending"}, todo'[h] = todo[h], rcount'[h] = rcount[h]
        PROVE  KeysOK(h)'
    BY <1>2, <1>3 DEF KeysOK
  <1>4. ASSUME NEW j \in Reducers, ReduceStart(j) PROVE KeysOK(h)'
    <2>1. CASE h # j
      BY <1>1, <1>3, <1>4, <2>1 DEF ReduceStart, TypeOK
    <2>2. CASE h = j
      <3> DEFINE share == {k \in UNION {Collected(i) : i \in Maps} : Partition(k) = j}
      <3>1. rtask'[h] = "running" /\ todo'[h] = share /\ rcount'[h] = 0
        BY <1>1, <1>4, <2>2 DEF ReduceStart, TypeOK
      <3>2. IsFiniteSet(share) /\ Cardinality(share) = reduceSleepCount
        BY <1>4, ShareOfReducer DEF ReduceStart, KeysInv
      <3> HIDE DEF share
      <3>3. Cardinality(share) \in Nat
        BY <3>2, FS_CardinalityType
      <3> QED  BY <1>2, <3>1, <3>2, <3>3 DEF KeysOK
    <2> QED  BY <2>1, <2>2
  <1>5. ASSUME NEW j \in Reducers, Reduce(j) PROVE KeysOK(h)'
    <2>1. CASE h # j
      BY <1>1, <1>3, <1>5, <2>1 DEF Reduce, TypeOK
    <2>2. CASE h = j
      <3>1. PICK k \in todo[h] : todo'[h] = todo[h] \ {k}
        BY <1>1, <1>5, <2>2 DEF Reduce, TypeOK
      <3>2. /\ rtask[h] = "running" /\ rtask'[h] = "running"
            /\ rcount[h] \in Nat /\ rcount'[h] = rcount[h] + 1
        BY <1>1, <1>5, <2>2 DEF Reduce, TypeOK
      <3>3. IsFiniteSet(todo[h]) /\ rcount[h] + Cardinality(todo[h]) = reduceSleepCount
        BY <1>2, <3>2 DEF KeysOK
      <3>4. /\ IsFiniteSet(todo'[h]) /\ Cardinality(todo'[h]) = Cardinality(todo[h]) - 1
            /\ Cardinality(todo[h]) \in Nat
        BY <3>1, <3>3, FS_RemoveElement, FS_CardinalityType
      <3>5. rcount'[h] + Cardinality(todo'[h]) = reduceSleepCount
        BY <3>2, <3>3, <3>4
      <3> QED  BY <1>2, <3>2, <3>4, <3>5 DEF KeysOK
    <2> QED  BY <2>1, <2>2
  <1>6. ASSUME NEW j \in Reducers, ReduceEnd(j) PROVE KeysOK(h)'
    <2>1. CASE h # j
      BY <1>1, <1>3, <1>6, <2>1 DEF ReduceEnd, TypeOK
    <2>2. CASE h = j
      <3>1. /\ rtask[h] = "running" /\ todo[h] = {} /\ todo' = todo /\ rcount' = rcount
        BY <1>6, <2>2 DEF ReduceEnd
      <3> QED  BY <1>2, <3>1 DEF KeysOK
    <2> QED  BY <2>1, <2>2
  <1>7. ASSUME NEW j \in Reducers, ReduceKilled(j) PROVE KeysOK(h)'
    <2>1. rtask'[h] \in {rtask[h], "pending"}
      BY <1>1, <1>7 DEF ReduceKilled, TypeOK
    <2> QED  BY <1>3, <1>7, <2>1 DEF ReduceKilled
  <1>8. CASE UNCHANGED redVars
    BY <1>3, <1>8 DEF redVars
  <1> QED
    BY <1>4, <1>5, <1>6, <1>7, <1>8
       DEF Next, vars, MapStep, MapStart, NewAttempt, MapRecord, NextAndMap, MapEnd, MapKilled,
           MapFails, OutputLost, ReduceStep, JobSucceeds

(* SleepJob.java, the comment in map: a reducer that is done has slept once  *)
(* for each of its reduceSleepCount keys, whatever maps and reducers were    *)
(* killed and outputs lost before, and however the keys were split up among  *)
(* the records: unless reduceSleepCount * r, which no check in the code      *)
(* bounds, is no int.                                                        *)
THEOREM KeysPerReducer == Spec => [](KeysFit => EachReducerGetsItsKeys)
  <1>1. Init => KeysInv
    <2> SUFFICES ASSUME Init PROVE KeysInv
      OBVIOUS
    <2>1. \A j \in Reducers : rtask[j] = "pending"
      BY DEF Init
    <2> QED  BY <2>1, ReaderInit DEF KeysInv, KeysOK
  <1>2. KeysInv /\ [Next]_vars => KeysInv'
    BY KeysStep
  <1>3. KeysInv => (KeysFit => EachReducerGetsItsKeys)
    <2> SUFFICES ASSUME KeysInv, KeysFit, NEW j \in Reducers, rtask[j] = "done"
                 PROVE  rcount[j] = reduceSleepCount
      BY DEF EachReducerGetsItsKeys
    <2>1. todo[j] = {} /\ rcount[j] + Cardinality(todo[j]) = reduceSleepCount
      BY DEF KeysInv, KeysOK
    <2>2. rcount[j] \in Nat /\ Cardinality(todo[j]) = 0
      BY <2>1, FS_EmptySet DEF KeysInv, ReaderInv, TypeOK
    <2> QED  BY <2>1, <2>2
  <1> QED  BY <1>1, <1>2, <1>3, PTL DEF Spec

=============================================================================
