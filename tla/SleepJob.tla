------------------------------ MODULE SleepJob ------------------------------
(***************************************************************************)
(* mr/yarn_containers: SleepJob.java, and SleepJobWithArray.java, which    *)
(* differs from it by the array a map may allocate.  The splits are empty: *)
(* a record reader makes up the records of a map, its maps make up keys,   *)
(* and the reducers sleep once per key.  Task attempts, their retries and  *)
(* the shuffle are the framework's (external); an attempt is a new object  *)
(* of the class, so its fields and its record reader start afresh.         *)
(***************************************************************************)
EXTENDS Integers, Sequences, FiniteSets

CONSTANTS
    Configs,      \* the command lines: -m, -r, -mt, -rt, -recordt and the array
    MaxInt,       \* the largest int of Java
    MaxAttempts,  \* attempts of a task before the job fails
    KillMax       \* bound on attempts that are killed and outputs that are lost

ASSUME SleepAssumption ==
    /\ Configs \subseteq [m : Nat \ {0}, r : Nat, mt : Int, rt : Int, recordt : Nat,
                          array : {"off", "fits", "big"}]
    /\ MaxInt \in Nat \ {0} /\ MaxAttempts \in Nat \ {0} /\ KillMax \in Nat

VARIABLES
    conf,       \* the command line
    job,        \* "running", "succeeded", "failed"
    task,       \* map -> "pending", "running", "done"
    attempts,   \* map -> attempts that failed
    records,    \* map -> records handed out by the reader of its attempt
    emitCount,  \* map -> keys promised by that reader
    count,      \* map -> field count of the attempt
    output,     \* map -> the keys it collected, in order
    rtask, rattempts,  \* the same for the reducers
    todo,       \* reducer -> keys of its attempt still to be reduced
    rcount,     \* reducer -> field count of the attempt
    kills       \* kills and losses so far

mapVars == <<task, attempts, records, emitCount, count, output>>
redVars == <<rtask, rattempts, todo, rcount>>
vars == <<conf, job, mapVars, redVars, kills>>

-----------------------------------------------------------------------------
(* int, and (int) Math.ceil(t / (double) d), which stops at the largest int   *)
(* and makes 0 of the NaN of 0 / 0.                                          *)
Wrap(x) == ((x + MaxInt + 1) % (2 * (MaxInt + 1))) - MaxInt - 1

Clamp(x) == IF x > MaxInt THEN MaxInt ELSE IF x < -MaxInt - 1 THEN -MaxInt - 1 ELSE x
SleepCount(t, d) == IF d > 0 THEN Clamp(-((-t) \div d))
                    ELSE IF t > 0 THEN MaxInt ELSE IF t = 0 THEN 0 ELSE -MaxInt - 1

mapSleepCount    == SleepCount(conf.mt, conf.recordt)
reduceSleepCount == SleepCount(conf.rt, conf.recordt)

\* Mutant: the reader spreads the keys of one reducer only.
emitPerMapTask_One == Wrap(reduceSleepCount)

emitPerMapTask   == Wrap(reduceSleepCount * conf.r)

(* The quotient of Java, towards zero, by a positive divisor. *)
Quot(a, b) == IF a >= 0 THEN a \div b ELSE -((-a) \div b)

(* The value of record n: the keys that its map is to collect. *)
Emit(n) ==
    Quot(emitPerMapTask, mapSleepCount)
    + (IF emitPerMapTask - mapSleepCount * Quot(emitPerMapTask, mapSleepCount) > n
       THEN 1 ELSE 0)

Maps     == 0 .. conf.m - 1
Reducers == 0 .. conf.r - 1

(* getPartition; in a job without reducers it is not called.                 *)
Partition(k) == k % conf.r

(* getRecordReader refuses negative counts and configure divides by both.    *)
Configured == mapSleepCount > 0 /\ reduceSleepCount > 0

-----------------------------------------------------------------------------
Init ==
    /\ conf \in Configs
    /\ job = "running" /\ kills = 0
    /\ task = [i \in Maps |-> "pending"] /\ attempts = [i \in Maps |-> 0]
    /\ records = [i \in Maps |-> 0] /\ emitCount = [i \in Maps |-> 0]
    /\ count = [i \in Maps |-> 0] /\ output = [i \in Maps |-> <<>>]
    /\ rtask = [j \in Reducers |-> "pending"] /\ rattempts = [j \in Reducers |-> 0]
    /\ todo = [j \in Reducers |-> {}] /\ rcount = [j \in Reducers |-> 0]

(* An attempt of a map throws or is killed: the task is tried again, or the  *)
(* job fails with it.                                                        *)
MapFails(i) ==
    /\ task' = [task EXCEPT ![i] = "pending"]
    /\ attempts' = [attempts EXCEPT ![i] = @ + 1]
    /\ job' = IF attempts[i] + 1 >= MaxAttempts THEN "failed" ELSE job
    /\ UNCHANGED <<conf, records, emitCount, count, output, redVars>>

(* An attempt begins: configure, and getRecordReader with emitCount 0.        *)
NewAttempt(i, firstKey) ==
    /\ job = "running" /\ task[i] = "pending"
    /\ \/ /\ Configured
          /\ task' = [task EXCEPT ![i] = "running"]
          /\ records' = [records EXCEPT ![i] = 0]
          /\ emitCount' = [emitCount EXCEPT ![i] = firstKey]
          /\ count' = [count EXCEPT ![i] = 0]
          /\ output' = [output EXCEPT ![i] = <<>>]
          /\ UNCHANGED <<conf, job, attempts, redVars>>
       \/ ~Configured /\ MapFails(i)
    /\ UNCHANGED kills

\* Mutant: the key counter of the reader outlives its attempt.
MapStart_StaleReader(i) == NewAttempt(i, emitCount[i])

MapStart(i) == NewAttempt(i, 0)

(* The keys first .. first + emit - 1, as map collects them. *)
KeysFrom(first, emit) == [n \in 1 .. (IF emit > 0 THEN emit ELSE 0) |-> first + n - 1]

(* next, then map: it allocates the array, sleeps and collects the keys.     *)
NextAndMap(i) ==
    LET emit == Emit(records[i]) IN
    /\ job = "running" /\ task[i] = "running"
    /\ IF conf.array = "big" THEN MapFails(i)
       ELSE /\ records' = [records EXCEPT ![i] = @ + 1]
            /\ emitCount' = [emitCount EXCEPT ![i] = Wrap(@ + emit)]
            /\ count' = [count EXCEPT ![i] = @ + 1]
            /\ output' = [output EXCEPT ![i] = @ \o KeysFrom(emitCount[i], emit)]
            /\ UNCHANGED <<conf, job, task, attempts, redVars>>
    /\ UNCHANGED kills

MapRecord(i) == records[i] < mapSleepCount /\ NextAndMap(i)

\* Mutant: next does not return false after the last record.
MapEnd_Late(i) ==
    /\ job = "running" /\ task[i] = "running" /\ records[i] > mapSleepCount
    /\ task' = [task EXCEPT ![i] = "done"]
    /\ UNCHANGED <<conf, job, attempts, records, emitCount, count, output, redVars, kills>>

(* next returns false: the attempt is over and its output is committed.      *)
MapEnd(i) ==
    /\ job = "running" /\ task[i] = "running" /\ records[i] >= mapSleepCount
    /\ task' = [task EXCEPT ![i] = "done"]
    /\ UNCHANGED <<conf, job, attempts, records, emitCount, count, output, redVars, kills>>

MapKilled(i) ==
    /\ job = "running" /\ task[i] = "running" /\ kills < KillMax
    /\ kills' = kills + 1
    /\ MapFails(i)

(* The node with the output of a map is lost before all reducers are through. *)
OutputLost(i) ==
    /\ job = "running" /\ task[i] = "done" /\ kills < KillMax
    /\ \E j \in Reducers : rtask[j] # "done"
    /\ kills' = kills + 1
    /\ task' = [task EXCEPT ![i] = "pending"]
    /\ UNCHANGED <<conf, job, attempts, records, emitCount, count, output, redVars>>

-----------------------------------------------------------------------------
Collected(i) == {output[i][n] : n \in 1 .. Len(output[i])}

(* A reducer has copied its share of every map's output. *)
ReduceStart(j) ==
    /\ job = "running" /\ rtask[j] = "pending" /\ \A i \in Maps : task[i] = "done"
    /\ rtask' = [rtask EXCEPT ![j] = "running"]
    /\ todo' = [todo EXCEPT ![j] = {k \in UNION {Collected(i) : i \in Maps} : Partition(k) = j}]
    /\ rcount' = [rcount EXCEPT ![j] = 0]
    /\ UNCHANGED <<conf, job, mapVars, rattempts, kills>>

(* reduce is called for the next key in order, however many maps sent it.    *)
Reduce(j) ==
    /\ job = "running" /\ rtask[j] = "running"
    /\ \E k \in todo[j] :
          /\ \A l \in todo[j] : k <= l
          /\ todo' = [todo EXCEPT ![j] = @ \ {k}]
    /\ rcount' = [rcount EXCEPT ![j] = @ + 1]
    /\ UNCHANGED <<conf, job, mapVars, rtask, rattempts, kills>>

ReduceEnd(j) ==
    /\ job = "running" /\ rtask[j] = "running" /\ todo[j] = {}
    /\ rtask' = [rtask EXCEPT ![j] = "done"]
    /\ UNCHANGED <<conf, job, mapVars, rattempts, todo, rcount, kills>>

ReduceKilled(j) ==
    /\ job = "running" /\ rtask[j] = "running" /\ kills < KillMax
    /\ kills' = kills + 1
    /\ rtask' = [rtask EXCEPT ![j] = "pending"]
    /\ rattempts' = [rattempts EXCEPT ![j] = @ + 1]
    /\ job' = IF rattempts[j] + 1 >= MaxAttempts THEN "failed" ELSE job
    /\ UNCHANGED <<conf, mapVars, todo, rcount>>

(* runJob returns. *)
JobSucceeds ==
    /\ job = "running"
    /\ \A i \in Maps : task[i] = "done"
    /\ \A j \in Reducers : rtask[j] = "done"
    /\ job' = "succeeded"
    /\ UNCHANGED <<conf, mapVars, redVars, kills>>

MapStep(i)    == MapStart(i) \/ MapRecord(i) \/ MapEnd(i)
ReduceStep(j) == ReduceStart(j) \/ Reduce(j) \/ ReduceEnd(j)

Next ==
    \/ \E i \in Maps : MapStep(i) \/ MapKilled(i) \/ OutputLost(i)
    \/ \E j \in Reducers : ReduceStep(j) \/ ReduceKilled(j)
    \/ JobSucceeds

Spec == Init /\ [][Next]_vars

(* The framework schedules every task that can run. *)
Work == (\E i \in Maps : MapStep(i)) \/ (\E j \in Reducers : ReduceStep(j)) \/ JobSucceeds
LiveSpec == Spec /\ WF_vars(Work)

-----------------------------------------------------------------------------
TypeOK ==
    /\ conf \in Configs /\ job \in {"running", "succeeded", "failed"}
    /\ task \in [Maps -> {"pending", "running", "done"}]
    /\ attempts \in [Maps -> Nat] /\ records \in [Maps -> {0} \cup 1 .. mapSleepCount]
    /\ emitCount \in [Maps -> Int] /\ count \in [Maps -> Nat]
    /\ output \in [Maps -> Seq(Int)]
    /\ rtask \in [Reducers -> {"pending", "running", "done"}]
    /\ rattempts \in [Reducers -> Nat] /\ rcount \in [Reducers -> Nat]
    /\ todo \in [Reducers -> SUBSET Int]
    /\ kills \in 0 .. KillMax

(* The keys that the first n records of a map stand for. *)
Emitted(n) ==
    LET q == emitPerMapTask \div mapSleepCount
        r == emitPerMapTask % mapSleepCount IN
    n * q + (IF n < r THEN n ELSE r)

(* Inductive: an attempt has collected the keys 0 .. Emitted(records) - 1,   *)
(* unless emitPerMapTask overflowed (SleepInputFormat.next and map).         *)
ReaderInv ==
    /\ TypeOK
    /\ \A i \in Maps : task[i] # "pending" =>
        /\ Configured
        /\ task[i] = "done" => records[i] = mapSleepCount
        /\ emitPerMapTask >= 0 =>
              /\ emitCount[i] = Emitted(records[i])
              /\ Len(output[i]) = emitCount[i]
              /\ \A n \in 1 .. Len(output[i]) : output[i][n] = n - 1

(* Whatever attempts came before, a map that is done collected each of the   *)
(* keys 0 .. emitPerMapTask - 1 once, in order: the record reader's shares   *)
(* add up (SleepInputFormat.next and map).                                   *)
MapOutputExact ==
    \A i \in Maps : task[i] = "done" /\ emitPerMapTask >= 0 =>
        /\ Len(output[i]) = emitPerMapTask
        /\ \A n \in 1 .. emitPerMapTask : output[i][n] = n - 1

(* The comment in map: each reducer gets reduceSleepCount keys.              *)
EachReducerGetsItsKeys ==
    \A j \in Reducers : rtask[j] = "done" => rcount[j] = reduceSleepCount

(* The job ends, also when attempts are killed and outputs lost.             *)
JobEnds == <>(job # "running")
=============================================================================
