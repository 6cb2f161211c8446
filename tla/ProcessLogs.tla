---------------------------- MODULE ProcessLogs ----------------------------
(***************************************************************************)
(* mr/total_order_partitioner: ProcessLogs.java runs a map-only job that   *)
(* writes month.ip keys into <out>_staging, samples them into a partition  *)
(* file, and runs a second job that counts each key, its reducers in total *)
(* order.  Scheduling, commit of task output, InputSampler and             *)
(* TotalOrderPartitioner are the framework's (external).  Months and       *)
(* addresses are numbers in the order of their text.                       *)
(***************************************************************************)
EXTENDS Integers, Sequences, FiniteSets

CONSTANTS
    Tasks,      \* input splits
    Inputs,     \* the inputs there may be: [Tasks -> Seq(lines)]
    Months, Addresses,
    NumReduce,  \* reducers of the second job (10 in the code)
    RunMax,     \* bound on runs of the program with the same arguments
    FailMax     \* bound on failures

Line == [fields : 1 .. 4, parts : 1 .. 3, month : Months \cup {-1}, ip : Addresses]
Null == -1

ASSUME LogsAssumption ==
    /\ Months \subseteq Nat /\ Addresses \subseteq Nat
    /\ Inputs \subseteq [Tasks -> Seq(Line)]
    /\ NumReduce \in Nat \ {0} /\ RunMax \in Nat /\ FailMax \in Nat

VARIABLES
    input,      \* the log files, as split
    runInput,   \* history: the input as this run found it
    pc,         \* where main is: "idle", "stage", "sample", "order", "reduce"
    code,       \* the exit code of the last run (1 also for an exception)
    pos,        \* task -> lines its attempt has mapped
    kv,         \* task -> MapperFunction.kv in the JVM of its attempt
    buffer,     \* task -> keys its attempt has written
    part,       \* task -> was its output committed?
    staging,    \* "absent", "started" or "complete"
    staged,     \* the keys in the staging directory
    points,     \* the partition file: NumReduce - 1 keys, or <<>>
    output,     \* "absent", "started" or "complete"
    counts,     \* reducer -> its output: a function from its keys to counts
    runs, fails

taskVars == <<pos, kv, buffer, part>>
fileVars == <<staging, staged, points, output, counts>>
vars == <<input, runInput, pc, code, taskVars, fileVars, runs, fails>>

Fresh == [t \in Tasks |-> 0]
NoKV  == [t \in Tasks |-> <<Null, Null>>]
Empty == [t \in Tasks |-> <<>>]
NoCounts == [p \in 1 .. NumReduce |-> <<>>]

Init ==
    /\ input \in Inputs /\ runInput = input
    /\ pc = "idle" /\ code = -1
    /\ pos = Fresh /\ kv = NoKV /\ buffer = Empty /\ part = [t \in Tasks |-> FALSE]
    /\ staging = "absent" /\ staged = <<>> /\ points = <<>>
    /\ output = "absent" /\ counts = NoCounts
    /\ runs = 0 /\ fails = 0

-----------------------------------------------------------------------------
(* MapperFunction.getKVPair fills the static array kv.                       *)
FillKV(line, before) ==
    << IF line.fields > 3 THEN line.ip ELSE before[1],
       IF line.fields > 3 /\ line.parts > 1 /\ line.month # -1 THEN line.month ELSE before[2] >>

\* Mutant: kv keeps what the line before left in it.
GetKVPair_NoReset(line, before) == FillKV(line, before)

GetKVPair(line, before) == FillKV(line, <<Null, Null>>)

\* Mutant: a line without a month is written all the same.
Writes_Always(pair) == TRUE

(* LogMonthMapper writes the key month.ip if there is a month. *)
Writes(pair) == pair[2] # Null
Key(pair) == <<pair[2], pair[1]>>

Less(k, l) == k[1] < l[1] \/ (k[1] = l[1] /\ k[2] < l[2])

(* TotalOrderPartitioner: one more than the split points up to the key.      *)
PartitionOf(k) == 1 + Cardinality({i \in DOMAIN points : ~Less(k, points[i])})

Elements(s) == {s[i] : i \in DOMAIN s}

-----------------------------------------------------------------------------
(* Each run starts with the jobs' fields empty.  A job is refused at its     *)
(* submission if its output directory is there: main throws.                 *)
MainWith(reuse) ==
    /\ pc = "idle" /\ runs < RunMax
    /\ runs' = runs + 1 /\ runInput' = input
    /\ pos' = Fresh /\ kv' = NoKV /\ buffer' = Empty /\ part' = [t \in Tasks |-> FALSE]
    /\ IF staging = "absent"
       THEN pc' = "stage" /\ code' = -1 /\ staging' = "started"
       ELSE pc' = (IF reuse THEN "sample" ELSE "idle") /\ code' = 1 /\ UNCHANGED staging
    /\ UNCHANGED <<input, staged, points, output, counts, fails>>

\* Mutant: a staging directory that is complete is used again.
Main_Reuse == MainWith(staging = "complete" /\ output = "absent")

Main == MainWith(FALSE)

(* LogMonthMapper.map on the next line of a task. *)
MapLine(t) ==
    /\ pc = "stage" /\ ~part[t] /\ pos[t] < Len(runInput[t])
    /\ LET pair == GetKVPair(runInput[t][pos[t] + 1], kv[t]) IN
        /\ kv' = [kv EXCEPT ![t] = pair]
        /\ buffer' = [buffer EXCEPT ![t] =
               IF Writes(pair) THEN Append(@, Key(pair)) ELSE @]
    /\ pos' = [pos EXCEPT ![t] = @ + 1]
    /\ UNCHANGED <<input, runInput, pc, code, part, fileVars, runs, fails>>

CommitTask(t) ==
    /\ pc = "stage" /\ ~part[t] /\ pos[t] = Len(runInput[t])
    /\ part' = [part EXCEPT ![t] = TRUE]
    /\ staged' = staged \o buffer[t]
    /\ UNCHANGED <<input, runInput, pc, code, pos, kv, buffer,
                   staging, points, output, counts, runs, fails>>

(* An attempt dies; the next one is a new JVM. *)
AttemptDies(t) ==
    /\ pc = "stage" /\ ~part[t] /\ fails < FailMax /\ fails' = fails + 1
    /\ pos' = [pos EXCEPT ![t] = 0]
    /\ kv' = [kv EXCEPT ![t] = <<Null, Null>>]
    /\ buffer' = [buffer EXCEPT ![t] = <<>>]
    /\ UNCHANGED <<input, runInput, pc, code, part, fileVars, runs>>

StageSucceeds ==
    /\ pc = "stage" /\ \A t \in Tasks : part[t]
    /\ pc' = "sample" /\ staging' = "complete"
    /\ UNCHANGED <<input, runInput, code, taskVars, staged, points, output, counts, runs, fails>>

(* InputSampler.writePartitionFile: NumReduce - 1 of the staged keys, or an  *)
(* exception if they cannot be told apart.                                   *)
Sample ==
    /\ pc = "sample"
    /\ \/ /\ \E chosen \in [1 .. NumReduce - 1 -> Elements(staged)] :
                /\ \A i, j \in 1 .. NumReduce - 1 : i < j => Less(chosen[i], chosen[j])
                /\ points' = chosen
          /\ pc' = "order" /\ UNCHANGED code
       \/ pc' = "idle" /\ code' = 1 /\ UNCHANGED points
    /\ UNCHANGED <<input, runInput, taskVars, staging, staged, output, counts, runs, fails>>

(* The second job is submitted: an output directory is refused. *)
Order ==
    /\ pc = "order"
    /\ IF output = "absent"
       THEN pc' = "reduce" /\ output' = "started" /\ UNCHANGED code
       ELSE pc' = "idle" /\ code' = 1 /\ UNCHANGED output
    /\ UNCHANGED <<input, runInput, taskVars, staging, staged, points, counts, runs, fails>>

(* CountReducer: the values of a key, one for each record. *)
CountOf(k) == Cardinality({i \in DOMAIN staged : staged[i] = k})

(* IdentityMapper hands on the staged keys. *)
MapOutput == Elements(staged)

\* Mutant: HashPartitioner, as without setPartitionerClass.
ReducerOf_Hash(k) == 1 + ((k[1] + k[2]) % NumReduce)

ReducerOf(k) == PartitionOf(k)

(* Reducer p writes and commits its part. *)
Reduce(p) ==
    /\ pc = "reduce" /\ counts[p] = <<>>
    /\ LET keys == {k \in MapOutput : ReducerOf(k) = p} IN
        /\ keys # {}
        /\ counts' = [counts EXCEPT ![p] = [k \in keys |-> CountOf(k)]]
    /\ UNCHANGED <<input, runInput, pc, code, taskVars, staging, staged, points, output,
                   runs, fails>>

(* waitForCompletion returns; neither the staging directory nor the          *)
(* partition file is removed.                                                *)
OrderSucceeds ==
    /\ pc = "reduce"
    /\ MapOutput = UNION {DOMAIN counts[p] : p \in 1 .. NumReduce}
    /\ output' = "complete" /\ code' = 0 /\ pc' = "idle"
    /\ UNCHANGED <<input, runInput, taskVars, staging, staged, points, counts, runs, fails>>

(* A job fails (exit code 1 or 2), or the client is stopped.  What its tasks *)
(* had committed stays in the directory, without the mark of success.        *)
RunFails ==
    /\ pc # "idle" /\ fails < FailMax /\ fails' = fails + 1
    /\ pc' = "idle" /\ code' = IF pc = "reduce" THEN 2 ELSE 1
    /\ UNCHANGED <<input, runInput, taskVars, fileVars, runs>>

(* Between runs the logs grow or rotate. *)
NewLogs ==
    /\ pc = "idle" /\ input' \in Inputs
    /\ UNCHANGED <<runInput, pc, code, taskVars, fileVars, runs, fails>>

(* Someone removes both directories between runs. *)
CleanedByHand ==
    /\ pc = "idle" /\ staging # "absent"
    /\ staging' = "absent" /\ staged' = <<>> /\ output' = "absent" /\ counts' = NoCounts
    /\ UNCHANGED <<input, runInput, pc, code, taskVars, points, runs, fails>>

Next ==
    \/ Main \/ StageSucceeds \/ Sample \/ Order \/ OrderSucceeds
    \/ (\E t \in Tasks : MapLine(t) \/ CommitTask(t) \/ AttemptDies(t))
    \/ (\E p \in 1 .. NumReduce : Reduce(p))
    \/ RunFails \/ NewLogs \/ CleanedByHand

Spec == Init /\ [][Next]_vars

-----------------------------------------------------------------------------
Keys == Months \X Addresses

TypeOK ==
    /\ input \in Inputs /\ runInput \in Inputs
    /\ pc \in {"idle", "stage", "sample", "order", "reduce"} /\ code \in {-1, 0, 1, 2}
    /\ pos \in [Tasks -> Nat] /\ \A t \in Tasks : pos[t] <= Len(runInput[t])
    /\ kv \in [Tasks -> (Addresses \cup {Null}) \X (Months \cup {Null})]
    /\ buffer \in [Tasks -> Seq(Keys)] /\ part \in [Tasks -> BOOLEAN]
    /\ staging \in {"absent", "started", "complete"}
    /\ output \in {"absent", "started", "complete"}
    /\ staged \in Seq(Keys) /\ points \in Seq(Keys)
    /\ counts = [p \in 1 .. NumReduce |-> counts[p]]
    /\ \A p \in 1 .. NumReduce : counts[p] \in [DOMAIN counts[p] -> Nat]
    /\ runs \in 0 .. RunMax /\ fails \in 0 .. FailMax

(* The lines of a log that have a date with a month, and the key k.          *)
Valid(line) == line.fields > 3 /\ line.parts > 1 /\ line.month # -1
LinesOf(log, k) ==
    {i \in DOMAIN log : Valid(log[i]) /\ <<log[i].month, log[i].ip>> = k}
Hits(logs, k) == Cardinality(UNION {{t} \X LinesOf(logs[t], k) : t \in Tasks})

(* A run that exits with 0 has counted, for each month and address, the      *)
(* lines of its own input, in one part of the output and in no other,        *)
(* whatever attempts died and runs failed before.                            *)
CountsAreExact ==
    output = "complete" /\ code = 0 =>
        \A k \in Keys :
            LET counters == {p \in 1 .. NumReduce : k \in DOMAIN counts[p]} IN
            IF Hits(runInput, k) = 0 THEN counters = {}
            ELSE \E p \in counters : counters = {p} /\ counts[p][k] = Hits(runInput, k)

(* The parts of the output, read in their order, are sorted. *)
PartsInOrder ==
    /\ TypeOK
    /\ output = "complete" =>
          \A p, q \in 1 .. NumReduce : p < q =>
              \A k \in DOMAIN counts[p], l \in DOMAIN counts[q] : Less(k, l)
=============================================================================
