------------------------------ MODULE KillJob ------------------------------
(***************************************************************************)
(* mr/kill_job_from_mapper: TryKill.java starts a map for each line of the *)
(* input, and KillMapper.java kills the whole job from a map whose line is *)
(* not "100".  The scheduling of attempts and the application master,      *)
(* which handles its events in order, are external.                        *)
(***************************************************************************)
EXTENDS Integers, FiniteSets

CONSTANTS
    Maps,         \* one per line of the input (NLineInputFormat)
    MaxAttempts,  \* attempts of a map before the job fails
    MaxFailures   \* bound on remote calls that fail and attempts that die

ASSUME KillAssumption == MaxAttempts \in Nat \ {0} /\ MaxFailures \in Nat

VARIABLES
    line,      \* map -> "100" or "other"
    at,        \* map -> where its attempt is
    tries,     \* map -> attempts that died
    killed,    \* did the application master accept a killJob?
    job,       \* "running", "succeeded", "killed", "failed"
    exitCode,  \* of TryKill, or -1 while it waits
    unheard,   \* maps with another line whose killJob threw
    failures   \* failures so far

killVars == <<line, at, tries, killed, job, exitCode, unheard, failures>>

KillInit ==
    /\ line \in [Maps -> {"100", "other"}]
    /\ at = [i \in Maps |-> "pending"] /\ tries = [i \in Maps |-> 0]
    /\ killed = FALSE /\ job = "running" /\ exitCode = -1
    /\ unheard = {} /\ failures = 0

Start(i) ==
    /\ job = "running" /\ at[i] = "pending"
    /\ at' = [at EXCEPT ![i] = "map"]
    /\ UNCHANGED <<line, tries, killed, job, exitCode, unheard, failures>>

\* Mutant: the job is killed by a thread that map does not wait for.
Map_Async(i) ==
    /\ at[i] = "map"
    /\ at' = [at EXCEPT ![i] = "over"]
    /\ UNCHANGED <<line, tries, killed, job, exitCode, unheard, failures>>

(* map: a line other than "100" goes on to killJob. *)
Map(i) ==
    /\ at[i] = "map"
    /\ at' = [at EXCEPT ![i] = IF line[i] # "100" THEN "client" ELSE "over"]
    /\ UNCHANGED <<line, tries, killed, job, exitCode, unheard, failures>>

(* A call of killJob throws: the exception is printed, and map returns.      *)
Throws(i) ==
    /\ failures < MaxFailures /\ failures' = failures + 1
    /\ at' = [at EXCEPT ![i] = "over"]
    /\ unheard' = unheard \cup {i}
    /\ UNCHANGED <<line, tries, job, exitCode>>

\* Mutant: an exception of the JobClient leaves map.
NewJobClient_Rethrows(i) ==
    /\ at[i] = "client"
    /\ at' = [at EXCEPT ![i] = IF failures < MaxFailures THEN "failed" ELSE "kill"]
    /\ UNCHANGED <<line, tries, killed, job, exitCode, unheard, failures>>

NewJobClient(i) ==
    /\ at[i] = "client"
    /\ \/ /\ at' = [at EXCEPT ![i] = "kill"]
          /\ UNCHANGED <<line, tries, killed, job, exitCode, unheard, failures>>
       \/ Throws(i) /\ UNCHANGED killed

\* Mutant: map waits for the end of the job it asked for, whatever came of it.
KillTheJob_Waits(i) ==
    /\ at[i] = "kill" /\ i \notin unheard
    /\ \/ killed' = TRUE /\ UNCHANGED <<unheard, failures>>
       \/ /\ failures < MaxFailures /\ failures' = failures + 1
          /\ unheard' = unheard \cup {i} /\ UNCHANGED killed
    /\ UNCHANGED <<line, at, tries, job, exitCode>>

(* getJob and RunningJob.killJob; the master may act on a call that throws.  *)
KillTheJob(i) ==
    /\ at[i] = "kill"
    /\ \/ /\ killed' = TRUE
          /\ at' = [at EXCEPT ![i] = "over"]
          /\ UNCHANGED <<line, tries, job, exitCode, unheard, failures>>
       \/ Throws(i) /\ killed' \in {killed, TRUE}

End(i) ==
    /\ job = "running" /\ at[i] = "over"
    /\ at' = [at EXCEPT ![i] = "done"]
    /\ UNCHANGED <<line, tries, killed, job, exitCode, unheard, failures>>

Dies(i) ==
    /\ job = "running" /\ at[i] \in {"map", "client", "kill", "over"}
    /\ failures < MaxFailures /\ failures' = failures + 1
    /\ at' = [at EXCEPT ![i] = "pending"]
    /\ tries' = [tries EXCEPT ![i] = @ + 1]
    /\ job' = IF tries[i] + 1 >= MaxAttempts THEN "failed" ELSE job
    /\ UNCHANGED <<line, killed, exitCode, unheard>>

(* The master ends the job; a kill it accepted comes before the end of the   *)
(* map that asked for it.                                                    *)
JobEnds ==
    /\ job = "running"
    /\ \/ killed /\ job' = "killed"
       \/ ~killed /\ (\A i \in Maps : at[i] = "done") /\ job' = "succeeded"
    /\ UNCHANGED <<line, at, tries, killed, exitCode, unheard, failures>>

(* The containers of a job that ended are stopped. *)
Stopped(i) ==
    /\ job # "running" /\ at[i] \in {"map", "client", "kill", "over"}
    /\ at' = [at EXCEPT ![i] = "stopped"]
    /\ UNCHANGED <<line, tries, killed, job, exitCode, unheard, failures>>

(* run: waitForCompletion, and the exit code. *)
Exit ==
    /\ job # "running" /\ exitCode = -1
    /\ exitCode' = IF job = "succeeded" THEN 0 ELSE 1
    /\ UNCHANGED <<line, at, tries, killed, job, unheard, failures>>

MapStep(i) == Start(i) \/ Map(i) \/ NewJobClient(i) \/ KillTheJob(i) \/ End(i)

KillNext == (\E i \in Maps : MapStep(i) \/ Dies(i) \/ Stopped(i)) \/ JobEnds \/ Exit

(* Tasks are scheduled, threads run, the master and the client go on.        *)
KillSpec == KillInit /\ [][KillNext]_killVars /\ WF_killVars(JobEnds) /\ WF_killVars(Exit)
             /\ \A i \in Maps : WF_killVars(MapStep(i))

-----------------------------------------------------------------------------
KillTypeOK ==
    /\ line \in [Maps -> {"100", "other"}] /\ tries \in [Maps -> 0 .. MaxAttempts]
    /\ at \in [Maps -> {"pending", "map", "client", "kill", "over", "done", "stopped"}]
    /\ killed \in BOOLEAN /\ job \in {"running", "succeeded", "killed", "failed"}
    /\ exitCode \in {-1, 0, 1} /\ unheard \subseteq Maps /\ failures \in 0 .. MaxFailures

(* TryKill's exit code is 0 only if every map found "100", or its killJob    *)
(* threw: a map never ends before its kill is with the master.               *)
SuccessMeansAllHundred ==
    /\ KillTypeOK
    /\ exitCode = 0 => \A i \in Maps : line[i] = "100" \/ i \in unheard

(* Whatever the maps do to each other, TryKill returns. *)
TryKillReturns == <>(exitCode # -1)
=============================================================================
