---------------------------- MODULE HBaseUtility ----------------------------
(***************************************************************************)
(* hbase/apitests: HBaseUtility.java behind the buttons of HBaseBlaster,   *)
(* and misc/CreateTable.java, run by several processes on one table: the   *)
(* GUI's testTable, or CreateTable's test_create_table.  In a process one  *)
(* operation runs at a time (the GUI calls them on Swing's event thread);  *)
(* each remote call of it is a step.                                       *)
(***************************************************************************)
EXTENDS HBaseTable

CONSTANTS
    Programs,     \* the programs that may run: "HBaseBlaster", "CreateTable"
    NumRecords,   \* blast's numRecords (10000 in HBaseBlaster)
    FailMax,      \* bound on remote calls that fail and on process deaths
    CallMax       \* bound on the number of operations started

ASSUME UtilityAssumption ==
    /\ Programs \subseteq {"HBaseBlaster", "CreateTable"}
    /\ NumRecords \in Nat \ {0} /\ FailMax \in Nat /\ CallMax \in Nat
    /\ Times \subseteq Nat /\ \A t, u \in Times : t .. u \subseteq Times

VARIABLES
    program,     \* the program that the processes run
    pc,          \* the next remote call of each process, or "idle"
    timez,       \* blast's loop counter
    startTime,   \* blast's currentTimeMillis
    progress,    \* the value of the process's progress bar
    result,      \* the last checkAndPut result or truncateTable message
    ran,         \* history of the operation under way: the incarnation and whether
                 \* the table existed when it began, and was it alone and unfailing?
    calls, fails \* counters for the bounds

localVars == <<pc, timez, startTime, progress, result>>
vars == <<program, tableVars, localVars, ran, calls, fails>>

NoRun == [op |-> "none", from |-> 0, existed |-> FALSE, alone |-> TRUE, failed |-> FALSE]

Init ==
    /\ TableInit /\ program \in Programs
    /\ pc = [c \in Clients |-> "idle"]
    /\ timez = [c \in Clients |-> 0]
    /\ startTime = [c \in Clients |-> 0]
    /\ progress = [c \in Clients |-> 0]
    /\ result = [c \in Clients |-> "none"]
    /\ ran = [c \in Clients |-> NoRun]
    /\ calls = 0 /\ fails = 0

-----------------------------------------------------------------------------
FirstCall(op) == CASE op = "truncate"    -> "disable"
                   [] op = "checkAndPut" -> "putFirst"
                   [] op = "blast"       -> "put"
                   [] op = "create"      -> "tableExists"

Operations == IF program = "CreateTable" THEN {"create"} ELSE {"truncate", "checkAndPut", "blast"}

(* A button is pressed (or CreateTable started).  blast takes the time.      *)
Begin(c, op) ==
    /\ pc[c] = "idle" /\ op \in Operations /\ calls < CallMax
    /\ calls' = calls + 1
    /\ pc' = [pc EXCEPT ![c] = FirstCall(op)]
    /\ ran' = [d \in Clients |->
          IF d = c THEN [op |-> op, from |-> incarnation, existed |-> exists, failed |-> FALSE,
                         alone |-> \A e \in Clients : pc[e] = "idle"]
                   ELSE IF pc[d] = "idle" THEN ran[d] ELSE [ran[d] EXCEPT !.alone = FALSE]]
    /\ result' = [result EXCEPT ![c] = "none"]
    /\ IF op = "blast"
       THEN /\ \E now \in {t \in Times : t + NumRecords - 2 \in Times} :
                   startTime' = [startTime EXCEPT ![c] = now]
            /\ timez' = [timez EXCEPT ![c] = 0]
            /\ progress' = [progress EXCEPT ![c] = 0]
       ELSE UNCHANGED <<startTime, timez, progress>>
    /\ UNCHANGED <<tableVars, fails>>

Goto(c, label) ==
    /\ pc' = [pc EXCEPT ![c] = label]
    /\ UNCHANGED <<timez, startTime, progress>>

Keep(c) == UNCHANGED <<ran, calls, fails>> /\ result' = result

(* The operation returns; truncateTable leaves a message. *)
Return(c, message) ==
    /\ Goto(c, "idle")
    /\ result' = [result EXCEPT ![c] = message]
    /\ UNCHANGED <<ran, calls, fails>>

-----------------------------------------------------------------------------
\* Mutant: an exception of disableTable ends the operation, as it does in CreateTable.
TruncateDisable_Strict(c) ==
    /\ pc[c] = "disable"
    /\ \/ CanDisable /\ Disable /\ Goto(c, "isDisabled") /\ Keep(c)
       \/ ~CanDisable /\ UNCHANGED tableVars /\ Return(c, "none")

(* truncateTable.  An exception of disableTable is printed and forgotten. *)
TruncateDisable(c) ==
    /\ pc[c] = "disable"
    /\ IF CanDisable THEN Disable ELSE UNCHANGED tableVars
    /\ Goto(c, "isDisabled") /\ Keep(c)

(* isTableDisabled throws if there is no table: close and return. *)
TruncateIsDisabled(c) ==
    /\ pc[c] = "isDisabled"
    /\ \/ ~exists /\ Return(c, "none")
       \/ exists /\ enabled /\ Return(c, "disable failed")
       \/ exists /\ ~enabled /\ Goto(c, "getDescriptor") /\ Keep(c)
    /\ UNCHANGED tableVars

TruncateGetDescriptor(c) ==
    /\ pc[c] = "getDescriptor"
    /\ IF exists THEN Goto(c, "delete") /\ Keep(c) ELSE Return(c, "successfully deleted")
    /\ UNCHANGED tableVars

\* Mutant: the descriptor is read after the deletion, when it is gone.
TruncateDelete_DescriptorAfter(c) ==
    /\ pc[c] = "delete"
    /\ IF CanDelete THEN Delete ELSE UNCHANGED tableVars
    /\ Return(c, "successfully deleted")

TruncateDelete(c) ==
    /\ pc[c] = "delete"
    /\ \/ CanDelete /\ Delete /\ Goto(c, "create") /\ Keep(c)
       \/ ~CanDelete /\ Return(c, "successfully deleted") /\ UNCHANGED tableVars

(* The message comes after the try block, whatever happened in it. *)
TruncateCreate(c) ==
    /\ pc[c] = "create"
    /\ IF CanCreate THEN Create ELSE UNCHANGED tableVars
    /\ Return(c, "successfully deleted")

-----------------------------------------------------------------------------
(* checkAndPut: two puts of the first name against null, then the last name  *)
(* against the first.                                                        *)
CheckAndPutFirst(c) ==
    /\ pc[c] \in {"putFirst", "putFirstAgain"} /\ Online
    /\ PutFirstIfAbsent
    /\ result' = [result EXCEPT ![c] =
          IF pc[c] = "putFirst" THEN IF first = NoValue THEN "first true" ELSE "first false"
                                ELSE IF first = NoValue THEN "again true" ELSE "again false"]
    /\ Goto(c, IF pc[c] = "putFirst" THEN "putFirstAgain" ELSE "putLast")
    /\ UNCHANGED <<ran, calls, fails>>

\* Mutant: the last name is put without a check.
CheckAndPutLast_Unchecked(c) ==
    /\ pc[c] = "putLast" /\ Online
    /\ last' = "Smurf" /\ UNCHANGED <<exists, enabled, incarnation, first, blasted>>
    /\ Return(c, "last true")

CheckAndPutLast(c) ==
    /\ pc[c] = "putLast" /\ Online
    /\ PutLastIfFirst
    /\ Return(c, IF first = "Jokey" THEN "last true" ELSE "last false")

-----------------------------------------------------------------------------
(* blast: numRecords - 1 rounds of notifyObservers and put.  The observer    *)
(* sets the progress bar before the put.                                     *)
\* Mutant: the loop bound is missing.
BlastPut_Unbounded(c) ==
    LET k == startTime[c] + timez[c] IN
    /\ pc[c] = "put" /\ Online
    /\ progress' = [progress EXCEPT ![c] = timez[c]]
    /\ blasted' = [t \in Times |-> IF t = k THEN c ELSE blasted[t]]
    /\ timez' = [timez EXCEPT ![c] = @ + 1]
    /\ UNCHANGED <<exists, enabled, incarnation, first, last,
                   pc, startTime, result, ran, calls, fails>>

BlastPut(c) ==
    LET k == startTime[c] + timez[c] IN
    /\ pc[c] = "put" /\ Online /\ timez[c] < NumRecords - 1
    /\ progress' = [progress EXCEPT ![c] = timez[c]]
    /\ PutRow(k, c)
    /\ timez' = [timez EXCEPT ![c] = @ + 1]
    /\ UNCHANGED <<pc, startTime, result, ran, calls, fails>>

\* Mutant: the loop ends one round early.
BlastEnd_Early(c) ==
    /\ pc[c] = "put" /\ timez[c] >= NumRecords - 2
    /\ Return(c, "blasted")
    /\ UNCHANGED tableVars

BlastEnd(c) ==
    /\ pc[c] = "put" /\ timez[c] >= NumRecords - 1
    /\ Return(c, "blasted")
    /\ UNCHANGED tableVars

(* A put on a table that is disabled or gone throws: the operation ends. *)
PutThrows(c) ==
    /\ pc[c] \in {"putFirst", "putFirstAgain", "putLast", "put"} /\ ~Online
    /\ Return(c, "none")
    /\ UNCHANGED tableVars

-----------------------------------------------------------------------------
(* CreateTable.createTable: every exception leaves the method. *)
CreateTableExists(c) ==
    /\ pc[c] = "tableExists"
    /\ Goto(c, IF exists THEN "createDisable" ELSE "createNew") /\ Keep(c)
    /\ UNCHANGED tableVars

CreateDisable(c) ==
    /\ pc[c] = "createDisable"
    /\ \/ CanDisable /\ Disable /\ Goto(c, "createDelete") /\ Keep(c)
       \/ ~CanDisable /\ UNCHANGED tableVars /\ Return(c, "exception")

CreateDelete(c) ==
    /\ pc[c] = "createDelete"
    /\ \/ CanDelete /\ Delete /\ Goto(c, "createNew") /\ Keep(c)
       \/ ~CanDelete /\ UNCHANGED tableVars /\ Return(c, "exception")

CreateNew(c) ==
    /\ pc[c] = "createNew"
    /\ \/ CanCreate /\ Create /\ Return(c, "created")
       \/ ~CanCreate /\ UNCHANGED tableVars /\ Return(c, "exception")

-----------------------------------------------------------------------------
Failing(c) == /\ fails < FailMax /\ fails' = fails + 1
              /\ ran' = [ran EXCEPT ![c].failed = TRUE]
              /\ UNCHANGED calls

(* A remote call fails on the way there, or its answer is lost after it took *)
(* effect.  Each operation handles the exception as above.                   *)
CallFails(c) ==
    /\ Failing(c)
    /\ CASE pc[c] = "disable" ->
              /\ \/ UNCHANGED tableVars
                 \/ CanDisable /\ Disable
              /\ Goto(c, "isDisabled") /\ UNCHANGED result
         [] pc[c] = "isDisabled" ->
              /\ UNCHANGED tableVars
              /\ Goto(c, "idle") /\ result' = [result EXCEPT ![c] = "none"]
         [] pc[c] \in {"getDescriptor", "delete", "create"} ->
              /\ \/ UNCHANGED tableVars
                 \/ pc[c] = "delete" /\ CanDelete /\ Delete
                 \/ pc[c] = "create" /\ CanCreate /\ Create
              /\ Goto(c, "idle") /\ result' = [result EXCEPT ![c] = "successfully deleted"]
         [] pc[c] \in {"tableExists", "createDisable", "createDelete", "createNew"} ->
              /\ \/ UNCHANGED tableVars
                 \/ pc[c] = "createDisable" /\ CanDisable /\ Disable
                 \/ pc[c] = "createDelete" /\ CanDelete /\ Delete
                 \/ pc[c] = "createNew" /\ CanCreate /\ Create
              /\ Goto(c, "idle") /\ result' = [result EXCEPT ![c] = "exception"]
         [] pc[c] \in {"putFirst", "putFirstAgain", "putLast", "put"} ->
              /\ \/ UNCHANGED tableVars
                 \/ pc[c] \in {"putFirst", "putFirstAgain"} /\ Online /\ PutFirstIfAbsent
                 \/ pc[c] = "putLast" /\ Online /\ PutLastIfFirst
                 \/ /\ pc[c] = "put" /\ Online /\ timez[c] < NumRecords - 1
                    /\ PutRow(startTime[c] + timez[c], c)
              /\ Goto(c, "idle") /\ result' = [result EXCEPT ![c] = "none"]
         [] OTHER -> FALSE

(* The process is closed or killed in the middle of an operation. *)
Die(c) ==
    /\ pc[c] # "idle" /\ Failing(c)
    /\ Goto(c, "idle")
    /\ result' = [result EXCEPT ![c] = "none"]
    /\ UNCHANGED tableVars

Step(c) ==
    \/ TruncateDisable(c) \/ TruncateIsDisabled(c) \/ TruncateGetDescriptor(c)
    \/ TruncateDelete(c) \/ TruncateCreate(c)
    \/ CheckAndPutFirst(c) \/ CheckAndPutLast(c)
    \/ BlastPut(c) \/ BlastEnd(c) \/ PutThrows(c)
    \/ CreateTableExists(c) \/ CreateDisable(c) \/ CreateDelete(c) \/ CreateNew(c)

Next ==
    /\ UNCHANGED program
    /\ \E c \in Clients :
        (\E op \in Operations : Begin(c, op)) \/ Step(c) \/ CallFails(c) \/ Die(c)

Spec == Init /\ [][Next]_vars

-----------------------------------------------------------------------------
TypeOK ==
    /\ TableTypeOK /\ program \in Programs
    /\ pc \in [Clients -> {"idle", "disable", "isDisabled", "getDescriptor", "delete", "create",
                           "putFirst", "putFirstAgain", "putLast", "put",
                           "tableExists", "createDisable", "createDelete", "createNew"}]
    /\ timez \in [Clients -> 0 .. NumRecords] /\ startTime \in [Clients -> Nat]
    /\ progress \in [Clients -> 0 .. NumRecords]
    /\ calls \in 0 .. CallMax /\ fails \in 0 .. FailMax

(* A last name is only there beside the first name it was checked against,   *)
(* however a truncation falls between the three calls of checkAndPut.        *)
LastNeedsFirst == last # NoValue => first # NoValue

(* When blast returns without an exception and nobody truncated meanwhile,   *)
(* every key it counted has a row (two blasts may share keys).               *)
BlastKeepsRows ==
    /\ TypeOK
    /\ \A c \in Clients :
          result[c] = "blasted" /\ exists /\ ran[c].from = incarnation /\ ran[c].existed =>
              \A i \in 0 .. NumRecords - 2 : blasted[startTime[c] + i] # NoValue

(* A truncation that finds a table, even one that an earlier failure left    *)
(* disabled, and that neither fails nor overlaps with anyone, ends with an   *)
(* empty, enabled table.                                                     *)
TruncateHeals ==
    [][\A c \in Clients :
          /\ ran[c].op = "truncate" /\ ran[c].existed /\ ran[c].alone
          /\ pc[c] # "idle" /\ pc'[c] = "idle" /\ ~ran'[c].failed
          => /\ exists' /\ enabled' /\ first' = NoValue
             /\ \A k \in Times : blasted'[k] = NoValue]_vars

(* As long as no call fails and no process dies, overlapping truncations or  *)
(* overlapping CreateTables lose no table and leave none disabled.           *)
Settled ==
    /\ fails = 0 /\ \A c \in Clients : pc[c] = "idle"
    /\ \E c \in Clients : ran[c].existed \/ ran[c].op = "create"
    => Online
=============================================================================
