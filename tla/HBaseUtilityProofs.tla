------------------------- MODULE HBaseUtilityProofs -------------------------
(***************************************************************************)
(* The theorems about HBaseUtility, for any number of processes,           *)
(* operations, failures and records.                                       *)
(***************************************************************************)
EXTENDS HBaseUtility, TLAPS

PutLabels == {"putFirst", "putFirstAgain", "putLast", "put"}
TruncateLabels == {"disable", "isDisabled", "getDescriptor", "delete", "create"}
CreateLabels == {"tableExists", "createDisable", "createDelete", "createNew"}

(* What a remote call may do to the table, whether its answer arrives or not.*)
Effect ==
    \/ UNCHANGED tableVars
    \/ CanDisable /\ Disable
    \/ CanDelete /\ Delete
    \/ CanCreate /\ Create
    \/ PutFirstIfAbsent
    \/ PutLastIfFirst
    \/ \E k \in Int, c \in Clients : PutRow(k, c)

(* A call that fails leaves the operation, or goes on to isTableDisabled.    *)
LEMMA FailingCall ==
    ASSUME TypeOK, NEW c \in Clients, CallFails(c)
    PROVE  /\ Failing(c) /\ Effect
           /\ \/ pc[c] = "disable" /\ Goto(c, "isDisabled") /\ UNCHANGED result
              \/ /\ pc[c] # "idle" /\ Goto(c, "idle")
                 /\ \E message \in {"none", "successfully deleted", "exception"} :
                       result' = [result EXCEPT ![c] = message]
<1> USE DEF Effect
<1>0. Failing(c) /\ pc[c] \in PutLabels \cup TruncateLabels \cup CreateLabels
  BY DEF CallFails, PutLabels, TruncateLabels, CreateLabels
<1>1. CASE pc[c] = "disable"
  BY <1>0, <1>1 DEF CallFails
<1>2. CASE pc[c] = "isDisabled"
  BY <1>0, <1>2 DEF CallFails
<1>3. CASE pc[c] \in {"getDescriptor", "delete", "create"}
  BY <1>0, <1>3 DEF CallFails
<1>4. CASE pc[c] \in CreateLabels
  BY <1>0, <1>4 DEF CallFails, CreateLabels
<1>5. CASE pc[c] \in PutLabels
  <2>1. startTime[c] + timez[c] \in Int
    BY DEF TypeOK
  <2>2. Goto(c, "idle") /\ result' = [result EXCEPT ![c] = "none"]
    BY <1>5 DEF CallFails, PutLabels
  <2>3. UNCHANGED tableVars \/ PutFirstIfAbsent \/ PutLastIfFirst
        \/ PutRow(startTime[c] + timez[c], c)
    BY <1>5 DEF CallFails, PutLabels
  <2>4. pc[c] # "idle"
    BY <1>5 DEF PutLabels
  <2> QED
    BY <1>0, <2>1, <2>2, <2>3, <2>4
<1> QED
  BY <1>0, <1>1, <1>2, <1>3, <1>4, <1>5 DEF TruncateLabels

LEMMA TableEffect ==
    ASSUME TypeOK, [Next]_vars
    PROVE  Effect
<1> USE DEF Effect
<1>1. ASSUME NEW c \in Clients, BlastPut(c) PROVE Effect
  <2>1. startTime[c] + timez[c] \in Int
    BY DEF TypeOK
  <2> QED
    BY <1>1, <2>1 DEF BlastPut
<1>2. ASSUME NEW c \in Clients, TruncateDisable(c) \/ TruncateIsDisabled(c) \/ TruncateGetDescriptor(c)
                               \/ TruncateDelete(c) \/ TruncateCreate(c)
      PROVE  Effect
  BY <1>2 DEF TruncateDisable, TruncateIsDisabled, TruncateGetDescriptor, TruncateDelete, TruncateCreate
<1>3. ASSUME NEW c \in Clients, CreateTableExists(c) \/ CreateDisable(c) \/ CreateDelete(c)
                               \/ CreateNew(c)
      PROVE  Effect
  BY <1>3 DEF CreateTableExists, CreateDisable, CreateDelete, CreateNew
<1>4. ASSUME NEW c \in Clients, CheckAndPutFirst(c) \/ CheckAndPutLast(c) \/ BlastEnd(c) \/ PutThrows(c)
                               \/ Die(c)
      PROVE  Effect
  BY <1>4 DEF CheckAndPutFirst, CheckAndPutLast, BlastEnd, PutThrows, Die
<1>5. ASSUME NEW c \in Clients, CallFails(c) PROVE Effect
  BY <1>5, FailingCall
<1>6. ASSUME NEW c \in Clients, NEW op, Begin(c, op) PROVE Effect
  BY <1>6 DEF Begin
<1>7. CASE UNCHANGED vars
  BY <1>7 DEF vars
<1> QED
  BY <1>1, <1>2, <1>3, <1>4, <1>5, <1>6, <1>7 DEF Next, Step

LEMMA TableTypeStep ==
    ASSUME TableTypeOK, Effect
    PROVE  TableTypeOK'
<1> USE DEF TableTypeOK
<1>1. CASE UNCHANGED tableVars
  BY <1>1 DEF tableVars
<1>2. CASE Disable
  BY <1>2 DEF Disable
<1>3. CASE Delete
  BY <1>3 DEF Delete, EmptyRows
<1>4. CASE Create
  BY <1>4 DEF Create
<1>5. CASE PutFirstIfAbsent \/ PutLastIfFirst
  BY <1>5 DEF PutFirstIfAbsent, PutLastIfFirst
<1>6. ASSUME NEW k \in Int, NEW c \in Clients, PutRow(k, c) PROVE TableTypeOK'
  BY <1>6 DEF PutRow
<1> QED
  BY <1>1, <1>2, <1>3, <1>4, <1>5, <1>6 DEF Effect

Labels == {"idle"} \cup PutLabels \cup TruncateLabels \cup CreateLabels

LocalTypeOK ==
    /\ pc \in [Clients -> Labels]
    /\ timez \in [Clients -> 0 .. NumRecords] /\ startTime \in [Clients -> Nat]
    /\ progress \in [Clients -> 0 .. NumRecords]
    /\ calls \in 0 .. CallMax /\ fails \in 0 .. FailMax

LEMMA AllLabels ==
    Labels = {"idle", "disable", "isDisabled", "getDescriptor", "delete", "create",
              "putFirst", "putFirstAgain", "putLast", "put",
              "tableExists", "createDisable", "createDelete", "createNew"}
  BY DEF Labels, PutLabels, TruncateLabels, CreateLabels

LEMMA LocalTypeStep ==
    ASSUME TypeOK, [Next]_vars
    PROVE  LocalTypeOK'
<1>0. LocalTypeOK
  BY AllLabels DEF TypeOK, LocalTypeOK
<1> USE <1>0 DEF LocalTypeOK
<1>1. ASSUME NEW c \in Clients, NEW label \in Labels, Goto(c, label), UNCHANGED <<calls, fails>>
      PROVE  LocalTypeOK'
  BY <1>1 DEF Goto
<1> USE DEF Return, Keep, Labels, PutLabels, TruncateLabels, CreateLabels
<1>2. ASSUME NEW c \in Clients, TruncateDisable(c) \/ TruncateIsDisabled(c) \/ TruncateGetDescriptor(c)
                               \/ TruncateDelete(c) \/ TruncateCreate(c)
      PROVE  LocalTypeOK'
  BY <1>1, <1>2 DEF TruncateDisable, TruncateIsDisabled, TruncateGetDescriptor, TruncateDelete,
                    TruncateCreate
<1>3. ASSUME NEW c \in Clients, CreateTableExists(c) \/ CreateDisable(c) \/ CreateDelete(c)
                               \/ CreateNew(c)
      PROVE  LocalTypeOK'
  BY <1>1, <1>3 DEF CreateTableExists, CreateDisable, CreateDelete, CreateNew
<1>4. ASSUME NEW c \in Clients, CheckAndPutFirst(c) \/ CheckAndPutLast(c) \/ BlastEnd(c) \/ PutThrows(c)
      PROVE  LocalTypeOK'
  BY <1>1, <1>4 DEF CheckAndPutFirst, CheckAndPutLast, BlastEnd, PutThrows
<1>5. ASSUME NEW c \in Clients, BlastPut(c) PROVE LocalTypeOK'
  BY <1>5, UtilityAssumption DEF BlastPut
<1>6. ASSUME NEW c \in Clients, CallFails(c) \/ Die(c) PROVE LocalTypeOK'
  <2>1. Failing(c) /\ \E label \in Labels : Goto(c, label)
    BY <1>6, FailingCall DEF Die
  <2>2. fails' \in 0 .. FailMax /\ UNCHANGED calls
    BY <2>1, UtilityAssumption DEF Failing
  <2> QED
    BY <2>1, <2>2 DEF Goto
<1>7. ASSUME NEW c \in Clients, NEW op \in Operations, Begin(c, op) PROVE LocalTypeOK'
  <2>1. FirstCall(op) \in Labels
    BY DEF FirstCall, Operations
  <2>2. calls' \in 0 .. CallMax /\ UNCHANGED fails /\ pc' = [pc EXCEPT ![c] = FirstCall(op)]
    BY <1>7, UtilityAssumption DEF Begin
  <2>3. /\ timez' \in [Clients -> 0 .. NumRecords] /\ startTime' \in [Clients -> Nat]
        /\ progress' \in [Clients -> 0 .. NumRecords]
    BY <1>7, UtilityAssumption DEF Begin
  <2> QED
    BY <2>1, <2>2, <2>3
<1>8. CASE UNCHANGED vars
  BY <1>8 DEF vars, localVars
<1> QED
  BY <1>2, <1>3, <1>4, <1>5, <1>6, <1>7, <1>8 DEF Next, Step

LEMMA TypeInit == Init => TypeOK
  BY UtilityAssumption DEF Init, TypeOK, TableInit, TableTypeOK

LEMMA TypeStep ==
    ASSUME TypeOK, [Next]_vars
    PROVE  TypeOK'
<1>1. TableTypeOK' /\ LocalTypeOK'
  BY TableEffect, TableTypeStep, LocalTypeStep DEF TypeOK
<1>2. program' \in Programs
  BY DEF TypeOK, Next, vars
<1> QED
  BY <1>1, <1>2, AllLabels DEF TypeOK, LocalTypeOK

(* Type correctness of the table and its clients. *)
THEOREM TypeCorrect == Spec => []TypeOK
  BY TypeInit, TypeStep, PTL DEF Spec

-----------------------------------------------------------------------------
(* checkAndPut puts the last name only beside the first name, whatever other *)
(* processes do to the table between its calls, and whichever calls fail.    *)
THEOREM LastBesideFirst == Spec => []LastNeedsFirst
<1>1. Init => LastNeedsFirst
  BY DEF Init, TableInit, LastNeedsFirst
<1>2. TypeOK /\ LastNeedsFirst /\ [Next]_vars => LastNeedsFirst'
  <2> SUFFICES ASSUME TypeOK, LastNeedsFirst, Effect PROVE LastNeedsFirst'
    BY TableEffect
  <2> QED
    BY DEF Effect, TypeOK, TableTypeOK, LastNeedsFirst, tableVars, Disable, Delete, Create, EmptyRows,
           PutFirstIfAbsent, PutLastIfFirst, PutRow, NoValue
<1> QED
  BY <1>1, <1>2, TypeCorrect, PTL DEF Spec

-----------------------------------------------------------------------------
(* What a step does to the clients, their records and messages.              *)
Runs == [op : {"none", "truncate", "checkAndPut", "blast", "create"}, from : Nat,
         existed : BOOLEAN, alone : BOOLEAN, failed : BOOLEAN]
RunsOK == ran \in [Clients -> Runs] /\ DOMAIN result = Clients

Fails(c) == CallFails(c) \/ Die(c)

\* Client c stays where it is, with the record of its operation.
Same(c) == /\ pc'[c] = pc[c] /\ timez'[c] = timez[c] /\ startTime'[c] = startTime[c]
           /\ result'[c] = result[c] /\ ran'[c] = ran[c]

LEMMA FailEffect ==
    ASSUME TypeOK, RunsOK, NEW c \in Clients, Fails(c)
    PROVE  /\ pc[c] # "idle" /\ pc'[c] \in {"idle", "isDisabled"} /\ UNCHANGED <<startTime, timez>>
           /\ \A d \in Clients : d # c => Same(d)
           /\ ran'[c] = [ran[c] EXCEPT !.failed = TRUE]
           /\ RunsOK' /\ (result'[c] = result[c] \/ result'[c] # "blasted")
           /\ pc'[c] = "isDisabled" => pc[c] = "disable"
<1>1. /\ pc[c] # "idle" /\ Failing(c)
      /\ \/ Goto(c, "isDisabled") /\ UNCHANGED result /\ pc[c] = "disable"
         \/ Goto(c, "idle") /\ \E message \in {"none", "successfully deleted", "exception"} :
                                  result' = [result EXCEPT ![c] = message]
  BY FailingCall DEF Fails, Die
<1>2. pc \in [Clients -> Labels]
  BY AllLabels DEF TypeOK
<1>3. ran' = [ran EXCEPT ![c].failed = TRUE]
  BY <1>1 DEF Failing
<1>4. ran' \in [Clients -> Runs] /\ ran'[c] = [ran[c] EXCEPT !.failed = TRUE]
      /\ \A d \in Clients : d # c => ran'[d] = ran[d]
  BY <1>3 DEF RunsOK, Runs
<1>5. CASE Goto(c, "isDisabled") /\ UNCHANGED result /\ pc[c] = "disable"
  BY <1>2, <1>4, <1>5 DEF Goto, Same, RunsOK
<1>6. ASSUME Goto(c, "idle"), NEW message \in {"none", "successfully deleted", "exception"},
             result' = [result EXCEPT ![c] = message]
      PROVE  /\ pc'[c] = "idle" /\ UNCHANGED <<startTime, timez>>
             /\ \A d \in Clients : d # c => Same(d)
             /\ RunsOK' /\ result'[c] # "blasted"
  BY <1>2, <1>4, <1>6 DEF Goto, Same, RunsOK
<1> QED
  BY <1>1, <1>4, <1>5, <1>6

\* Client c leaves a message, or the one before.
Leaves(c, message) == UNCHANGED result \/ result' = [result EXCEPT ![c] = message]

\* It goes on to another call of the operation, or returns.
Moves(c) == \E label \in Labels \ {"put"} :
                /\ Goto(c, label)
                /\ pc[c] \in TruncateLabels => label \in TruncateLabels \cup {"idle"}

LEMMA StepMoves ==
    ASSUME NEW c \in Clients, Step(c), ~BlastPut(c)
    PROVE  /\ pc[c] # "idle" /\ UNCHANGED ran /\ Moves(c)
           /\ \E message : Leaves(c, message) /\ (message = "blasted" => BlastEnd(c))
<1> DEFINE Goal == /\ pc[c] # "idle" /\ UNCHANGED ran /\ Moves(c)
                   /\ \E message : Leaves(c, message) /\ (message = "blasted" => BlastEnd(c))
<1> SUFFICES Goal
  OBVIOUS
<1>1. ASSUME NEW message, Return(c, message), pc[c] # "idle", message # "blasted" \/ BlastEnd(c)
      PROVE  Goal
  <2>1. Moves(c)
    BY <1>1 DEF Return, Moves, Labels, PutLabels
  <2>2. UNCHANGED ran /\ Leaves(c, message)
    BY <1>1 DEF Return, Leaves
  <2> QED
    BY <1>1, <2>1, <2>2
<1>2. ASSUME NEW label \in Labels \ {"put"}, Goto(c, label), Keep(c), pc[c] # "idle",
             pc[c] \in TruncateLabels => label \in TruncateLabels \cup {"idle"}
      PROVE  Goal
  <2>1. Moves(c)
    BY <1>2 DEF Moves
  <2>2. UNCHANGED ran /\ Leaves(c, "none")
    BY <1>2 DEF Keep, Leaves
  <2> QED
    BY <1>2, <2>1, <2>2
<1> HIDE DEF Goal
<1> USE DEF Labels, TruncateLabels, CreateLabels, PutLabels
<1>3. CASE TruncateDisable(c) \/ TruncateIsDisabled(c) \/ TruncateGetDescriptor(c)
  BY <1>1, <1>2, <1>3 DEF TruncateDisable, TruncateIsDisabled, TruncateGetDescriptor
<1>4. CASE TruncateDelete(c) \/ TruncateCreate(c)
  BY <1>1, <1>2, <1>4 DEF TruncateDelete, TruncateCreate
<1>5. CASE CreateTableExists(c) \/ CreateDisable(c)
  BY <1>1, <1>2, <1>5 DEF CreateTableExists, CreateDisable
<1>6. CASE CreateDelete(c) \/ CreateNew(c)
  BY <1>1, <1>2, <1>6 DEF CreateDelete, CreateNew
<1>7. CASE CheckAndPutFirst(c)
  <2> DEFINE message == IF pc[c] = "putFirst" THEN IF first = NoValue THEN "first true" ELSE "first false"
                        ELSE IF first = NoValue THEN "again true" ELSE "again false"
             label == IF pc[c] = "putFirst" THEN "putFirstAgain" ELSE "putLast"
  <2>1. message # "blasted" /\ Leaves(c, message)
    BY <1>7 DEF CheckAndPutFirst, Leaves
  <2>2. label \in Labels \ {"put"} /\ Goto(c, label)
    BY <1>7 DEF CheckAndPutFirst
  <2>3. pc[c] \in PutLabels /\ UNCHANGED ran
    BY <1>7 DEF CheckAndPutFirst
  <2> HIDE DEF message, label
  <2> QED
    BY <2>1, <2>2, <2>3 DEF Goal, Moves
<1>8. CASE CheckAndPutLast(c)
  <2> DEFINE message == IF first = "Jokey" THEN "last true" ELSE "last false"
  <2>1. message # "blasted"
    OBVIOUS
  <2>2. Return(c, message) /\ pc[c] # "idle"
    BY <1>8 DEF CheckAndPutLast
  <2> HIDE DEF message
  <2> QED
    BY <1>1, <2>1, <2>2
<1>9. CASE PutThrows(c) \/ BlastEnd(c)
  BY <1>1, <1>9 DEF PutThrows, BlastEnd
<1> QED
  BY <1>3, <1>4, <1>5, <1>6, <1>7, <1>8, <1>9 DEF Step

LEMMA StepEffect ==
    ASSUME TypeOK, RunsOK, NEW c \in Clients, Step(c)
    PROVE  /\ pc[c] # "idle" /\ UNCHANGED <<startTime, ran>>
           /\ \A d \in Clients : d # c => Same(d)
           /\ RunsOK' /\ (result'[c] = "blasted" => result[c] = "blasted" \/ BlastEnd(c))
           /\ pc'[c] = "put" => BlastPut(c)
           /\ pc[c] \in TruncateLabels => pc'[c] \in TruncateLabels \cup {"idle"}
<1>0. pc \in [Clients -> Labels] /\ timez \in [Clients -> 0 .. NumRecords]
  BY AllLabels DEF TypeOK
<1>1. CASE BlastPut(c)
  BY <1>0, <1>1 DEF BlastPut, RunsOK, Same, TruncateLabels
<1>2. CASE ~BlastPut(c)
  <2>1. PICK message : Leaves(c, message) /\ (message = "blasted" => BlastEnd(c))
    BY <1>2, StepMoves
  <2>2. PICK label \in Labels \ {"put"} :
           Goto(c, label) /\ (pc[c] \in TruncateLabels => label \in TruncateLabels \cup {"idle"})
    BY <1>2, StepMoves DEF Moves
  <2>3. pc[c] # "idle" /\ UNCHANGED ran
    BY <1>2, StepMoves
  <2>4. /\ DOMAIN result' = Clients /\ \A d \in Clients : d # c => result'[d] = result[d]
        /\ result'[c] = "blasted" => result[c] = "blasted" \/ BlastEnd(c)
    BY <2>1 DEF Leaves, RunsOK
  <2> QED
    BY <1>0, <2>2, <2>3, <2>4 DEF Goto, RunsOK, Same
<1> QED
  BY <1>1, <1>2

LEMMA BeginEffect ==
    ASSUME TypeOK, RunsOK, NEW c \in Clients, NEW op \in Operations, Begin(c, op)
    PROVE  /\ UNCHANGED tableVars /\ RunsOK' /\ pc[c] = "idle" /\ result'[c] = "none"
           /\ pc'[c] = FirstCall(op) /\ ran'[c].op = op /\ ran'[c].from = incarnation
           /\ ran'[c].existed = exists /\ (ran'[c].alone => \A d \in Clients : pc[d] = "idle")
           /\ pc'[c] = "put" => /\ timez'[c] = 0
                               /\ startTime'[c] \in Times /\ startTime'[c] + NumRecords - 2 \in Times
           /\ \A d \in Clients : d # c =>
                 /\ pc'[d] = pc[d] /\ timez'[d] = timez[d] /\ startTime'[d] = startTime[d]
                 /\ result'[d] = result[d]
                 /\ ran'[d] = ran[d] \/ (pc[d] # "idle" /\ ran'[d] = [ran[d] EXCEPT !.alone = FALSE])
                 /\ pc[d] # "idle" => ~ran'[d].alone
<1>0. pc \in [Clients -> Labels] /\ timez \in [Clients -> 0 .. NumRecords]
      /\ startTime \in [Clients -> Nat]
  BY AllLabels DEF TypeOK
<1>1. op \in {"truncate", "checkAndPut", "blast", "create"} /\ incarnation \in Nat /\ exists \in BOOLEAN
  BY DEF Operations, TypeOK, TableTypeOK
<1>2. ran' \in [Clients -> Runs]
  BY <1>1, ZenonT(30) DEF Begin, RunsOK, Runs
<1>3. /\ ran'[c].op = op /\ ran'[c].from = incarnation
      /\ ran'[c].existed = exists /\ (ran'[c].alone => \A d \in Clients : pc[d] = "idle")
  BY <1>1 DEF Begin
<1>4. ASSUME NEW d \in Clients, d # c
      PROVE  /\ ran'[d] = ran[d] \/ (pc[d] # "idle" /\ ran'[d] = [ran[d] EXCEPT !.alone = FALSE])
             /\ pc[d] # "idle" => ~ran'[d].alone
  BY <1>4 DEF Begin, RunsOK, Runs
<1>5. /\ result' = [result EXCEPT ![c] = "none"] /\ pc' = [pc EXCEPT ![c] = FirstCall(op)]
      /\ UNCHANGED tableVars /\ pc[c] = "idle"
  BY DEF Begin
<1>6. /\ pc'[c] = "put" => /\ timez'[c] = 0
                          /\ startTime'[c] \in Times /\ startTime'[c] + NumRecords - 2 \in Times
      /\ \A d \in Clients : d # c => timez'[d] = timez[d] /\ startTime'[d] = startTime[d]
  <2>1. pc'[c] = "put" => op = "blast"
    BY <1>0, <1>1, <1>5 DEF FirstCall
  <2> QED
    BY <1>0, <2>1 DEF Begin
<1> QED
  BY <1>0, <1>2, <1>3, <1>4, <1>5, <1>6 DEF RunsOK

-----------------------------------------------------------------------------
(* The rows of a blast: those it has counted are in the table it began with, *)
(* unless that was dropped.                                                  *)
Keys(c) == 0 .. NumRecords - 2
Kept(c) == exists /\ ran[c].from = incarnation /\ ran[c].existed
Row(c, i) == blasted[startTime[c] + i] # NoValue

BlastInv(c) ==
    /\ ran[c].from <= incarnation
    /\ result[c] = "blasted" => pc[c] = "idle"
    /\ pc[c] = "put" \/ result[c] = "blasted" => \A i \in Keys(c) : startTime[c] + i \in Times
    /\ pc[c] = "put" /\ Kept(c) => \A i \in Keys(c) : i < timez[c] => Row(c, i)
    /\ result[c] = "blasted" /\ Kept(c) => \A i \in Keys(c) : Row(c, i)

RowsInv == TypeOK /\ RunsOK /\ \A c \in Clients : BlastInv(c)

LEMMA RowsStay ==
    ASSUME TypeOK, Effect
    PROVE  /\ incarnation \in Nat /\ incarnation' \in Nat /\ incarnation' >= incarnation
           /\ exists' /\ incarnation' = incarnation =>
                 exists /\ \A k \in Times : blasted[k] # NoValue => blasted'[k] # NoValue
<1> USE DEF TypeOK, TableTypeOK
<1>1. CASE UNCHANGED tableVars
  BY <1>1 DEF tableVars
<1>2. CASE Disable
  BY <1>2 DEF Disable
<1>3. CASE Delete
  BY <1>3 DEF Delete
<1>4. CASE Create
  BY <1>4 DEF Create
<1>5. CASE PutFirstIfAbsent \/ PutLastIfFirst
  BY <1>5 DEF PutFirstIfAbsent, PutLastIfFirst
<1>6. ASSUME NEW k \in Int, NEW c \in Clients, PutRow(k, c)
      PROVE  /\ UNCHANGED <<exists, incarnation>>
             /\ \A j \in Times : blasted[j] # NoValue => blasted'[j] # NoValue
  BY <1>6, TableAssumption DEF PutRow
<1> QED
  BY <1>1, <1>2, <1>3, <1>4, <1>5, <1>6 DEF Effect

(* A client that does not move keeps its rows. *)
LEMMA OthersRows ==
    ASSUME RowsInv, Effect, NEW d \in Clients,
           pc'[d] = pc[d], timez'[d] = timez[d], startTime'[d] = startTime[d], result'[d] = result[d],
           ran'[d].from = ran[d].from, ran'[d].existed = ran[d].existed
    PROVE  BlastInv(d)'
<1>1. BlastInv(d) /\ ran[d].from \in Nat
  BY DEF RowsInv, RunsOK, Runs
<1>2. /\ incarnation \in Nat /\ incarnation' \in Nat /\ incarnation' >= incarnation
      /\ exists' /\ incarnation' = incarnation =>
            exists /\ \A k \in Times : blasted[k] # NoValue => blasted'[k] # NoValue
  BY RowsStay DEF RowsInv
<1>3. Kept(d)' => Kept(d) /\ incarnation' = incarnation
  BY <1>1, <1>2 DEF Kept, BlastInv
<1>4. ASSUME Kept(d)', NEW i \in Keys(d), startTime[d] + i \in Times, Row(d, i) PROVE Row(d, i)'
  BY <1>2, <1>3, <1>4 DEF Kept, Row
<1> QED
  BY <1>1, <1>2, <1>3, <1>4 DEF BlastInv, Keys

LEMMA RowsInit == Init => RowsInv
<1> SUFFICES ASSUME Init PROVE RowsInv
  OBVIOUS
<1>1. TypeOK
  BY TypeInit
<1>2. RunsOK /\ \A c \in Clients : ran[c].from = 0 /\ ~ran[c].existed
  BY DEF Init, RunsOK, Runs, NoRun
<1>3. \A c \in Clients : BlastInv(c)
  BY <1>2 DEF Init, TableInit, BlastInv, Kept
<1> QED
  BY <1>1, <1>2, <1>3 DEF RowsInv

LEMMA RowsStep ==
    ASSUME RowsInv, [Next]_vars
    PROVE  RowsInv'
<1>0. TypeOK /\ RunsOK /\ TypeOK' /\ Effect
  BY TypeStep, TableEffect DEF RowsInv
<1>1. ASSUME NEW c \in Clients, Fails(c) PROVE RowsInv'
  <2>1. \A d \in Clients : d # c => BlastInv(d)'
    BY <1>0, <1>1, FailEffect, OthersRows DEF Same
  <2>2. BlastInv(c)'
    <3>1. /\ pc[c] # "idle" /\ pc'[c] # "put" /\ BlastInv(c)
          /\ result'[c] = result[c] \/ result'[c] # "blasted"
      BY <1>0, <1>1, FailEffect DEF RowsInv
    <3>2. result'[c] # "blasted"
      BY <3>1 DEF BlastInv
    <3>3. ran[c] \in Runs /\ ran'[c] = [ran[c] EXCEPT !.failed = TRUE]
      BY <1>0, <1>1, FailEffect DEF RunsOK
    <3>4. ran'[c].from = ran[c].from /\ ran[c].from \in Nat
      BY <3>3 DEF Runs
    <3> QED
      BY <1>0, <3>1, <3>2, <3>4, RowsStay DEF BlastInv
  <2> QED
    BY <1>0, <1>1, <2>1, <2>2, FailEffect DEF RowsInv
<1>2. ASSUME NEW c \in Clients, Step(c) PROVE RowsInv'
  <2>0. /\ pc[c] # "idle" /\ UNCHANGED <<startTime, ran>> /\ RunsOK' /\ BlastInv(c)
        /\ \A d \in Clients : d # c => Same(d)
        /\ result'[c] = "blasted" => result[c] = "blasted" \/ BlastEnd(c)
        /\ pc'[c] = "put" => BlastPut(c)
    BY <1>0, <1>2, StepEffect DEF RowsInv
  <2>1. \A d \in Clients : d # c => BlastInv(d)'
    BY <1>0, <2>0, OthersRows DEF Same
  <2>2. ASSUME BlastPut(c) PROVE BlastInv(c)'
    <3>1. startTime[c] \in Nat /\ timez[c] \in Nat /\ startTime[c] + timez[c] \in Int
      BY <1>0 DEF TypeOK
    <3>2. /\ pc'[c] = "put" /\ pc[c] = "put" /\ result'[c] = result[c] /\ timez'[c] = timez[c] + 1
          /\ UNCHANGED <<exists, incarnation>> /\ timez[c] < NumRecords - 1
      BY <1>0, <2>2 DEF BlastPut, PutRow, TypeOK
    <3>3. \A k \in Times : blasted'[k] = IF k = startTime[c] + timez[c] THEN c ELSE blasted[k]
      BY <1>0, <2>2, <3>1 DEF BlastPut, PutRow, TypeOK, TableTypeOK
    <3>4. ASSUME NEW i \in Keys(c), i < timez[c] + 1, Kept(c) PROVE Row(c, i)'
      <4>1. startTime[c] + i \in Times /\ (i < timez[c] => Row(c, i)) /\ i \in Int
        BY <2>0, <3>2, <3>4 DEF BlastInv, Keys
      <4> QED
        BY <2>0, <3>1, <3>3, <3>4, <4>1, TableAssumption DEF Row
    <3> QED
      BY <2>0, <3>2, <3>4 DEF BlastInv, Kept, Keys
  <2>3. ASSUME BlastEnd(c) PROVE BlastInv(c)'
    <3>1. pc[c] = "put" /\ pc'[c] = "idle" /\ timez[c] >= NumRecords - 1 /\ UNCHANGED tableVars
      BY <1>0, <2>3 DEF BlastEnd, Return, Goto, TypeOK
    <3>2. \A i \in Keys(c) : i < timez[c]
      BY <1>0, <3>1, UtilityAssumption DEF Keys, TypeOK
    <3> QED
      BY <2>0, <3>1, <3>2 DEF BlastInv, Kept, Keys, Row, tableVars
  <2>4. ASSUME ~BlastPut(c), ~BlastEnd(c) PROVE BlastInv(c)'
    <3>1. pc'[c] # "put" /\ result'[c] # "blasted"
      BY <2>0, <2>4 DEF BlastInv
    <3>2. ran'[c].from = ran[c].from /\ ran[c].from \in Nat
      BY <1>0, <2>0 DEF RunsOK, Runs
    <3> QED
      BY <1>0, <2>0, <3>1, <3>2, RowsStay DEF BlastInv
  <2> QED
    BY <1>0, <2>0, <2>1, <2>2, <2>3, <2>4 DEF RowsInv
<1>3. ASSUME NEW c \in Clients, NEW op \in Operations, Begin(c, op) PROVE RowsInv'
  <2>1. ASSUME NEW d \in Clients, d # c PROVE BlastInv(d)'
    <3>1. ran'[d].from = ran[d].from /\ ran'[d].existed = ran[d].existed
      <4>1. ran[d] \in Runs
        BY <1>0 DEF RunsOK
      <4>2. ran'[d] = ran[d] \/ ran'[d] = [ran[d] EXCEPT !.alone = FALSE]
        BY <1>0, <1>3, <2>1, BeginEffect
      <4> QED
        BY <4>1, <4>2 DEF Runs
    <3> QED
      BY <1>0, <1>3, <2>1, <3>1, BeginEffect, OthersRows, ZenonT(30)
  <2>2. BlastInv(c)'
    <3>1. /\ incarnation' = incarnation /\ ran'[c].from = incarnation /\ incarnation \in Nat
          /\ result'[c] = "none"
      BY <1>0, <1>3, BeginEffect DEF tableVars, TypeOK, TableTypeOK
    <3>2. pc'[c] = "put" => timez'[c] = 0 /\ \A i \in Keys(c) : startTime'[c] + i \in Times
      <4> SUFFICES ASSUME pc'[c] = "put"
                   PROVE  timez'[c] = 0 /\ \A i \in Keys(c) : startTime'[c] + i \in Times
        OBVIOUS
      <4>1. timez'[c] = 0 /\ startTime'[c] \in Times /\ startTime'[c] + NumRecords - 2 \in Times
        BY <1>0, <1>3, BeginEffect
      <4>2. startTime'[c] \in Nat
        BY <4>1, UtilityAssumption
      <4>3. \A i \in Keys(c) : startTime'[c] + i \in startTime'[c] .. startTime'[c] + NumRecords - 2
        BY <4>2, UtilityAssumption DEF Keys
      <4> QED
        BY <4>1, <4>3, UtilityAssumption
    <3> QED
      BY <3>1, <3>2 DEF BlastInv, Keys
  <2> QED
    BY <1>0, <1>3, <2>1, <2>2, BeginEffect DEF RowsInv
<1>4. CASE UNCHANGED vars
  BY <1>0, <1>4, OthersRows DEF RowsInv, RunsOK, vars, localVars
<1> QED
  BY <1>1, <1>2, <1>3, <1>4 DEF Next, Fails

(* When blast returns without an exception and its table was not dropped,    *)
(* every key it counted has a row, whoever else writes or fails.             *)
THEOREM BlastedRowsAreKept == Spec => []BlastKeepsRows
<1>1. RowsInv => BlastKeepsRows
  BY DEF RowsInv, BlastInv, BlastKeepsRows, Keys, Kept, Row
<1> QED
  BY <1>1, RowsInit, RowsStep, PTL DEF Spec

-----------------------------------------------------------------------------
(* A truncation that is alone with a table finds it, before each of its      *)
(* calls, as the call before has left it.                                    *)
EmptyTable == first = NoValue /\ \A k \in Times : blasted[k] = NoValue

Stage(c) ==
    /\ pc[c] = "disable" => exists
    /\ pc[c] \in {"isDisabled", "getDescriptor", "delete"} => exists /\ ~enabled
    /\ pc[c] = "create" => ~exists /\ EmptyTable

Alone(c) == pc[c] # "idle" /\ ran[c].alone => \A d \in Clients : d # c => pc[d] = "idle"
Truncates(c) == pc[c] # "idle" /\ ran[c].op = "truncate" => pc[c] \in TruncateLabels
Undisturbed(c) ==
    /\ pc[c] # "idle" /\ ran[c].op = "truncate" /\ ran[c].existed /\ ran[c].alone
    /\ ~ran[c].failed

HealInv ==
    /\ TypeOK /\ RunsOK
    /\ \A c \in Clients : Alone(c) /\ Truncates(c) /\ (Undisturbed(c) => Stage(c))

LEMMA TruncateStage ==
    ASSUME TypeOK, NEW c \in Clients, Step(c), pc[c] \in TruncateLabels, Stage(c)
    PROVE  IF pc'[c] = "idle" THEN exists' /\ enabled' /\ EmptyTable' ELSE Stage(c)'
<1> USE DEF Stage, Goto, Return, Keep, tableVars, EmptyTable, CanDisable, CanDelete, CanCreate
<1>0. pc \in [Clients -> Labels] /\ exists \in BOOLEAN /\ enabled \in BOOLEAN
  BY AllLabels DEF TypeOK, TableTypeOK
<1>1. CASE TruncateDisable(c)
  <2>1. exists /\ pc'[c] = "isDisabled"
    BY <1>0, <1>1 DEF TruncateDisable
  <2>2. exists' /\ ~enabled'
    <3>1. CASE enabled
      BY <1>1, <2>1, <3>1 DEF TruncateDisable, Disable
    <3>2. CASE ~enabled
      BY <1>1, <2>1, <3>2 DEF TruncateDisable
    <3> QED
      BY <3>1, <3>2
  <2> QED
    BY <2>1, <2>2
<1>2. CASE TruncateIsDisabled(c)
  BY <1>0, <1>2 DEF TruncateIsDisabled
<1>3. CASE TruncateGetDescriptor(c)
  BY <1>0, <1>3 DEF TruncateGetDescriptor
<1>4. CASE TruncateDelete(c)
  BY <1>0, <1>4 DEF TruncateDelete, Delete, EmptyRows
<1>5. CASE TruncateCreate(c)
  BY <1>0, <1>5 DEF TruncateCreate, Create
<1> QED
  BY <1>1, <1>2, <1>3, <1>4, <1>5
  DEF Step, TruncateLabels, CheckAndPutFirst, CheckAndPutLast, BlastPut, BlastEnd, PutThrows,
      CreateTableExists, CreateDisable, CreateDelete, CreateNew

LEMMA HealInit == Init => HealInv
<1> SUFFICES ASSUME Init PROVE HealInv
  OBVIOUS
<1>1. RunsOK
  BY DEF Init, RunsOK, Runs, NoRun
<1> QED
  BY <1>1, TypeInit DEF Init, HealInv, Alone, Truncates, Undisturbed

LEMMA HealStep ==
    ASSUME HealInv, [Next]_vars
    PROVE  HealInv'
<1>0. TypeOK /\ RunsOK /\ TypeOK'
  BY TypeStep DEF HealInv
(* Nobody moves beside one that is alone. *)
<1>1. ASSUME NEW c \in Clients, RunsOK', pc[c] # "idle",
             \A d \in Clients : d # c => Same(d),
             ran'[c] = ran[c] \/ ran'[c] = [ran[c] EXCEPT !.failed = TRUE],
             Truncates(c)', Undisturbed(c)' => Stage(c)'
      PROVE  HealInv'
  <2>1. ran'[c].alone = ran[c].alone
    <3>1. ran[c] \in Runs
      BY <1>0 DEF RunsOK
    <3> QED
      BY <1>1, <3>1 DEF Runs
  <2>2. Alone(c)'
    BY <1>1, <2>1 DEF HealInv, Alone, Same
  <2>3. ASSUME NEW d \in Clients, d # c
        PROVE  Alone(d)' /\ Truncates(d)' /\ (Undisturbed(d)' => Stage(d)')
    <3>1. pc[d] # "idle" => ~ran[d].alone
      BY <1>1, <2>3 DEF HealInv, Alone
    <3>2. pc'[d] = pc[d] /\ ran'[d] = ran[d] /\ Truncates(d)
      BY <1>1, <2>3 DEF Same, HealInv
    <3> QED
      BY <3>1, <3>2 DEF Alone, Truncates, Undisturbed
  <2> QED
    BY <1>0, <1>1, <2>2, <2>3 DEF HealInv
<1>2. ASSUME NEW c \in Clients, Step(c) PROVE HealInv'
  <2>1. /\ pc[c] # "idle" /\ UNCHANGED ran /\ RunsOK' /\ \A d \in Clients : d # c => Same(d)
        /\ pc[c] \in TruncateLabels => pc'[c] \in TruncateLabels \cup {"idle"}
    BY <1>0, <1>2, StepEffect
  <2>2. Truncates(c)'
    BY <2>1 DEF HealInv, Truncates
  <2>3. Undisturbed(c)' => Stage(c)'
    BY <1>0, <1>2, <2>1, TruncateStage DEF HealInv, Undisturbed, Truncates
  <2> QED
    BY <1>1, <2>1, <2>2, <2>3
<1>3. ASSUME NEW c \in Clients, Fails(c) PROVE HealInv'
  <2>1. /\ pc[c] # "idle" /\ RunsOK' /\ \A d \in Clients : d # c => Same(d)
        /\ ran'[c] = [ran[c] EXCEPT !.failed = TRUE] /\ pc'[c] \in {"idle", "isDisabled"}
    BY <1>0, <1>3, FailEffect
  <2>2. Truncates(c)'
    BY <2>1 DEF Truncates, TruncateLabels
  <2>3. ran'[c].failed
    BY <1>0, <2>1 DEF RunsOK, Runs
  <2> QED
    BY <1>1, <2>1, <2>2, <2>3 DEF Undisturbed
<1>4. ASSUME NEW c \in Clients, NEW op \in Operations, Begin(c, op) PROVE HealInv'
  <2>1. ASSUME NEW d \in Clients, d # c
        PROVE  Alone(d)' /\ Truncates(d)' /\ (Undisturbed(d)' => Stage(d)')
    <3>1. /\ pc'[d] = pc[d] /\ (pc[d] # "idle" => ~ran'[d].alone)
          /\ ran'[d] = ran[d] \/ ran'[d] = [ran[d] EXCEPT !.alone = FALSE]
      BY <1>0, <1>4, <2>1, BeginEffect
    <3>2. ran'[d].op = ran[d].op
      <4>1. ran[d] \in Runs
        BY <1>0 DEF RunsOK
      <4> QED
        BY <3>1, <4>1 DEF Runs
    <3>3. Truncates(d)
      BY DEF HealInv
    <3> QED
      BY <3>1, <3>2, <3>3 DEF Alone, Truncates, Undisturbed
  <2>2. Alone(c)' /\ Truncates(c)' /\ (Undisturbed(c)' => Stage(c)')
    <3>1. /\ ran'[c].op = op /\ pc'[c] = FirstCall(op) /\ ran'[c].existed = exists
          /\ exists' = exists /\ (ran'[c].alone => \A d \in Clients : pc[d] = "idle")
      BY <1>0, <1>4, BeginEffect DEF tableVars
    <3>2. \A d \in Clients : d # c => pc'[d] = pc[d]
      BY <1>0, <1>4, BeginEffect
    <3>3. op = "truncate" => FirstCall(op) = "disable"
      BY DEF FirstCall
    <3> QED
      BY <3>1, <3>2, <3>3 DEF Alone, Truncates, Undisturbed, Stage, TruncateLabels
  <2> QED
    BY <1>0, <1>4, <2>1, <2>2, BeginEffect DEF HealInv
<1>5. CASE UNCHANGED vars
  BY <1>0, <1>5 DEF HealInv, RunsOK, Alone, Truncates, Undisturbed, Stage, EmptyTable, vars, localVars,
                    tableVars
<1> QED
  BY <1>2, <1>3, <1>4, <1>5 DEF Next, Fails

(* A truncation that nothing fails or disturbs ends with an empty, enabled   *)
(* table, also if an earlier one had left the table disabled.                *)
THEOREM TruncationHeals == Spec => TruncateHeals
<1>1. HealInv /\ [Next]_vars =>
        [\A c \in Clients :
          /\ ran[c].op = "truncate" /\ ran[c].existed /\ ran[c].alone
          /\ pc[c] # "idle" /\ pc'[c] = "idle" /\ ~ran'[c].failed
          => /\ exists' /\ enabled' /\ first' = NoValue
             /\ \A k \in Times : blasted'[k] = NoValue]_vars
  <2> SUFFICES ASSUME HealInv, [Next]_vars, NEW c \in Clients,
                      ran[c].op = "truncate", ran[c].existed, ran[c].alone,
                      pc[c] # "idle", pc'[c] = "idle", ~ran'[c].failed
               PROVE  exists' /\ enabled' /\ EmptyTable'
    BY DEF EmptyTable
  <2>0. TypeOK /\ RunsOK
    BY DEF HealInv
  <2>1. ASSUME NEW d \in Clients, Fails(d) PROVE FALSE
    <3>1. d # c => pc'[c] = pc[c]
      BY <2>0, <2>1, FailEffect DEF Same
    <3>2. ran'[d].failed
      <4>1. ran[d] \in Runs /\ ran'[d] = [ran[d] EXCEPT !.failed = TRUE]
        BY <2>0, <2>1, FailEffect DEF RunsOK
      <4> QED
        BY <4>1 DEF Runs
    <3> QED
      BY <3>1, <3>2
  <2>2. ASSUME NEW d \in Clients, NEW op \in Operations, Begin(d, op) PROVE FALSE
    BY <2>0, <2>2, BeginEffect
  <2>3. ASSUME NEW d \in Clients, Step(d) PROVE exists' /\ enabled' /\ EmptyTable'
    <3>1. d = c /\ ran' = ran
      BY <2>0, <2>3, StepEffect DEF Same
    <3>2. pc[c] \in TruncateLabels /\ Stage(c)
      BY <3>1 DEF HealInv, Truncates, Undisturbed
    <3> QED
      BY <2>0, <2>3, <3>1, <3>2, TruncateStage
  <2>4. ~UNCHANGED vars
    BY DEF vars, localVars
  <2> QED
    BY <2>1, <2>2, <2>3, <2>4 DEF Next, Fails
<1> QED
  BY <1>1, HealInit, HealStep, PTL DEF Spec, TruncateHeals

-----------------------------------------------------------------------------
(* Without failures, a table that is gone is about to be created again, and  *)
(* one that is disabled about to be deleted.                                 *)
Creates(c) == pc[c] \in {"create", "createNew", "tableExists"}
Deletes(c) == pc[c] \in {"isDisabled", "getDescriptor", "delete", "createDelete"}
Lasts == exists \/ \E c \in Clients : Creates(c)
Reopens == exists /\ ~enabled => \E c \in Clients : Deletes(c)

SettledInv ==
    /\ TypeOK /\ RunsOK
    /\ fails = 0 =>
          Reopens /\ ((\E c \in Clients : ran[c].existed \/ ran[c].op = "create") => Lasts)

LEMMA RestoreStep ==
    ASSUME TypeOK, RunsOK, NEW c \in Clients, Step(c)
    PROVE  (Lasts => Lasts') /\ (Reopens => Reopens')
<1>0. /\ pc \in [Clients -> Labels] /\ exists \in BOOLEAN /\ enabled \in BOOLEAN
      /\ \A d \in Clients : d # c => pc'[d] = pc[d]
  BY AllLabels, StepEffect DEF TypeOK, TableTypeOK, Same
(* It suffices that c hands over to itself what it gives up. *)
<1>1. ASSUME exists \/ Creates(c) => exists' \/ Creates(c)', exists => exists' \/ Creates(c)',
             exists' /\ ~enabled' => Deletes(c)' \/ (exists /\ ~enabled /\ ~Deletes(c))
      PROVE  (Lasts => Lasts') /\ (Reopens => Reopens')
  BY <1>0, <1>1 DEF Lasts, Reopens, Creates, Deletes
<1> DEFINE Goal == /\ exists \/ Creates(c) => exists' \/ Creates(c)'
                   /\ exists' /\ ~enabled' => Deletes(c)' \/ (exists /\ ~enabled /\ ~Deletes(c))
<1> SUFFICES Goal
  BY <1>1
<1> USE <1>0 DEF Goto, Return, Keep, Creates, Deletes, tableVars, CanDisable, CanDelete, CanCreate,
               Disable, Delete, Create
<1>2. CASE TruncateDisable(c)
  BY <1>2 DEF TruncateDisable
<1>3. CASE TruncateIsDisabled(c)
  BY <1>3 DEF TruncateIsDisabled
<1>4. CASE TruncateGetDescriptor(c)
  BY <1>4 DEF TruncateGetDescriptor
<1>5. CASE TruncateDelete(c)
  <2>1. CASE CanDelete /\ Delete /\ Goto(c, "create")
    BY <2>1
  <2>2. CASE ~CanDelete /\ Return(c, "successfully deleted") /\ UNCHANGED tableVars
    <3>1. pc[c] = "delete"
      BY <1>5 DEF TruncateDelete
    <3>2. pc'[c] = "idle" /\ UNCHANGED <<exists, enabled>> /\ ~(exists /\ ~enabled)
      BY <2>2
    <3> QED
      BY <3>1, <3>2
  <2> QED
    BY <1>5, <2>1, <2>2 DEF TruncateDelete
<1>6. CASE TruncateCreate(c)
  BY <1>6 DEF TruncateCreate
<1>7. CASE CreateTableExists(c)
  BY <1>7 DEF CreateTableExists
<1>8. CASE CreateDisable(c)
  BY <1>8 DEF CreateDisable
<1>9. CASE CreateDelete(c)
  BY <1>9 DEF CreateDelete
<1>10. CASE CreateNew(c)
  BY <1>10 DEF CreateNew
<1>11. CASE CheckAndPutFirst(c) \/ CheckAndPutLast(c)
  <2>1. pc[c] \in {"putFirst", "putFirstAgain", "putLast"} /\ UNCHANGED <<exists, enabled>>
    BY <1>11 DEF CheckAndPutFirst, CheckAndPutLast, PutFirstIfAbsent, PutLastIfFirst
  <2> QED
    BY <2>1
<1>12. CASE BlastPut(c) \/ BlastEnd(c) \/ PutThrows(c)
  BY <1>12 DEF BlastPut, BlastEnd, PutThrows, PutRow
<1> QED
  BY <1>2, <1>3, <1>4, <1>5, <1>6, <1>7, <1>8, <1>9, <1>10, <1>11, <1>12 DEF Step

LEMMA SettledStep ==
    ASSUME SettledInv, [Next]_vars
    PROVE  SettledInv'
<1>0. TypeOK /\ RunsOK /\ TypeOK'
  BY TypeStep DEF SettledInv
<1>1. ASSUME NEW c \in Clients, Step(c) PROVE SettledInv'
  <2>1. RunsOK' /\ UNCHANGED <<ran, fails>>
    <3>1. UNCHANGED fails
      BY <1>1 DEF Step, Keep, Return, TruncateDisable, TruncateIsDisabled, TruncateGetDescriptor,
                  TruncateDelete, TruncateCreate, CheckAndPutFirst, CheckAndPutLast, BlastPut, BlastEnd,
                  PutThrows, CreateTableExists, CreateDisable, CreateDelete, CreateNew
    <3> QED
      BY <1>0, <1>1, <3>1, StepEffect
  <2> QED
    BY <1>0, <1>1, <2>1, RestoreStep DEF SettledInv
<1>2. ASSUME NEW c \in Clients, Fails(c) PROVE SettledInv'
  <2>1. Failing(c)
    BY <1>0, <1>2, FailingCall DEF Fails, Die
  <2>2. fails' # 0
    BY <1>0, <2>1 DEF Failing, TypeOK
  <2> QED
    BY <1>0, <1>2, <2>2, FailEffect DEF SettledInv
<1>3. ASSUME NEW c \in Clients, NEW op \in Operations, Begin(c, op) PROVE SettledInv'
  <2>1. /\ UNCHANGED tableVars /\ RunsOK' /\ pc[c] = "idle" /\ pc'[c] = FirstCall(op)
        /\ ran'[c].op = op /\ ran'[c].existed = exists /\ \A d \in Clients : d # c => pc'[d] = pc[d]
    BY <1>0, <1>3, BeginEffect
  <2>2. UNCHANGED fails
    BY <1>3 DEF Begin
  <2>3. ASSUME NEW d \in Clients, d # c PROVE ran'[d].op = ran[d].op /\ ran'[d].existed = ran[d].existed
    <3>1. ran[d] \in Runs
      BY <1>0 DEF RunsOK
    <3>2. ran'[d] = ran[d] \/ ran'[d] = [ran[d] EXCEPT !.alone = FALSE]
      BY <1>0, <1>3, <2>3, BeginEffect
    <3> QED
      BY <3>1, <3>2 DEF Runs
  <2>4. \A d \in Clients : (Creates(d) => Creates(d)') /\ (Deletes(d) => Deletes(d)')
    BY <2>1 DEF Creates, Deletes
  <2>5. (Lasts => Lasts') /\ (Reopens => Reopens')
    BY <2>1, <2>4 DEF Lasts, Reopens, tableVars
  <2>6. exists \/ op = "create" => Lasts'
    <3>1. op = "create" => Creates(c)'
      BY <2>1 DEF FirstCall, Creates
    <3> QED
      BY <2>1, <3>1 DEF Lasts, tableVars
  <2> QED
    BY <1>0, <2>1, <2>2, <2>3, <2>5, <2>6 DEF SettledInv
<1>4. CASE UNCHANGED vars
  BY <1>0, <1>4 DEF SettledInv, RunsOK, Lasts, Reopens, Creates, Deletes, vars, localVars, tableVars
<1> QED
  BY <1>1, <1>2, <1>3, <1>4 DEF Next, Fails

(* As long as no call fails and no process dies, overlapping truncations or  *)
(* CreateTables lose no table and leave none disabled.                       *)
THEOREM TableSettles == Spec => []Settled
<1>1. Init => SettledInv
  <2> SUFFICES ASSUME Init PROVE SettledInv
    OBVIOUS
  <2>1. RunsOK /\ \A c \in Clients : ~ran[c].existed /\ ran[c].op # "create"
    BY DEF Init, RunsOK, Runs, NoRun
  <2> QED
    BY <2>1, TypeInit DEF Init, TableInit, SettledInv, Reopens
<1>2. SettledInv => Settled
  BY DEF SettledInv, Settled, Lasts, Reopens, Creates, Deletes, Online
<1> QED
  BY <1>1, <1>2, SettledStep, PTL DEF Spec
=============================================================================
