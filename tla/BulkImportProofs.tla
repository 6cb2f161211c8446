-------------------------- MODULE BulkImportProofs --------------------------
(***************************************************************************)
(* The theorems about the importers of BulkImport, for any number of runs, *)
(* rows and batches.                                                       *)
(***************************************************************************)
EXTENDS BulkImport, FiniteSetTheorems, TLAPS

Big(n) == <<"big", n>>
Small(n) == <<"small", n>>

(* Where the big cells below a run's number are, by its place in the loop;   *)
(* and the small cell that is under way has them all before it.              *)
RunInv(p) ==
    /\ pc[p] \in {"start", "create"} => num[p] = 1 /\ batch[p] = {} /\ out[p] = {}
    /\ pc[p] \in {"loop", "batch", "one"} => table # None
    /\ out[p] # {} => table # None
    /\ pc[p] = "loop" =>
          out[p] = {} /\ \A k \in 1 .. num[p] - 1 : Big(k) \in table \/ Big(k) \in batch[p]
    /\ pc[p] = "batch" => \A k \in 1 .. num[p] - 1 : Big(k) \in table \/ Big(k) \in out[p]
    /\ pc[p] = "one" => \A k \in 1 .. num[p] - 1 : Big(k) \in table
    /\ \A n \in Int : Small(n) \notin batch[p]
    /\ \A n \in Int : Small(n) \in out[p] => \A k \in 1 .. n - 1 : Big(k) \in table

Typed ==
    /\ table = None \/ table \in SUBSET NumberCells
    /\ pc \in [Runs -> Labels \ {"last"}] /\ num \in [Runs -> 1 .. MaxRows]
    /\ batch \in [Runs -> SUBSET NumberCells] /\ out \in [Runs -> SUBSET NumberCells]

TableInv ==
    table # None =>
        \A n \in Int : Small(n) \in table => \A k \in 1 .. n - 1 : Big(k) \in table

Writes(p) == pc[p] \in {"loop", "batch", "one"}
WriterInv == \A p, q \in Runs : Writes(p) /\ Writes(q) => p = q

NumbersInv == Typed /\ TableInv /\ WriterInv /\ \A p \in Runs : RunInv(p)
Inv == program = "numbers" => NumbersInv

(* A run that does not step keeps its part while the table only grows. *)
Same(q) == pc'[q] = pc[q] /\ num'[q] = num[q] /\ batch'[q] = batch[q] /\ out'[q] = out[q]
Grows == table # None => table' # None /\ \A cell : cell \in table => cell \in table'

LEMMA OthersKeep ==
    ASSUME NEW q, RunInv(q), Same(q), Grows
    PROVE RunInv(q)'
  BY DEF RunInv, Same, Grows, Big, Small

LEMMA Kinds ==
    ASSUME NEW n, NEW k
    PROVE Big(n) # Small(k) /\ (Big(n) = Big(k) => n = k) /\ (Small(n) = Small(k) => n = k)
  BY DEF Big, Small

LEMMA CellsOfNumbers ==
    ASSUME NEW n \in 0 .. MaxRows
    PROVE Big(n) \in NumberCells /\ Small(n) \in NumberCells
  BY DEF Big, Small, NumberCells

LEMMA InitInv == Init => Inv
  <1>. SUFFICES ASSUME Init, program = "numbers" PROVE NumbersInv
    BY DEF Inv
  <1>1. First = 1
    BY DEF First
  <1>2. Typed /\ TableInv /\ WriterInv
    BY <1>1, ImportAssumption DEF Init, Typed, TableInv, WriterInv, Writes, Labels
  <1>3. \A p \in Runs : RunInv(p)
    BY <1>1 DEF Init, RunInv
  <1>. QED
    BY <1>2, <1>3 DEF NumbersInv

-----------------------------------------------------------------------------
(* Each step of a run p. *)
LEMMA StartsKeep ==
    ASSUME NumbersInv, program = "numbers", NEW p \in Runs,
           CheckTable(p) \/ CreateTable(p)
    PROVE NumbersInv'
  <1>1. CASE CheckTable(p)
    <2>1. /\ pc[p] = "start" /\ pc' = [pc EXCEPT ![p] = IF table = None THEN "create" ELSE "refused"]
          /\ UNCHANGED <<table, num, batch, out>>
      BY <1>1 DEF CheckTable, Goto
    <2>2. Typed'
      BY <2>1 DEF NumbersInv, Typed, Labels
    <2>3. TableInv' /\ WriterInv'
      BY <2>1 DEF NumbersInv, Typed, TableInv, WriterInv, Writes
    <2>4. RunInv(p)'
      BY <2>1 DEF NumbersInv, Typed, RunInv
    <2>5. \A q \in Runs \ {p} : Same(q) /\ Grows
      BY <2>1 DEF NumbersInv, Typed, Same, Grows
    <2>. QED
      BY <2>2, <2>3, <2>4, <2>5, OthersKeep DEF NumbersInv
  <1>2. CASE CreateTable(p)
    <2>1. /\ pc[p] = "create" /\ pc' = [pc EXCEPT ![p] = IF table = None THEN "loop" ELSE "gone"]
          /\ table' = IF table = None THEN {} ELSE table
          /\ UNCHANGED <<num, batch, out>>
      BY <1>2 DEF CreateTable, Goto
    <2>2. Typed'
      BY <2>1 DEF NumbersInv, Typed, Labels
    <2>3. TableInv' /\ WriterInv'
      <3>1. table = None => \A q \in Runs : ~Writes(q)
        BY DEF NumbersInv, RunInv, Writes
      <3>. QED
        BY <2>1, <3>1 DEF NumbersInv, Typed, TableInv, WriterInv, Writes
    <2>4. RunInv(p)'
      BY <2>1, ImportAssumption DEF NumbersInv, Typed, RunInv
    <2>5. \A q \in Runs \ {p} : Same(q) /\ Grows
      BY <2>1 DEF NumbersInv, Typed, Same, Grows
    <2>. QED
      BY <2>2, <2>3, <2>4, <2>5, OthersKeep DEF NumbersInv
  <1>. QED
    BY <1>1, <1>2

LEMMA BatchPutKeeps ==
    ASSUME NumbersInv, program = "numbers", NEW p \in Runs, BatchPut(p)
    PROVE NumbersInv'
  <1>1. /\ pc[p] = "loop" /\ pc' = [pc EXCEPT ![p] = "batch"]
        /\ out' = [out EXCEPT ![p] = batch[p]] /\ batch' = [batch EXCEPT ![p] = {}]
        /\ UNCHANGED <<table, num>>
    BY DEF BatchPut, Send, Goto
  <1>2. Typed'
    BY <1>1 DEF NumbersInv, Typed, Labels
  <1>3. TableInv' /\ WriterInv'
    BY <1>1 DEF NumbersInv, Typed, TableInv, WriterInv, Writes
  <1>4. RunInv(p)'
    BY <1>1 DEF NumbersInv, Typed, RunInv
  <1>5. \A q \in Runs \ {p} : Same(q) /\ Grows
    BY <1>1 DEF NumbersInv, Typed, Same, Grows
  <1>. QED
    BY <1>2, <1>3, <1>4, <1>5, OthersKeep DEF NumbersInv

LEMMA PutOneRecordKeeps ==
    ASSUME NumbersInv, program = "numbers", NEW p \in Runs, PutOneRecord(p)
    PROVE NumbersInv'
  <1>1. /\ pc[p] = "batch" /\ pc' = [pc EXCEPT ![p] = "one"]
        /\ out[p] = {} /\ out' = [out EXCEPT ![p] = {Small(Current(p))}]
        /\ batch' = [batch EXCEPT ![p] = {}]
        /\ UNCHANGED <<table, num>>
    BY DEF PutOneRecord, Send, Goto, Returned, Small
  <1>2. Current(p) \in 1 .. MaxRows /\ Current(p) <= num[p]
    BY ImportAssumption DEF NumbersInv, Typed, Current, Ends, Last
  <1>3. Typed'
    BY <1>1, <1>2, CellsOfNumbers DEF NumbersInv, Typed, Labels
  <1>4. TableInv' /\ WriterInv'
    BY <1>1 DEF NumbersInv, Typed, TableInv, WriterInv, Writes
  <1>5. RunInv(p)'
    <2>1. \A k \in 1 .. num[p] - 1 : Big(k) \in table
      BY <1>1 DEF NumbersInv, RunInv
    <2>2. \A n \in Int : Small(n) \in out'[p] => n = Current(p)
      BY <1>1, Kinds DEF NumbersInv, Typed
    <2>3. num[p] \in Int
      BY DEF NumbersInv, Typed
    <2>4. \A n \in Int : Small(n) \in out'[p] => \A k \in 1 .. n - 1 : Big(k) \in table'
      BY <1>1, <1>2, <2>1, <2>2, <2>3
    <2>. QED
      BY <1>1, <2>1, <2>4 DEF NumbersInv, Typed, RunInv
  <1>6. \A q \in Runs \ {p} : Same(q) /\ Grows
    BY <1>1 DEF NumbersInv, Typed, Same, Grows
  <1>. QED
    BY <1>3, <1>4, <1>5, <1>6, OthersKeep DEF NumbersInv

LEMMA ImportNumberKeeps ==
    ASSUME NumbersInv, program = "numbers", NEW p \in Runs, ImportNumber(p)
    PROVE NumbersInv'
  <1>1. /\ pc[p] = "loop" \/ (pc[p] = "one" /\ out[p] = {})
        /\ pc' = [pc EXCEPT ![p] = "loop"] /\ num' = [num EXCEPT ![p] = @ + 1]
        /\ batch' = [batch EXCEPT ![p] = @ \cup {Big(num[p])}]
        /\ UNCHANGED <<table, out>>
    BY DEF ImportNumber, MakeCell, Goto, Returned, Big
  <1>2. num[p] \in 1 .. MaxRows - 1
    <2>1. Last = MaxRows - 1 /\ ~(num[p] > Last)
      BY DEF ImportNumber, Ends, Last
    <2>2. num[p] \in 1 .. MaxRows
      BY DEF NumbersInv, Typed
    <2>. QED
      BY <2>1, <2>2, ImportAssumption
  <1>3. Typed'
    BY <1>1, <1>2, CellsOfNumbers, ImportAssumption DEF NumbersInv, Typed, Labels
  <1>4. TableInv' /\ WriterInv'
    BY <1>1 DEF NumbersInv, Typed, TableInv, WriterInv, Writes
  <1>5. RunInv(p)'
    <2>1. out[p] = {} /\ \A k \in 1 .. num[p] - 1 : Big(k) \in table \/ Big(k) \in batch[p]
      BY <1>1 DEF NumbersInv, RunInv
    <2>2. num'[p] = num[p] + 1 /\ batch'[p] = batch[p] \cup {Big(num[p])} /\ pc'[p] = "loop"
      BY <1>1 DEF NumbersInv, Typed
    <2>3. \A k \in 1 .. num'[p] - 1 : Big(k) \in table \/ Big(k) \in batch'[p]
      BY <1>2, <2>1, <2>2
    <2>4. \A n \in Int : Small(n) \notin batch'[p]
      BY <2>2, Kinds DEF NumbersInv, RunInv
    <2>. QED
      BY <1>1, <2>1, <2>2, <2>3, <2>4 DEF NumbersInv, RunInv
  <1>6. \A q \in Runs \ {p} : Same(q) /\ Grows
    BY <1>1 DEF NumbersInv, Typed, Same, Grows
  <1>. QED
    BY <1>3, <1>4, <1>5, <1>6, OthersKeep DEF NumbersInv

LEMMA FinishKeeps ==
    ASSUME NumbersInv, program = "numbers", NEW p \in Runs, Finish(p)
    PROVE NumbersInv'
  <1>1. pc' = [pc EXCEPT ![p] = "done"] /\ UNCHANGED <<table, num, batch, out>>
    BY DEF Finish, Goto
  <1>2. Typed' /\ TableInv' /\ WriterInv' /\ RunInv(p)'
    BY <1>1 DEF NumbersInv, Typed, Labels, TableInv, WriterInv, Writes, RunInv
  <1>3. \A q \in Runs \ {p} : Same(q) /\ Grows
    BY <1>1 DEF NumbersInv, Typed, Same, Grows
  <1>. QED
    BY <1>2, <1>3, OthersKeep DEF NumbersInv

LEMMA ArriveKeeps ==
    ASSUME NumbersInv, program = "numbers", NEW p \in Runs, Arrive(p)
    PROVE NumbersInv'
  <1>1. PICK cell \in out[p] : table' = table \cup {cell} /\ out' = [out EXCEPT ![p] = @ \ {cell}]
    BY DEF Arrive
  <1>2. UNCHANGED <<pc, num, batch>>
    BY DEF Arrive
  <1>3. table # None /\ table \in SUBSET NumberCells /\ out[p] \in SUBSET NumberCells
    BY <1>1 DEF NumbersInv, Typed, RunInv
  <1>4. table' # None /\ table' \in SUBSET NumberCells
    BY <1>1, <1>3, ImportAssumption
  <1>5. Grows
    BY <1>1, <1>4 DEF Grows
  <1>6. Typed' /\ WriterInv'
    BY <1>1, <1>2, <1>3, <1>4 DEF NumbersInv, Typed, WriterInv, Writes
  <1>7. TableInv'
    BY <1>1, <1>3, <1>5 DEF NumbersInv, TableInv, RunInv, Grows
  <1>8. RunInv(p)'
    <2>1. out'[p] = out[p] \ {cell}
      BY <1>1 DEF NumbersInv, Typed
    <2>. QED
      BY <1>1, <1>2, <1>4, <2>1 DEF NumbersInv, RunInv
  <1>9. \A q \in Runs \ {p} : Same(q)
    BY <1>1, <1>2 DEF NumbersInv, Typed, Same
  <1>. QED
    BY <1>5, <1>6, <1>7, <1>8, <1>9, OthersKeep DEF NumbersInv

LEMMA CrashKeeps ==
    ASSUME NumbersInv, program = "numbers", NEW p \in Runs, Crash(p) \/ Lose(p)
    PROVE NumbersInv'
  <1>1. CASE Crash(p)
    <2>1. /\ pc' = [pc EXCEPT ![p] = "gone"] /\ batch' = [batch EXCEPT ![p] = {}]
          /\ UNCHANGED <<table, num, out>>
      BY <1>1 DEF Crash, Goto
    <2>2. Typed' /\ TableInv' /\ WriterInv' /\ RunInv(p)'
      BY <2>1 DEF NumbersInv, Typed, Labels, TableInv, WriterInv, Writes, RunInv
    <2>3. \A q \in Runs \ {p} : Same(q) /\ Grows
      BY <2>1 DEF NumbersInv, Typed, Same, Grows
    <2>. QED
      BY <2>2, <2>3, OthersKeep DEF NumbersInv
  <1>2. CASE Lose(p)
    <2>1. pc[p] = "gone" /\ out' = [out EXCEPT ![p] = {}] /\ UNCHANGED <<table, pc, num, batch>>
      BY <1>2 DEF Lose
    <2>2. Typed' /\ TableInv' /\ WriterInv' /\ RunInv(p)'
      BY <2>1 DEF NumbersInv, Typed, TableInv, WriterInv, Writes, RunInv
    <2>3. \A q \in Runs \ {p} : Same(q) /\ Grows
      BY <2>1 DEF NumbersInv, Typed, Same, Grows
    <2>. QED
      BY <2>2, <2>3, OthersKeep DEF NumbersInv
  <1>. QED
    BY <1>1, <1>2

LEMMA DropTableKeeps ==
    ASSUME NumbersInv, program = "numbers", DropTable
    PROVE NumbersInv'
  <1>1. table' = None /\ UNCHANGED <<pc, num, batch, out>>
    BY DEF DropTable
  <1>2. \A p \in Runs : out[p] = {} /\ ~Writes(p)
    BY DEF DropTable, Active, Returned, Writes
  <1>3. Typed' /\ TableInv' /\ WriterInv'
    BY <1>1, <1>2 DEF NumbersInv, Typed, TableInv, WriterInv, Writes
  <1>4. \A p \in Runs : RunInv(p)'
    BY <1>1, <1>2 DEF NumbersInv, RunInv, Writes
  <1>. QED
    BY <1>3, <1>4 DEF NumbersInv

LEMMA NextInv == Inv /\ [Next]_vars => Inv'
  <1>. SUFFICES ASSUME Inv, [Next]_vars, program' = "numbers" PROVE NumbersInv'
    BY DEF Inv
  <1>1. program' = program
    BY DEF Next, vars, DropTable, Step, CheckTable, CreateTable, OpenTable, BatchPut, PutOneRecord,
           ImportNumber, PushBatch, ImportWord, PutTransaction, Flushed, LastBatch, Finish,
           Arrive, Spill, Crash, Lose
  <1>2. program = "numbers" /\ NumbersInv
    BY <1>1 DEF Inv
  <1>3. ASSUME NEW p \in Runs, Step(p) PROVE NumbersInv'
    <2>1. CASE CheckTable(p) \/ CreateTable(p)
      BY <1>2, <2>1, StartsKeep
    <2>2. CASE BatchPut(p)
      BY <1>2, <2>2, BatchPutKeeps
    <2>3. CASE PutOneRecord(p)
      BY <1>2, <2>3, PutOneRecordKeeps
    <2>4. CASE ImportNumber(p)
      BY <1>2, <2>4, ImportNumberKeeps
    <2>5. CASE Finish(p)
      BY <1>2, <2>5, FinishKeeps
    <2>6. CASE Arrive(p)
      BY <1>2, <2>6, ArriveKeeps
    <2>7. CASE Crash(p) \/ Lose(p)
      BY <1>2, <2>7, CrashKeeps
    <2>8. ~(OpenTable(p) \/ PushBatch(p) \/ ImportWord(p) \/ PutTransaction(p) \/ Flushed(p)
            \/ LastBatch(p) \/ Spill(p))
      BY <1>2 DEF OpenTable, PushBatch, ImportWord, PutTransaction, Flushed, LastBatch, Spill
    <2>. QED
      BY <1>3, <2>1, <2>2, <2>3, <2>4, <2>5, <2>6, <2>7, <2>8 DEF Step
  <1>4. CASE DropTable
    BY <1>2, <1>4, DropTableKeeps
  <1>5. CASE UNCHANGED vars
    BY <1>2, <1>5 DEF vars, NumbersInv, Typed, TableInv, WriterInv, Writes, RunInv
  <1>. QED
    BY <1>3, <1>4, <1>5 DEF Next

LEMMA InvAlways == Spec => []Inv
  BY InitInv, NextInv, PTL DEF Spec

(* Whichever runs die and whenever, a number in the small column family      *)
(* tells that the big one has all those before it: put_one_record is called  *)
(* after batch_put has returned.                                             *)
THEOREM SmallTellsOfBig == Spec => []SmallAfterBig
  <1>1. Inv => SmallAfterBig
    <2>. SUFFICES ASSUME Inv, program = "numbers", table # None PROVE SmallAfterBig
      BY DEF SmallAfterBig
    <2>1. First = 1 /\ Last = MaxRows - 1
      BY DEF First, Last
    <2>2. Numbers \subseteq Int
      BY <2>1, ImportAssumption DEF Numbers
    <2>3. \A n \in Int : Small(n) \in table => \A k \in 1 .. n - 1 : Big(k) \in table
      BY DEF Inv, NumbersInv, TableInv
    <2>. QED
      BY <2>2, <2>3 DEF SmallAfterBig, Big, Small
  <1>. QED
    BY <1>1, InvAlways, PTL

(* However many runs are started, at most one writes the table: the check    *)
(* for it and its creation are two calls, but only one creation succeeds.    *)
THEOREM OneRunWrites == Spec => []OneWriter
  <1>1. Inv => OneWriter
    BY DEF Inv, NumbersInv, Typed, WriterInv, Writes, OneWriter, Active
  <1>. QED
    BY <1>1, InvAlways, PTL

-----------------------------------------------------------------------------
(* The batches of every program.  What a run has made is in the table, in    *)
(* its batch or under way, and a batch has no more cells than the numbers    *)
(* since the last one that was full.                                         *)
Bound(n) == IF n % BatchSize = 0 THEN BatchSize ELSE n % BatchSize

MadeUpTo(p) == IF program = "transactions" /\ pc[p] = "batch" THEN num[p] ELSE num[p] - 1

BatchInv(p) ==
    /\ pc[p] \in {"start", "create", "refused"} => num[p] = First /\ out[p] = {} /\ said[p] = None
    /\ pc[p] \in {"create", "refused", "one"} => program = "numbers"
    /\ pc[p] = "last" => program # "numbers"
    /\ pc[p] = "batch" /\ program # "numbers" => num[p] <= Last
    /\ pc[p] # "loop" => batch[p] = {}
    /\ pc[p] = "loop" => out[p] = {}
    /\ pc[p] # "gone" => DOMAIN made[p] = First .. MadeUpTo(p)
    /\ pc[p] \in {"loop", "batch", "last"} =>
          \A n \in First .. MadeUpTo(p) : made[p][n] \in table \cup batch[p] \cup out[p]
    /\ pc[p] = "one" => \A n \in First .. MadeUpTo(p) : made[p][n] \in table
    /\ IsFiniteSet(batch[p]) /\ Cardinality(batch[p]) <= Bound(num[p])

(* What a run has said, whether it still runs or not. *)
SaidInv(p) ==
    /\ said[p] # None => said[p] <= num[p]
    /\ \A n \in Counted(p) : made[p][n] \in table
    /\ program = "transactions" =>
          row[p] \in (0 .. MaxRows) \cup {None} /\ (said[p] # None => said[p] < num[p])
    /\ program = "words" =>
          /\ pc[p] = "loop" => said[p] = IF num[p] = 0 THEN None ELSE num[p] - Bound(num[p])
          /\ pc[p] = "loop" /\ num[p] > 0 => row[p] \in Words
          /\ pc[p] = "loop" /\ num[p] > 0 =>
                \A n \in 0 .. num[p] - Bound(num[p]) - 1 : made[p][n] \in table
          /\ pc[p] = "batch" => said[p] = num[p]

NeedsTable(p) ==
    program # "numbers" \/ pc[p] \in {"loop", "batch", "one", "last"} \/ out[p] # {}

PutsTyped ==
    /\ program \in Programs
    /\ table = None \/ table \subseteq Cells
    /\ pc \in [Runs -> Labels] /\ num \in [Runs -> First .. Last + 1]
    /\ said \in [Runs -> Numbers \cup {None}] /\ DOMAIN row = Runs /\ DOMAIN made = Runs
    /\ batch \in [Runs -> SUBSET Cells] /\ out \in [Runs -> SUBSET Cells]

PutsInv ==
    /\ PutsTyped
    /\ \A p \in Runs : BatchInv(p) /\ SaidInv(p) /\ (NeedsTable(p) => table \in SUBSET Cells)

(* A run that does not step, while the table only grows. *)
SameRun(q) ==
    Same(q) /\ made'[q] = made[q] /\ said'[q] = said[q] /\ row'[q] = row[q]
TableKept(q) == NeedsTable(q) => table \subseteq table' /\ table' \in SUBSET Cells

LEMMA ModNext ==
    ASSUME NEW n \in Nat
    PROVE /\ n % BatchSize \in 0 .. BatchSize - 1 /\ 0 % BatchSize = 0
          /\ (n + 1) % BatchSize = IF n % BatchSize = BatchSize - 1 THEN 0 ELSE (n % BatchSize) + 1
  <1>1. BatchSize \in Nat \ {0}
    BY ImportAssumption
  <1>2. ASSUME NEW B \in Nat \ {0}, NEW k \in Nat
        PROVE /\ k \div B \in Int /\ k % B \in 0 .. B - 1
              /\ k = (B * (k \div B)) + (k % B)
    OBVIOUS
  <1>3. ASSUME NEW B \in Nat \ {0}, NEW q \in Int, NEW q2 \in Int,
               NEW r \in 0 .. B - 1, NEW s \in 0 .. B - 1, B * q + r = B * q2 + s
        PROVE r = s
    BY <1>3
  <1>4. ASSUME NEW B \in Nat \ {0}
        PROVE (n + 1) % B = IF n % B = B - 1 THEN 0 ELSE (n % B) + 1
    <2>. DEFINE q == n \div B  r == n % B
    <2>1. q \in Int /\ r \in 0 .. B - 1 /\ n = (B * q) + r
      BY <1>2
    <2>2. /\ (n + 1) \div B \in Int /\ (n + 1) % B \in 0 .. B - 1
          /\ n + 1 = (B * ((n + 1) \div B)) + ((n + 1) % B)
      BY <1>2
    <2>. HIDE DEF q, r
    <2>3. CASE r = B - 1
      <3>1. n + 1 = (B * (q + 1)) + 0
        BY <2>1, <2>3
      <3>2. q + 1 \in Int /\ 0 \in 0 .. B - 1
        BY <2>1
      <3>3. (n + 1) % B = 0
        BY <3>1, <3>2, <2>2, <1>3
      <3>. QED
        BY <3>3, <2>3 DEF r
    <2>4. CASE r # B - 1
      <3>1. n + 1 = (B * q) + (r + 1) /\ r + 1 \in 0 .. B - 1
        BY <2>1, <2>4
      <3>2. (n + 1) % B = r + 1
        BY <3>1, <2>1, <2>2, <1>3
      <3>. QED
        BY <3>2, <2>4 DEF r
    <2>. QED
      BY <2>3, <2>4
  <1>5. 0 % BatchSize = 0
    BY <1>1
  <1>. QED
    BY <1>1, <1>2, <1>4, <1>5

(* One number more, one cell more, until the batch is full. *)
LEMMA BoundNext ==
    ASSUME NEW n \in Nat
    PROVE /\ Bound(n) \in 1 .. BatchSize /\ Bound(n + 1) \in 1 .. BatchSize
          /\ Bound(n + 1) = IF n % BatchSize = 0 THEN 1 ELSE Bound(n) + 1
          /\ 0 % BatchSize = 0
  <1>1. BatchSize \in Nat \ {0}
    BY ImportAssumption
  <1>2. n + 1 \in Nat
    OBVIOUS
  <1>. DEFINE r == n % BatchSize  s == (n + 1) % BatchSize
  <1>3. /\ r \in 0 .. BatchSize - 1 /\ s \in 0 .. BatchSize - 1 /\ 0 % BatchSize = 0
        /\ s = IF r = BatchSize - 1 THEN 0 ELSE r + 1
    BY <1>2, ModNext
  <1>4. /\ Bound(n) = IF r = 0 THEN BatchSize ELSE r
        /\ Bound(n + 1) = IF s = 0 THEN BatchSize ELSE s
    BY DEF Bound
  <1>. HIDE DEF r, s
  <1>5. /\ Bound(n) \in 1 .. BatchSize /\ Bound(n + 1) \in 1 .. BatchSize
        /\ Bound(n + 1) = IF r = 0 THEN 1 ELSE Bound(n) + 1
    BY <1>1, <1>3, <1>4
  <1>. QED
    BY <1>3, <1>5 DEF r

LEMMA Ranges ==
    ASSUME program \in Programs
    PROVE /\ program \in {"numbers", "words", "transactions"}
          /\ First \in Nat /\ Last \in Nat /\ First < Last /\ Last <= MaxRows /\ MaxRows \in Nat
          /\ program # "numbers" => First = 0
          /\ program = "numbers" => First = 1
  BY ImportAssumption DEF First, Last

LEMMA OthersKeepPuts ==
    ASSUME NEW q, BatchInv(q), SaidInv(q), SameRun(q), program' = program, TableKept(q)
    PROVE BatchInv(q)' /\ SaidInv(q)' /\ (NeedsTable(q) => table \in SUBSET Cells)'
  <1>1. /\ pc'[q] = pc[q] /\ num'[q] = num[q] /\ batch'[q] = batch[q] /\ out'[q] = out[q]
        /\ made'[q] = made[q] /\ said'[q] = said[q] /\ row'[q] = row[q]
    BY DEF SameRun, Same
  <1>2. First' = First /\ Last' = Last /\ MadeUpTo(q)' = MadeUpTo(q) /\ Counted(q)' = Counted(q)
    BY <1>1 DEF First, Last, MadeUpTo, Counted
  <1>3. ~NeedsTable(q) => Counted(q) = {}
    BY DEF NeedsTable, Counted
  <1>4. (NeedsTable(q) => table \in SUBSET Cells)'
    BY <1>1 DEF NeedsTable, TableKept
  <1>5. BatchInv(q)'
    BY <1>1, <1>2 DEF BatchInv, TableKept, NeedsTable
  <1>6. SaidInv(q)'
    <2>1. \A n \in Counted(q) : made[q][n] \in table'
      BY <1>3 DEF SaidInv, TableKept
    <2>2. program = "words" => NeedsTable(q)
      BY DEF NeedsTable
    <2>. QED
      BY <1>1, <1>2, <2>1, <2>2 DEF SaidInv, TableKept
  <1>. QED
    BY <1>4, <1>5, <1>6

\* What a step of the run p is to keep.
LEMMA StepKeeps ==
    ASSUME PutsInv, NEW p \in Runs, program' = program, PutsTyped', BatchInv(p)', SaidInv(p)',
           (NeedsTable(p) => table \in SUBSET Cells)',
           \A q \in Runs \ {p} : SameRun(q) /\ TableKept(q)
    PROVE PutsInv'
  BY OthersKeepPuts DEF PutsInv

\* MakeCell, wherever a program calls it.
LEMMA MakeCellKeeps ==
    ASSUME PutsInv, NEW p \in Runs, NEW cell \in Cells, MakeCell(p, cell), ~Ends(p), out[p] = {},
           pc[p] \in {"loop", "batch", "one"}, program = "transactions" => pc[p] # "batch",
           Full(p) => batch[p] = {},
           UNCHANGED <<program, table, out>>
    PROVE /\ pc' = [pc EXCEPT ![p] = "loop"] /\ num' = [num EXCEPT ![p] = @ + 1]
          /\ pc' \in [Runs -> Labels] /\ num' \in [Runs -> (First .. Last + 1)']
          /\ DOMAIN made' = Runs /\ batch' \in [Runs -> SUBSET Cells]
          /\ pc'[p] = "loop" /\ num'[p] = num[p] + 1 /\ BatchInv(p)'
          /\ \A n \in First .. num[p] - 1 : made'[p][n] = made[p][n]
          /\ (NeedsTable(p) => table \in SUBSET Cells)'
          /\ \A q \in Runs \ {p} : Same(q) /\ made'[q] = made[q]
          /\ \A q \in Runs : TableKept(q)
  <1>1. PutsTyped /\ BatchInv(p) /\ num[p] \in First .. Last /\ NeedsTable(p) /\ table \in SUBSET Cells
    <2>1. PutsTyped /\ BatchInv(p) /\ NeedsTable(p)
      BY DEF PutsInv, NeedsTable
    <2>2. num[p] \in First .. Last + 1 /\ ~(num[p] > Last) /\ First \in Nat /\ Last \in Nat
      BY <2>1, Ranges DEF PutsTyped, Ends
    <2>. QED
      BY <2>1, <2>2 DEF PutsInv
  <1>2. /\ pc' = [pc EXCEPT ![p] = "loop"] /\ num' = [num EXCEPT ![p] = @ + 1]
        /\ batch' = [batch EXCEPT ![p] = @ \cup {cell}]
        /\ made' = [made EXCEPT ![p] =
               [n \in First .. num[p] |-> IF n = num[p] THEN cell ELSE @[n]]]
        /\ program' = program /\ table' = table /\ out' = out
    BY DEF MakeCell, Goto
  <1>3. First' = First /\ Last' = Last /\ First \in Nat /\ Last \in Nat /\ num[p] \in Nat
    BY <1>1, <1>2, Ranges DEF First, Last, PutsTyped
  <1>4. /\ pc'[p] = "loop" /\ num'[p] = num[p] + 1 /\ batch'[p] = batch[p] \cup {cell}
        /\ made'[p] = [n \in First .. num[p] |-> IF n = num[p] THEN cell ELSE made[p][n]]
        /\ out'[p] = {}
    BY <1>1, <1>2 DEF PutsTyped
  <1>5. /\ pc' \in [Runs -> Labels] /\ num' \in [Runs -> (First .. Last + 1)']
        /\ DOMAIN made' = Runs /\ batch' \in [Runs -> SUBSET Cells]
    BY <1>1, <1>2, <1>3 DEF PutsTyped, Labels
  <1>6. BatchInv(p)'
    <2>1. MadeUpTo(p) = num[p] - 1 /\ MadeUpTo(p)' = num[p]
      BY <1>2, <1>3, <1>4 DEF MadeUpTo
    <2>2. \A n \in First .. num[p] - 1 : made[p][n] \in table \cup batch[p]
      BY <2>1 DEF PutsInv, BatchInv
    <2>3. DOMAIN made'[p] = First .. MadeUpTo(p)'
          /\ \A n \in First .. MadeUpTo(p)' : made'[p][n] \in table' \cup batch'[p] \cup out'[p]
      BY <1>2, <1>3, <1>4, <2>1, <2>2
    <2>4. IsFiniteSet(batch'[p]) /\ Cardinality(batch'[p]) <= Bound(num'[p])
      <3>1. IsFiniteSet(batch[p]) /\ Cardinality(batch[p]) <= Bound(num[p])
        BY <1>1 DEF BatchInv
      <3>2. /\ IsFiniteSet(batch'[p]) /\ Cardinality(batch'[p]) \in Nat /\ Cardinality(batch[p]) \in Nat
            /\ Cardinality(batch'[p]) <= Cardinality(batch[p]) + 1
        <4>. DEFINE S == batch[p]
        <4>1. IsFiniteSet(S) /\ batch'[p] = S \cup {cell}
          BY <1>4, <3>1
        <4>. HIDE DEF S
        <4>2. IsFiniteSet(S \cup {cell}) /\ Cardinality(S) \in Nat /\ Cardinality(S \cup {cell}) \in Nat
          BY <4>1, FS_AddElement, FS_CardinalityType
        <4>3. Cardinality(S \cup {cell}) = IF cell \in S THEN Cardinality(S) ELSE Cardinality(S) + 1
          BY <4>1, FS_AddElement
        <4>4. Cardinality(S \cup {cell}) <= Cardinality(S) + 1
          BY <4>2, <4>3
        <4>. QED
          BY <4>1, <4>2, <4>4 DEF S
      <3>3. batch[p] = {} => Cardinality(batch[p]) = 0
        BY FS_EmptySet
      <3>4. /\ Bound(num[p]) \in Nat /\ Bound(num[p] + 1) \in 1 .. BatchSize
            /\ Bound(num[p] + 1) = IF Full(p) THEN 1 ELSE Bound(num[p]) + 1
        BY <1>3, BoundNext DEF Full
      <3>5. CASE Full(p)
        BY <1>4, <3>2, <3>3, <3>4, <3>5
      <3>6. CASE ~Full(p)
        BY <1>4, <3>1, <3>2, <3>4, <3>6
      <3>. QED
        BY <3>2, <3>5, <3>6
    <2>. QED
      BY <1>3, <1>4, <2>3, <2>4 DEF BatchInv
  <1>7. \A n \in First .. num[p] - 1 : made'[p][n] = made[p][n]
    BY <1>3, <1>4
  <1>8. \A q \in Runs \ {p} : Same(q) /\ made'[q] = made[q]
    BY <1>1, <1>2 DEF PutsTyped, Same
  <1>9. \A q \in Runs : TableKept(q)
    BY <1>1, <1>2 DEF TableKept
  <1>. QED
    BY <1>1, <1>2, <1>4, <1>5, <1>6, <1>7, <1>8, <1>9

LEMMA ImportNumberKeepsPuts ==
    ASSUME PutsInv, NEW p \in Runs, ImportNumber(p)
    PROVE PutsInv'
  <1>1. /\ program = "numbers" /\ ~Ends(p) /\ MakeCell(p, <<"big", num[p]>>)
        /\ (pc[p] = "loop" /\ ~Full(p)) \/ (pc[p] = "one" /\ out[p] = {})
        /\ UNCHANGED <<program, table, row, out, said>>
    BY DEF ImportNumber, Returned
  <1>2. PutsTyped /\ BatchInv(p) /\ SaidInv(p)
    BY DEF PutsInv
  <1>3. First \in Nat /\ First' = First /\ Last' = Last /\ num[p] \in 0 .. MaxRows
    BY <1>1, <1>2, Ranges DEF PutsTyped, Ends, First, Last
  <1>4. <<"big", num[p]>> \in Cells
    BY <1>3 DEF Cells, NumberCells
  <1>5. pc[p] \in {"loop", "batch", "one"} /\ out[p] = {} /\ (Full(p) => batch[p] = {})
    BY <1>1, <1>2 DEF BatchInv
  <1>6. /\ num' = [num EXCEPT ![p] = @ + 1]
        /\ pc' \in [Runs -> Labels] /\ num' \in [Runs -> (First .. Last + 1)']
        /\ DOMAIN made' = Runs /\ batch' \in [Runs -> SUBSET Cells]
        /\ pc'[p] = "loop" /\ num'[p] = num[p] + 1 /\ BatchInv(p)'
        /\ (NeedsTable(p) => table \in SUBSET Cells)'
        /\ \A q \in Runs \ {p} : Same(q) /\ made'[q] = made[q]
        /\ \A q \in Runs : TableKept(q)
    BY <1>1, <1>4, <1>5, MakeCellKeeps
  <1>7. PutsTyped'
    BY <1>1, <1>2, <1>3, <1>6 DEF PutsTyped, Numbers
  <1>8. SaidInv(p)'
    BY <1>1, <1>2, <1>3, <1>6 DEF SaidInv, Counted, PutsTyped, Numbers
  <1>9. \A q \in Runs \ {p} : SameRun(q)
    BY <1>1, <1>6 DEF SameRun
  <1>. QED
    BY <1>1, <1>6, <1>7, <1>8, <1>9, StepKeeps

LEMMA ImportWordKeepsPuts ==
    ASSUME PutsInv, NEW p \in Runs, ImportWord(p)
    PROVE PutsInv'
  <1>1. /\ program = "words" /\ ~Ends(p) /\ MakeCell(p, <<row'[p], num[p]>>)
        /\ UNCHANGED <<program, table, out, said>>
        /\ IF Full(p) THEN pc[p] = "batch" /\ out[p] = {} /\ \E w \in Words : row' = [row EXCEPT ![p] = w]
           ELSE pc[p] = "loop" /\ UNCHANGED row
    BY DEF ImportWord, Returned
  <1>2. PutsTyped /\ BatchInv(p) /\ SaidInv(p)
    BY DEF PutsInv
  <1>3. First = 0 /\ First' = First /\ Last' = Last /\ num[p] \in Nat /\ num[p] <= MaxRows
    BY <1>1, <1>2, Ranges DEF PutsTyped, Ends, First, Last
  <1>4. /\ Bound(num[p]) \in 1 .. BatchSize /\ BatchSize \in Nat
        /\ Bound(num[p] + 1) = IF Full(p) THEN 1 ELSE Bound(num[p]) + 1
        /\ ~Full(p) => num[p] > 0
    BY <1>3, BoundNext, ImportAssumption DEF Full
  <1>5. row'[p] \in Words /\ DOMAIN row' = Runs /\ \A q \in Runs \ {p} : row'[q] = row[q]
    BY <1>1, <1>2, <1>4 DEF SaidInv, PutsTyped
  <1>6. <<row'[p], num[p]>> \in Cells
    BY <1>3, <1>5, ImportAssumption DEF Cells
  <1>7. pc[p] \in {"loop", "batch", "one"} /\ out[p] = {} /\ (Full(p) => batch[p] = {})
    BY <1>1, <1>2 DEF BatchInv
  <1>8. /\ pc' \in [Runs -> Labels] /\ num' \in [Runs -> (First .. Last + 1)']
        /\ DOMAIN made' = Runs /\ batch' \in [Runs -> SUBSET Cells]
        /\ pc'[p] = "loop" /\ num'[p] = num[p] + 1 /\ BatchInv(p)'
        /\ \A n \in First .. num[p] - 1 : made'[p][n] = made[p][n]
        /\ (NeedsTable(p) => table \in SUBSET Cells)'
        /\ \A q \in Runs \ {p} : Same(q) /\ made'[q] = made[q]
        /\ \A q \in Runs : TableKept(q)
    BY <1>1, <1>6, <1>7, MakeCellKeeps
  <1>9. PutsTyped'
    BY <1>1, <1>2, <1>3, <1>5, <1>8 DEF PutsTyped, Numbers
  <1>10. SaidInv(p)'
    <2>1. CASE Full(p)
      <3>1. pc[p] = "batch" /\ said[p] = num[p] /\ out[p] = {} /\ batch[p] = {}
        BY <1>1, <1>2, <1>7, <2>1 DEF SaidInv
      <3>2. \A n \in 0 .. num[p] - 1 : made[p][n] \in table
        BY <1>1, <1>2, <1>3, <3>1 DEF BatchInv, MadeUpTo
      <3>3. \A n \in 0 .. num[p] - 1 : made'[p][n] \in table'
        BY <1>1, <1>3, <1>8, <3>2
      <3>4. said'[p] = num[p] /\ num'[p] = num[p] + 1 /\ num'[p] - Bound(num'[p]) = num[p]
        BY <1>1, <1>3, <1>4, <1>8, <2>1, <3>1
      <3>5. \A n \in Counted(p)' : made'[p][n] \in table'
        BY <1>1, <1>3, <3>3, <3>4 DEF Counted
      <3>6. /\ program' = "words" /\ pc'[p] = "loop" /\ row'[p] \in Words
            /\ num'[p] \in Nat \ {0} /\ said'[p] <= num'[p]
        BY <1>1, <1>3, <1>5, <1>8, <3>4
      <3>. QED
        BY <1>1, <3>3, <3>4, <3>5, <3>6 DEF SaidInv
    <2>2. CASE ~Full(p)
      <3>1. /\ said[p] = num[p] - Bound(num[p])
            /\ \A n \in 0 .. num[p] - Bound(num[p]) - 1 : made[p][n] \in table
        BY <1>1, <1>2, <1>4, <2>2 DEF SaidInv
      <3>2. num'[p] - Bound(num'[p]) = num[p] - Bound(num[p]) /\ num'[p] = num[p] + 1
        BY <1>3, <1>4, <1>8, <2>2
      <3>3. \A n \in 0 .. num'[p] - Bound(num'[p]) - 1 : made'[p][n] \in table'
        <4>. DEFINE b == num[p] - Bound(num[p])
        <4>1. b \in Int /\ b <= num[p] - 1 /\ num'[p] - Bound(num'[p]) = b /\ table' = table
          BY <1>1, <1>3, <1>4, <3>2
        <4>2. \A n \in 0 .. b - 1 : made[p][n] \in table
          BY <3>1
        <4>3. \A n \in 0 .. num[p] - 1 : made'[p][n] = made[p][n]
          BY <1>3, <1>8
        <4>. HIDE DEF b
        <4>4. \A n \in 0 .. b - 1 : n \in 0 .. num[p] - 1
          BY <1>3, <4>1
        <4>. QED
          BY <4>1, <4>2, <4>3, <4>4
      <3>4. said'[p] = num'[p] - Bound(num'[p]) /\ said'[p] < num'[p] /\ said'[p] \in Int
            /\ num'[p] \in Int
        BY <1>1, <1>3, <1>4, <3>1, <3>2
      <3>5. \A n \in Counted(p)' : made'[p][n] \in table'
        BY <1>1, <3>3, <3>4 DEF Counted
      <3>6. /\ program' = "words" /\ pc'[p] = "loop" /\ row'[p] \in Words
            /\ num'[p] \in Nat \ {0} /\ said'[p] <= num'[p]
        BY <1>1, <1>3, <1>5, <1>8, <3>4
      <3>. QED
        BY <3>3, <3>4, <3>5, <3>6 DEF SaidInv
    <2>. QED
      BY <2>1, <2>2
  <1>11. \A q \in Runs \ {p} : SameRun(q)
    BY <1>1, <1>5, <1>8 DEF SameRun
  <1>. QED
    BY <1>1, <1>8, <1>9, <1>10, <1>11, StepKeeps

\* Put, whether it fills the batch or not.
LEMMA PutTransactionKeepsPuts ==
    ASSUME PutsInv, NEW p \in Runs, PutTransaction(p)
    PROVE PutsInv'
  <1>1. PICK key \in {num[p], row[p]} \ {None} :
          /\ row' = [row EXCEPT ![p] = key]
          /\ made' = [made EXCEPT ![p] =
                [n \in First .. num[p] |-> IF n = num[p] THEN <<p, key>> ELSE @[n]]]
          /\ IF Full(p) THEN Send(p, batch[p] \cup {<<p, key>>}) /\ Goto(p, "batch") /\ UNCHANGED num
             ELSE MakeCell(p, <<p, key>>) /\ UNCHANGED out
    BY DEF PutTransaction
  <1>2. /\ program = "transactions" /\ pc[p] = "loop" /\ ~Ends(p)
        /\ UNCHANGED <<program, table, said>>
    BY DEF PutTransaction
  <1>3. PutsTyped /\ BatchInv(p) /\ SaidInv(p)
    BY DEF PutsInv
  <1>4. /\ First = 0 /\ First' = First /\ Last' = Last /\ Last = MaxRows /\ MaxRows \in Nat
        /\ num[p] \in Nat /\ num[p] <= Last
    BY <1>2, <1>3, Ranges DEF PutsTyped, Ends, First, Last
  <1>5. key \in 0 .. MaxRows /\ <<p, key>> \in Cells
    <2>1. key \in 0 .. MaxRows
      BY <1>2, <1>3, <1>4 DEF SaidInv
    <2>. QED
      BY <2>1 DEF Cells
  <1>6. row'[p] = key /\ DOMAIN row' = Runs /\ \A q \in Runs \ {p} : row'[q] = row[q]
    BY <1>1, <1>3 DEF PutsTyped
  <1>7. out[p] = {} /\ table \in SUBSET Cells /\ \A q \in Runs : TableKept(q)
    BY <1>2, <1>3 DEF BatchInv, PutsInv, NeedsTable, TableKept
  <1>8. CASE ~Full(p)
    <2>1. MakeCell(p, <<p, key>>) /\ UNCHANGED out
      BY <1>1, <1>8
    <2>2. /\ pc' \in [Runs -> Labels] /\ num' \in [Runs -> (First .. Last + 1)']
          /\ DOMAIN made' = Runs /\ batch' \in [Runs -> SUBSET Cells]
          /\ pc'[p] = "loop" /\ num'[p] = num[p] + 1 /\ BatchInv(p)'
          /\ \A n \in First .. num[p] - 1 : made'[p][n] = made[p][n]
          /\ (NeedsTable(p) => table \in SUBSET Cells)'
          /\ \A q \in Runs \ {p} : Same(q) /\ made'[q] = made[q]
      BY <1>2, <1>5, <1>7, <1>8, <2>1, MakeCellKeeps
    <2>3. PutsTyped'
      BY <1>2, <1>3, <1>4, <1>6, <2>1, <2>2 DEF PutsTyped, Numbers
    <2>4. SaidInv(p)'
      <3>1. said'[p] # None => said'[p] < num[p] /\ said'[p] \in Nat
        BY <1>2, <1>3, <1>4 DEF SaidInv, PutsTyped, Numbers
      <3>2. \A n \in Counted(p)' : made'[p][n] \in table'
        <4>1. Counted(p)' = Counted(p)
          BY <1>2 DEF Counted
        <4>2. \A n \in Counted(p) : n \in First .. num[p] - 1
          BY <1>2, <1>4, <3>1 DEF Counted
        <4>. QED
          BY <1>2, <1>3, <2>2, <4>1, <4>2 DEF SaidInv
      <3>. QED
        BY <1>2, <1>4, <1>5, <1>6, <2>2, <3>1, <3>2 DEF SaidInv
    <2>5. \A q \in Runs \ {p} : SameRun(q)
      BY <1>2, <1>6, <2>2 DEF SameRun
    <2>. QED
      BY <1>2, <1>7, <2>2, <2>3, <2>4, <2>5, StepKeeps
  <1>9. CASE Full(p)
    <2>1. /\ out' = [out EXCEPT ![p] = batch[p] \cup {<<p, key>>}] /\ batch' = [batch EXCEPT ![p] = {}]
          /\ pc' = [pc EXCEPT ![p] = "batch"] /\ num' = num
      BY <1>1, <1>9 DEF Send, Goto
    <2>2. /\ out'[p] = batch[p] \cup {<<p, key>>} /\ batch'[p] = {} /\ pc'[p] = "batch"
          /\ num'[p] = num[p]
          /\ made'[p] = [n \in First .. num[p] |-> IF n = num[p] THEN <<p, key>> ELSE made[p][n]]
      BY <1>1, <1>3, <2>1 DEF PutsTyped
    <2>3. PutsTyped'
      <3>1. out' \in [Runs -> SUBSET Cells] /\ batch' \in [Runs -> SUBSET Cells]
        BY <1>3, <1>5, <2>1 DEF PutsTyped
      <3>2. pc' \in [Runs -> Labels] /\ DOMAIN made' = Runs
        BY <1>1, <1>3, <2>1 DEF PutsTyped, Labels
      <3>. QED
        BY <1>2, <1>3, <1>4, <1>6, <2>1, <3>1, <3>2 DEF PutsTyped, Numbers
    <2>4. BatchInv(p)'
      <3>1. MadeUpTo(p) = num[p] - 1 /\ MadeUpTo(p)' = num[p]
        BY <1>2, <2>2 DEF MadeUpTo
      <3>2. \A n \in First .. num[p] - 1 : made[p][n] \in table \cup batch[p] \cup out[p]
        BY <1>2, <1>3, <3>1 DEF BatchInv
      <3>3. /\ DOMAIN made'[p] = First .. MadeUpTo(p)'
            /\ \A n \in First .. MadeUpTo(p)' : made'[p][n] \in table' \cup batch'[p] \cup out'[p]
        BY <1>2, <1>4, <1>7, <2>2, <3>1, <3>2
      <3>4. IsFiniteSet(batch'[p]) /\ Cardinality(batch'[p]) <= Bound(num'[p])
        BY <1>4, <2>2, BoundNext, FS_EmptySet
      <3>. QED
        BY <1>2, <1>4, <2>2, <3>3, <3>4 DEF BatchInv
    <2>5. SaidInv(p)'
      <3>1. said'[p] # None => said'[p] < num[p] /\ said'[p] \in Nat
        BY <1>2, <1>3, <1>4 DEF SaidInv, PutsTyped, Numbers
      <3>2. \A n \in Counted(p)' : made'[p][n] \in table'
        <4>1. Counted(p)' = Counted(p)
          BY <1>2 DEF Counted
        <4>2. \A n \in Counted(p) : n \in First .. num[p] - 1
          BY <1>2, <1>4, <3>1 DEF Counted
        <4>3. \A n \in First .. num[p] - 1 : made'[p][n] = made[p][n]
          BY <1>4, <2>2
        <4>. QED
          BY <1>2, <1>3, <4>1, <4>2, <4>3 DEF SaidInv
      <3>3. /\ program' = "transactions" /\ row'[p] \in (0 .. MaxRows) \cup {None}
            /\ said'[p] # None => said'[p] < num'[p] /\ said'[p] <= num'[p]
        BY <1>2, <1>4, <1>5, <1>6, <2>2, <3>1
      <3>. QED
        BY <3>2, <3>3 DEF SaidInv
    <2>6. \A q \in Runs \ {p} : SameRun(q)
      BY <1>1, <1>2, <1>3, <1>6, <2>1 DEF SameRun, Same, PutsTyped
    <2>7. (NeedsTable(p) => table \in SUBSET Cells)'
      BY <1>2, <1>7
    <2>. QED
      BY <1>2, <1>7, <2>3, <2>4, <2>5, <2>6, <2>7, StepKeeps
  <1>. QED
    BY <1>8, <1>9

\* What is sent has been in the batch; progress may be printed before.
LEMMA SendKeeps ==
    ASSUME PutsInv, NEW p \in Runs, pc[p] = "loop", Send(p, batch[p]), Goto(p, "batch") \/ Goto(p, "last"),
           program = "transactions" => pc'[p] # "batch",
           program # "numbers" /\ pc'[p] = "batch" => num[p] <= Last,
           program = "numbers" => pc'[p] # "last",
           UNCHANGED <<program, table, num, row, made>>
    PROVE /\ pc' \in [Runs -> Labels] /\ batch' \in [Runs -> SUBSET Cells]
          /\ out' \in [Runs -> SUBSET Cells] /\ First' = First /\ Last' = Last
          /\ BatchInv(p)' /\ (NeedsTable(p) => table \in SUBSET Cells)'
          /\ \A q \in Runs \ {p} : Same(q) /\ TableKept(q)
  <1>1. PutsTyped /\ BatchInv(p) /\ table \in SUBSET Cells
    BY DEF PutsInv, NeedsTable
  <1>2. /\ out' = [out EXCEPT ![p] = batch[p]] /\ batch' = [batch EXCEPT ![p] = {}]
        /\ (pc' = [pc EXCEPT ![p] = "batch"]) \/ (pc' = [pc EXCEPT ![p] = "last"])
    BY DEF Send, Goto
  <1>3. pc' \in [Runs -> Labels] /\ batch' \in [Runs -> SUBSET Cells] /\ out' \in [Runs -> SUBSET Cells]
    BY <1>1, <1>2 DEF PutsTyped, Labels
  <1>4. First' = First /\ Last' = Last
    BY DEF First, Last
  <1>5. /\ out'[p] = batch[p] /\ batch'[p] = {} /\ pc'[p] \in {"batch", "last"}
        /\ num'[p] = num[p] /\ made'[p] = made[p] /\ num[p] \in Nat
    BY <1>1, <1>2, Ranges DEF PutsTyped
  <1>6. BatchInv(p)'
    <2>1. MadeUpTo(p)' = MadeUpTo(p)
      BY <1>5 DEF MadeUpTo
    <2>2. IsFiniteSet(batch'[p]) /\ Cardinality(batch'[p]) <= Bound(num'[p])
      BY <1>5, BoundNext, FS_EmptySet
    <2>3. /\ DOMAIN made[p] = First .. MadeUpTo(p) /\ out[p] = {}
          /\ \A n \in First .. MadeUpTo(p) : made[p][n] \in table \cup batch[p] \cup out[p]
      BY <1>1 DEF BatchInv
    <2>. QED
      BY <1>4, <1>5, <2>1, <2>2, <2>3 DEF BatchInv
  <1>7. \A q \in Runs \ {p} : Same(q)
    BY <1>1, <1>2 DEF Same, PutsTyped
  <1>8. \A q \in Runs : TableKept(q)
    BY <1>1 DEF TableKept
  <1>. QED
    BY <1>1, <1>3, <1>4, <1>6, <1>7, <1>8

LEMMA BatchPutKeepsPuts ==
    ASSUME PutsInv, NEW p \in Runs, BatchPut(p)
    PROVE PutsInv'
  <1>1. /\ program = "numbers" /\ pc[p] = "loop" /\ said' = [said EXCEPT ![p] = Current(p)]
        /\ Send(p, batch[p]) /\ Goto(p, "batch") /\ UNCHANGED <<program, table, num, row, made>>
    BY DEF BatchPut
  <1>2. PutsTyped /\ SaidInv(p) /\ pc'[p] = "batch"
    BY <1>1 DEF PutsInv, PutsTyped, Goto
  <1>3. /\ pc' \in [Runs -> Labels] /\ batch' \in [Runs -> SUBSET Cells]
        /\ out' \in [Runs -> SUBSET Cells] /\ First' = First /\ Last' = Last
        /\ BatchInv(p)' /\ (NeedsTable(p) => table \in SUBSET Cells)'
        /\ \A q \in Runs \ {p} : Same(q) /\ TableKept(q)
    BY <1>1, <1>2, SendKeeps
  <1>4. Current(p) \in Numbers /\ Current(p) <= num[p]
    BY <1>2, Ranges DEF PutsTyped, Current, Ends, Numbers
  <1>5. PutsTyped'
    BY <1>1, <1>2, <1>3, <1>4 DEF PutsTyped, Numbers
  <1>6. SaidInv(p)'
    BY <1>1, <1>2, <1>4 DEF SaidInv, Counted, PutsTyped
  <1>7. \A q \in Runs \ {p} : SameRun(q)
    BY <1>1, <1>2, <1>3 DEF SameRun, PutsTyped
  <1>. QED
    BY <1>1, <1>3, <1>5, <1>6, <1>7, StepKeeps

LEMMA PushBatchKeepsPuts ==
    ASSUME PutsInv, NEW p \in Runs, PushBatch(p)
    PROVE PutsInv'
  <1>1. /\ program = "words" /\ pc[p] = "loop" /\ ~Ends(p) /\ Full(p)
        /\ said' = [said EXCEPT ![p] = num[p]]
        /\ Send(p, batch[p]) /\ Goto(p, "batch") /\ UNCHANGED <<program, table, num, row, made>>
    BY DEF PushBatch
  <1>2. PutsTyped /\ SaidInv(p) /\ pc'[p] = "batch" /\ num[p] \in Numbers /\ First = 0 /\ num[p] <= Last
        /\ num[p] \in Nat
    BY <1>1, Ranges DEF PutsInv, PutsTyped, Goto, Ends, Numbers
  <1>3. /\ pc' \in [Runs -> Labels] /\ batch' \in [Runs -> SUBSET Cells]
        /\ out' \in [Runs -> SUBSET Cells] /\ First' = First /\ Last' = Last
        /\ BatchInv(p)' /\ (NeedsTable(p) => table \in SUBSET Cells)'
        /\ \A q \in Runs \ {p} : Same(q) /\ TableKept(q)
    BY <1>1, <1>2, SendKeeps
  <1>4. PutsTyped'
    BY <1>1, <1>2, <1>3 DEF PutsTyped, Numbers
  <1>5. SaidInv(p)'
    <2>1. said'[p] = num[p]
      BY <1>1, <1>2 DEF PutsTyped
    <2>2. Bound(num[p]) = BatchSize /\ BatchSize \in Nat \ {0}
      BY <1>1, ImportAssumption DEF Bound, Full
    <2>3. \A n \in 0 .. num[p] - BatchSize - 1 : made[p][n] \in table
      <3>1. CASE num[p] = 0
        BY <2>2, <3>1
      <3>2. CASE num[p] > 0
        BY <1>1, <1>2, <2>2, <3>2 DEF SaidInv
      <3>. QED
        BY <1>2, <3>1, <3>2
    <2>4. \A n \in Counted(p)' : made'[p][n] \in table'
      BY <1>1, <1>2, <2>1, <2>3 DEF Counted
    <2>. QED
      BY <1>1, <1>2, <2>1, <2>4 DEF SaidInv
  <1>6. \A q \in Runs \ {p} : SameRun(q)
    BY <1>1, <1>2, <1>3 DEF SameRun, PutsTyped
  <1>. QED
    BY <1>1, <1>3, <1>4, <1>5, <1>6, StepKeeps

LEMMA LastBatchKeepsPuts ==
    ASSUME PutsInv, NEW p \in Runs, LastBatch(p)
    PROVE PutsInv'
  <1>1. /\ program # "numbers" /\ pc[p] = "loop"
        /\ Send(p, batch[p]) /\ Goto(p, "last") /\ UNCHANGED <<program, table, num, row, made, said>>
    BY DEF LastBatch
  <1>2. PutsTyped /\ SaidInv(p) /\ pc'[p] = "last"
    BY <1>1 DEF PutsInv, PutsTyped, Goto
  <1>3. /\ pc' \in [Runs -> Labels] /\ batch' \in [Runs -> SUBSET Cells]
        /\ out' \in [Runs -> SUBSET Cells] /\ First' = First /\ Last' = Last
        /\ BatchInv(p)' /\ (NeedsTable(p) => table \in SUBSET Cells)'
        /\ \A q \in Runs \ {p} : Same(q) /\ TableKept(q)
    BY <1>1, <1>2, SendKeeps
  <1>4. PutsTyped'
    BY <1>1, <1>2, <1>3 DEF PutsTyped, Numbers
  <1>5. SaidInv(p)'
    BY <1>1, <1>2 DEF SaidInv, Counted
  <1>6. \A q \in Runs \ {p} : SameRun(q)
    BY <1>1, <1>3 DEF SameRun
  <1>. QED
    BY <1>1, <1>3, <1>4, <1>5, <1>6, StepKeeps

LEMMA PutOneRecordKeepsPuts ==
    ASSUME PutsInv, NEW p \in Runs, PutOneRecord(p)
    PROVE PutsInv'
  <1>1. /\ program = "numbers" /\ pc[p] = "batch" /\ out[p] = {}
        /\ out' = [out EXCEPT ![p] = {<<"small", Current(p)>>}] /\ batch' = [batch EXCEPT ![p] = {}]
        /\ pc' = [pc EXCEPT ![p] = "one"] /\ UNCHANGED <<program, table, num, row, made, said>>
    BY DEF PutOneRecord, Send, Goto, Returned
  <1>2. PutsTyped /\ BatchInv(p) /\ SaidInv(p) /\ table \in SUBSET Cells
    BY <1>1 DEF PutsInv, NeedsTable
  <1>3. /\ Current(p) \in 0 .. MaxRows /\ First' = First /\ Last' = Last
        /\ num[p] \in Nat /\ First \in Nat
    BY <1>1, <1>2, Ranges DEF PutsTyped, Current, Ends, First, Last
  <1>4. <<"small", Current(p)>> \in Cells
    BY <1>3 DEF Cells, NumberCells
  <1>5. PutsTyped'
    <2>1. out' \in [Runs -> SUBSET Cells] /\ batch' \in [Runs -> SUBSET Cells] /\ pc' \in [Runs -> Labels]
      BY <1>1, <1>2, <1>4 DEF PutsTyped, Labels
    <2>. QED
      BY <1>1, <1>2, <1>3, <2>1 DEF PutsTyped, Numbers
  <1>6. BatchInv(p)'
    <2>1. /\ out'[p] = {<<"small", Current(p)>>} /\ batch'[p] = {} /\ pc'[p] = "one"
      BY <1>1, <1>2 DEF PutsTyped
    <2>2. MadeUpTo(p)' = MadeUpTo(p) /\ batch[p] = {}
      BY <1>1, <1>2 DEF MadeUpTo, BatchInv
    <2>3. IsFiniteSet(batch'[p]) /\ Cardinality(batch'[p]) <= Bound(num'[p])
      <3>1. num'[p] = num[p] /\ 0 <= Bound(num[p])
        BY <1>1, <1>3, BoundNext, ImportAssumption
      <3>2. IsFiniteSet(batch'[p]) /\ Cardinality(batch'[p]) = 0
        BY <2>1, FS_EmptySet
      <3>. QED
        BY <3>1, <3>2
    <2>4. /\ DOMAIN made[p] = First .. MadeUpTo(p)
          /\ \A n \in First .. MadeUpTo(p) : made[p][n] \in table
      BY <1>1, <1>2, <2>2 DEF BatchInv
    <2>. QED
      BY <1>1, <1>3, <2>1, <2>2, <2>3, <2>4 DEF BatchInv
  <1>7. SaidInv(p)'
    BY <1>1, <1>2 DEF SaidInv, Counted
  <1>8. \A q \in Runs \ {p} : SameRun(q) /\ TableKept(q)
    BY <1>1, <1>2 DEF SameRun, Same, TableKept, PutsTyped
  <1>. QED
    BY <1>1, <1>2, <1>5, <1>6, <1>7, <1>8, StepKeeps

LEMMA FlushedKeepsPuts ==
    ASSUME PutsInv, NEW p \in Runs, Flushed(p)
    PROVE PutsInv'
  <1>1. /\ program = "transactions" /\ pc[p] = "batch" /\ out[p] = {}
        /\ said' = [said EXCEPT ![p] = num[p]] /\ num' = [num EXCEPT ![p] = @ + 1]
        /\ pc' = [pc EXCEPT ![p] = "loop"] /\ UNCHANGED <<program, table, row, made, batch, out>>
    BY DEF Flushed, Goto, Returned
  <1>2. PutsTyped /\ BatchInv(p) /\ SaidInv(p) /\ table \in SUBSET Cells
    BY <1>1 DEF PutsInv, NeedsTable
  <1>3. /\ First = 0 /\ Last \in Nat /\ First' = First /\ Last' = Last /\ num[p] \in 0 .. Last
    BY <1>1, <1>2, Ranges DEF PutsTyped, BatchInv, First, Last
  <1>4. said'[p] = num[p] /\ num'[p] = num[p] + 1 /\ pc'[p] = "loop"
    BY <1>1, <1>2 DEF PutsTyped
  <1>5. PutsTyped'
    <2>1. pc' \in [Runs -> Labels] /\ num' \in [Runs -> (First .. Last + 1)']
      BY <1>1, <1>2, <1>3 DEF PutsTyped, Labels
    <2>. QED
      BY <1>1, <1>2, <1>3, <2>1 DEF PutsTyped, Numbers
  <1>6. /\ batch[p] = {} /\ MadeUpTo(p) = num[p] /\ MadeUpTo(p)' = num[p]
        /\ DOMAIN made[p] = First .. num[p] /\ \A n \in First .. num[p] : made[p][n] \in table
    <2>1. MadeUpTo(p) = num[p] /\ MadeUpTo(p)' = num[p]
      BY <1>1, <1>3, <1>4 DEF MadeUpTo
    <2>. QED
      BY <1>1, <1>2, <2>1 DEF BatchInv
  <1>7. BatchInv(p)'
    <2>1. IsFiniteSet(batch'[p]) /\ Cardinality(batch'[p]) <= Bound(num'[p])
      BY <1>1, <1>3, <1>4, <1>6, BoundNext, FS_EmptySet
    <2>. QED
      BY <1>1, <1>3, <1>4, <1>6, <2>1 DEF BatchInv
  <1>8. SaidInv(p)'
    <2>1. \A n \in Counted(p)' : made'[p][n] \in table'
      BY <1>1, <1>3, <1>4, <1>6 DEF Counted
    <2>2. /\ program' = "transactions" /\ row'[p] \in (0 .. MaxRows) \cup {None}
          /\ said'[p] < num'[p] /\ said'[p] <= num'[p]
      BY <1>1, <1>2, <1>3, <1>4 DEF SaidInv
    <2>. QED
      BY <2>1, <2>2 DEF SaidInv
  <1>9. \A q \in Runs \ {p} : SameRun(q) /\ TableKept(q)
    BY <1>1, <1>2 DEF SameRun, Same, TableKept, PutsTyped
  <1>. QED
    BY <1>1, <1>2, <1>5, <1>7, <1>8, <1>9, StepKeeps

LEMMA FinishKeepsPuts ==
    ASSUME PutsInv, NEW p \in Runs, Finish(p)
    PROVE PutsInv'
  <1>1. /\ pc[p] \in {"one", "last"} /\ pc' = [pc EXCEPT ![p] = "done"]
        /\ UNCHANGED <<program, table, num, row, made, batch, out, said>>
    BY DEF Finish, Goto
  <1>2. PutsTyped /\ BatchInv(p) /\ SaidInv(p) /\ table \in SUBSET Cells /\ pc'[p] = "done"
    BY <1>1 DEF PutsInv, NeedsTable, PutsTyped
  <1>3. First' = First /\ Last' = Last /\ MadeUpTo(p)' = MadeUpTo(p) /\ Counted(p)' = Counted(p)
    BY <1>1, <1>2 DEF First, Last, MadeUpTo, Counted
  <1>4. PutsTyped'
    BY <1>1, <1>2, <1>3 DEF PutsTyped, Labels, Numbers
  <1>5. BatchInv(p)' /\ SaidInv(p)'
    BY <1>1, <1>2, <1>3 DEF BatchInv, SaidInv
  <1>6. \A q \in Runs \ {p} : SameRun(q) /\ TableKept(q)
    BY <1>1, <1>2 DEF SameRun, Same, TableKept, PutsTyped
  <1>. QED
    BY <1>1, <1>2, <1>4, <1>5, <1>6, StepKeeps

\* The start of a run: the table of "numbers" is made where there is none.
LEMMA StartsKeepPuts ==
    ASSUME PutsInv, Inv, NEW p \in Runs, CheckTable(p) \/ OpenTable(p) \/ CreateTable(p)
    PROVE PutsInv'
  <1>1. /\ pc[p] \in {"start", "create"}
        /\ \E label \in {"create", "refused", "loop", "gone"} :
              /\ pc' = [pc EXCEPT ![p] = label]
              /\ label \in {"create", "refused"} => program = "numbers"
              /\ program # "numbers" => label = "loop"
              /\ label = "loop" => program # "numbers" \/ table' = {}
        /\ UNCHANGED <<program, num, row, made, batch, out, said>>
        /\ table' = table \/ (program = "numbers" /\ table = None /\ table' = {})
    BY DEF CheckTable, OpenTable, CreateTable, Goto, PutsInv, BatchInv
  <1>2. PutsTyped /\ BatchInv(p) /\ SaidInv(p)
    BY DEF PutsInv
  <1>3. /\ First' = First /\ Last' = Last /\ First \in Nat
        /\ program # "numbers" => First = 0
    BY <1>1, <1>2, Ranges DEF PutsTyped, First, Last
  <1>4. PICK label \in {"create", "refused", "loop", "gone"} :
              /\ pc' = [pc EXCEPT ![p] = label] /\ pc'[p] = label
              /\ label \in {"create", "refused"} => program = "numbers"
              /\ label = "loop" => program # "numbers" \/ table' = {}
              /\ program # "numbers" => label = "loop"
    BY <1>1, <1>2 DEF PutsTyped
  <1>5. /\ num[p] = First /\ out[p] = {} /\ said[p] = None /\ batch[p] = {}
        /\ DOMAIN made[p] = First .. First - 1
    BY <1>1, <1>2 DEF BatchInv, MadeUpTo
  <1>6. PutsTyped'
    <2>1. pc' \in [Runs -> Labels]
      BY <1>2, <1>4 DEF PutsTyped, Labels
    <2>2. table' = None \/ table' \subseteq Cells
      BY <1>1, <1>2 DEF PutsTyped
    <2>. QED
      BY <1>1, <1>2, <1>3, <2>1, <2>2 DEF PutsTyped, Numbers
  <1>7. BatchInv(p)'
    <2>1. MadeUpTo(p)' = First - 1
      BY <1>1, <1>4, <1>5, <1>3 DEF MadeUpTo
    <2>2. \A n \in First .. First - 1 : FALSE
      BY <1>3
    <2>3. IsFiniteSet(batch'[p]) /\ Cardinality(batch'[p]) <= Bound(num'[p])
      BY <1>1, <1>2 DEF BatchInv
    <2>. QED
      BY <1>1, <1>3, <1>4, <1>5, <2>1, <2>2, <2>3 DEF BatchInv
  <1>8. SaidInv(p)'
    BY <1>1, <1>2, <1>3, <1>4, <1>5 DEF SaidInv, Counted
  <1>9. (NeedsTable(p) => table \in SUBSET Cells)'
    BY <1>1, <1>4, <1>5 DEF NeedsTable, PutsInv
  <1>10. ASSUME NEW q \in Runs \ {p} PROVE SameRun(q) /\ TableKept(q)
    <2>1. SameRun(q)
      BY <1>1, <1>2, <1>4 DEF SameRun, Same, PutsTyped
    <2>2. NeedsTable(q) /\ program = "numbers" => table # None
      BY <1>2 DEF NeedsTable, Inv, NumbersInv, RunInv, BatchInv, PutsInv
    <2>3. NeedsTable(q) => table \in SUBSET Cells
      BY DEF PutsInv
    <2>. QED
      BY <1>1, <2>1, <2>2, <2>3 DEF TableKept
  <1>. QED
    BY <1>1, <1>6, <1>7, <1>8, <1>9, <1>10, StepKeeps

LEMMA ArriveKeepsPuts ==
    ASSUME PutsInv, NEW p \in Runs, Arrive(p)
    PROVE PutsInv'
  <1>1. PICK cell \in out[p] : table' = table \cup {cell} /\ out' = [out EXCEPT ![p] = @ \ {cell}]
    BY DEF Arrive
  <1>2. UNCHANGED <<program, pc, num, row, made, batch, said>>
    BY DEF Arrive
  <1>3. PutsTyped /\ BatchInv(p) /\ SaidInv(p) /\ table \in SUBSET Cells /\ out[p] \in SUBSET Cells
    BY <1>1 DEF PutsInv, NeedsTable, PutsTyped
  <1>4. /\ First' = First /\ Last' = Last /\ MadeUpTo(p)' = MadeUpTo(p) /\ Counted(p)' = Counted(p)
        /\ table' \in SUBSET Cells /\ table \subseteq table' /\ out'[p] = out[p] \ {cell}
    BY <1>1, <1>2, <1>3 DEF First, Last, MadeUpTo, Counted, PutsTyped
  <1>5. PutsTyped'
    <2>1. out' \in [Runs -> SUBSET Cells]
      BY <1>1, <1>3 DEF PutsTyped
    <2>. QED
      BY <1>2, <1>3, <1>4, <2>1 DEF PutsTyped, Numbers
  <1>6. BatchInv(p)'
    <2>1. \A c \in table \cup batch[p] \cup out[p] : c \in table' \cup batch'[p] \cup out'[p]
      BY <1>1, <1>2, <1>4
    <2>. QED
      BY <1>1, <1>2, <1>3, <1>4, <2>1 DEF BatchInv
  <1>7. SaidInv(p)'
    BY <1>2, <1>3, <1>4 DEF SaidInv
  <1>8. \A q \in Runs \ {p} : SameRun(q) /\ TableKept(q)
    BY <1>1, <1>2, <1>3, <1>4 DEF SameRun, Same, TableKept, PutsTyped
  <1>. QED
    BY <1>2, <1>4, <1>5, <1>6, <1>7, <1>8, StepKeeps

LEMMA SpillKeepsPuts ==
    ASSUME PutsInv, NEW p \in Runs, Spill(p)
    PROVE PutsInv'
  <1>1. program = "transactions" /\ \E cell \in batch[p] : table' = table \cup {cell}
    BY DEF Spill
  <1>2. UNCHANGED <<program, pc, num, row, made, batch, out, said>>
    BY DEF Spill
  <1>3. PutsTyped /\ BatchInv(p) /\ SaidInv(p) /\ table \in SUBSET Cells /\ batch[p] \in SUBSET Cells
    BY <1>1 DEF PutsInv, NeedsTable, PutsTyped
  <1>4. /\ First' = First /\ Last' = Last /\ table' \in SUBSET Cells
    BY <1>1, <1>2, <1>3 DEF First, Last
  <1>5. PutsTyped'
    BY <1>2, <1>3, <1>4 DEF PutsTyped, Numbers
  <1>6. \A q \in Runs : SameRun(q) /\ TableKept(q)
    BY <1>1, <1>2, <1>3, <1>4 DEF SameRun, Same, TableKept
  <1>7. \A q \in Runs : BatchInv(q) /\ SaidInv(q)
    BY DEF PutsInv
  <1>. QED
    BY <1>2, <1>5, <1>6, <1>7, OthersKeepPuts DEF PutsInv

LEMMA CrashKeepsPuts ==
    ASSUME PutsInv, NEW p \in Runs, Crash(p) \/ Lose(p)
    PROVE PutsInv'
  <1>1. /\ pc'[p] = "gone" /\ batch'[p] = {} /\ out'[p] \subseteq out[p]
        /\ pc' \in [Runs -> Labels] /\ batch' \in [Runs -> SUBSET Cells] /\ out' \in [Runs -> SUBSET Cells]
        /\ \A q \in Runs \ {p} : Same(q)
        /\ UNCHANGED <<program, table, num, row, made, said>>
    <2>1. PutsTyped /\ BatchInv(p)
      BY DEF PutsInv
    <2>2. CASE Crash(p)
      BY <2>1, <2>2 DEF Crash, Goto, PutsTyped, Labels, Same
    <2>3. CASE Lose(p)
      BY <2>1, <2>3 DEF Lose, PutsTyped, Same, BatchInv
    <2>. QED
      BY <2>2, <2>3
  <1>2. PutsTyped /\ BatchInv(p) /\ SaidInv(p)
    BY DEF PutsInv
  <1>3. First' = First /\ Last' = Last /\ Counted(p)' = Counted(p) /\ num[p] \in Nat
    BY <1>1, <1>2, Ranges DEF First, Last, Counted, PutsTyped
  <1>4. PutsTyped'
    BY <1>1, <1>2, <1>3 DEF PutsTyped, Numbers
  <1>5. BatchInv(p)'
    <2>1. IsFiniteSet(batch'[p]) /\ Cardinality(batch'[p]) <= Bound(num'[p])
      BY <1>1, <1>3, BoundNext, FS_EmptySet
    <2>. QED
      BY <1>1, <2>1 DEF BatchInv
  <1>6. SaidInv(p)'
    BY <1>1, <1>2, <1>3 DEF SaidInv
  <1>7. NeedsTable(p)' => table' \in SUBSET Cells
    BY <1>1 DEF NeedsTable, PutsInv
  <1>8. \A q \in Runs \ {p} : SameRun(q) /\ TableKept(q)
    BY <1>1 DEF SameRun, TableKept, PutsInv
  <1>. QED
    BY <1>1, <1>4, <1>5, <1>6, <1>7, <1>8, StepKeeps

LEMMA DropTableKeepsPuts ==
    ASSUME PutsInv, DropTable
    PROVE PutsInv'
  <1>1. /\ program = "numbers" /\ table' = None
        /\ UNCHANGED <<program, pc, num, row, made, batch, out, said>>
        /\ \A q \in Runs : ~NeedsTable(q)
    BY DEF DropTable, Active, Returned, NeedsTable
  <1>2. PutsTyped'
    BY <1>1 DEF PutsInv, PutsTyped, First, Last, Numbers
  <1>3. \A q \in Runs : SameRun(q) /\ TableKept(q)
    BY <1>1 DEF SameRun, Same, TableKept
  <1>4. \A q \in Runs : BatchInv(q) /\ SaidInv(q)
    BY DEF PutsInv
  <1>. QED
    BY <1>1, <1>2, <1>3, <1>4, OthersKeepPuts DEF PutsInv

LEMMA InitPuts == Init => PutsInv
  <1>. SUFFICES ASSUME Init PROVE PutsInv
    OBVIOUS
  <1>1. program \in Programs /\ table \in {None, {}} /\ (program # "numbers" => table = {})
    BY DEF Init
  <1>2. First \in Nat /\ Last \in Nat /\ First < Last /\ (program # "numbers" => First = 0)
    BY <1>1, Ranges
  <1>3. PutsTyped
    BY <1>1, <1>2 DEF Init, PutsTyped, Labels
  <1>4. ASSUME NEW p \in Runs PROVE BatchInv(p) /\ SaidInv(p) /\ (NeedsTable(p) => table \in SUBSET Cells)
    <2>1. /\ pc[p] = "start" /\ num[p] = First /\ row[p] = None /\ said[p] = None
          /\ made[p] = <<>> /\ batch[p] = {} /\ out[p] = {}
      BY DEF Init
    <2>2. DOMAIN made[p] = First .. MadeUpTo(p)
      <3>1. MadeUpTo(p) = First - 1
        BY <1>2, <2>1 DEF MadeUpTo
      <3>2. First .. First - 1 = {}
        BY <1>2
      <3>3. DOMAIN << >> = {}
        OBVIOUS
      <3>. QED
        BY <2>1, <3>1, <3>2, <3>3
    <2>3. IsFiniteSet(batch[p]) /\ Cardinality(batch[p]) <= Bound(num[p])
      BY <1>2, <2>1, BoundNext, FS_EmptySet
    <2>4. BatchInv(p)
      BY <2>1, <2>2, <2>3 DEF BatchInv
    <2>5. SaidInv(p) /\ (NeedsTable(p) => table \in SUBSET Cells)
      BY <1>1, <1>2, <2>1 DEF SaidInv, Counted, NeedsTable
    <2>. QED
      BY <2>4, <2>5
  <1>. QED
    BY <1>3, <1>4 DEF PutsInv

LEMMA NextPuts == PutsInv /\ Inv /\ [Next]_vars => PutsInv'
  <1>. SUFFICES ASSUME PutsInv, Inv, [Next]_vars PROVE PutsInv'
    OBVIOUS
  <1>1. ASSUME NEW p \in Runs, Step(p) PROVE PutsInv'
    <2>1. CASE CheckTable(p) \/ CreateTable(p) \/ OpenTable(p)
      BY <2>1, StartsKeepPuts
    <2>2. CASE BatchPut(p)
      BY <2>2, BatchPutKeepsPuts
    <2>3. CASE PutOneRecord(p)
      BY <2>3, PutOneRecordKeepsPuts
    <2>4. CASE ImportNumber(p)
      BY <2>4, ImportNumberKeepsPuts
    <2>5. CASE PushBatch(p)
      BY <2>5, PushBatchKeepsPuts
    <2>6. CASE ImportWord(p)
      BY <2>6, ImportWordKeepsPuts
    <2>7. CASE PutTransaction(p)
      BY <2>7, PutTransactionKeepsPuts
    <2>8. CASE Flushed(p)
      BY <2>8, FlushedKeepsPuts
    <2>9. CASE LastBatch(p)
      BY <2>9, LastBatchKeepsPuts
    <2>10. CASE Finish(p)
      BY <2>10, FinishKeepsPuts
    <2>11. CASE Arrive(p)
      BY <2>11, ArriveKeepsPuts
    <2>12. CASE Spill(p)
      BY <2>12, SpillKeepsPuts
    <2>13. CASE Crash(p) \/ Lose(p)
      BY <2>13, CrashKeepsPuts
    <2>. QED
      BY <1>1, <2>1, <2>2, <2>3, <2>4, <2>5, <2>6, <2>7, <2>8, <2>9, <2>10, <2>11, <2>12, <2>13 DEF Step
  <1>2. CASE DropTable
    BY <1>2, DropTableKeepsPuts
  <1>3. CASE UNCHANGED vars
    BY <1>3 DEF vars, PutsInv, PutsTyped, BatchInv, SaidInv, NeedsTable, MadeUpTo, Counted, First, Last, Numbers
  <1>. QED
    BY <1>1, <1>2, <1>3 DEF Next

LEMMA PutsAlways == Spec => [](Inv /\ PutsInv)
  BY InitInv, NextInv, InitPuts, NextPuts, PTL DEF Spec

(* What the progress of a run counts is in the table, also after the run has *)
(* died (pushBatch, TransactionImporter.put), the variables have their       *)
(* types, and no batch has more cells than the size of a batch.              *)
THEOREM ProgressTellsOfTheTable == Spec => []ProgressIsStored
  <1>1. PutsInv => ProgressIsStored
    <2>. SUFFICES ASSUME PutsInv PROVE ProgressIsStored
      OBVIOUS
    <2>1. ASSUME NEW p \in Runs PROVE Cardinality(batch[p]) <= BatchSize
      <3>1. num[p] \in Nat /\ IsFiniteSet(batch[p]) /\ Cardinality(batch[p]) <= Bound(num[p])
        BY Ranges DEF PutsInv, PutsTyped, BatchInv
      <3>2. Bound(num[p]) \in 1 .. BatchSize /\ Cardinality(batch[p]) \in Nat
            /\ BatchSize \in Nat
        BY <3>1, BoundNext, FS_CardinalityType, ImportAssumption
      <3>. QED
        BY <3>1, <3>2
    <2>2. \A p \in Runs : \A n \in Counted(p) : made[p][n] \in table
      BY DEF PutsInv, SaidInv
    <2>. QED
      BY <2>1, <2>2 DEF PutsInv, PutsTyped, ProgressIsStored, TypeOK
  <1>. QED
    BY <1>1, PutsAlways, PTL

(* A run that ends has sent the batch it was left with after its loop, and   *)
(* every one of its cells is in the table.                                   *)
THEOREM RunsEndComplete == Spec => DoneIsComplete
  <1>. DEFINE Complete ==
         \A p \in Runs : pc[p] # "done" /\ pc'[p] = "done" =>
             DOMAIN made[p] = Numbers /\ \A n \in Numbers : made[p][n] \in table'
  <1>1. PutsInv /\ [Next]_vars => [Complete]_vars
    <2>. SUFFICES ASSUME PutsInv, Next, NEW p \in Runs, pc[p] # "done", pc'[p] = "done"
         PROVE DOMAIN made[p] = Numbers /\ \A n \in Numbers : made[p][n] \in table'
      OBVIOUS
    <2>1. Finish(p)
      <3>1. PutsTyped
        BY DEF PutsInv
      <3>2. ASSUME NEW q \in Runs, Step(q) PROVE q = p /\ Finish(p)
        <4>1. /\ ~(BatchPut(q) \/ PutOneRecord(q) \/ ImportNumber(q))
              /\ ~(PushBatch(q) \/ ImportWord(q) \/ Flushed(q) \/ LastBatch(q))
          BY <3>1 DEF PutsTyped, BatchPut, PutOneRecord, ImportNumber, PushBatch, ImportWord, Flushed,
                      LastBatch, MakeCell, Goto
        <4>2. ~(CheckTable(q) \/ CreateTable(q) \/ OpenTable(q) \/ Crash(q) \/ Lose(q)
                \/ Arrive(q) \/ Spill(q))
          BY <3>1 DEF PutsTyped, CheckTable, CreateTable, OpenTable, Crash, Lose, Arrive, Spill, Goto
        <4>3. ~PutTransaction(q)
          BY <3>1 DEF PutsTyped, PutTransaction, MakeCell, Goto
        <4>4. Finish(q)
          BY <3>2, <4>1, <4>2, <4>3 DEF Step
        <4>5. q = p
          BY <3>1, <4>4 DEF PutsTyped, Finish, Goto
        <4>. QED
          BY <4>4, <4>5
      <3>3. ~DropTable
        BY DEF DropTable
      <3>. QED
        BY <3>2, <3>3 DEF Next
    <2>2. /\ pc[p] \in {"one", "last"} /\ num[p] > Last /\ out[p] = {} /\ table' = table
      BY <2>1 DEF Finish, Ends, Returned
    <2>3. num[p] \in First .. Last + 1 /\ First \in Nat /\ Last \in Nat
      BY Ranges DEF PutsInv, PutsTyped
    <2>4. MadeUpTo(p) = Last
      BY <2>2, <2>3 DEF MadeUpTo
    <2>5. /\ DOMAIN made[p] = First .. Last /\ batch[p] = {}
          /\ \A n \in First .. Last : made[p][n] \in table
      BY <2>2, <2>4 DEF PutsInv, BatchInv
    <2>. QED
      BY <2>2, <2>5 DEF Numbers
  <1>. QED
    BY <1>1, PutsAlways, PTL DEF Spec, DoneIsComplete

=============================================================================
