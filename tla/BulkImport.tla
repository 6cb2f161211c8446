----------------------------- MODULE BulkImport -----------------------------
(***************************************************************************)
(* The programs that fill an HBase table in batches: insert_random_words.py*)
(* of colfam_flush ("numbers") and of random_words_python ("words"), which *)
(* send their batches through the Thrift server, and TransactionImporter   *)
(* ("transactions"), whose client buffers the puts.  Runs of one program   *)
(* may overlap and die.  A put arrives row by row, in any order within its *)
(* batch.  A cell is <<column or row, number>>.                            *)
(***************************************************************************)
EXTENDS Integers, FiniteSets

CONSTANTS None, Runs, Programs,
          MaxRows,    \* max_rows, num_rows, numRows
          BatchSize,  \* batch_size, batchsize, flushEvery
          Words       \* indices into the dictionary

NumberCells == {"big", "small"} \X (0 .. MaxRows)
Cells == NumberCells \cup ((Words \cup Runs) \X (0 .. MaxRows))

ASSUME ImportAssumption ==
    /\ Programs \subseteq {"numbers", "words", "transactions"}
    /\ MaxRows \in Nat /\ MaxRows > 2 /\ BatchSize \in Nat \ {0}
    /\ \A cells \in SUBSET NumberCells : cells # None

VARIABLES
    program,
    table,   \* its cells, or None
    pc, num, \* where a run is, the number of its loop
    row,     \* the word of its batch, or the key of its last transaction
    made,    \* the cell it made for each number
    batch,   \* what it has not sent yet
    out,     \* what is under way in the call it waits for
    said     \* the number of its last line of progress

vars == <<program, table, pc, num, row, made, batch, out, said>>

First == IF program = "numbers" THEN 1 ELSE 0
Last == CASE program = "numbers" -> MaxRows - 1
          [] program = "words" -> MaxRows - 2
          [] OTHER -> MaxRows
Numbers == First .. Last

Init ==
    /\ program \in Programs
    /\ table = IF program = "numbers" THEN None ELSE {}
    /\ pc = [p \in Runs |-> "start"] /\ num = [p \in Runs |-> First]
    /\ row = [p \in Runs |-> None] /\ said = [p \in Runs |-> None]
    /\ made = [p \in Runs |-> <<>>]
    /\ batch = [p \in Runs |-> {}] /\ out = [p \in Runs |-> {}]

-----------------------------------------------------------------------------
Goto(p, label) == pc' = [pc EXCEPT ![p] = label]
Ends(p) == num[p] > Last
Full(p) == num[p] % BatchSize = 0

\* Mutant: the batch is not emptied.
Send_NoReset(p, cells) ==
    out' = [out EXCEPT ![p] = cells] /\ batch' = [batch EXCEPT ![p] = cells]

\* mutateRows, mutateRow or flushCommits; it returns when Returned(p).
Send(p, cells) ==
    out' = [out EXCEPT ![p] = cells] /\ batch' = [batch EXCEPT ![p] = {}]
Returned(p) == out[p] = {}

MakeCell(p, cell) ==
    /\ made' = [made EXCEPT ![p] = [n \in First .. num[p] |-> IF n = num[p] THEN cell ELSE @[n]]]
    /\ batch' = [batch EXCEPT ![p] = @ \cup {cell}]
    /\ num' = [num EXCEPT ![p] = @ + 1]
    /\ Goto(p, "loop")

(* Starts *)
\* Mutant: an existing table is imported into.
CheckTable_Ignored(p) ==
    /\ program = "numbers" /\ pc[p] = "start"
    /\ Goto(p, IF table = None THEN "create" ELSE "loop")
    /\ UNCHANGED <<program, table, num, row, made, batch, out, said>>

CheckTable(p) ==
    /\ program = "numbers" /\ pc[p] = "start"
    /\ Goto(p, IF table = None THEN "create" ELSE "refused")
    /\ UNCHANGED <<program, table, num, row, made, batch, out, said>>

\* createTable raises if another run was faster.
CreateTable(p) ==
    /\ pc[p] = "create"
    /\ table' = IF table = None THEN {} ELSE table
    /\ Goto(p, IF table = None THEN "loop" ELSE "gone")
    /\ UNCHANGED <<program, num, row, made, batch, out, said>>

OpenTable(p) ==
    /\ program # "numbers" /\ pc[p] = "start"
    /\ Goto(p, "loop")
    /\ UNCHANGED <<program, table, num, row, made, batch, out, said>>

-----------------------------------------------------------------------------
(* numbers: at every batch, and after the loop, the batch of "bigcf" and     *)
(* then the one record of "smallcf"; a progress line before.                 *)
Current(p) == IF Ends(p) THEN Last ELSE num[p]

\* Mutant: the one record goes with the batch.
BatchPut_Together(p) ==
    /\ program = "numbers" /\ pc[p] = "loop" /\ (Ends(p) \/ Full(p))
    /\ said' = [said EXCEPT ![p] = Current(p)]
    /\ Send(p, batch[p] \cup {<<"small", Current(p)>>}) /\ Goto(p, "batch")
    /\ UNCHANGED <<program, table, num, row, made>>

BatchPut(p) ==
    /\ program = "numbers" /\ pc[p] = "loop" /\ (Ends(p) \/ Full(p))
    /\ said' = [said EXCEPT ![p] = Current(p)]
    /\ Send(p, batch[p]) /\ Goto(p, "batch")
    /\ UNCHANGED <<program, table, num, row, made>>

PutOneRecord(p) ==
    /\ program = "numbers" /\ pc[p] = "batch" /\ Returned(p)
    /\ Send(p, {<<"small", Current(p)>>}) /\ Goto(p, "one")
    /\ UNCHANGED <<program, table, num, row, made, said>>

ImportNumber(p) ==
    /\ program = "numbers" /\ ~Ends(p)
    /\ \/ pc[p] = "loop" /\ ~Full(p)
       \/ pc[p] = "one" /\ Returned(p)
    /\ MakeCell(p, <<"big", num[p]>>)
    /\ UNCHANGED <<program, table, row, out, said>>

(* words: the mutations of a batch are all of one row, whose word is chosen  *)
(* when the batch before it was sent; the first that is sent is empty.       *)
PushBatch(p) ==
    /\ program = "words" /\ pc[p] = "loop" /\ ~Ends(p) /\ Full(p)
    /\ said' = [said EXCEPT ![p] = num[p]]
    /\ Send(p, batch[p]) /\ Goto(p, "batch")
    /\ UNCHANGED <<program, table, num, row, made>>

ImportWord(p) ==
    /\ program = "words" /\ ~Ends(p)
    /\ IF Full(p) THEN pc[p] = "batch" /\ Returned(p) /\ \E w \in Words : row' = [row EXCEPT ![p] = w]
       ELSE pc[p] = "loop" /\ UNCHANGED row
    /\ MakeCell(p, <<row'[p], num[p]>>)
    /\ UNCHANGED <<program, table, out, said>>

(* transactions: a key is the time in milliseconds and the symbol, so that   *)
(* two transactions in a row may have one key.                               *)
PutTransaction(p) ==
    /\ program = "transactions" /\ pc[p] = "loop" /\ ~Ends(p)
    /\ \E key \in {num[p], row[p]} \ {None} :
          /\ row' = [row EXCEPT ![p] = key]
          /\ made' = [made EXCEPT ![p] =
                [n \in First .. num[p] |-> IF n = num[p] THEN <<p, key>> ELSE @[n]]]
          /\ IF Full(p) THEN Send(p, batch[p] \cup {<<p, key>>}) /\ Goto(p, "batch") /\ UNCHANGED num
             ELSE MakeCell(p, <<p, key>>) /\ UNCHANGED out
    /\ UNCHANGED <<program, table, said>>

\* Mutant: the progress is printed while the flush is under way.
Flushed_Early(p) ==
    /\ program = "transactions" /\ pc[p] = "batch"
    /\ said' = [said EXCEPT ![p] = num[p]]
    /\ num' = [num EXCEPT ![p] = @ + 1]
    /\ Goto(p, "loop")
    /\ UNCHANGED <<program, table, row, made, batch, out>>

Flushed(p) ==
    /\ program = "transactions" /\ pc[p] = "batch" /\ Returned(p)
    /\ said' = [said EXCEPT ![p] = num[p]]
    /\ num' = [num EXCEPT ![p] = @ + 1]
    /\ Goto(p, "loop")
    /\ UNCHANGED <<program, table, row, made, batch, out>>

\* Mutant: what is left after the loop is not sent.
LastBatch_Forgotten(p) ==
    /\ program # "numbers" /\ pc[p] = "loop" /\ Ends(p)
    /\ Goto(p, "last")
    /\ UNCHANGED <<program, table, num, row, made, batch, out, said>>

\* After the loop.
LastBatch(p) ==
    /\ program # "numbers" /\ pc[p] = "loop" /\ Ends(p)
    /\ Send(p, batch[p]) /\ Goto(p, "last")
    /\ UNCHANGED <<program, table, num, row, made, said>>

Finish(p) ==
    /\ pc[p] \in {"one", "last"} /\ Ends(p) /\ Returned(p)
    /\ Goto(p, "done")
    /\ UNCHANGED <<program, table, num, row, made, batch, out, said>>

-----------------------------------------------------------------------------
\* The servers apply the puts of a call one by one.
Arrive(p) ==
    /\ \E cell \in out[p] :
          table' = table \cup {cell} /\ out' = [out EXCEPT ![p] = @ \ {cell}]
    /\ UNCHANGED <<program, pc, num, row, made, batch, said>>

\* A client whose write buffer is full sends some of it early.
Spill(p) ==
    /\ program = "transactions"
    /\ \E cell \in batch[p] : table' = table \cup {cell}
    /\ UNCHANGED <<program, pc, num, row, made, batch, out, said>>

Active(p) == pc[p] \in {"create", "loop", "batch", "one", "last"}

\* What is under way then may still arrive, or some of it not.
Crash(p) ==
    /\ Active(p)
    /\ Goto(p, "gone")
    /\ batch' = [batch EXCEPT ![p] = {}]
    /\ UNCHANGED <<program, table, num, row, made, out, said>>

Lose(p) ==
    /\ pc[p] = "gone" /\ ~Returned(p)
    /\ out' = [out EXCEPT ![p] = {}]
    /\ UNCHANGED <<program, table, pc, num, row, made, batch, said>>

\* What a refused run asks for; by hand, when no run is active or has left
\* anything under way.
DropTable ==
    /\ program = "numbers" /\ table # None
    /\ \A p \in Runs : (Active(p) => pc[p] = "create") /\ Returned(p)
    /\ table' = None
    /\ UNCHANGED <<program, pc, num, row, made, batch, out, said>>

Step(p) ==
    \/ CheckTable(p) \/ CreateTable(p) \/ OpenTable(p)
    \/ BatchPut(p) \/ PutOneRecord(p) \/ ImportNumber(p)
    \/ PushBatch(p) \/ ImportWord(p)
    \/ PutTransaction(p) \/ Flushed(p)
    \/ LastBatch(p) \/ Finish(p)
    \/ Arrive(p) \/ Spill(p) \/ Crash(p) \/ Lose(p)

Next == DropTable \/ \E p \in Runs : Step(p)

Spec == Init /\ [][Next]_vars

-----------------------------------------------------------------------------
Labels == {"start", "create", "refused", "loop", "batch", "one", "last", "done", "gone"}
TypeOK ==
    /\ program \in Programs
    /\ table = None \/ table \subseteq Cells
    /\ pc \in [Runs -> Labels] /\ num \in [Runs -> First .. Last + 1]
    /\ said \in [Runs -> Numbers \cup {None}] /\ DOMAIN row = Runs /\ DOMAIN made = Runs
    /\ batch \in [Runs -> SUBSET Cells] /\ out \in [Runs -> SUBSET Cells]
    /\ \A p \in Runs : Cardinality(batch[p]) <= BatchSize

(* A number in the small column family tells that the big one has all those  *)
(* before it, whichever run died when, and before it was dropped and made    *)
(* again.                                                                    *)
SmallAfterBig ==
    program = "numbers" /\ table # None =>
        \A n \in Numbers : <<"small", n>> \in table =>
            \A k \in 1 .. n - 1 : <<"big", k>> \in table

(* A table that a run found is not modified by it: one run writes it.        *)
OneWriter ==
    program = "numbers" =>
        \A p, q \in Runs : Active(p) /\ Active(q) /\ pc[p] # "create" /\ pc[q] # "create" => p = q

(* What the progress of a run counts is in the table, also after the run has *)
(* died: "Flushed n" the puts up to n, "Pushing x" those before the batch    *)
(* that it is about to send, and all before x once that call has returned.   *)
Counted(p) ==
    IF said[p] = None THEN {}
    ELSE CASE program = "transactions" -> 0 .. said[p]
           [] program = "words" /\ num[p] > said[p] -> 0 .. said[p] - 1
           [] program = "words" /\ num[p] = said[p] -> 0 .. said[p] - BatchSize - 1
           [] OTHER -> {}

ProgressIsStored ==
    /\ TypeOK
    /\ \A p \in Runs : \A n \in Counted(p) : made[p][n] \in table

(* A run that ends has left every one of its cells in the table.             *)
DoneIsComplete ==
    [][\A p \in Runs : pc[p] # "done" /\ pc'[p] = "done" =>
          DOMAIN made[p] = Numbers /\ \A n \in Numbers : made[p][n] \in table']_vars
=============================================================================
