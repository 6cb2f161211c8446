----------------------------- MODULE HBaseTable -----------------------------
(***************************************************************************)
(* One HBase table as the Java clients of hbase/apitests see it (external: *)
(* the master's administration calls and the row operations of the region  *)
(* servers).  A call either takes effect or throws; the operators below    *)
(* are the effect, and the guards are what makes the call throw.           *)
(***************************************************************************)
EXTENDS Integers, FiniteSets

CONSTANTS
    Clients,    \* client processes
    Times       \* the row keys blast can produce (milliseconds)

NoValue == "none"

ASSUME TableAssumption == NoValue \notin Clients

VARIABLES
    exists,       \* is there a table?
    enabled,      \* is it enabled?
    incarnation,  \* how often it has been created
    first, last,  \* the cells firstname and lastname of row rowkey1
    blasted       \* the rows of blast: the writer of each key, or NoValue

tableVars == <<exists, enabled, incarnation, first, last, blasted>>

EmptyRows ==
    /\ first' = NoValue /\ last' = NoValue
    /\ blasted' = [k \in Times |-> NoValue]

TableInit ==
    /\ exists \in BOOLEAN /\ enabled = TRUE /\ incarnation = 0
    /\ first = NoValue /\ last = NoValue
    /\ blasted = [k \in Times |-> NoValue]

TableTypeOK ==
    /\ exists \in BOOLEAN /\ enabled \in BOOLEAN /\ incarnation \in Nat
    /\ first \in {NoValue, "Jokey"} /\ last \in {NoValue, "Smurf"}
    /\ blasted \in [Times -> Clients \cup {NoValue}]

Online == exists /\ enabled

(* disableTable throws TableNotFound or TableNotEnabled otherwise. *)
CanDisable == exists /\ enabled
Disable    == enabled' = FALSE /\ UNCHANGED <<exists, incarnation, first, last, blasted>>

(* deleteTable throws TableNotFound or TableNotDisabled otherwise. *)
CanDelete == exists /\ ~enabled
Delete    == exists' = FALSE /\ EmptyRows /\ UNCHANGED <<enabled, incarnation>>

(* createTable throws TableExists otherwise; a new table is enabled. *)
CanCreate == ~exists
Create    == /\ exists' = TRUE /\ enabled' = TRUE
             /\ incarnation' = incarnation + 1
             /\ UNCHANGED <<first, last, blasted>>

(* checkAndPut is atomic on its row. *)
PutFirstIfAbsent ==
    /\ first' = IF first = NoValue THEN "Jokey" ELSE first
    /\ UNCHANGED <<exists, enabled, incarnation, last, blasted>>

PutLastIfFirst ==
    /\ last' = IF first = "Jokey" THEN "Smurf" ELSE last
    /\ UNCHANGED <<exists, enabled, incarnation, first, blasted>>

PutRow(k, c) ==
    /\ blasted' = [blasted EXCEPT ![k] = c]
    /\ UNCHANGED <<exists, enabled, incarnation, first, last>>
=============================================================================
