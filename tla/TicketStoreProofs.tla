-------------------------- MODULE TicketStoreProofs --------------------------
(***************************************************************************)
(* Theorems about TicketStore, for any number of writers, any batches,     *)
(* faults and bounds: its types, its locks, what it keeps, the deadlocks   *)
(* it cannot have, and that it implements BatchUpsert.                     *)
(***************************************************************************)
EXTENDS TicketStore, BatchEffectProofs, SequenceTheorems

(***************************************************************************)
(* What the statement makes of a row.                                      *)
(***************************************************************************)

(* The INSERT and the UPDATE both leave a row, never "no row". *)
LEMMA UpsertedRowType ==
  ASSUME NEW old \in Row \cup {NoRow}, NEW t \in Ticket
  PROVE  UpsertedRow(old, t) \in Row
BY DEF UpsertedRow, InsertedRow, UpdatedRow, Coalesce, Row, Ticket

(* The statement keeps the text and the known dates of the row it updates. *)
LEMMA UpsertedRowKeeps ==
  ASSUME NEW old \in Row, NEW t \in Ticket
  PROVE  KeepsTextAndDates(old, UpsertedRow(old, t))
<1>1. old # NoRow
  BY NoRowAssumption
<1>2. UpsertedRow(old, t) # NoRow
  BY UpsertedRowType, NoRowAssumption
<1>3. UpsertedRow(old, t) = UpdatedRow(old, t)
  BY <1>1 DEF UpsertedRow
<1> QED
  BY <1>2, <1>3 DEF KeepsTextAndDates, UpdatedRow, Coalesce, Row, Ticket

(* The ticket of the next turn of the loop is one of the batch. *)
LEMMA NextTicketType ==
  ASSUME TypeOK, NEW w \in Writers, RowsLeft(w)
  PROVE  NextTicket(w) \in Ticket
BY DEF TypeOK, RowsLeft, NextTicket

(* The empty table is a table. *)
LEMMA EmptyTableType == EmptyTable \in Contents
BY DEF EmptyTable, Contents

(* What a transaction sees of a row is a row or none. *)
LEMMA CurrentRowType ==
  ASSUME TypeOK, NEW w \in Writers, NEW i \in Ids
  PROVE  CurrentRow(w, i) \in Row \cup {NoRow}
BY DEF TypeOK, CurrentRow, Contents

-----------------------------------------------------------------------------
(***************************************************************************)
(* Type correctness.                                                       *)
(***************************************************************************)

(* Each action keeps the types; Rollback is shared by several of them. *)
LEMMA ReturnType ==
  ASSUME TypeOK, NEW w \in Writers,
         NEW r \in [kind : {"none", "failed", "stored"}, count : Nat],
         Return(w, r)
  PROVE  /\ pc' \in [Writers -> Steps]
         /\ result' \in [Writers -> [kind : {"none", "failed", "stored"}, count : Nat]]
         /\ batch' \in [Writers -> Seq(Ticket)]
         /\ next' \in [Writers -> Nat \ {0}]
         /\ stored' \in [Writers -> Nat]
BY DEF TypeOK, Return, Steps

(* The end of a transaction keeps the types of what it resets. *)
LEMMA EndTransactionType ==
  ASSUME TypeOK, NEW w \in Writers, EndTransaction(w)
  PROVE  /\ staged' \in [Writers -> Contents]
         /\ created' \in [Writers -> BOOLEAN]
         /\ tableLock' \in [Writers -> {"none", "row", "exclusive"}]
BY EmptyTableType DEF TypeOK, EndTransaction

(* A commit leaves a table of rows. *)
LEMMA PublishType ==
  ASSUME TypeOK, NEW w \in Writers, Publish(w)
  PROVE  rows' \in Contents /\ tableExists' \in BOOLEAN
BY CurrentRowType DEF TypeOK, Publish, Contents, TableVisible

(* The outcomes of a call are outcomes. *)
LEMMA ResultTypes ==
  /\ NoResult \in [kind : {"none", "failed", "stored"}, count : Nat]
  /\ Failed \in [kind : {"none", "failed", "stored"}, count : Nat]
  /\ \A n \in Nat : Stored(n) \in [kind : {"none", "failed", "stored"}, count : Nat]
BY DEF NoResult, Failed, Stored

(* A failed call keeps the types. *)
LEMMA RollbackType ==
  ASSUME TypeOK, NEW w \in Writers, Rollback(w), faults' \in 0..MaxFaults
  PROVE  TypeOK'
BY ReturnType, EndTransactionType, ResultTypes DEF TypeOK, Rollback, dbVars

(* Every step keeps the types. *)
LEMMA StepType ==
  ASSUME TypeOK, [Next]_vars
  PROVE  TypeOK'
<1>0. TxnSteps \subseteq Steps /\ "start" \in Steps /\ "idle" \in Steps
  BY DEF Steps
<1> USE BoundsAssumption
<1>1. ASSUME NEW w \in Writers, CallSaveMany(w)
      PROVE  TypeOK'
  <2>1. batch' \in [Writers -> Seq(Ticket)]
    BY <1>1, BatchesAssumption DEF CallSaveMany, TypeOK
  <2>2. calls' \in [Writers -> 0..MaxSaves]
    BY <1>1 DEF CallSaveMany, TypeOK
  <2>3. pc' \in [Writers -> Steps]
    BY <1>1, <1>0 DEF CallSaveMany, GoTo, TypeOK
  <2>4. result' \in [Writers -> [kind : {"none", "failed", "stored"}, count : Nat]]
    BY <1>1, ResultTypes DEF CallSaveMany, TypeOK
  <2> QED
    BY <1>1, <2>1, <2>2, <2>3, <2>4 DEF CallSaveMany, TypeOK, dbVars, txnVars
<1>2. ASSUME NEW w \in Writers, ReturnEmpty(w)
      PROVE  TypeOK'
  BY <1>2, ReturnType, ResultTypes DEF ReturnEmpty, TypeOK, dbVars, txnVars, boundVars
<1>3. ASSUME NEW w \in Writers, Connect(w)
      PROVE  TypeOK'
  BY <1>3, <1>0 DEF Connect, GoTo, TypeOK, TxnSteps, dbVars, txnVars, callVars, boundVars
<1>4. ASSUME NEW w \in Writers, ConnectFails(w)
      PROVE  TypeOK'
  <2>1. faults' \in 0..MaxFaults
    BY <1>4 DEF ConnectFails, TypeOK
  <2> QED
    BY <1>4, <2>1, ReturnType, ResultTypes DEF ConnectFails, TypeOK, dbVars, txnVars
<1>5. ASSUME NEW w \in Writers, SkipSchema(w)
      PROVE  TypeOK'
  BY <1>5, <1>0 DEF SkipSchema, GoTo, TypeOK, TxnSteps, dbVars, txnVars, callVars, boundVars
<1>6. ASSUME NEW w \in Writers, CheckTable(w)
      PROVE  TypeOK'
  BY <1>6, <1>0 DEF CheckTable, GoTo, TypeOK, TxnSteps, dbVars, txnVars, callVars, boundVars
<1>7. ASSUME NEW w \in Writers, CreateTable(w)
      PROVE  TypeOK'
  BY <1>7, <1>0 DEF CreateTable, GoTo, TypeOK, TxnSteps, dbVars, callVars, boundVars
<1>8. ASSUME NEW w \in Writers, RunMigrations(w)
      PROVE  TypeOK'
  BY <1>8, <1>0 DEF RunMigrations, GoTo, TypeOK, TxnSteps, dbVars, callVars, boundVars
<1>9. ASSUME NEW w \in Writers, UpsertNext(w)
      PROVE  TypeOK'
  <2> DEFINE t == NextTicket(w)
             old == CurrentRow(w, t.id)
  <2>1. t \in Ticket
    BY <1>9, NextTicketType DEF UpsertNext
  <2>2. t.id \in Ids
    BY <2>1 DEF Ticket
  <2>3. UpsertedRow(old, t) \in Row
    BY <2>1, <2>2, CurrentRowType, UpsertedRowType
  <2>4. staged' \in [Writers -> Contents]
    <3>1. staged' = [staged EXCEPT ![w][t.id] = UpsertedRow(old, t)]
      BY <1>9 DEF UpsertNext
    <3> HIDE DEF t, old
    <3> QED
      BY <2>2, <2>3, <3>1 DEF TypeOK, Contents
  <2>5. stored' \in [Writers -> Nat] /\ next' \in [Writers -> Nat \ {0}]
    BY <1>9 DEF UpsertNext, TypeOK, InsertedOne
  <2>6. tableLock' \in [Writers -> {"none", "row", "exclusive"}]
    BY <1>9 DEF UpsertNext, TypeOK, InsertedOne
  <2> QED
    BY <1>9, <2>4, <2>5, <2>6 DEF UpsertNext, TypeOK, dbVars, boundVars
<1>10. ASSUME NEW w \in Writers, Commit(w)
       PROVE  TypeOK'
  <2>1. Stored(stored[w]) \in [kind : {"none", "failed", "stored"}, count : Nat]
    BY ResultTypes DEF TypeOK
  <2> QED
    BY <1>10, <2>1, ReturnType, PublishType, EndTransactionType
    DEF Commit, TypeOK, boundVars
<1>11. ASSUME NEW w \in Writers, TableAlreadyCreated(w) \/ TableMissing(w) \/ DeadlockVictim(w)
       PROVE  TypeOK'
  BY <1>11, RollbackType DEF TableAlreadyCreated, TableMissing, DeadlockVictim, TypeOK
<1>12. ASSUME NEW w \in Writers, CommitAnswerLost(w)
       PROVE  TypeOK'
  <2>1. faults' \in 0..MaxFaults
    BY <1>12 DEF CommitAnswerLost, TypeOK
  <2> QED
    BY <1>12, <2>1, ReturnType, PublishType, EndTransactionType, ResultTypes
    DEF CommitAnswerLost, TypeOK
<1>13. ASSUME NEW w \in Writers, StatementFails(w)
       PROVE  TypeOK'
  <2>1. faults' \in 0..MaxFaults
    BY <1>13 DEF StatementFails, TypeOK
  <2> QED
    BY <1>13, <2>1, RollbackType DEF StatementFails
<1>14. ASSUME NEW w \in Writers, Crash(w)
       PROVE  TypeOK'
  <2>1. rows' \in Contents /\ tableExists' \in BOOLEAN
    BY <1>14, PublishType DEF Crash, TypeOK, dbVars
  <2>2. schemaInitialized' \in [Writers -> BOOLEAN]
    BY <1>14 DEF Crash, TypeOK
  <2>3. faults' \in 0..MaxFaults
    BY <1>14 DEF Crash, TypeOK
  <2> QED
    BY <1>14, <2>1, <2>2, <2>3, ReturnType, EndTransactionType, ResultTypes
    DEF Crash, TypeOK
<1>15. CASE UNCHANGED vars
  BY <1>15 DEF vars, TypeOK
<1> QED
  BY <1>1, <1>2, <1>3, <1>4, <1>5, <1>6, <1>7, <1>8, <1>9, <1>10, <1>11,
     <1>12, <1>13, <1>14, <1>15
  DEF Next, Proceed, Fault, Terminated

(* Every reachable state is well typed: rows are rows, a lock is one of    *)
(* the modelled modes, the loop position and the count are naturals.       *)
THEOREM TypeCorrect == Spec => []TypeOK
<1>1. Init => TypeOK
  BY EmptyTableType, ResultTypes, BoundsAssumption DEF Init, TypeOK, Steps
<1>2. TypeOK /\ [Next]_vars => TypeOK'
  BY StepType
<1> QED
  BY <1>1, <1>2, PTL DEF Spec

-----------------------------------------------------------------------------
(***************************************************************************)
(* Committed rows keep their text and their known dates.                   *)
(***************************************************************************)

(* A row keeps its own text and dates. *)
LEMMA KeepsIsReflexive ==
  ASSUME NEW r \in Row
  PROVE  KeepsTextAndDates(r, r)
BY NoRowAssumption DEF KeepsTextAndDates

(* Keeping the text and the dates is transitive. *)
LEMMA KeepsIsTransitive ==
  ASSUME NEW a, NEW b, NEW c,
         KeepsTextAndDates(a, b), KeepsTextAndDates(b, c)
  PROVE  KeepsTextAndDates(a, c)
BY DEF KeepsTextAndDates

(* Publishing w's versions replaces a committed row by one that keeps it.  *)
LEMMA PublishKeeps ==
  ASSUME TypeOK, RowLockInvariant, NEW w \in Writers, Publish(w),
         NEW i \in Ids, rows[i] # NoRow
  PROVE  KeepsTextAndDates(rows[i], rows'[i])
<1>1. rows'[i] = CurrentRow(w, i)
  BY DEF Publish
<1>2. CASE staged[w][i] # NoRow
  BY <1>1, <1>2 DEF CurrentRow, RowLockInvariant
<1>3. CASE staged[w][i] = NoRow
  BY <1>1, <1>3, KeepsIsReflexive DEF CurrentRow, TypeOK, Contents
<1> QED
  BY <1>2, <1>3

(* Ending w's transaction, committed or not, keeps the lock invariant.     *)
LEMMA EndKeepsInvariant ==
  ASSUME TypeOK, RowLockInvariant, NEW w \in Writers, EndTransaction(w),
         UNCHANGED rows \/ Publish(w)
  PROVE  RowLockInvariant'
<1>1. \A o \in Writers, i \in Ids :
        staged'[o][i] = IF o = w THEN NoRow ELSE staged[o][i]
  BY DEF EndTransaction, EmptyTable, TypeOK
<1>2. \A o \in Writers, i \in Ids : staged'[o][i] # NoRow => rows'[i] = rows[i]
  BY <1>1 DEF Publish, CurrentRow, RowLockInvariant
<1> QED
  BY <1>1, <1>2 DEF RowLockInvariant

(* A statement stages a version of a row that no other transaction has,    *)
(* and that version keeps the committed row.                               *)
LEMMA UpsertKeepsInvariant ==
  ASSUME TypeOK, RowLockInvariant, NEW w \in Writers, UpsertNext(w)
  PROVE  RowLockInvariant'
<1> DEFINE t == NextTicket(w)
           new == UpsertedRow(CurrentRow(w, t.id), t)
<1>1. t \in Ticket /\ t.id \in Ids
  BY NextTicketType DEF UpsertNext, Ticket
<1>2. CurrentRow(w, t.id) \in Row \cup {NoRow}
  BY <1>1, CurrentRowType
<1>3. new \in Row
  BY <1>1, <1>2, UpsertedRowType
<1>4. \A o \in Writers, i \in Ids :
        staged'[o][i] = IF o = w /\ i = t.id THEN new ELSE staged[o][i]
  <2>1. staged' = [staged EXCEPT ![w][t.id] = new]
    BY DEF UpsertNext
  <2> HIDE DEF t, new
  <2> QED
    BY <1>1, <2>1 DEF TypeOK, Contents
<1>5. rows' = rows
  BY DEF UpsertNext, dbVars
<1>6. \A o \in Writers \ {w} : staged[o][t.id] = NoRow
  BY DEF UpsertNext, Blockers
<1>7. rows[t.id] # NoRow => KeepsTextAndDates(rows[t.id], new)
  <2> SUFFICES ASSUME rows[t.id] # NoRow
               PROVE  KeepsTextAndDates(rows[t.id], new)
    OBVIOUS
  <2>1. rows[t.id] \in Row
    BY <1>1 DEF TypeOK, Contents
  <2>2. KeepsTextAndDates(rows[t.id], CurrentRow(w, t.id))
    BY <1>1, <2>1, KeepsIsReflexive DEF CurrentRow, RowLockInvariant
  <2>3. CurrentRow(w, t.id) \in Row
    BY <1>2, <2>2 DEF KeepsTextAndDates
  <2>4. KeepsTextAndDates(CurrentRow(w, t.id), new)
    BY <1>1, <2>3, UpsertedRowKeeps
  <2> HIDE DEF t, new
  <2> QED
    BY <2>2, <2>4, KeepsIsTransitive
<1> HIDE DEF t, new
<1>8. \A u, o \in Writers, i \in Ids :
        staged'[u][i] # NoRow /\ staged'[o][i] # NoRow => u = o
  BY <1>4, <1>6 DEF RowLockInvariant
<1>9. \A u \in Writers, i \in Ids :
        staged'[u][i] # NoRow /\ rows'[i] # NoRow =>
          KeepsTextAndDates(rows'[i], staged'[u][i])
  BY <1>4, <1>5, <1>7 DEF RowLockInvariant
<1> QED
  BY <1>8, <1>9 DEF RowLockInvariant

(* A step leaves the table and the staged versions alone, stages one, or   *)
(* ends a transaction with or without publishing it.                       *)
LEMMA StepKinds ==
  ASSUME [Next]_vars
  PROVE  \/ UNCHANGED <<rows, staged>>
         \/ \E w \in Writers : UpsertNext(w)
         \/ \E w \in Writers : EndTransaction(w) /\ (UNCHANGED rows \/ Publish(w))
BY DEF Next, Proceed, Fault, Terminated, vars, dbVars, txnVars, CallSaveMany,
       ReturnEmpty, Connect, ConnectFails, SkipSchema, CheckTable, CreateTable,
       RunMigrations, Commit, CommitAnswerLost, Rollback, TableAlreadyCreated,
       TableMissing, DeadlockVictim, StatementFails, Crash

(* Every step keeps the lock invariant. *)
LEMMA LockInvariantStep ==
  ASSUME TypeOK, RowLockInvariant, [Next]_vars
  PROVE  RowLockInvariant'
<1>1. CASE UNCHANGED <<rows, staged>>
  BY <1>1 DEF RowLockInvariant
<1>2. CASE \E w \in Writers : UpsertNext(w)
  BY <1>2, UpsertKeepsInvariant
<1>3. CASE \E w \in Writers : EndTransaction(w) /\ (UNCHANGED rows \/ Publish(w))
  BY <1>3, EndKeepsInvariant
<1> QED
  BY <1>1, <1>2, <1>3, StepKinds

(* Two open transactions never have a version of the same row, and a       *)
(* staged version keeps the text and dates of the committed row.           *)
THEOREM RowsAreLocked == Spec => []RowLockInvariant
<1>1. Init => RowLockInvariant
  BY DEF Init, EmptyTable, RowLockInvariant
<1>2. TypeOK /\ RowLockInvariant /\ [Next]_vars => RowLockInvariant'
  BY LockInvariantStep
<1> QED
  BY <1>1, <1>2, TypeCorrect, PTL DEF Spec

(* What a step does to the committed rows. *)
LEMMA StepKeepsRows ==
  ASSUME TypeOK, RowLockInvariant, [Next]_vars
  PROVE  [\A i \in Ids : rows[i] # NoRow => KeepsTextAndDates(rows[i], rows'[i])]_rows
<1>1. CASE \E w \in Writers : UpsertNext(w)
  BY <1>1 DEF UpsertNext, dbVars
<1>2. CASE \E w \in Writers : EndTransaction(w) /\ (UNCHANGED rows \/ Publish(w))
  BY <1>2, PublishKeeps
<1> QED
  BY <1>1, <1>2, StepKinds

(* No step of any writer, fault included, removes a committed row, rewrites *)
(* its text or loses a business date it has.                               *)
THEOREM RowsKeepTextAndDates == Spec => CommittedRowsKeepTextAndDates
BY StepKeepsRows, TypeCorrect, RowsAreLocked, PTL
DEF Spec, CommittedRowsKeepTextAndDates

-----------------------------------------------------------------------------
(***************************************************************************)
(* A repository that migrates holds the table alone.                       *)
(***************************************************************************)

(* What a writer holds at each step of its call, and what it sees. *)
HoldInv ==
  \A w \in Writers :
    /\ pc[w] \notin {"alter", "insert"} => tableLock[w] = "none" /\ ~created[w]
    /\ pc[w] # "insert" => staged[w] = EmptyTable /\ tableLock[w] # "row"
    /\ created[w] => tableLock[w] = "exclusive" /\ ~tableExists
    /\ tableLock[w] # "none" \/ pc[w] = "alter" => TableVisible(w)
    /\ \A i \in Ids : staged[w][i] # NoRow => tableLock[w] # "none"

(* One creator, and nobody beside the holder of an exclusive lock. *)
AloneInv ==
  \A w, o \in Writers :
    /\ created[w] /\ created[o] => w = o
    /\ tableLock[w] = "exclusive" /\ w # o => tableLock[o] = "none"

(* The flag of an instance is not set before its first migrations, and     *)
(* these leave the lock behind.                                            *)
FirstInv ==
  \A w \in SchemaWriters :
    /\ calls[w] = 0 => pc[w] = "idle" /\ ~schemaInitialized[w]
    /\ calls[w] = 1 /\ pc[w] \in {"start", "schema", "create", "alter"} =>
         ~schemaInitialized[w]
    /\ calls[w] = 1 /\ pc[w] = "insert" => tableLock[w] = "exclusive"

MigrationInv == HoldInv /\ AloneInv /\ FirstInv

(* The end of a call, with its locks given back. *)
Ended(w) ==
  /\ EndTransaction(w)
  /\ pc' = [pc EXCEPT ![w] = "idle"]
  /\ tableExists' \in {tableExists, TableVisible(w)}
  /\ calls' = calls
  /\ schemaInitialized' \in {schemaInitialized, [schemaInitialized EXCEPT ![w] = FALSE]}
  /\ pc[w] # "idle"

(* A call that ends gives its locks back and publishes at most the table   *)
(* it has created.                                                         *)
LEMMA EndedKeeps ==
  ASSUME TypeOK, MigrationInv, NEW w \in Writers, Ended(w)
  PROVE  MigrationInv'
<1>1. /\ pc'[w] = "idle" /\ staged'[w] = EmptyTable
      /\ created'[w] = FALSE /\ tableLock'[w] = "none"
      /\ \A o \in Writers \ {w} :
           /\ pc'[o] = pc[o] /\ staged'[o] = staged[o] /\ created'[o] = created[o]
           /\ tableLock'[o] = tableLock[o] /\ schemaInitialized'[o] = schemaInitialized[o]
      /\ calls' = calls
      /\ tableExists' = tableExists \/ tableExists' = TableVisible(w)
  BY DEF Ended, EndTransaction, TypeOK
<1>2. created[w] => \A o \in Writers \ {w} : ~created[o] /\ tableLock[o] = "none"
  BY DEF MigrationInv, AloneInv, HoldInv
<1>3. \A o \in Writers \ {w} : created[o] => ~tableExists'
  BY <1>1, <1>2 DEF MigrationInv, HoldInv, TableVisible
<1>4. tableExists => tableExists'
  BY <1>1 DEF TableVisible
<1>5. HoldInv'
  BY <1>1, <1>3, <1>4 DEF MigrationInv, HoldInv, TableVisible, EmptyTable
<1>6. AloneInv'
  BY <1>1 DEF MigrationInv, AloneInv
<1>7. FirstInv'
  BY <1>1, SchemaWritersAssumption DEF MigrationInv, FirstInv, Ended
<1> QED
  BY <1>5, <1>6, <1>7 DEF MigrationInv

(* Every way a call ends. *)
LEMMA EndsAreEnded ==
  ASSUME TypeOK, MigrationInv, NEW w \in Writers,
         \/ ReturnEmpty(w) \/ ConnectFails(w) \/ Commit(w) \/ CommitAnswerLost(w)
         \/ TableAlreadyCreated(w) \/ TableMissing(w) \/ StatementFails(w) \/ Crash(w)
         \/ DeadlockVictim(w) /\ pc[w] # "idle"
  PROVE  Ended(w)
<1>1. ASSUME pc[w] = "start", UNCHANGED txnVars
      PROVE  EndTransaction(w)
  <2>1. staged[w] = EmptyTable /\ created[w] = FALSE /\ tableLock[w] = "none"
    BY <1>1 DEF MigrationInv, HoldInv, TypeOK
  <2> QED
    BY <1>1, <2>1 DEF txnVars, EndTransaction, TypeOK
<1>2. CASE ReturnEmpty(w) \/ ConnectFails(w)
  BY <1>1, <1>2 DEF ReturnEmpty, ConnectFails, Ended, Return, dbVars, boundVars
<1>3. CASE Commit(w) \/ CommitAnswerLost(w)
  BY <1>3 DEF Commit, CommitAnswerLost, Ended, Return, Publish, boundVars
<1>4. CASE Crash(w)
  BY <1>4 DEF Crash, Ended, Return, Publish, dbVars
<1>5. CASE \/ TableAlreadyCreated(w) \/ TableMissing(w) \/ StatementFails(w)
           \/ DeadlockVictim(w) /\ pc[w] # "idle"
  BY <1>5 DEF TableAlreadyCreated, TableMissing, StatementFails, DeadlockVictim, Rollback,
              Ended, Return, TxnSteps, dbVars
<1> QED
  BY <1>2, <1>3, <1>4, <1>5

(* A transaction on a cycle waits for the next one, and the last one waits *)
(* for it.                                                                 *)
LEMMA VictimWaitsAndBlocks ==
  ASSUME NEW w \in Writers, Deadlocked(w)
  PROVE  Blockers(w) # {} /\ \E p \in Writers : w \in Blockers(p)
<1>1. PICK n \in 2..Cardinality(Writers) : \E c \in [1..n -> Writers] :
        c[1] = w /\ \A k \in 1..n : c[(k % n) + 1] \in Blockers(c[k])
  BY DEF Deadlocked
<1>2. PICK c \in [1..n -> Writers] :
        c[1] = w /\ \A k \in 1..n : c[(k % n) + 1] \in Blockers(c[k])
  BY <1>1
<1>3. 1 \in 1..n /\ n \in 1..n /\ (n % n) + 1 = 1
  OBVIOUS
<1>4. c[(1 % n) + 1] \in Blockers(w)
  BY <1>2, <1>3
<1>5. w \in Blockers(c[n])
  BY <1>2, <1>3
<1>6. c[n] \in Writers
  BY <1>3
<1> QED
  BY <1>4, <1>5, <1>6

(* Every step keeps these invariants. *)
LEMMA MigrationStep ==
  ASSUME TypeOK, MigrationInv, [Next]_vars
  PROVE  MigrationInv'
<1> USE SchemaWritersAssumption
<1>1. ASSUME NEW w \in Writers, CallSaveMany(w)
      PROVE  MigrationInv'
  <2>1. /\ pc[w] = "idle" /\ pc' = [pc EXCEPT ![w] = "start"]
        /\ calls' = [calls EXCEPT ![w] = @ + 1]
        /\ UNCHANGED <<tableExists, staged, created, tableLock, schemaInitialized>>
    BY <1>1 DEF CallSaveMany, GoTo, dbVars, txnVars
  <2>2. HoldInv' /\ AloneInv'
    BY <2>1 DEF MigrationInv, HoldInv, AloneInv, TableVisible, TypeOK
  <2>3. calls[w] \in Nat
    BY BoundsAssumption DEF TypeOK
  <2>4. FirstInv'
    BY <2>1, <2>3 DEF MigrationInv, FirstInv, TypeOK
  <2> QED
    BY <2>2, <2>4 DEF MigrationInv
<1>2. ASSUME NEW w \in Writers, Connect(w) \/ SkipSchema(w) \/ CheckTable(w)
      PROVE  MigrationInv'
  <2>1. /\ pc[w] \in {"start", "schema"} /\ UNCHANGED <<tableExists, staged, created,
                                                      tableLock, schemaInitialized, calls>>
        /\ \/ pc' = [pc EXCEPT ![w] = "schema"]
           \/ pc' = [pc EXCEPT ![w] = "insert"] /\ (w \notin SchemaWriters \/ schemaInitialized[w])
           \/ pc' = [pc EXCEPT ![w] = "alter"] /\ TableVisible(w)
           \/ pc' = [pc EXCEPT ![w] = "create"]
    BY <1>2 DEF Connect, SkipSchema, CheckTable, GoTo, dbVars, txnVars, callVars, boundVars
  <2>2. HoldInv'
    BY <2>1 DEF MigrationInv, HoldInv, TableVisible, TypeOK
  <2>3. AloneInv'
    BY <2>1 DEF MigrationInv, AloneInv
  <2>4. FirstInv'
    BY <2>1 DEF MigrationInv, FirstInv, TypeOK
  <2> QED
    BY <2>2, <2>3, <2>4 DEF MigrationInv
<1>3. ASSUME NEW w \in Writers, CreateTable(w)
      PROVE  MigrationInv'
  <2>1. /\ pc[w] = "create" /\ ~tableExists /\ pc' = [pc EXCEPT ![w] = "alter"]
        /\ created' = [created EXCEPT ![w] = TRUE]
        /\ tableLock' = [tableLock EXCEPT ![w] = "exclusive"]
        /\ UNCHANGED <<tableExists, staged, schemaInitialized, calls>>
    BY <1>3 DEF CreateTable, GoTo, dbVars, callVars, boundVars
  <2>2. \A o \in Writers \ {w} : ~created[o]
    BY <1>3 DEF CreateTable, Blockers
  <2>3. \A o \in Writers \ {w} : tableLock[o] = "none"
    BY <2>1, <2>2 DEF MigrationInv, HoldInv, TableVisible
  <2>4. HoldInv'
    BY <2>1, <2>2 DEF MigrationInv, HoldInv, TableVisible, TypeOK
  <2>5. AloneInv'
    BY <2>1, <2>2, <2>3 DEF MigrationInv, AloneInv, TypeOK
  <2>6. FirstInv'
    BY <2>1 DEF MigrationInv, FirstInv, TypeOK
  <2> QED
    BY <2>4, <2>5, <2>6 DEF MigrationInv
<1>4. ASSUME NEW w \in Writers, RunMigrations(w)
      PROVE  MigrationInv'
  <2>1. /\ pc[w] = "alter" /\ pc' = [pc EXCEPT ![w] = "insert"]
        /\ tableLock' = [tableLock EXCEPT ![w] = "exclusive"]
        /\ schemaInitialized' = [schemaInitialized EXCEPT ![w] = TRUE]
        /\ UNCHANGED <<tableExists, staged, created, calls>>
    BY <1>4 DEF RunMigrations, GoTo, dbVars, callVars, boundVars
  <2>2. \A o \in Writers \ {w} : tableLock[o] = "none"
    BY <1>4 DEF RunMigrations, Blockers
  <2>3. HoldInv'
    BY <2>1 DEF MigrationInv, HoldInv, TableVisible, TypeOK
  <2>4. AloneInv'
    BY <2>1, <2>2 DEF MigrationInv, AloneInv, TypeOK
  <2>5. FirstInv'
    BY <2>1 DEF MigrationInv, FirstInv, TypeOK
  <2> QED
    BY <2>3, <2>4, <2>5 DEF MigrationInv
<1>5. ASSUME NEW w \in Writers, UpsertNext(w)
      PROVE  MigrationInv'
  <2>1. /\ pc[w] = "insert" /\ TableVisible(w)
        /\ tableLock' = [tableLock EXCEPT ![w] = IF @ = "none" THEN "row" ELSE @]
        /\ UNCHANGED <<tableExists, created, pc, schemaInitialized, calls>>
    BY <1>5 DEF UpsertNext, dbVars, boundVars
  <2>2. \A o \in Writers \ {w} : tableLock[o] # "exclusive"
    BY <1>5 DEF UpsertNext, Blockers
  <2>3. \A o \in Writers \ {w} : staged'[o] = staged[o]
    BY <1>5 DEF UpsertNext, TypeOK
  <2>4. HoldInv'
    BY <2>1, <2>3 DEF MigrationInv, HoldInv, TableVisible, TypeOK
  <2>5. AloneInv'
    BY <2>1, <2>2 DEF MigrationInv, AloneInv, TypeOK
  <2>6. FirstInv'
    BY <2>1 DEF MigrationInv, FirstInv, TypeOK
  <2> QED
    BY <2>4, <2>5, <2>6 DEF MigrationInv
<1>6. CASE UNCHANGED vars
  BY <1>6 DEF vars, MigrationInv, HoldInv, AloneInv, FirstInv, TableVisible
<1>7. ASSUME NEW w \in Writers, DeadlockVictim(w)
      PROVE  pc[w] # "idle"
  BY <1>7, VictimWaitsAndBlocks DEF DeadlockVictim, Blockers
<1> QED
  BY <1>1, <1>2, <1>3, <1>4, <1>5, <1>6, <1>7, EndsAreEnded, EndedKeeps
  DEF Next, Proceed, Fault, Terminated

(* The holder of an exclusive lock waits for nobody; a first save that     *)
(* holds anything holds that lock.                                         *)
LEMMA FirstSaveIsOnNoCycle ==
  ASSUME TypeOK, MigrationInv
  PROVE  MigratingWritersNeverDeadlock
<1> SUFFICES ASSUME NEW w \in SchemaWriters, calls[w] = 1, Deadlocked(w)
             PROVE  FALSE
  BY DEF MigratingWritersNeverDeadlock
<1>1. w \in Writers
  BY SchemaWritersAssumption
<1>2. PICK p \in Writers : w \in Blockers(p)
  BY <1>1, VictimWaitsAndBlocks
<1>3. PICK o \in Writers : o \in Blockers(w)
  BY <1>1, VictimWaitsAndBlocks DEF Blockers
<1>4. created[w] \/ tableLock[w] # "none"
  <2>1. CASE pc[p] = "insert" /\ RowsLeft(p) /\ staged[w][NextTicket(p).id] # NoRow
    <3>1. NextTicket(p).id \in Ids
      BY <2>1, NextTicketType DEF Ticket
    <3> QED
      BY <1>1, <2>1, <3>1 DEF MigrationInv, HoldInv
  <2> QED
    BY <1>2, <2>1 DEF Blockers
<1>5. tableLock[w] = "exclusive" /\ pc[w] \in {"alter", "insert"}
  <2>1. pc[w] \in {"alter", "insert"}
    BY <1>1, <1>4 DEF MigrationInv, HoldInv
  <2>2. pc[w] = "insert" => tableLock[w] = "exclusive"
    BY DEF MigrationInv, FirstInv
  <2>3. pc[w] = "alter" => tableLock[w] = "exclusive"
    BY <1>1, <1>4 DEF MigrationInv, HoldInv, TypeOK
  <2> QED
    BY <2>1, <2>2, <2>3
<1>6. o # w /\ tableLock[o] = "none"
  BY <1>1, <1>3, <1>5 DEF MigrationInv, AloneInv, Blockers
<1>7. pc[w] = "insert" /\ RowsLeft(w) /\ staged[o][NextTicket(w).id] # NoRow
  BY <1>3, <1>5, <1>6 DEF Blockers
<1>8. NextTicket(w).id \in Ids
  BY <1>1, <1>7, NextTicketType DEF Ticket
<1> QED
  BY <1>6, <1>7, <1>8 DEF MigrationInv, HoldInv

(* The first save of a repository that creates the table is never on a     *)
(* deadlock, for any number of writers and any order of their rows.        *)
THEOREM FirstSavesNeverDeadlock == Spec => []MigratingWritersNeverDeadlock
<1>1. Init => MigrationInv
  BY SchemaWritersAssumption
  DEF Init, MigrationInv, HoldInv, AloneInv, FirstInv, EmptyTable, TableVisible
<1>2. TypeOK /\ MigrationInv /\ [Next]_vars => MigrationInv'
  BY MigrationStep
<1>3. TypeOK /\ MigrationInv => MigratingWritersNeverDeadlock
  BY FirstSaveIsOnNoCycle
<1> QED
  BY <1>1, <1>2, <1>3, TypeCorrect, PTL DEF Spec

(***************************************************************************)
(* TicketStore implements BatchUpsert.                                     *)
(*                                                                         *)
(* The argument: what a transaction has staged is at every moment the      *)
(* effect of the part of its batch already sent on the table as committed  *)
(* now (no other transaction has a version of these rows, so no commit of  *)
(* another changes them). At the end the whole batch is sent, and a commit *)
(* publishes its effect at one instant.                                    *)
(***************************************************************************)

(* What the loop has sent of the batch of w. *)
Sent(w) == SubSeq(batch[w], 1, next[w] - 1)

(* A first position is known by being there and before the others ... *)
LEMMA FirstIs ==
  ASSUME NEW S \in SUBSET Nat, NEW k \in S, \A m \in S : k <= m
  PROVE  First(S) = k
<1>1. First(S) \in S /\ \A m \in S : First(S) <= m
  BY FirstExists
<1>2. First(S) \in Nat /\ k \in Nat /\ First(S) <= k /\ k <= First(S)
  BY <1>1
<1> QED
  BY <1>2

(* ... and a last one by being there and behind them. *)
LEMMA LastIs ==
  ASSUME NEW S \in SUBSET Nat, NEW k \in S, \A m \in S : k >= m
  PROVE  Last(S) = k
<1>1. Last(S) \in S /\ \A m \in S : Last(S) >= m
  BY DEF Last
<1>2. Last(S) \in Nat /\ k \in Nat /\ Last(S) >= k /\ k >= Last(S)
  BY <1>1
<1> QED
  BY <1>2

(* A prefix of a batch, position by position. *)
LEMMA PrefixOf ==
  ASSUME NEW b \in Seq(Ticket), NEW n \in 0..Len(b)
  PROVE  /\ SubSeq(b, 1, n) \in Seq(Ticket)
         /\ DOMAIN SubSeq(b, 1, n) = 1..n
         /\ \A k \in 1..n : SubSeq(b, 1, n)[k] = b[k]
BY Len(b) \in Nat

(* One ticket more: it is the last position of its id, and of no other.    *)
LEMMA PositionsOfNext ==
  ASSUME NEW b \in Seq(Ticket), NEW n \in 1..Len(b), NEW i \in Ids
  PROVE  LET sent == SubSeq(b, 1, n - 1)
             more == SubSeq(b, 1, n) IN
         /\ Positions(more, i) = IF b[n].id = i THEN Positions(sent, i) \cup {n}
                                 ELSE Positions(sent, i)
         /\ Dated(more, i) = IF b[n].id = i /\ b[n].date # Null
                             THEN Dated(sent, i) \cup {n} ELSE Dated(sent, i)
         /\ Positions(sent, i) \in SUBSET (1..(n - 1))
         /\ Dated(sent, i) \in SUBSET Positions(sent, i)
         /\ \A k \in 1..(n - 1) : sent[k] = b[k] /\ more[k] = b[k]
         /\ more[n] = b[n]
<1> DEFINE sent == SubSeq(b, 1, n - 1)
           more == SubSeq(b, 1, n)
<1>1. /\ DOMAIN sent = 1..(n - 1)
      /\ \A k \in 1..(n - 1) : sent[k] = b[k]
  BY PrefixOf, Len(b) \in Nat
<1>2. /\ DOMAIN more = 1..n
      /\ \A k \in 1..n : more[k] = b[k]
  BY PrefixOf, Len(b) \in Nat
<1>3. 1..n = (1..(n - 1)) \cup {n} /\ n \notin 1..(n - 1)
  OBVIOUS
<1> HIDE DEF sent, more
<1>4. Positions(more, i) = IF b[n].id = i THEN Positions(sent, i) \cup {n}
                           ELSE Positions(sent, i)
  BY <1>1, <1>2, <1>3 DEF Positions
<1>5. Dated(more, i) = IF b[n].id = i /\ b[n].date # Null
                       THEN Dated(sent, i) \cup {n} ELSE Dated(sent, i)
  BY <1>1, <1>2, <1>3 DEF Dated, Positions
<1>6. Positions(sent, i) \in SUBSET (1..(n - 1)) /\ Dated(sent, i) \in SUBSET Positions(sent, i)
  BY <1>1 DEF Positions, Dated
<1> QED
  BY <1>1, <1>2, <1>3, <1>4, <1>5, <1>6 DEF sent, more

(* The row the UPDATE leaves, column group by column group. *)
LEMMA UpdatedRowIs ==
  ASSUME NEW old \in Row, NEW t \in Ticket
  PROVE  UpdatedRow(old, t) =
           [text |-> old.text, attr |-> t.attr,
            date |-> IF t.date # Null THEN t.date ELSE old.date]
<1> DEFINE new == UpdatedRow(old, t)
<1>1. new \in Row
  BY DEF UpdatedRow, Coalesce, Row, Ticket
<1>2. /\ new.text = old.text
      /\ new.attr = t.attr
      /\ new.date = IF t.date # Null THEN t.date ELSE old.date
  BY DEF UpdatedRow, Coalesce, Row, Ticket
<1> HIDE DEF new
<1>3. PICK x \in Texts, y \in Attrs \cup {Null}, z \in Dates \cup {Null} :
        new = [text |-> x, attr |-> y, date |-> z]
  BY <1>1 DEF Row
<1>4. new.text = x /\ new.attr = y /\ new.date = z
  BY <1>3
<1> QED
  BY <1>2, <1>3, <1>4 DEF new

(* The effect of a batch is that of its tickets one after the other: one   *)
(* statement of the loop turns the effect of the tickets already sent into *)
(* that of one more.                                                       *)
LEMMA RowAfterNext ==
  ASSUME NEW b \in Seq(Ticket), NEW n \in 1..Len(b), NEW i \in Ids,
         NEW old \in Row \cup {NoRow}
  PROVE  RowAfter(old, SubSeq(b, 1, n), i) =
           IF b[n].id = i THEN UpsertedRow(RowAfter(old, SubSeq(b, 1, n - 1), i), b[n])
           ELSE RowAfter(old, SubSeq(b, 1, n - 1), i)
<1> DEFINE sent == SubSeq(b, 1, n - 1)
           more == SubSeq(b, 1, n)
           P == Positions(sent, i)
           D == Dated(sent, i)
<1>0. sent \in Seq(Ticket)
  BY PrefixOf, Len(b) \in Nat
<1>1. /\ Positions(more, i) = IF b[n].id = i THEN P \cup {n} ELSE P
      /\ Dated(more, i) = IF b[n].id = i /\ b[n].date # Null THEN D \cup {n} ELSE D
      /\ P \in SUBSET (1..(n - 1))
      /\ D \in SUBSET P
      /\ \A k \in 1..(n - 1) : sent[k] = b[k] /\ more[k] = b[k]
      /\ more[n] = b[n]
  BY PositionsOfNext
<1>2. P # {} => First(P) \in P /\ \A m \in P : First(P) <= m
  <2> HIDE DEF P
  <2> QED  BY <1>1, FirstExists
<1>3. P # {} => Last(P) \in P
  <2> HIDE DEF P
  <2> QED  BY <1>1, LastExists, n - 1 \in Nat
<1>4. D # {} => Last(D) \in D
  <2> HIDE DEF P, D
  <2> QED  BY <1>1, LastExists, n - 1 \in Nat
<1>5. b[n] \in Ticket
  OBVIOUS
<1>6. P # {} => RowAfter(old, sent, i) \in Row
  BY <1>0, RowAfterType
<1> HIDE DEF P, D
<1>7. CASE b[n].id # i
  <2>1. Positions(more, i) = P /\ Dated(more, i) = D
    BY <1>1, <1>7
  <2>2. P # {} => more[First(P)] = sent[First(P)] /\ more[Last(P)] = sent[Last(P)]
    BY <1>1, <1>2, <1>3
  <2>3. D # {} => more[Last(D)] = sent[Last(D)]
    BY <1>1, <1>4
  <2>4. RowAfter(old, more, i) = RowAfter(old, sent, i)
    <3> HIDE DEF sent, more
    <3> QED  BY <2>1, <2>2, <2>3 DEF RowAfter, P, D
  <2> QED
    BY <1>7, <2>4
<1>8. CASE b[n].id = i
  <2>1. Positions(more, i) = P \cup {n}
    BY <1>1, <1>8
  <2>2. Last(P \cup {n}) = n
    BY <1>1, LastIs
  <2>3. Dated(more, i) = IF b[n].date # Null THEN D \cup {n} ELSE D
    BY <1>1, <1>8
  <2>4. Last(D \cup {n}) = n
    <3>1. D \cup {n} \in SUBSET Nat /\ \A m \in D \cup {n} : n >= m
      BY <1>1
    <3> QED
      BY <3>1, LastIs
  <2>5. CASE P = {}
    <3>1. First(P \cup {n}) = n
      BY <2>5, FirstIs
    <3>2. D = {}
      BY <1>1, <2>5
    <3>3. RowAfter(old, sent, i) = old
      BY <2>5 DEF RowAfter, P
    <3>4. RowAfter(old, more, i) =
            [text |-> IF old = NoRow THEN b[n].text ELSE old.text,
             attr |-> b[n].attr,
             date |-> IF b[n].date # Null THEN b[n].date
                      ELSE IF old = NoRow THEN Null ELSE old.date]
      <4> HIDE DEF sent, more
      <4> QED  BY <1>1, <2>1, <2>2, <2>3, <2>4, <2>5, <3>1, <3>2 DEF RowAfter
    <3>5. old = NoRow => RowAfter(old, more, i) = UpsertedRow(old, b[n])
      <4> HIDE DEF sent, more
      <4> QED  BY <3>4 DEF UpsertedRow, InsertedRow
    <3>6. old # NoRow => RowAfter(old, more, i) = UpsertedRow(old, b[n])
      <4> HIDE DEF sent, more
      <4> QED  BY <1>5, <3>4, UpdatedRowIs DEF UpsertedRow
    <3> QED
      BY <1>8, <3>3, <3>5, <3>6
  <2>6. CASE P # {}
    <3>1. First(P \cup {n}) = First(P)
      <4>1. First(P) \in 1..(n - 1)
        BY <1>1, <1>2, <2>6
      <4>2. \A m \in P \cup {n} : First(P) <= m
        BY <1>2, <2>6, <4>1
      <4>3. First(P) \in P \cup {n} /\ P \cup {n} \in SUBSET Nat
        BY <1>1, <1>2, <2>6
      <4> QED
        BY <4>2, <4>3, FirstIs
    <3>2. First(P) \in 1..(n - 1) /\ Last(P) \in 1..(n - 1)
      BY <1>1, <1>2, <1>3, <2>6
    <3>3. D # {} => Last(D) \in 1..(n - 1)
      BY <1>1, <1>4
    <3> DEFINE before == RowAfter(old, sent, i)
    <3>4. before = [text |-> IF old = NoRow THEN b[First(P)].text ELSE old.text,
                    attr |-> b[Last(P)].attr,
                    date |-> IF D # {} THEN b[Last(D)].date
                             ELSE IF old = NoRow THEN Null ELSE old.date]
      <4>1. sent[First(P)] = b[First(P)] /\ sent[Last(P)] = b[Last(P)]
        BY <1>1, <3>2
      <4>2. D # {} => sent[Last(D)] = b[Last(D)]
        BY <1>1, <3>3
      <4> HIDE DEF sent, more
      <4> QED  BY <2>6, <4>1, <4>2 DEF RowAfter, P, D
    <3>5. RowAfter(old, more, i) =
            [text |-> IF old = NoRow THEN b[First(P)].text ELSE old.text,
             attr |-> b[n].attr,
             date |-> IF b[n].date # Null THEN b[n].date
                      ELSE IF D # {} THEN b[Last(D)].date
                      ELSE IF old = NoRow THEN Null ELSE old.date]
      <4>1. more[First(P)] = b[First(P)] /\ more[n] = b[n]
        BY <1>1, <3>2
      <4>2. D # {} => more[Last(D)] = b[Last(D)]
        BY <1>1, <3>3
      <4> HIDE DEF sent, more
      <4> QED  BY <2>1, <2>2, <2>3, <2>4, <2>6, <3>1, <4>1, <4>2 DEF RowAfter
    <3>6. before # NoRow
      BY <1>6, <2>6, NoRowAssumption
    <3>7. UpsertedRow(before, b[n]) = UpdatedRow(before, b[n])
      BY <3>6 DEF UpsertedRow
    <3> HIDE DEF sent, more, before
    <3>8. UpdatedRow(before, b[n]) =
            [text |-> before.text, attr |-> b[n].attr,
             date |-> IF b[n].date # Null THEN b[n].date ELSE before.date]
      BY <1>5, <1>6, <2>6, UpdatedRowIs DEF before
    <3>9. RowAfter(old, more, i) = UpsertedRow(before, b[n])
      BY <3>4, <3>5, <3>7, <3>8
    <3> QED
      BY <1>8, <3>9 DEF sent, more, before
  <2> QED
    BY <2>5, <2>6
<1> QED
  BY <1>7, <1>8

-----------------------------------------------------------------------------
(***************************************************************************)
(* The staged rows and the count follow the committed table.               *)
(***************************************************************************)

(* The loop starts at 1 with nothing staged and ends behind the batch; a   *)
(* writer that is not in a call has no batch.                              *)
LoopInv ==
  \A w \in Writers :
    /\ next[w] - 1 <= Len(batch[w])
    /\ pc[w] # "insert" => next[w] = 1 /\ stored[w] = 0 /\ staged[w] = EmptyTable
    /\ pc[w] = "idle" => batch[w] = <<>>

(* The ids w would add to the table as committed now. *)
Added(w) == {i \in Ids : staged[w][i] # NoRow /\ rows[i] = NoRow}

CountInv ==
  \A w \in Writers : IsFiniteSet(Added(w)) /\ stored[w] = Cardinality(Added(w))

(* The steps, by what they do to the table and to the loop. *)
Advance(w) ==
  /\ pc[w] \notin {"idle", "insert"}
  /\ \E s \in TxnSteps : GoTo(w, s)
  /\ UNCHANGED <<rows, staged, batch, next, stored, result, calls>>

Takes(w) == ~RowsLeft(w) /\ rows' = [i \in Ids |-> CurrentRow(w, i)]

Over(w) ==
  /\ pc[w] # "idle"
  /\ staged' = [staged EXCEPT ![w] = EmptyTable]
  /\ calls' = calls
  /\ \/ Return(w, Stored(stored[w])) /\ Takes(w)
     \/ /\ Return(w, Failed) \/ Return(w, NoResult)
        /\ rows' = rows \/ Takes(w)

Quiet == UNCHANGED <<rows, staged, batch, next, stored, pc, result, calls>>

(* An empty batch takes effect by doing nothing. *)
LEMMA ReturnEmptyIsOver ==
  ASSUME TypeOK, LoopInv, NEW w \in Writers, ReturnEmpty(w)
  PROVE  Over(w)
<1>1. staged[w] = EmptyTable /\ stored[w] = 0 /\ next[w] = 1 /\ batch[w] = <<>>
  BY DEF LoopInv, ReturnEmpty
<1>2. staged' = [staged EXCEPT ![w] = EmptyTable]
  BY <1>1 DEF ReturnEmpty, txnVars, TypeOK
<1>3. \A i \in Ids : CurrentRow(w, i) = rows[i]
  BY <1>1 DEF CurrentRow, EmptyTable
<1>4. rows' = [i \in Ids |-> CurrentRow(w, i)]
  BY <1>3 DEF ReturnEmpty, dbVars, TypeOK, Contents
<1>5. ~RowsLeft(w)
  BY <1>1 DEF RowsLeft
<1> QED
  BY <1>1, <1>2, <1>4, <1>5 DEF ReturnEmpty, Over, Takes, boundVars

(* A call that cannot connect is over. *)
LEMMA ConnectFailsIsOver ==
  ASSUME TypeOK, LoopInv, NEW w \in Writers, ConnectFails(w)
  PROVE  Over(w)
<1>1. staged[w] = EmptyTable
  BY DEF LoopInv, ConnectFails
<1>2. staged' = [staged EXCEPT ![w] = EmptyTable]
  BY <1>1 DEF ConnectFails, txnVars, TypeOK
<1> QED
  BY <1>2 DEF ConnectFails, Over, dbVars

(* A call that is rolled back is over. *)
LEMMA RollbackIsOver ==
  ASSUME NEW w \in Writers, Rollback(w), pc[w] # "idle"
  PROVE  Over(w)
BY DEF Rollback, EndTransaction, Over, dbVars

(* Every step is one of these kinds. *)
LEMMA StepSorts ==
  ASSUME TypeOK, LoopInv, [Next]_vars
  PROVE  \/ Quiet
         \/ \E w \in Writers : \/ CallSaveMany(w) \/ Advance(w)
                               \/ UpsertNext(w) \/ Over(w)
<1>1. ASSUME NEW w \in Writers,
             \/ Connect(w) \/ SkipSchema(w) \/ CheckTable(w)
             \/ CreateTable(w) \/ RunMigrations(w)
      PROVE  Advance(w)
  BY <1>1 DEF Connect, SkipSchema, CheckTable, CreateTable, RunMigrations, Advance,
              TxnSteps, dbVars, txnVars, callVars, boundVars
<1>2. ASSUME NEW w \in Writers, Commit(w)
      PROVE  Over(w)
  BY <1>2 DEF Commit, Over, Takes, Publish, EndTransaction, boundVars
<1>3. ASSUME NEW w \in Writers, CommitAnswerLost(w)
      PROVE  Over(w)
  BY <1>3 DEF CommitAnswerLost, Over, Takes, Publish, EndTransaction
<1>4. ASSUME NEW w \in Writers, Crash(w)
      PROVE  Over(w)
  BY <1>4 DEF Crash, Over, Takes, Publish, EndTransaction, dbVars
<1>5. ASSUME NEW w \in Writers, TableAlreadyCreated(w) \/ TableMissing(w) \/ StatementFails(w)
      PROVE  Over(w)
  BY <1>5, RollbackIsOver DEF TableAlreadyCreated, TableMissing, StatementFails, TxnSteps
<1>6. ASSUME NEW w \in Writers, DeadlockVictim(w)
      PROVE  Over(w)
  BY <1>6, RollbackIsOver, VictimWaitsAndBlocks DEF DeadlockVictim, Blockers
<1>7. CASE UNCHANGED vars
  BY <1>7 DEF vars, Quiet
<1> QED
  BY <1>1, <1>2, <1>3, <1>4, <1>5, <1>6, <1>7, ReturnEmptyIsOver, ConnectFailsIsOver
  DEF Next, Proceed, Fault, Terminated

(* What the end of a call leaves of the other writers' ids. *)
LEMMA OthersKeepTheirRows ==
  ASSUME TypeOK, RowLockInvariant, NEW w \in Writers, Over(w),
         NEW o \in Writers \ {w}, NEW i \in Ids, staged[o][i] # NoRow
  PROVE  rows'[i] = rows[i]
<1>1. staged[w][i] = NoRow
  BY DEF RowLockInvariant
<1> QED
  BY <1>1 DEF Over, Takes, CurrentRow

(* The end of a call resets the loop of its writer and of no other. *)
LEMMA OverResets ==
  ASSUME TypeOK, NEW w \in Writers, Over(w)
  PROVE  /\ batch'[w] = <<>> /\ next'[w] = 1 /\ stored'[w] = 0 /\ pc'[w] = "idle"
         /\ staged'[w] = EmptyTable
         /\ \A o \in Writers \ {w} :
              /\ batch'[o] = batch[o] /\ next'[o] = next[o] /\ stored'[o] = stored[o]
              /\ pc'[o] = pc[o] /\ staged'[o] = staged[o]
BY DEF Over, Return, TypeOK

(* One statement, writer by writer and row by row. *)
LEMMA UpsertStages ==
  ASSUME TypeOK, NEW w \in Writers, UpsertNext(w)
  PROVE  LET t == NextTicket(w) IN
         /\ t \in Ticket /\ next[w] \in 1..Len(batch[w])
         /\ next'[w] = next[w] + 1
         /\ stored'[w] = stored[w] + InsertedOne(CurrentRow(w, t.id))
         /\ staged'[w][t.id] = UpsertedRow(CurrentRow(w, t.id), t)
         /\ \A i \in Ids \ {t.id} : staged'[w][i] = staged[w][i]
         /\ \A o \in Writers \ {w} : /\ staged'[o] = staged[o] /\ next'[o] = next[o]
                                     /\ stored'[o] = stored[o]
         /\ rows' = rows /\ batch' = batch /\ pc' = pc
<1> DEFINE t == NextTicket(w)
           new == UpsertedRow(CurrentRow(w, t.id), t)
<1>1. t \in Ticket /\ t.id \in Ids
  BY NextTicketType DEF UpsertNext, Ticket
<1>2. /\ staged' = [staged EXCEPT ![w][t.id] = new]
      /\ next' = [next EXCEPT ![w] = @ + 1]
      /\ stored' = [stored EXCEPT ![w] = @ + InsertedOne(CurrentRow(w, t.id))]
      /\ rows' = rows /\ batch' = batch /\ pc' = pc
  BY DEF UpsertNext, dbVars
<1>3. next[w] \in 1..Len(batch[w])
  BY DEF UpsertNext, RowsLeft, TypeOK
<1> HIDE DEF t, new
<1>4. /\ staged'[w][t.id] = new
      /\ \A i \in Ids \ {t.id} : staged'[w][i] = staged[w][i]
      /\ \A o \in Writers \ {w} : staged'[o] = staged[o]
  BY <1>1, <1>2 DEF TypeOK, Contents
<1>5. /\ next'[w] = next[w] + 1
      /\ stored'[w] = stored[w] + InsertedOne(CurrentRow(w, t.id))
      /\ \A o \in Writers \ {w} : next'[o] = next[o] /\ stored'[o] = stored[o]
  BY <1>2 DEF TypeOK
<1> QED
  BY <1>1, <1>2, <1>3, <1>4, <1>5 DEF t, new

(* The loop stays within the batch. *)
LEMMA LoopStep ==
  ASSUME TypeOK, LoopInv, [Next]_vars
  PROVE  LoopInv'
<1>1. CASE Quiet
  BY <1>1 DEF Quiet, LoopInv
<1>2. ASSUME NEW w \in Writers, CallSaveMany(w)
      PROVE  LoopInv'
  <2>1. PICK b \in Batches : batch' = [batch EXCEPT ![w] = b]
    BY <1>2 DEF CallSaveMany
  <2>2. Len(b) \in Nat
    BY BatchesAssumption
  <2>3. next[w] = 1 /\ stored[w] = 0 /\ staged[w] = EmptyTable
    BY <1>2 DEF LoopInv, CallSaveMany
  <2>4. pc' = [pc EXCEPT ![w] = "start"] /\ UNCHANGED <<next, stored, staged>>
    BY <1>2 DEF CallSaveMany, GoTo, txnVars
  <2> QED
    BY <2>1, <2>2, <2>3, <2>4 DEF LoopInv, TypeOK
<1>3. ASSUME NEW w \in Writers, Advance(w)
      PROVE  LoopInv'
  BY <1>3 DEF Advance, GoTo, TxnSteps, LoopInv, TypeOK
<1>4. ASSUME NEW w \in Writers, UpsertNext(w)
      PROVE  LoopInv'
  <2>1. pc[w] = "insert" /\ Len(batch[w]) \in Nat
    BY <1>4 DEF UpsertNext, TypeOK
  <2>2. /\ next[w] \in 1..Len(batch[w]) /\ next'[w] = next[w] + 1
        /\ \A o \in Writers \ {w} : /\ staged'[o] = staged[o] /\ next'[o] = next[o]
                                    /\ stored'[o] = stored[o]
        /\ batch' = batch /\ pc' = pc
    BY <1>4, UpsertStages
  <2> QED
    BY <2>1, <2>2 DEF LoopInv
<1>5. ASSUME NEW w \in Writers, Over(w)
      PROVE  LoopInv'
  <2>1. Len(<<>>) = 0
    OBVIOUS
  <2> QED
    BY <1>5, <2>1, OverResets DEF LoopInv
<1> QED
  BY <1>1, <1>2, <1>3, <1>4, <1>5, StepSorts

(* Nothing sent is no position of any id. *)
LEMMA NothingSent ==
  ASSUME NEW b, NEW i \in Ids
  PROVE  Positions(SubSeq(b, 1, 1 - 1), i) = {}
<1>1. SubSeq(b, 1, 0) = <<>>
  BY SubSeqEmpty
<1> QED
  BY <1>1 DEF Positions

(* An id is staged as what the statements sent so far make of its row. *)
LEMMA StagedStep ==
  ASSUME TypeOK, RowLockInvariant, LoopInv, StagedRowsFollowCommitted, [Next]_vars
  PROVE  StagedRowsFollowCommitted'
<1> DEFINE Follows(w, i) ==
             IF staged[w][i] # NoRow
             THEN staged[w][i] = RowAfter(rows[i], Sent(w), i)
             ELSE Positions(Sent(w), i) = {}
<1>0. \A w \in Writers, i \in Ids : Follows(w, i)
  BY DEF StagedRowsFollowCommitted, Sent
<1>a. SUFFICES \A w \in Writers, i \in Ids : Follows(w, i)'
  BY DEF StagedRowsFollowCommitted, Sent
<1>b. ASSUME NEW o \in Writers, NEW i \in Ids,
             staged'[o] = staged[o], batch'[o] = batch[o], next'[o] = next[o],
             staged[o][i] # NoRow => rows'[i] = rows[i]
      PROVE  Follows(o, i)'
  BY <1>0, <1>b DEF Sent
<1>c. ASSUME NEW o \in Writers, NEW i \in Ids, staged'[o] = EmptyTable, next'[o] = 1
      PROVE  Follows(o, i)'
  BY <1>c, NothingSent DEF EmptyTable, Sent
<1> HIDE DEF Follows
<1>1. CASE Quiet
  BY <1>1, <1>b DEF Quiet
<1>2. ASSUME NEW w \in Writers, CallSaveMany(w)
      PROVE  \A o \in Writers, i \in Ids : Follows(o, i)'
  <2>1. next'[w] = 1 /\ staged'[w] = EmptyTable
    BY <1>2 DEF LoopInv, CallSaveMany, txnVars
  <2>2. \A o \in Writers \ {w} : batch'[o] = batch[o]
    BY <1>2 DEF CallSaveMany, TypeOK
  <2>3. UNCHANGED <<rows, staged, next>>
    BY <1>2 DEF CallSaveMany, dbVars, txnVars
  <2> QED
    BY <1>b, <1>c, <2>1, <2>2, <2>3
<1>3. ASSUME NEW w \in Writers, Advance(w)
      PROVE  \A o \in Writers, i \in Ids : Follows(o, i)'
  BY <1>3, <1>b DEF Advance
<1>4. ASSUME NEW w \in Writers, UpsertNext(w)
      PROVE  \A o \in Writers, i \in Ids : Follows(o, i)'
  <2>0. PICK t, b, n : t = NextTicket(w) /\ b = batch[w] /\ n = next[w]
    OBVIOUS
  <2>1. /\ t \in Ticket /\ n \in 1..Len(b)
        /\ next'[w] = n + 1
        /\ staged'[w][t.id] = UpsertedRow(CurrentRow(w, t.id), t)
        /\ \A i \in Ids \ {t.id} : staged'[w][i] = staged[w][i]
        /\ \A o \in Writers \ {w} : staged'[o] = staged[o] /\ next'[o] = next[o]
        /\ rows' = rows /\ batch' = batch
    BY <1>4, <2>0, UpsertStages
  <2>2. b \in Seq(Ticket) /\ t = b[n] /\ t.id \in Ids
    BY <2>0, <2>1 DEF TypeOK, NextTicket, Ticket
  <2>3. Sent(w) = SubSeq(b, 1, n - 1) /\ Sent(w)' = SubSeq(b, 1, n)
    <3>1. (n + 1) - 1 = n
      BY <2>1
    <3> QED
      BY <2>0, <2>1, <3>1 DEF Sent
  <2>4. \A i \in Ids : rows[i] \in Row \cup {NoRow}
    BY DEF TypeOK, Contents
  <2>5. \A i \in Ids :
          RowAfter(rows[i], Sent(w)', i) =
            IF t.id = i THEN UpsertedRow(RowAfter(rows[i], Sent(w), i), t)
            ELSE RowAfter(rows[i], Sent(w), i)
    BY <2>1, <2>2, <2>3, <2>4, RowAfterNext
  <2>6. ASSUME NEW i \in Ids \ {t.id}
        PROVE  Positions(Sent(w)', i) = Positions(Sent(w), i)
    <3>1. i \in Ids /\ b[n].id # i
      BY <2>2
    <3>2. Positions(SubSeq(b, 1, n), i) =
            IF b[n].id = i THEN Positions(SubSeq(b, 1, n - 1), i) \cup {n}
            ELSE Positions(SubSeq(b, 1, n - 1), i)
      <4>1. b \in Seq(Ticket) /\ n \in 1..Len(b) /\ i \in Ids
        BY <2>1, <2>2, <3>1
      <4> QED
        BY <4>1, PositionsOfNext
    <3> QED
      BY <2>3, <3>1, <3>2
  <2>7. CurrentRow(w, t.id) = RowAfter(rows[t.id], Sent(w), t.id)
    <3>1. Follows(w, t.id)
      BY <1>0, <2>2
    <3> QED
      BY <3>1 DEF Follows, CurrentRow, RowAfter
  <2>8. UpsertedRow(CurrentRow(w, t.id), t) # NoRow
    BY <2>1, <2>2, CurrentRowType, UpsertedRowType, NoRowAssumption
  <2>9. Follows(w, t.id)'
    BY <2>1, <2>2, <2>5, <2>7, <2>8 DEF Follows
  <2>10. \A i \in Ids \ {t.id} : Follows(w, i)'
    BY <1>0, <2>1, <2>5, <2>6 DEF Follows
  <2>11. \A o \in Writers \ {w}, i \in Ids : Follows(o, i)'
    <3>1. \A o \in Writers \ {w}, i \in Ids :
            /\ staged'[o] = staged[o] /\ batch'[o] = batch[o] /\ next'[o] = next[o]
            /\ rows'[i] = rows[i]
      BY <2>1
    <3> QED
      BY <1>b, <3>1
  <2> QED
    BY <2>9, <2>10, <2>11
<1>5. ASSUME NEW w \in Writers, Over(w)
      PROVE  \A o \in Writers, i \in Ids : Follows(o, i)'
  BY <1>5, <1>b, <1>c, OverResets, OthersKeepTheirRows
<1> QED
  BY <1>1, <1>2, <1>3, <1>4, <1>5, StepSorts

(* The count of a transaction is the number of ids it would add now. *)
LEMMA CountStep ==
  ASSUME TypeOK, RowLockInvariant, LoopInv, CountInv, [Next]_vars
  PROVE  CountInv'
<1> DEFINE Counts(w) == IsFiniteSet(Added(w)) /\ stored[w] = Cardinality(Added(w))
<1>0. \A w \in Writers : Counts(w)
  BY DEF CountInv
<1>a. SUFFICES \A w \in Writers : Counts(w)'
  BY DEF CountInv
<1>b. ASSUME NEW o \in Writers, staged'[o] = staged[o], stored'[o] = stored[o],
             \A i \in Ids : staged[o][i] # NoRow => rows'[i] = rows[i]
      PROVE  Counts(o)'
  <2>1. Added(o)' = Added(o)
    BY <1>b DEF Added
  <2> QED
    BY <1>0, <1>b, <2>1
<1>c. ASSUME NEW o \in Writers, staged'[o] = EmptyTable, stored'[o] = 0
      PROVE  Counts(o)'
  <2>1. Added(o)' = {}
    BY <1>c DEF Added, EmptyTable
  <2> QED
    BY <1>c, <2>1, FS_EmptySet
<1> HIDE DEF Counts
<1>1. CASE Quiet
  BY <1>1, <1>b DEF Quiet
<1>2. ASSUME NEW w \in Writers, CallSaveMany(w)
      PROVE  \A o \in Writers : Counts(o)'
  BY <1>2, <1>b DEF CallSaveMany, dbVars, txnVars
<1>3. ASSUME NEW w \in Writers, Advance(w)
      PROVE  \A o \in Writers : Counts(o)'
  BY <1>3, <1>b DEF Advance
<1>4. ASSUME NEW w \in Writers, UpsertNext(w)
      PROVE  \A o \in Writers : Counts(o)'
  <2> DEFINE t == NextTicket(w)
             old == CurrentRow(w, t.id)
  <2>1. /\ t \in Ticket
        /\ stored'[w] = stored[w] + InsertedOne(old)
        /\ staged'[w][t.id] = UpsertedRow(old, t)
        /\ \A i \in Ids \ {t.id} : staged'[w][i] = staged[w][i]
        /\ \A o \in Writers \ {w} : staged'[o] = staged[o] /\ stored'[o] = stored[o]
        /\ rows' = rows
    BY <1>4, UpsertStages
  <2>2. t.id \in Ids /\ UpsertedRow(old, t) # NoRow
    BY <2>1, CurrentRowType, UpsertedRowType, NoRowAssumption DEF Ticket
  <2>3. \A o \in Writers \ {w} : Counts(o)'
    BY <1>b, <2>1
  <2>4. IsFiniteSet(Added(w)) /\ stored[w] = Cardinality(Added(w))
    BY <1>0 DEF Counts
  <2>5. CASE old = NoRow
    <3>1. staged[w][t.id] = NoRow /\ rows[t.id] = NoRow
      BY <2>5 DEF CurrentRow
    <3> HIDE DEF t, old
    <3>2. Added(w)' = Added(w) \cup {t.id} /\ t.id \notin Added(w)
      BY <2>1, <2>2, <3>1 DEF Added
    <3>3. stored'[w] = stored[w] + 1
      BY <2>1, <2>5 DEF InsertedOne
    <3> QED
      BY <2>3, <2>4, <3>2, <3>3, FS_AddElement DEF Counts
  <2>6. CASE old # NoRow
    <3>1. staged[w][t.id] # NoRow \/ rows[t.id] # NoRow
      BY <2>6 DEF CurrentRow
    <3> HIDE DEF t, old
    <3>2. Added(w)' = Added(w)
      BY <2>1, <2>2, <3>1 DEF Added
    <3>3. stored'[w] = stored[w]
      BY <2>1, <2>6 DEF InsertedOne, TypeOK
    <3> QED
      BY <2>3, <2>4, <3>2, <3>3 DEF Counts
  <2> QED
    BY <2>5, <2>6
<1>5. ASSUME NEW w \in Writers, Over(w)
      PROVE  \A o \in Writers : Counts(o)'
  BY <1>5, <1>b, <1>c, OverResets, OthersKeepTheirRows
<1> QED
  BY <1>1, <1>2, <1>3, <1>4, <1>5, StepSorts

(* Both hold initially, with the loop not started. *)
LEMMA LoopsStart ==
  ASSUME Init
  PROVE  LoopInv /\ StagedRowsFollowCommitted /\ CountInv
<1>1. LoopInv
  <2>1. Len(<<>>) = 0
    OBVIOUS
  <2> QED
    BY <2>1 DEF Init, LoopInv
<1>2. StagedRowsFollowCommitted
  <2>1. \A w \in Writers : next[w] = 1 /\ staged[w] = EmptyTable
    BY DEF Init
  <2> QED
    BY <2>1, NothingSent DEF StagedRowsFollowCommitted, EmptyTable
<1>3. \A w \in Writers : Added(w) = {} /\ stored[w] = 0
  BY DEF Init, Added, EmptyTable
<1> QED
  BY <1>1, <1>2, <1>3, FS_EmptySet DEF CountInv

FollowInv == LoopInv /\ StagedRowsFollowCommitted /\ CountInv

(* All three together, in every reachable state. *)
LEMMA LoopsFollow == Spec => []FollowInv
<1>1. Init => FollowInv
  BY LoopsStart DEF FollowInv
<1>2. TypeOK /\ RowLockInvariant /\ FollowInv /\ [Next]_vars => FollowInv'
  BY LoopStep, StagedStep, CountStep DEF FollowInv
<1> QED
  BY <1>1, <1>2, TypeCorrect, RowsAreLocked, PTL DEF Spec

(* No lost update: a staged version is what the part of the batch already  *)
(* sent makes of the row as it is committed now (ticket_repository.py      *)
(* save_many, READ COMMITTED).                                             *)
THEOREM StagedRowsFollow == Spec => []StagedRowsFollowCommitted
<1>1. FollowInv => StagedRowsFollowCommitted
  BY DEF FollowInv
<1> QED
  BY <1>1, LoopsFollow, PTL

(* stored_count is the number of ids the transaction would add now. *)
THEOREM CountsFollow == Spec => []StoredCountIsNewRows
<1>1. FollowInv => StoredCountIsNewRows
  BY DEF FollowInv, CountInv, Added, StoredCountIsNewRows
<1> QED
  BY <1>1, LoopsFollow, PTL

-----------------------------------------------------------------------------
(***************************************************************************)
(* The refinement.                                                         *)
(***************************************************************************)

(* The promise speaks of the same operators. *)
LEMMA PromiseOperators ==
  /\ \A table, b : Promise!TableAfter(table, b) = TableAfter(table, b)
  /\ \A table, b : Promise!NewIds(table, b) = NewIds(table, b)
  /\ Promise!EmptyTable = EmptyTable
  /\ \A S : Promise!Cardinality(S) = Cardinality(S)
BY DEF Promise!Cardinality, Cardinality,  Promise!TableAfter, TableAfter, Promise!RowAfter, RowAfter, Promise!NewIds, NewIds,
       Promise!Positions, Positions, Promise!Dated, Dated, Promise!First, First,
       Promise!Last, Last, Promise!EmptyTable, EmptyTable

(* A commit publishes the effect of the whole batch, and has counted the   *)
(* ids it adds.                                                            *)
LEMMA TakesTheBatch ==
  ASSUME TypeOK, FollowInv, NEW w \in Writers, Takes(w)
  PROVE  /\ rows' = TableAfter(rows, batch[w])
         /\ stored[w] = Cardinality(NewIds(rows, batch[w]))
<1>1. next[w] - 1 = Len(batch[w])
  BY DEF TypeOK, FollowInv, LoopInv, Takes, RowsLeft
<1>2. SubSeq(batch[w], 1, next[w] - 1) = batch[w]
  BY <1>1, SubSeqFull DEF TypeOK
<1>3. \A i \in Ids : IF staged[w][i] # NoRow
                     THEN staged[w][i] = RowAfter(rows[i], batch[w], i)
                     ELSE Positions(batch[w], i) = {}
  BY <1>2 DEF FollowInv, StagedRowsFollowCommitted
<1>4. \A i \in Ids : CurrentRow(w, i) = RowAfter(rows[i], batch[w], i)
  BY <1>3 DEF CurrentRow, RowAfter
<1>5. rows' = TableAfter(rows, batch[w])
  BY <1>4 DEF Takes, TableAfter
<1>6. \A i \in Ids : rows[i] = NoRow => (staged[w][i] # NoRow <=> Positions(batch[w], i) # {})
  BY <1>3 DEF RowAfter
<1>7. Added(w) = NewIds(rows, batch[w])
  BY <1>6 DEF Added, NewIds
<1> QED
  BY <1>5, <1>7 DEF FollowInv, CountInv

Pending == [w \in Writers |-> [batch |-> batch[w], active |-> pc[w] # "idle"]]

(* Each step of the detailed specification is a step of the promise, or    *)
(* none that it can see.                                                   *)
LEMMA StepIsPromised ==
  ASSUME TypeOK, FollowInv, [Next]_vars
  PROVE  [Promise!Next]_(Promise!vars)
<1> USE DEF Pending
<1>1. CASE Quiet
  BY <1>1 DEF Quiet, Promise!vars
<1>2. ASSUME NEW w \in Writers, CallSaveMany(w)
      PROVE  Promise!Begin(w)
  <2>1. PICK b \in Batches : batch' = [batch EXCEPT ![w] = b]
    BY <1>2 DEF CallSaveMany
  <2>2. Pending' = [Pending EXCEPT ![w] = [batch |-> b, active |-> TRUE]]
    BY <1>2, <2>1 DEF CallSaveMany, GoTo, TypeOK
  <2>3. Pending[w].active = FALSE
    BY <1>2 DEF CallSaveMany
  <2> QED
    BY <1>2, <2>2, <2>3
    DEF Promise!Begin, Promise!Call, Promise!NoResult, NoResult, CallSaveMany, dbVars
<1>3. ASSUME NEW w \in Writers, Advance(w)
      PROVE  Promise!vars' = Promise!vars
  <2>1. \A o \in Writers : (pc'[o] # "idle") = (pc[o] # "idle")
    BY <1>3 DEF Advance, GoTo, TxnSteps, TypeOK
  <2> QED
    BY <1>3, <2>1 DEF Advance, Promise!vars
<1>4. ASSUME NEW w \in Writers, UpsertNext(w)
      PROVE  Promise!vars' = Promise!vars
  BY <1>4 DEF UpsertNext, dbVars, boundVars, Promise!vars
<1>5. ASSUME NEW w \in Writers, Over(w)
      PROVE  Promise!Succeed(w) \/ Promise!Break(w)
  <2>1. Pending[w].active = TRUE /\ Pending[w].batch = batch[w]
    BY <1>5 DEF Over
  <2>2. Pending' = [Pending EXCEPT ![w] = [batch |-> <<>>, active |-> FALSE]]
    BY <1>5 DEF Over, Return, TypeOK
  <2>3. calls' = calls
    BY <1>5 DEF Over
  <2>4. CASE Return(w, Stored(stored[w])) /\ Takes(w)
    <3>1. rows' = Promise!TableAfter(rows, batch[w])
      BY <2>4, TakesTheBatch, PromiseOperators
    <3>2. result' = [result EXCEPT
                       ![w] = Promise!Stored(Cardinality(Promise!NewIds(rows, batch[w])))]
      <4>1. stored[w] = Cardinality(Promise!NewIds(rows, batch[w]))
        BY <2>4, TakesTheBatch, PromiseOperators
      <4>2. Promise!Stored(stored[w]) = Stored(stored[w])
        BY DEF Promise!Stored, Stored
      <4>3. result' = [result EXCEPT ![w] = Stored(stored[w])]
        BY <2>4 DEF Return
      <4> QED
        BY <4>1, <4>2, <4>3
    <3> HIDE DEF Pending
    <3>3. /\ rows' = Promise!TableAfter(rows, Pending[w].batch)
          /\ result' = [result EXCEPT
               ![w] = Promise!Stored(Cardinality(Promise!NewIds(rows, Pending[w].batch)))]
      BY <2>1, <3>1, <3>2
    <3>4. Promise!Succeed(w)
      BY <2>1, <2>2, <2>3, <3>3, PromiseOperators DEF Promise!Succeed, Promise!NoBatch, Pending
    <3> QED
      BY <3>4
  <2>5. CASE /\ Return(w, Failed) \/ Return(w, NoResult)
             /\ rows' = rows \/ Takes(w)
    <3>1. rows' \in {rows, Promise!TableAfter(rows, batch[w])}
      BY <2>5, TakesTheBatch, PromiseOperators
    <3>2. result' \in {[result EXCEPT ![w] = Failed], [result EXCEPT ![w] = NoResult]}
      BY <2>5 DEF Return
    <3>3. Promise!Failed = Failed /\ Promise!NoResult = NoResult
      BY DEF Promise!Failed, Failed, Promise!NoResult, NoResult
    <3> HIDE DEF Pending
    <3>4. Promise!Break(w)
      BY <2>1, <2>2, <2>3, <3>1, <3>2, <3>3 DEF Promise!Break, Promise!NoBatch, Pending
    <3> QED
      BY <3>4
  <2> QED
    <3>1. \/ Return(w, Stored(stored[w])) /\ Takes(w)
          \/ /\ Return(w, Failed) \/ Return(w, NoResult)
             /\ rows' = rows \/ Takes(w)
      BY <1>5 DEF Over
    <3> QED
      BY <2>4, <2>5, <3>1
<1> QED
  BY <1>1, <1>2, <1>3, <1>4, <1>5, StepSorts, FollowInv => LoopInv DEF FollowInv, Promise!Next

(* Every behaviour of save_many, with any number of writers, conflicting   *)
(* rows, deadlocks, rollbacks, lost answers and crashes, is one in which   *)
(* each save takes effect at one instant, completely or not at all, and    *)
(* answers with the number of ids it added at that instant.                *)
THEOREM SavesAreAtomic == Spec => SavesAreAtomicUpserts
<1>1. Init => Promise!Init
  BY PromiseOperators
  DEF Init, Promise!Init, Promise!NoBatch, Promise!NoResult, NoResult
<1>2. TypeOK /\ FollowInv /\ [Next]_vars => [Promise!Next]_(Promise!vars)
  BY StepIsPromised
<1> QED
  BY <1>1, <1>2, TypeCorrect, LoopsFollow, PTL
  DEF Spec, SavesAreAtomicUpserts, Promise!Spec
=============================================================================
