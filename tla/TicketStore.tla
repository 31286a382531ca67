----------------------------- MODULE TicketStore -----------------------------
(***************************************************************************)
(* PostgresTicketRepository.save_many under concurrency: several processes *)
(* (CLI runs, jobs), each with its own repository instance, save batches   *)
(* into one PostgreSQL database in READ COMMITTED transactions.            *)
(*                                                                         *)
(* A statement that must wait for a lock is an action that is not enabled. *)
(* A row version a transaction has written stays in staged until the       *)
(* transaction ends, and is also its lock on that row.                     *)
(***************************************************************************)
EXTENDS BatchEffect, FiniteSets

CONSTANTS Writers,        \* processes, one repository instance each
          SchemaWriters,  \* those built with initialize_schema=True
          Batches,        \* the batches a caller may save
          MaxSaves,       \* bound: calls per writer
          MaxFaults       \* bound: failures and crashes in a behaviour

ASSUME SchemaWritersAssumption == SchemaWriters \subseteq Writers
ASSUME BatchesAssumption == Batches \subseteq Seq(Ticket)
ASSUME BoundsAssumption == MaxSaves \in Nat /\ MaxFaults \in Nat

VARIABLES
  rows,               \* committed contents of clean_tickets
  tableExists,        \* clean_tickets exists in the committed catalog
  staged,             \* staged[w][i]: row version written by w's open transaction
  created,            \* created[w]: w's open transaction has created the table
  tableLock,          \* tableLock[w]: w's lock on the table
  pc,                 \* next step of w's call
  batch,              \* argument of w's call
  next,               \* position in the loop over the values
  stored,             \* stored_count
  schemaInitialized,  \* _schema_initialized of w's repository instance
  result,             \* outcome of w's last call
  calls,              \* calls made, for the bound
  faults              \* faults so far, for the bound

dbVars == <<rows, tableExists>>
txnVars == <<staged, created, tableLock>>
callVars == <<batch, next, stored>>
boundVars == <<calls, faults>>
vars == <<rows, tableExists, staged, created, tableLock, pc, batch, next,
          stored, schemaInitialized, result, calls, faults>>

NoResult == [kind |-> "none", count |-> 0]
Failed == [kind |-> "failed", count |-> 0]
Stored(n) == [kind |-> "stored", count |-> n]

(* Steps of a call inside a transaction, and all of them. *)
TxnSteps == {"schema", "create", "alter", "insert"}
Steps == {"idle", "start"} \cup TxnSteps

-----------------------------------------------------------------------------
(* What a transaction sees and what its next statement waits for.          *)

(* Catalog lookup by w: committed tables and its own. *)
TableVisible(w) == tableExists \/ created[w]

RowsLeft(w) == next[w] <= Len(batch[w])
NextTicket(w) == batch[w][next[w]]

(* READ COMMITTED: once the row is free, the statement works on the version *)
(* w itself wrote, else on the latest committed one.                        *)
CurrentRow(w, i) == IF staged[w][i] # NoRow THEN staged[w][i] ELSE rows[i]

(* The open transactions w's next statement has to wait for. *)
Blockers(w) ==
  {o \in Writers \ {w} :
     \/ pc[w] = "create" /\ created[o]
     \/ pc[w] = "alter" /\ tableLock[o] # "none"
     \/ /\ pc[w] = "insert" /\ TableVisible(w) /\ RowsLeft(w)
        /\ tableLock[o] = "exclusive" \/ staged[o][NextTicket(w).id] # NoRow}

(* w is on a cycle of waiting transactions. *)
Deadlocked(w) ==
  \E n \in 2..Cardinality(Writers) : \E c \in [1..n -> Writers] :
    /\ c[1] = w
    /\ \A k \in 1..n : c[(k % n) + 1] \in Blockers(c[k])

(* Fault: the connection is neither closed nor rolled back. *)
EndTransactionLeaked(w) == UNCHANGED txnVars

(* The end of w's transaction, committed or not: its locks are released. *)
EndTransaction(w) ==
  /\ staged' = [staged EXCEPT ![w] = EmptyTable]
  /\ created' = [created EXCEPT ![w] = FALSE]
  /\ tableLock' = [tableLock EXCEPT ![w] = "none"]

(* The call returns r, or raises. *)
Return(w, r) ==
  /\ pc' = [pc EXCEPT ![w] = "idle"]
  /\ result' = [result EXCEPT ![w] = r]
  /\ batch' = [batch EXCEPT ![w] = <<>>]
  /\ next' = [next EXCEPT ![w] = 1]
  /\ stored' = [stored EXCEPT ![w] = 0]

(* Fault: every row counts, whatever RETURNING says. *)
InsertedOneAlways(old) == 1

(* What a turn of the loop adds to stored_count: RETURNING (xmax = 0). *)
InsertedOne(old) == IF old = NoRow THEN 1 ELSE 0

GoTo(w, step) == pc' = [pc EXCEPT ![w] = step]

-----------------------------------------------------------------------------
Init ==
  /\ rows = EmptyTable
  /\ tableExists \in BOOLEAN
  /\ staged = [w \in Writers |-> EmptyTable]
  /\ created = [w \in Writers |-> FALSE]
  /\ tableLock = [w \in Writers |-> "none"]
  /\ pc = [w \in Writers |-> "idle"]
  /\ batch = [w \in Writers |-> <<>>]
  /\ next = [w \in Writers |-> 1]
  /\ stored = [w \in Writers |-> 0]
  /\ schemaInitialized = [w \in Writers |-> FALSE]
  /\ result = [w \in Writers |-> NoResult]
  /\ calls = [w \in Writers |-> 0]
  /\ faults = 0

(* save_many is called with tickets: the TypeError for anything else is    *)
(* left out, it comes before all that is modelled here.                    *)
CallSaveMany(w) ==
  /\ pc[w] = "idle"
  /\ calls[w] < MaxSaves
  /\ \E b \in Batches : batch' = [batch EXCEPT ![w] = b]
  /\ GoTo(w, "start")
  /\ result' = [result EXCEPT ![w] = NoResult]
  /\ calls' = [calls EXCEPT ![w] = @ + 1]
  /\ UNCHANGED <<dbVars, txnVars, next, stored, schemaInitialized, faults>>

(* No tickets: no connection is opened. *)
ReturnEmpty(w) ==
  /\ pc[w] = "start"
  /\ batch[w] = <<>>
  /\ Return(w, Stored(0))
  /\ UNCHANGED <<dbVars, txnVars, schemaInitialized, boundVars>>

(* connection_factory() and the start of the transaction. *)
Connect(w) ==
  /\ pc[w] = "start"
  /\ batch[w] # <<>>
  /\ GoTo(w, "schema")
  /\ UNCHANGED <<dbVars, txnVars, callVars, schemaInitialized, result, boundVars>>

ConnectFails(w) ==
  /\ pc[w] = "start"
  /\ batch[w] # <<>>
  /\ faults < MaxFaults
  /\ faults' = faults + 1
  /\ Return(w, Failed)
  /\ UNCHANGED <<dbVars, txnVars, schemaInitialized, calls>>

(* _ensure_schema returns at once. *)
SkipSchema(w) ==
  /\ pc[w] = "schema"
  /\ w \notin SchemaWriters \/ schemaInitialized[w]
  /\ GoTo(w, "insert")
  /\ UNCHANGED <<dbVars, txnVars, callVars, schemaInitialized, result, boundVars>>

(* CREATE TABLE IF NOT EXISTS looks the name up before it creates anything. *)
CheckTable(w) ==
  /\ pc[w] = "schema"
  /\ w \in SchemaWriters /\ ~schemaInitialized[w]
  /\ GoTo(w, IF TableVisible(w) THEN "alter" ELSE "create")
  /\ UNCHANGED <<dbVars, txnVars, callVars, schemaInitialized, result, boundVars>>

(* The catalog's unique index makes it wait for another open creator. *)
CreateTable(w) ==
  /\ pc[w] = "create"
  /\ Blockers(w) = {}
  /\ ~tableExists
  /\ created' = [created EXCEPT ![w] = TRUE]
  /\ tableLock' = [tableLock EXCEPT ![w] = "exclusive"]
  /\ GoTo(w, "alter")
  /\ UNCHANGED <<dbVars, staged, callVars, schemaInitialized, result, boundVars>>

(* Fault: the migrations are skipped once the table is there. *)
RunMigrationsUnlocked(w) ==
  /\ pc[w] = "alter"
  /\ schemaInitialized' = [schemaInitialized EXCEPT ![w] = TRUE]
  /\ GoTo(w, "insert")
  /\ UNCHANGED <<dbVars, txnVars, callVars, result, boundVars>>

(* The migrations: ALTER TABLE locks the table until the transaction ends. *)
(* The flag is set in the instance before anything is committed.           *)
RunMigrations(w) ==
  /\ pc[w] = "alter"
  /\ Blockers(w) = {}
  /\ tableLock' = [tableLock EXCEPT ![w] = "exclusive"]
  /\ schemaInitialized' = [schemaInitialized EXCEPT ![w] = TRUE]
  /\ GoTo(w, "insert")
  /\ UNCHANGED <<dbVars, staged, created, callVars, result, boundVars>>

(* One turn of the loop: INSERT ... ON CONFLICT DO UPDATE, fetchone, count. *)
UpsertNext(w) ==
  LET t == NextTicket(w)
      old == CurrentRow(w, t.id)
  IN
  /\ pc[w] = "insert"
  /\ RowsLeft(w)
  /\ TableVisible(w)
  /\ Blockers(w) = {}
  /\ staged' = [staged EXCEPT ![w][t.id] = UpsertedRow(old, t)]
  /\ stored' = [stored EXCEPT ![w] = @ + InsertedOne(old)]
  /\ next' = [next EXCEPT ![w] = @ + 1]
  /\ tableLock' = [tableLock EXCEPT ![w] = IF @ = "none" THEN "row" ELSE @]
  /\ UNCHANGED <<dbVars, created, pc, batch, schemaInitialized, result, boundVars>>

(* What the commit of w publishes. *)
Publish(w) ==
  /\ rows' = [i \in Ids |-> CurrentRow(w, i)]
  /\ tableExists' = TableVisible(w)

(* The end of `with connection`. *)
Commit(w) ==
  /\ pc[w] = "insert"
  /\ ~RowsLeft(w)
  /\ Publish(w)
  /\ EndTransaction(w)
  /\ Return(w, Stored(stored[w]))
  /\ UNCHANGED <<schemaInitialized, boundVars>>

(* The server commits but the connection breaks before its answer. *)
CommitAnswerLost(w) ==
  /\ pc[w] = "insert"
  /\ ~RowsLeft(w)
  /\ faults < MaxFaults
  /\ faults' = faults + 1
  /\ Publish(w)
  /\ EndTransaction(w)
  /\ Return(w, Failed)
  /\ UNCHANGED <<schemaInitialized, calls>>

(* Fault: autocommit, an exception keeps the rows already written. *)
RollbackKeepsRows(w) ==
  /\ Publish(w)
  /\ EndTransaction(w)
  /\ Return(w, Failed)
  /\ UNCHANGED <<schemaInitialized, calls>>

(* An exception inside `with connection`: roll back and raise. The         *)
(* instance keeps its flag.                                                *)
Rollback(w) ==
  /\ EndTransaction(w)
  /\ Return(w, Failed)
  /\ UNCHANGED <<dbVars, schemaInitialized, calls>>

(* The check saw no table, another writer has committed it since.          *)
TableAlreadyCreated(w) ==
  /\ pc[w] = "create"
  /\ tableExists
  /\ Rollback(w)
  /\ UNCHANGED faults

(* INSERT into a table that is not there. *)
TableMissing(w) ==
  /\ pc[w] = "insert"
  /\ RowsLeft(w)
  /\ ~TableVisible(w)
  /\ Rollback(w)
  /\ UNCHANGED faults

(* PostgreSQL's deadlock detector aborts one transaction of a cycle. *)
DeadlockVictim(w) ==
  /\ Deadlocked(w)
  /\ Rollback(w)
  /\ UNCHANGED faults

(* The connection breaks, or the server cancels a statement. *)
StatementFails(w) ==
  /\ pc[w] \in TxnSteps
  /\ faults < MaxFaults
  /\ faults' = faults + 1
  /\ Rollback(w)

(* The process dies and is started again with a new repository instance;   *)
(* the server rolls the transaction back, unless COMMIT had reached it.    *)
Crash(w) ==
  /\ pc[w] # "idle"
  /\ faults < MaxFaults
  /\ faults' = faults + 1
  /\ \/ UNCHANGED dbVars
     \/ pc[w] = "insert" /\ ~RowsLeft(w) /\ Publish(w)
  /\ EndTransaction(w)
  /\ Return(w, NoResult)
  /\ schemaInitialized' = [schemaInitialized EXCEPT ![w] = FALSE]
  /\ UNCHANGED calls

-----------------------------------------------------------------------------
(* What the program and the server do of themselves, once a call is made. *)
Proceed(w) ==
  \/ ReturnEmpty(w) \/ Connect(w) \/ SkipSchema(w) \/ CheckTable(w)
  \/ CreateTable(w) \/ RunMigrations(w) \/ UpsertNext(w) \/ Commit(w)
  \/ TableAlreadyCreated(w) \/ TableMissing(w) \/ DeadlockVictim(w)

Fault(w) ==
  ConnectFails(w) \/ CommitAnswerLost(w) \/ StatementFails(w) \/ Crash(w)

Terminated ==
  /\ \A w \in Writers : pc[w] = "idle" /\ calls[w] = MaxSaves
  /\ UNCHANGED vars

Next ==
  \/ \E w \in Writers : CallSaveMany(w) \/ Proceed(w) \/ Fault(w)
  \/ Terminated

(* A statement that can run is run; a commit or a detected deadlock is not *)
(* put off for ever. Nothing makes a caller call, or a fault happen.       *)
Fairness == \A w \in Writers : WF_vars(Proceed(w))

Spec == Init /\ [][Next]_vars
FairSpec == Spec /\ Fairness

-----------------------------------------------------------------------------
(* The types of the variables. *)
TypeOK ==
  /\ rows \in Contents
  /\ tableExists \in BOOLEAN
  /\ staged \in [Writers -> Contents]
  /\ created \in [Writers -> BOOLEAN]
  /\ tableLock \in [Writers -> {"none", "row", "exclusive"}]
  /\ pc \in [Writers -> Steps]
  /\ batch \in [Writers -> Seq(Ticket)]
  /\ next \in [Writers -> Nat \ {0}]
  /\ stored \in [Writers -> Nat]
  /\ schemaInitialized \in [Writers -> BOOLEAN]
  /\ result \in [Writers -> [kind : {"none", "failed", "stored"}, count : Nat]]
  /\ calls \in [Writers -> 0..MaxSaves]
  /\ faults \in 0..MaxFaults

(* The promise of save_many, read on this module's state: a call is in     *)
(* progress until it returns.                                              *)
Promise == INSTANCE BatchUpsert WITH
  pending <- [w \in Writers |-> [batch |-> batch[w], active |-> pc[w] # "idle"]]

(* Every save takes effect as one step on its whole batch, whatever the    *)
(* other writers, faults and rollbacks do meanwhile, and answers with the  *)
(* number of ids that step added (ticket_repository.py save_many).         *)
SavesAreAtomicUpserts == Promise!Spec

(* No lost update: the version of a row an open transaction holds is what  *)
(* the part of its batch already sent makes of the row as committed now,   *)
(* although other writers commit between its statements.                   *)
StagedRowsFollowCommitted ==
  \A w \in Writers, i \in Ids :
    LET sent == SubSeq(batch[w], 1, next[w] - 1) IN
    IF staged[w][i] # NoRow
    THEN staged[w][i] = RowAfter(rows[i], sent, i)
    ELSE Positions(sent, i) = {}

(* stored_count of an open transaction is the number of ids it would add   *)
(* to the table as committed now: RETURNING (xmax = 0) never counts a row  *)
(* twice, in one batch or between two writers.                             *)
StoredCountIsNewRows ==
  \A w \in Writers :
    stored[w] = Cardinality({i \in Ids : staged[w][i] # NoRow /\ rows[i] = NoRow})

(* One row of the table seen twice: later versions keep the text, and a    *)
(* business date that was once known stays known (COALESCE).               *)
KeepsTextAndDates(old, new) ==
  /\ new # NoRow
  /\ new.text = old.text
  /\ old.date # Null => new.date # Null

(* A committed row is never removed, its text columns are never rewritten, *)
(* and a later save without dates never erases the dates it has.           *)
CommittedRowsKeepTextAndDates ==
  [][\A i \in Ids : rows[i] # NoRow => KeepsTextAndDates(rows[i], rows'[i])]_rows

(* Why that holds: at most one open transaction has a version of a row,    *)
(* and that version keeps the text and the dates of the committed row even *)
(* when it was staged before other writers' commits.                       *)
RowLockInvariant ==
  /\ \A w, o \in Writers, i \in Ids :
       staged[w][i] # NoRow /\ staged[o][i] # NoRow => w = o
  /\ \A w \in Writers, i \in Ids :
       staged[w][i] # NoRow /\ rows[i] # NoRow =>
         KeepsTextAndDates(rows[i], staged[w][i])

(* The first save of a repository that creates the table, the only one the *)
(* extraction command does, is never on a deadlock, whatever order the     *)
(* other writers take their rows in: its ALTER TABLE waits for every one of *)
(* them, and later ones wait for its commit (_ensure_schema in save_many). *)
MigratingWritersNeverDeadlock ==
  \A w \in SchemaWriters : calls[w] = 1 => ~Deadlocked(w)

(* A repository that was asked to create the table finds it when it writes *)
(* ("Create the allowlisted clean ticket table when explicitly requested", *)
(* ticket_repository.py:109).                                              *)
RequestedTableIsThere ==
  \A w \in SchemaWriters : pc[w] = "insert" => TableVisible(w)

(* Every call of save_many returns or raises: waiting writers are never    *)
(* left waiting on one another.                                            *)
EverySaveEnds == \A w \in Writers : pc[w] # "idle" ~> pc[w] = "idle"
=============================================================================
