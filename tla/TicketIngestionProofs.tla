------------------------ MODULE TicketIngestionProofs ------------------------
(***************************************************************************)
(* Theorems about TicketIngestion, for any number of runners, any pages    *)
(* and any bounds.                                                         *)
(***************************************************************************)
EXTENDS TicketIngestion, BatchEffectProofs

(* A text and an attribute the guardrails let through. *)
Guarded(rec) ==
  /\ rec.text \notin Residual
  /\ rec.attr \in (Secrets \X Agents) \cup {Null}

(* What is true of a run between two of its steps. *)
RunInvariant ==
  \A r \in Runners :
    /\ pc[r] # "idle" => outcome[r].kind = "none"
    /\ outcome[r].kind = "completed" => \A k \in DOMAIN page[r] : page[r][k].id \in RawIds
    /\ pc[r] \in {"guard", "save"} => \A k \in DOMAIN page[r] : ~Raises(page[r][k])
    /\ pc[r] = "save" =>
         /\ batch[r] = GuardedRecords(r)
         /\ \A k \in DOMAIN batch[r] : Guarded(batch[r][k])

(* The table already holds what was saved last. *)
LastSaveIsThere == TableAfter(rows, lastSaved) = rows

Invariant ==
  /\ TypeOK
  /\ RunInvariant
  /\ LastSaveIsThere
  /\ RowsAreGuarded
  /\ CompletedRunStoredItsPage

-----------------------------------------------------------------------------
(* The steps that do not save.                                             *)

(* What a run that does not complete reports. *)
LEMMA OutcomeTypes ==
  /\ NoOutcome \in [kind : Reasons, extracted : Nat, stored : Nat, ignored : Nat]
  /\ \A reason \in Reasons :
       /\ Stopped(reason) \in [kind : Reasons, extracted : Nat, stored : Nat, ignored : Nat]
       /\ Stopped(reason).kind = reason
BY DEF NoOutcome, Stopped, Reasons

(* A run that stops leaves the other runs and the table as they are. *)
LEMMA StopKeeps ==
  ASSUME Invariant, NEW r \in Runners, NEW reason \in Reasons \ {"completed"},
         Stop(r, reason), UNCHANGED <<rows, history>>
  PROVE  Invariant'
<1>1. TypeOK'
  BY OutcomeTypes DEF Invariant, TypeOK, Stop, history
<1>2. RunInvariant'
  BY OutcomeTypes
     DEF Invariant, TypeOK, RunInvariant, Stop, GuardedRecords, CleanTicket, Pseudonym, Guarded
<1>3. LastSaveIsThere' /\ RowsAreGuarded'
  BY DEF Invariant, LastSaveIsThere, RowsAreGuarded, history
<1>4. CompletedRunStoredItsPage'
  BY OutcomeTypes DEF Invariant, TypeOK, CompletedRunStoredItsPage, Stop
<1> QED
  BY <1>1, <1>2, <1>3, <1>4 DEF Invariant

(* The records of a page whose payloads can all be mapped are tickets. *)
LEMMA GuardedRecordsType ==
  ASSUME TypeOK, NEW r \in Runners,
         \A k \in DOMAIN page[r] : ~Raises(page[r][k]),
         ~(NeedsSecret(r) /\ secret[r] = NoSecret)
  PROVE  /\ GuardedRecords(r) \in Seq(Ticket)
         /\ \A k \in DOMAIN page[r] :
              GuardedRecords(r)[k].attr \in (Secrets \X Agents) \cup {Null}
<1>1. page[r] \in Seq(Payload)
  BY DEF TypeOK
<1>2. ASSUME NEW k \in DOMAIN page[r]
      PROVE  /\ CleanTicket(r, page[r][k]) \in Ticket
             /\ CleanTicket(r, page[r][k]).attr \in (Secrets \X Agents) \cup {Null}
  <2> DEFINE p == page[r][k]
  <2>1. p \in Payload /\ ~Raises(p)
    BY <1>1
  <2>2. CleanId[p.id] \in Ids /\ p.date \in Dates \cup {Null, Invalid}
    BY <2>1, CleanIdAssumption DEF Payload, Raises
  <2>3. BusinessDate(p.date) \in Dates \cup {Null}
    BY <2>2 DEF BusinessDate
  <2>4. CleanForm[p.text] \in Texts
    BY <2>1, CleanFormAssumption DEF Payload
  <2>5. Pseudonym(r, p) \in (Secrets \X Agents) \cup {Null}
    <3>1. CASE include[r] /\ p.agent # Null
      <4>1. p.agent \in Agents
        BY <2>1, <3>1 DEF Payload
      <4>2. secret[r] \in Secrets
        BY <3>1 DEF NeedsSecret, TypeOK
      <4> QED
        BY <3>1, <4>1, <4>2 DEF Pseudonym
    <3>2. CASE ~(include[r] /\ p.agent # Null)
      BY <3>2 DEF Pseudonym
    <3> QED
      BY <3>1, <3>2
  <2>6. Pseudonym(r, p) \in Attrs \cup {Null}
    BY <2>5, PseudonymsAssumption
  <2> QED
    BY <2>2, <2>3, <2>4, <2>5, <2>6 DEF CleanTicket, Ticket
<1> QED
  BY <1>1, <1>2 DEF GuardedRecords

-----------------------------------------------------------------------------
(* The steps that save.                                                    *)

(* What a save does to the table. *)
LEMMA SaveEffect ==
  ASSUME Invariant, NEW r \in Runners, pc[r] = "save",
         rows' = TableAfter(rows, batch[r]), lastSaved' = batch[r]
  PROVE  /\ rows' \in Contents
         /\ LastSaveIsThere'
         /\ RowsAreGuarded'
         /\ \A i \in Ids : rows[i] # NoRow => rows'[i] # NoRow
         /\ \A k \in DOMAIN page[r] :
              page[r][k].id \in RawIds /\ rows'[CleanId[page[r][k].id]] # NoRow
<1>1. batch[r] \in Seq(Ticket) /\ rows \in Contents
  BY DEF Invariant, TypeOK
<1>2. \A i \in Ids : rows[i] \in Row \cup {NoRow}
  BY <1>1 DEF Contents
<1>3. \A i \in Ids : rows'[i] = RowAfter(rows[i], batch[r], i)
  BY DEF TableAfter
<1>4. rows' \in Contents
  BY <1>1, TableAfterType
<1>5. LastSaveIsThere'
  BY <1>1, SavingTwiceIsSavingOnce DEF LastSaveIsThere
<1>6. RowsAreGuarded'
  <2> SUFFICES ASSUME NEW i \in Ids, rows'[i] # NoRow
               PROVE  Guarded(rows'[i])
    BY DEF RowsAreGuarded, Guarded
  <2>1. rows[i] # NoRow => Guarded(rows[i])
    BY DEF Invariant, RowsAreGuarded, Guarded
  <2>2. \A k \in DOMAIN batch[r] : Guarded(batch[r][k])
    BY DEF Invariant, RunInvariant
  <2>3. /\ \/ rows[i] # NoRow /\ rows'[i].text = rows[i].text
           \/ \E k \in DOMAIN batch[r] : rows'[i].text = batch[r][k].text
        /\ \/ rows[i] # NoRow /\ rows'[i].attr = rows[i].attr
           \/ \E k \in DOMAIN batch[r] : rows'[i].attr = batch[r][k].attr
    BY <1>1, <1>2, <1>3, RowAfterSources
  <2> QED
    BY <2>1, <2>2, <2>3 DEF Guarded
<1>7. ASSUME NEW i \in Ids, rows[i] # NoRow \/ Positions(batch[r], i) # {}
      PROVE  rows'[i] # NoRow
  <2>1. CASE Positions(batch[r], i) # {}
    BY <1>1, <1>2, <1>3, <2>1, RowAfterType, NoRowAssumption
  <2>2. CASE Positions(batch[r], i) = {}
    BY <1>3, <1>7, <2>2 DEF RowAfter
  <2> QED
    BY <2>1, <2>2
<1>8. ASSUME NEW k \in DOMAIN page[r]
      PROVE  page[r][k].id \in RawIds /\ rows'[CleanId[page[r][k].id]] # NoRow
  <2>1. page[r][k].id \in RawIds
    <3>1. page[r][k] \in Payload
      BY DEF Invariant, TypeOK
    <3>2. ~Raises(page[r][k])
      BY DEF Invariant, RunInvariant
    <3> QED
      BY <3>1, <3>2 DEF Payload, Raises
  <2>2. batch[r] = GuardedRecords(r)
    BY DEF Invariant, RunInvariant
  <2>3. k \in DOMAIN batch[r] /\ batch[r][k].id = CleanId[page[r][k].id]
    BY <2>2 DEF GuardedRecords, CleanTicket
  <2>4. k \in Positions(batch[r], CleanId[page[r][k].id])
    BY <2>3 DEF Positions
  <2> QED
    BY <1>7, <2>1, <2>4, CleanIdAssumption
<1> QED
  BY <1>4, <1>5, <1>6, <1>7, <1>8

(* What a save, with or without an answer, leaves of the invariant. *)
LEMMA SaveKeeps ==
  ASSUME Invariant, NEW r \in Runners, pc[r] = "save",
         rows' = TableAfter(rows, batch[r]), lastSaved' = batch[r],
         pc' = [pc EXCEPT ![r] = "idle"],
         UNCHANGED <<secret, include, page, batch, runs>>,
         counted' \in Nat, uncounted' \in Nat,
         NEW result \in [kind : Reasons, extracted : Nat, stored : Nat, ignored : Nat],
         outcome' = [outcome EXCEPT ![r] = result]
  PROVE  Invariant'
<1>1. TypeOK'
  BY SaveEffect DEF Invariant, TypeOK
<1>2. RunInvariant'
  <2> SUFFICES ASSUME NEW o \in Runners
               PROVE  /\ pc'[o] # "idle" => outcome'[o].kind = "none"
                      /\ \A k \in DOMAIN page[o] :
                           outcome'[o].kind = "completed" => page[o][k].id \in RawIds
                      /\ pc'[o] \in {"guard", "save"} => \A k \in DOMAIN page[o] : ~Raises(page[o][k])
                      /\ pc'[o] = "save" =>
                           /\ batch[o] = GuardedRecords(o)
                           /\ \A k \in DOMAIN batch[o] : Guarded(batch[o][k])
    BY DEF RunInvariant, GuardedRecords, CleanTicket, Pseudonym, Guarded
  <2>1. CASE o = r
    BY <2>1, SaveEffect DEF Invariant, TypeOK
  <2>2. CASE o # r
    BY <2>2 DEF Invariant, TypeOK, RunInvariant
  <2> QED
    BY <2>1, <2>2
<1>3. CompletedRunStoredItsPage'
  <2> SUFFICES ASSUME NEW o \in Runners, outcome'[o].kind = "completed",
                      NEW k \in DOMAIN page[o]
               PROVE  rows'[CleanId[page[o][k].id]] # NoRow
    BY DEF CompletedRunStoredItsPage
  <2>1. CASE o = r
    BY <2>1, SaveEffect
  <2>2. CASE o # r
    <3>1. outcome[o].kind = "completed"
      BY <2>2 DEF Invariant, TypeOK
    <3>2. rows[CleanId[page[o][k].id]] # NoRow
      BY <3>1 DEF Invariant, CompletedRunStoredItsPage
    <3>3. page[o][k].id \in RawIds
      BY <3>1 DEF Invariant, RunInvariant
    <3> QED
      BY <3>2, <3>3, SaveEffect, CleanIdAssumption
  <2> QED
    BY <2>1, <2>2
<1> QED
  BY <1>1, <1>2, <1>3, SaveEffect DEF Invariant
-----------------------------------------------------------------------------
(* The invariant holds at the start and is kept by every action.           *)

(* The first state has it. *)
LEMMA InitInvariant == Init => Invariant
<1> SUFFICES ASSUME Init PROVE Invariant
  OBVIOUS
<1>1. TypeOK
  <2>1. rows \in Contents
    BY DEF Init, EmptyTable, Contents
  <2>2. <<>> \in Seq(Payload) /\ <<>> \in Seq(Ticket)
    OBVIOUS
  <2> QED
    BY <2>1, <2>2, OutcomeTypes, MaxRunsAssumption DEF Init, TypeOK
<1>2. RunInvariant
  BY DEF Init, RunInvariant, NoOutcome
<1>3. LastSaveIsThere
  BY DEF Init, LastSaveIsThere, TableAfter, RowAfter, Positions, EmptyTable
<1>4. RowsAreGuarded /\ CompletedRunStoredItsPage
  BY DEF Init, RowsAreGuarded, CompletedRunStoredItsPage, EmptyTable, NoOutcome
<1> QED
  BY <1>1, <1>2, <1>3, <1>4 DEF Invariant

(* A start resets what the last run of the process left. *)
LEMMA StartKeeps ==
  ASSUME Invariant, NEW r \in Runners, Start(r)
  PROVE  Invariant'
<1>1. TypeOK'
  <2>1. runs[r] + 1 \in 0..MaxRuns
    BY MaxRunsAssumption DEF Invariant, TypeOK, Start
  <2>2. <<>> \in Seq(Payload) /\ <<>> \in Seq(Ticket)
    OBVIOUS
  <2> QED
    BY <2>1, <2>2, OutcomeTypes DEF Invariant, TypeOK, Start, history
<1>2. RunInvariant'
  BY DEF Invariant, TypeOK, RunInvariant, Start, NoOutcome, GuardedRecords, CleanTicket,
         Pseudonym, Guarded
<1>3. LastSaveIsThere' /\ RowsAreGuarded'
  BY DEF Invariant, LastSaveIsThere, RowsAreGuarded, Start, history
<1>4. CompletedRunStoredItsPage'
  BY DEF Invariant, TypeOK, CompletedRunStoredItsPage, Start, NoOutcome
<1> QED
  BY <1>1, <1>2, <1>3, <1>4 DEF Invariant

(* The steps of a run between its start and its save. *)
LEMMA ProceedKeeps ==
  ASSUME Invariant, NEW r \in Runners, Fetch(r) \/ Extract(r) \/ Guard(r)
  PROVE  Invariant'
<1>1. /\ pc[r] # "idle"
      /\ UNCHANGED <<rows, secret, include, outcome, runs, history>>
      /\ \A o \in Runners \ {r} :
           pc'[o] = pc[o] /\ page'[o] = page[o] /\ batch'[o] = batch[o]
  BY DEF Invariant, TypeOK, Fetch, Extract, Guard
<1>2. outcome[r].kind = "none"
  BY <1>1 DEF Invariant, RunInvariant
<1>3. TypeOK'
  <2>1. CASE Fetch(r)
    BY <2>1, PagesAssumption DEF Invariant, TypeOK, Fetch, history
  <2>2. CASE Extract(r)
    BY <2>2 DEF Invariant, TypeOK, Extract, history
  <2>3. CASE Guard(r)
    <3>1. GuardedRecords(r) \in Seq(Ticket)
      BY <2>3, GuardedRecordsType DEF Invariant, RunInvariant, Guard
    <3> QED
      BY <2>3, <3>1 DEF Invariant, TypeOK, Guard, history
  <2> QED
    BY <2>1, <2>2, <2>3
<1>4. RunInvariant'
  <2> SUFFICES ASSUME NEW o \in Runners
               PROVE  /\ pc'[o] # "idle" => outcome[o].kind = "none"
                      /\ outcome[o].kind = "completed" =>
                           \A k \in DOMAIN page'[o] : page'[o][k].id \in RawIds
                      /\ pc'[o] \in {"guard", "save"} =>
                           \A k \in DOMAIN page'[o] : ~Raises(page'[o][k])
                      /\ pc'[o] = "save" =>
                           /\ batch'[o] = GuardedRecords(o)'
                           /\ \A k \in DOMAIN batch'[o] : Guarded(batch'[o][k])
    BY <1>1 DEF RunInvariant, Guarded
  <2>1. CASE o # r
    <3>1. GuardedRecords(o)' = GuardedRecords(o)
      BY <1>1, <2>1 DEF GuardedRecords, CleanTicket, Pseudonym
    <3> QED
      BY <1>1, <2>1, <3>1 DEF Invariant, RunInvariant
  <2>2. CASE o = r /\ Fetch(r)
    BY <1>2, <2>2 DEF Invariant, TypeOK, Fetch
  <2>3. CASE o = r /\ Extract(r)
    BY <1>2, <2>3 DEF Invariant, TypeOK, Extract
  <2>4. CASE o = r /\ Guard(r)
    <3>1. \A k \in DOMAIN GuardedRecords(r) : Guarded(GuardedRecords(r)[k])
      <4>1. DOMAIN GuardedRecords(r) = DOMAIN page[r]
        BY DEF GuardedRecords
      <4>2. \A k \in DOMAIN page[r] :
              GuardedRecords(r)[k].attr \in (Secrets \X Agents) \cup {Null}
        BY <2>4, GuardedRecordsType DEF Invariant, RunInvariant, Guard
      <4> QED
        BY <2>4, <4>1, <4>2 DEF Guard, ResidualPii, Guarded
    <3>2. pc'[r] = "save" /\ batch'[r] = GuardedRecords(r) /\ page' = page
      BY <2>4 DEF Invariant, TypeOK, Guard
    <3>3. GuardedRecords(r)' = GuardedRecords(r)
      BY <1>1, <3>2 DEF GuardedRecords, CleanTicket, Pseudonym
    <3>4. \A k \in DOMAIN page[r] : ~Raises(page[r][k])
      BY <2>4 DEF Invariant, RunInvariant, Guard
    <3> QED
      BY <1>2, <2>4, <3>1, <3>2, <3>3, <3>4
  <2> QED
    BY <2>1, <2>2, <2>3, <2>4
<1>5. LastSaveIsThere' /\ RowsAreGuarded'
  BY <1>1 DEF Invariant, LastSaveIsThere, RowsAreGuarded, history
<1>6. CompletedRunStoredItsPage'
  BY <1>1, <1>2 DEF Invariant, CompletedRunStoredItsPage
<1> QED
  BY <1>3, <1>4, <1>5, <1>6 DEF Invariant

(* A save keeps the invariant, whether its answer arrives or not. *)
LEMMA SavesKeep ==
  ASSUME Invariant, NEW r \in Runners, Save(r) \/ SaveAnswerLost(r)
  PROVE  Invariant'
<1>1. batch[r] \in Seq(Ticket) /\ rows \in Contents /\ counted \in Nat /\ uncounted \in Nat
  BY DEF Invariant, TypeOK
<1>2. /\ Cardinality(NewIds(rows, batch[r])) \in 0..Len(batch[r])
      /\ Cardinality(NewIds(rows, batch[r])) \in Nat
  BY <1>1, NewIdsBound, Len(batch[r]) \in Nat
<1>3. CASE Save(r)
  <2> DEFINE stored == StoredCount(rows, batch[r])
             result == [kind |-> "completed", extracted |-> Len(page[r]),
                        stored |-> stored, ignored |-> Len(batch[r]) - stored]
  <2>1. stored \in Nat /\ Len(batch[r]) - stored \in Nat
    BY <1>1, <1>2, Len(batch[r]) \in Nat DEF StoredCount
  <2>2. Len(page[r]) \in Nat
    BY DEF Invariant, TypeOK
  <2>3. result \in [kind : Reasons, extracted : Nat, stored : Nat, ignored : Nat]
    BY <2>1, <2>2 DEF Reasons
  <2>4. counted' \in Nat /\ uncounted' \in Nat
    BY <1>1, <1>3, <2>1 DEF Save
  <2>5. outcome' = [outcome EXCEPT ![r] = result]
    BY <1>3 DEF Save
  <2> HIDE DEF result
  <2> QED
    BY <1>3, <2>3, <2>4, <2>5, SaveKeeps DEF Save
<1>4. CASE SaveAnswerLost(r)
  <2>1. Stopped("save failed") \in [kind : Reasons, extracted : Nat, stored : Nat, ignored : Nat]
    BY OutcomeTypes DEF Reasons
  <2>2. counted' \in Nat /\ uncounted' \in Nat
    <3> DEFINE lost == Cardinality(NewIds(rows, batch[r]))
    <3>1. counted' = counted /\ uncounted' = uncounted + lost
      BY <1>4 DEF SaveAnswerLost
    <3>2. lost \in Nat
      BY <1>2
    <3> HIDE DEF lost
    <3> QED
      BY <1>1, <3>1, <3>2
  <2> QED
    BY <1>4, <2>1, <2>2, SaveKeeps DEF SaveAnswerLost, Stop
<1> QED
  BY <1>3, <1>4

(* So does every step. *)
LEMMA NextInvariant == Invariant /\ [Next]_vars => Invariant'
<1> SUFFICES ASSUME Invariant, [Next]_vars PROVE Invariant'
  OBVIOUS
<1>1. ASSUME NEW r \in Runners, Run(r)
      PROVE  Invariant'
  <2>1. CASE Start(r)
    BY <2>1, StartKeeps
  <2>2. CASE Fetch(r) \/ Extract(r) \/ Guard(r)
    BY <2>2, ProceedKeeps
  <2>3. CASE FetchFails(r)
    BY <2>3, StopKeeps, "fetch failed" \in Reasons \ {"completed"} DEF FetchFails, Reasons
  <2>4. CASE IdMissing(r)
    BY <2>4, StopKeeps, "id missing" \in Reasons \ {"completed"} DEF IdMissing, Reasons
  <2>5. CASE DateOverflows(r)
    BY <2>5, StopKeeps, "date overflow" \in Reasons \ {"completed"} DEF DateOverflows, Reasons
  <2>6. CASE SecretMissing(r)
    BY <2>6, StopKeeps, "secret missing" \in Reasons \ {"completed"} DEF SecretMissing, Reasons
  <2>7. CASE PiiRemains(r)
    BY <2>7, StopKeeps, "residual PII" \in Reasons \ {"completed"} DEF PiiRemains, Reasons
  <2>8. CASE SaveFails(r)
    BY <2>8, StopKeeps, "save failed" \in Reasons \ {"completed"} DEF SaveFails, Reasons
  <2>9. CASE Save(r) \/ SaveAnswerLost(r)
    BY <2>9, SavesKeep
  <2> QED
    BY <1>1, <2>1, <2>2, <2>3, <2>4, <2>5, <2>6, <2>7, <2>8, <2>9 DEF Run
<1>2. CASE UNCHANGED vars
  BY <1>2
  DEF vars, history, Invariant, TypeOK, RunInvariant, LastSaveIsThere, RowsAreGuarded,
      CompletedRunStoredItsPage, GuardedRecords, CleanTicket, Pseudonym, Guarded
<1> QED
  BY <1>1, <1>2 DEF Next, Terminated

(* The invariant, and with it the facts a save of the same batch again     *)
(* needs, hold in every state.                                             *)
LEMMA InvariantHolds == Spec => []Invariant
BY InitInvariant, NextInvariant, PTL DEF Spec

(* Every reachable state is well typed: in particular a completed run never *)
(* reports a negative number of ignored tickets                             *)
(* (ticket_ingestion_service.py ingest_tickets).                            *)
THEOREM IngestionTypeCorrect == Spec => []TypeOK
BY InvariantHolds, PTL DEF Invariant

(* Nothing in the table holds residual PII or a pseudonym made without a   *)
(* secret (ticket_ingestion_service.py ingest_tickets, tickets.py).        *)
THEOREM RowsStayGuarded == Spec => []RowsAreGuarded
BY InvariantHolds, PTL DEF Invariant

(* A completed run has stored every ticket of its page, for good           *)
(* (ticket_ingestion_service.py ingest_tickets, ticket_repository.py       *)
(* save_many).                                                             *)
THEOREM CompletedRunsStored == Spec => []CompletedRunStoredItsPage
BY InvariantHolds, PTL DEF Invariant

(* Saving again the batch that was saved last changes no row and reports   *)
(* nothing as stored (ticket_repository.py save_many).                     *)
THEOREM RepeatedSaves == Spec => RepeatedSaveChangesNothing
<1> DEFINE Repeated(r) ==
      pc[r] = "save" /\ batch[r] = lastSaved /\ outcome'[r].kind = "completed" =>
        rows' = rows /\ outcome'[r].stored = 0 /\ outcome'[r].ignored = Len(batch[r])
<1>1. ASSUME Invariant, Next, NEW r \in Runners, pc[r] = "save", batch[r] = lastSaved,
             outcome'[r].kind = "completed"
      PROVE  rows' = rows /\ outcome'[r].stored = 0 /\ outcome'[r].ignored = Len(batch[r])
  <2>1. outcome[r].kind = "none"
    BY <1>1 DEF Invariant, RunInvariant
  <2>2. Save(r)
    <3>1. PICK o \in Runners : Run(o)
      BY <1>1 DEF Next, Terminated, vars
    <3>2. outcome'[r] # outcome[r]
      BY <1>1, <2>1
    <3>3. CASE Save(o)
      <4>1. o = r
        BY <3>2, <3>3 DEF Save, Invariant, TypeOK
      <4> QED
        BY <3>3, <4>1
    <3>4. ASSUME ~Save(o)
          PROVE  FALSE
      <4>1. CASE Start(o)
        BY <1>1, <2>1, <4>1 DEF Invariant, TypeOK, Start, NoOutcome
      <4>2. CASE Fetch(o) \/ Extract(o) \/ Guard(o)
        BY <3>2, <4>2 DEF Fetch, Extract, Guard
      <4>3. CASE \E reason \in Reasons \ {"completed"} : Stop(o, reason)
        BY <1>1, <2>1, <4>3, OutcomeTypes DEF Invariant, TypeOK, Stop
      <4> QED
        BY <3>1, <3>4, <4>1, <4>2, <4>3
        DEF Run, FetchFails, IdMissing, DateOverflows, SecretMissing, PiiRemains, SaveFails,
            SaveAnswerLost, Reasons
    <3> QED
      BY <3>3, <3>4
  <2>3. batch[r] \in Seq(Ticket) /\ rows \in Contents
    BY <1>1 DEF Invariant, TypeOK
  <2>4. rows' = rows
    BY <1>1, <2>2 DEF Save, Invariant, LastSaveIsThere
  <2>5. NewIds(rows, batch[r]) = {}
    BY <1>1, <2>3, SavingTwiceIsSavingOnce DEF Invariant, LastSaveIsThere
  <2>6. StoredCount(rows, batch[r]) = 0
    BY <2>5, FS_EmptySet DEF StoredCount
  <2>7. outcome'[r].stored = 0 /\ outcome'[r].ignored = Len(batch[r]) - 0
    <3> DEFINE answer(n) == [kind |-> "completed", extracted |-> Len(page[r]),
                             stored |-> n, ignored |-> Len(batch[r]) - n]
    <3>1. outcome' = [outcome EXCEPT ![r] = answer(StoredCount(rows, batch[r]))]
      BY <2>2 DEF Save
    <3>2. outcome'[r] = answer(0)
      BY <1>1, <2>6, <3>1 DEF Invariant, TypeOK
    <3> QED
      BY <3>2
  <2>8. Len(batch[r]) \in Nat
    BY <2>3
  <2> QED
    BY <2>4, <2>7, <2>8
<1>2. Invariant /\ [Next]_vars => [\A r \in Runners : Repeated(r)]_vars
  BY <1>1
<1>3. Spec => [][\A r \in Runners : Repeated(r)]_vars
  BY <1>2, InvariantHolds, PTL DEF Spec
<1> QED
  BY <1>3 DEF RepeatedSaveChangesNothing

(* The counts, of a finite number of rows, add up. *)
CountInvariant ==
  /\ IsFiniteSet({i \in Ids : rows[i] # NoRow})
  /\ EveryRowCountedOnce

(* Every step keeps the counts. *)
LEMMA CountKeeps == Invariant /\ CountInvariant /\ [Next]_vars => CountInvariant'
<1> SUFFICES ASSUME Invariant, CountInvariant, [Next]_vars
             PROVE  CountInvariant'
  OBVIOUS
<1>1. ASSUME NEW r \in Runners, Save(r) \/ SaveAnswerLost(r)
      PROVE  CountInvariant'
  <2> DEFINE new == Cardinality(NewIds(rows, batch[r]))
             before == {i \in Ids : rows[i] # NoRow}
             after == {i \in Ids : TableAfter(rows, batch[r])[i] # NoRow}
  <2>1. batch[r] \in Seq(Ticket) /\ rows \in Contents /\ counted \in Nat /\ uncounted \in Nat
    BY DEF Invariant, TypeOK
  <2>2. new \in Nat
    BY <2>1, NewIdsBound, Len(batch[r]) \in Nat
  <2>3. IsFiniteSet(before) /\ counted + uncounted = Cardinality(before)
    BY DEF CountInvariant, EveryRowCountedOnce
  <2>4. IsFiniteSet(after) /\ Cardinality(after) = Cardinality(before) + new
    BY <2>1, <2>3, RowsAfter
  <2>5. rows' = TableAfter(rows, batch[r])
    BY <1>1 DEF Save, SaveAnswerLost
  <2>6. \/ counted' = counted + new /\ uncounted' = uncounted
        \/ counted' = counted /\ uncounted' = uncounted + new
    BY <1>1 DEF Save, SaveAnswerLost, StoredCount
  <2>7. {i \in Ids : rows'[i] # NoRow} = after
    BY <2>5
  <2>8. counted' + uncounted' = (counted + uncounted) + new
    <3> HIDE DEF new
    <3> QED
      BY <2>1, <2>2, <2>6
  <2>9. counted' + uncounted' = Cardinality(after)
    <3> HIDE DEF new, before, after
    <3> QED
      BY <2>3, <2>4, <2>8
  <2> QED
    BY <2>4, <2>7, <2>9 DEF CountInvariant, EveryRowCountedOnce
<1>2. CASE UNCHANGED <<rows, counted, uncounted>>
  BY <1>2 DEF CountInvariant, EveryRowCountedOnce
<1> QED
  BY <1>1, <1>2
  DEF Next, Terminated, vars, Run, Start, Fetch, FetchFails, Extract, IdMissing, DateOverflows,
      Guard, SecretMissing, PiiRemains, SaveFails, history

(* No row of the table is reported as stored by two runs, or twice by one  *)
(* (ticket_repository.py save_many, ticket_ingestion_service.py            *)
(* ingest_tickets).                                                        *)
THEOREM RowsCountedOnce == Spec => []EveryRowCountedOnce
<1>1. Init => CountInvariant
  <2> SUFFICES ASSUME Init PROVE CountInvariant
    OBVIOUS
  <2>1. {i \in Ids : rows[i] # NoRow} = {}
    BY DEF Init, EmptyTable
  <2>2. counted + uncounted = 0
    BY DEF Init
  <2> QED
    BY <2>1, <2>2, FS_EmptySet DEF CountInvariant, EveryRowCountedOnce
<1>2. CountInvariant => EveryRowCountedOnce
  BY DEF CountInvariant
<1> QED
  BY <1>1, <1>2, CountKeeps, InvariantHolds, PTL DEF Spec
=============================================================================
