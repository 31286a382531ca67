-------------------------- MODULE TicketIngestion --------------------------
(***************************************************************************)
(* TicketIngestionService.ingest_tickets with the HaloPSA extractor, run   *)
(* by several processes over one table: extract a page, sanitize it,       *)
(* pseudonymize the agents, refuse residual PII, save, count. A page goes  *)
(* through as a whole or not at all. The fetch is the step HaloTransport   *)
(* and the save the step TicketStore is shown to be.                       *)
(*                                                                         *)
(* A text stands for all the text fields of a ticket; attr holds the       *)
(* pseudonym of the agent, made of the secret and the agent.               *)
(***************************************************************************)
EXTENDS BatchEffect, FiniteSets

CONSTANTS Runners,       \* processes that ingest
          RawIds,        \* ids as the provider has them
          CleanId,       \* CleanId[x]: the id after sanitization, which may mask it
          RawTexts,      \* texts as the provider has them
          CleanForm,     \* CleanForm[x]: raw text x after sanitization
          Residual,      \* clean forms in which the detector still finds PII
          Agents,        \* agent ids
          Secrets,       \* values of SYNAPPSE_AGENT_ID_HMAC_SECRET
          NoSecret,      \* the variable is absent or empty
          Missing,       \* a payload without an id
          Invalid,       \* a date that cannot be parsed
          OutOfRange,    \* a date whose UTC equivalent no datetime can hold
          Pages,         \* pages of payloads the provider may hold
          MaxRuns        \* bound: runs of each process

Payload == [id : RawIds \cup {Missing}, text : RawTexts, agent : Agents \cup {Null},
            date : Dates \cup {Null, Invalid, OutOfRange}]

ASSUME CleanIdAssumption == CleanId \in [RawIds -> Ids]
ASSUME CleanFormAssumption == CleanForm \in [RawTexts -> Texts]
ASSUME ResidualAssumption == Residual \subseteq Texts
ASSUME PagesAssumption == Pages \subseteq Seq(Payload)
ASSUME PseudonymsAssumption == Secrets \X Agents \subseteq Attrs
ASSUME MaxRunsAssumption == MaxRuns \in Nat
ASSUME SpecialAssumption ==
  /\ NoSecret \notin Secrets
  /\ Missing \notin RawIds
  /\ {Invalid, OutOfRange} \cap (Dates \cup {Null}) = {}

VARIABLES
  rows,       \* committed contents of clean_tickets
  pc,         \* next step of each run
  secret,     \* secret in the environment of each run
  include,    \* include_agent_pseudonym
  page,       \* payloads of the page each run has fetched
  batch,      \* the clean tickets of each run
  outcome,    \* what the last run of each process came to
  runs,       \* runs of each process, for the bound
  counted,    \* history: sum of the stored counts of completed runs
  uncounted,  \* history: rows added by saves whose answer was lost
  lastSaved   \* history: batch of the last save that was committed

vars == <<rows, pc, secret, include, page, batch, outcome, runs,
          counted, uncounted, lastSaved>>
history == <<counted, uncounted, lastSaved>>

NoOutcome == [kind |-> "none", extracted |-> 0, stored |-> 0, ignored |-> 0]
Stopped(reason) == [NoOutcome EXCEPT !.kind = reason]

Stop(r, reason) ==
  /\ pc' = [pc EXCEPT ![r] = "idle"]
  /\ outcome' = [outcome EXCEPT ![r] = Stopped(reason)]
  /\ UNCHANGED <<secret, include, page, batch, runs>>

-----------------------------------------------------------------------------
(* One payload on its way to the table.                                    *)

(* Fault: an invalid date is passed on. *)
BusinessDateUnchecked(d) == d

(* parse_provider_datetime: an invalid date becomes None. *)
BusinessDate(d) == IF d = Invalid THEN Null ELSE d

(* An id is required, and OverflowError is no ValueError. *)
Raises(payload) == payload.id = Missing \/ payload.date = OutOfRange

(* The payload whose exception ends the extraction: they are mapped in order. *)
FirstRaising(r) == page[r][First({k \in DOMAIN page[r] : Raises(page[r][k])})]

(* agent_id leaves the record, its pseudonym enters it when asked for. *)
Pseudonym(r, payload) ==
  IF include[r] /\ payload.agent # Null THEN <<secret[r], payload.agent>> ELSE Null

NeedsSecret(r) ==
  include[r] /\ \E k \in DOMAIN page[r] : page[r][k].agent # Null

CleanTicket(r, payload) ==
  [id |-> CleanId[payload.id], text |-> CleanForm[payload.text],
   attr |-> Pseudonym(r, payload), date |-> BusinessDate(payload.date)]

GuardedRecords(r) == [k \in DOMAIN page[r] |-> CleanTicket(r, page[r][k])]

(* Fault: the check is applied to the first record only. *)
ResidualPiiFirstOnly(b) == b # <<>> /\ b[1].text \in Residual

(* assert_no_residual_pii over the whole batch. *)
ResidualPii(b) == \E k \in DOMAIN b : b[k].text \in Residual

(* Fault: every ticket of the batch counts as stored. *)
StoredCountIsLength(table, b) == Len(b)

(* What save_many returns. *)
StoredCount(table, b) == Cardinality(NewIds(table, b))

-----------------------------------------------------------------------------
Init ==
  /\ rows = EmptyTable
  /\ pc = [r \in Runners |-> "idle"]
  /\ secret = [r \in Runners |-> NoSecret]
  /\ include = [r \in Runners |-> FALSE]
  /\ page = [r \in Runners |-> <<>>]
  /\ batch = [r \in Runners |-> <<>>]
  /\ outcome = [r \in Runners |-> NoOutcome]
  /\ runs = [r \in Runners |-> 0]
  /\ counted = 0
  /\ uncounted = 0
  /\ lastSaved = <<>>

Start(r) ==
  /\ pc[r] = "idle"
  /\ runs[r] < MaxRuns
  /\ runs' = [runs EXCEPT ![r] = @ + 1]
  /\ \E s \in Secrets \cup {NoSecret} : secret' = [secret EXCEPT ![r] = s]
  /\ \E b \in BOOLEAN : include' = [include EXCEPT ![r] = b]
  /\ pc' = [pc EXCEPT ![r] = "fetch"]
  /\ page' = [page EXCEPT ![r] = <<>>]
  /\ batch' = [batch EXCEPT ![r] = <<>>]
  /\ outcome' = [outcome EXCEPT ![r] = NoOutcome]
  /\ UNCHANGED <<rows, history>>

Fetch(r) ==
  /\ pc[r] = "fetch"
  /\ \E p \in Pages : page' = [page EXCEPT ![r] = p]
  /\ pc' = [pc EXCEPT ![r] = "extract"]
  /\ UNCHANGED <<rows, secret, include, batch, outcome, runs, history>>

FetchFails(r) ==
  /\ pc[r] = "fetch"
  /\ Stop(r, "fetch failed")
  /\ UNCHANGED <<rows, history>>

(* _to_incoming_ticket over the page: one exception ends the run. *)
Extract(r) ==
  /\ pc[r] = "extract"
  /\ \A k \in DOMAIN page[r] : ~Raises(page[r][k])
  /\ pc' = [pc EXCEPT ![r] = "guard"]
  /\ UNCHANGED <<rows, secret, include, page, batch, outcome, runs, history>>

(* The dates of a payload are mapped before its id is looked for. *)
IdMissing(r) ==
  /\ pc[r] = "extract"
  /\ \E k \in DOMAIN page[r] : Raises(page[r][k])
  /\ FirstRaising(r).date # OutOfRange
  /\ Stop(r, "id missing")
  /\ UNCHANGED <<rows, history>>

DateOverflows(r) ==
  /\ pc[r] = "extract"
  /\ \E k \in DOMAIN page[r] : Raises(page[r][k])
  /\ FirstRaising(r).date = OutOfRange
  /\ Stop(r, "date overflow")
  /\ UNCHANGED <<rows, history>>

(* The privacy guardrails let the whole batch through. *)
Guard(r) ==
  /\ pc[r] = "guard"
  /\ ~(NeedsSecret(r) /\ secret[r] = NoSecret)
  /\ ~ResidualPii(GuardedRecords(r))
  /\ batch' = [batch EXCEPT ![r] = GuardedRecords(r)]
  /\ pc' = [pc EXCEPT ![r] = "save"]
  /\ UNCHANGED <<rows, secret, include, page, outcome, runs, history>>

SecretMissing(r) ==
  /\ pc[r] = "guard"
  /\ NeedsSecret(r) /\ secret[r] = NoSecret
  /\ Stop(r, "secret missing")
  /\ UNCHANGED <<rows, history>>

PiiRemains(r) ==
  /\ pc[r] = "guard"
  /\ ~(NeedsSecret(r) /\ secret[r] = NoSecret)
  /\ ResidualPii(GuardedRecords(r))
  /\ Stop(r, "residual PII")
  /\ UNCHANGED <<rows, history>>

(* Fault: each ticket is saved by a call of its own, and one call fails. *)
SaveFirstOnly(r) ==
  LET b == SelectSeq(batch[r], LAMBDA ticket : ticket = batch[r][1]) IN
  /\ pc[r] = "save"
  /\ rows' = TableAfter(rows, b)
  /\ counted' = counted + StoredCount(rows, b)
  /\ lastSaved' = b
  /\ outcome' = [outcome EXCEPT ![r] =
       [kind |-> "completed", extracted |-> Len(page[r]),
        stored |-> StoredCount(rows, b), ignored |-> 0]]
  /\ pc' = [pc EXCEPT ![r] = "idle"]
  /\ UNCHANGED <<secret, include, page, batch, runs, uncounted>>

(* save_many, and the result made of its answer. *)
Save(r) ==
  LET stored == StoredCount(rows, batch[r]) IN
  /\ pc[r] = "save"
  /\ rows' = TableAfter(rows, batch[r])
  /\ counted' = counted + stored
  /\ lastSaved' = batch[r]
  /\ outcome' = [outcome EXCEPT ![r] =
       [kind |-> "completed", extracted |-> Len(page[r]),
        stored |-> stored, ignored |-> Len(batch[r]) - stored]]
  /\ pc' = [pc EXCEPT ![r] = "idle"]
  /\ UNCHANGED <<secret, include, page, batch, runs, uncounted>>

(* save_many raises, its transaction is rolled back; an empty batch opens  *)
(* none.                                                                   *)
SaveFails(r) ==
  /\ pc[r] = "save"
  /\ batch[r] # <<>>
  /\ Stop(r, "save failed")
  /\ UNCHANGED <<rows, history>>

(* save_many raises although the server has committed, or the process dies *)
(* before it can report.                                                   *)
SaveAnswerLost(r) ==
  /\ pc[r] = "save"
  /\ rows' = TableAfter(rows, batch[r])
  /\ uncounted' = uncounted + Cardinality(NewIds(rows, batch[r]))
  /\ lastSaved' = batch[r]
  /\ Stop(r, "save failed")
  /\ UNCHANGED counted

-----------------------------------------------------------------------------
Run(r) ==
  \/ Start(r) \/ Fetch(r) \/ FetchFails(r)
  \/ Extract(r) \/ IdMissing(r) \/ DateOverflows(r)
  \/ Guard(r) \/ SecretMissing(r) \/ PiiRemains(r)
  \/ Save(r) \/ SaveFails(r) \/ SaveAnswerLost(r)

Terminated ==
  /\ \A r \in Runners : pc[r] = "idle" /\ runs[r] = MaxRuns
  /\ UNCHANGED vars

Next == (\E r \in Runners : Run(r)) \/ Terminated

Spec == Init /\ [][Next]_vars

-----------------------------------------------------------------------------
Reasons == {"none", "completed", "fetch failed", "id missing", "date overflow",
            "secret missing", "residual PII", "save failed"}

(* The types of the variables. *)
TypeOK ==
  /\ rows \in Contents
  /\ pc \in [Runners -> {"idle", "fetch", "extract", "guard", "save"}]
  /\ secret \in [Runners -> Secrets \cup {NoSecret}]
  /\ include \in [Runners -> BOOLEAN]
  /\ page \in [Runners -> Seq(Payload)]
  /\ batch \in [Runners -> Seq(Ticket)]
  /\ outcome \in [Runners -> [kind : Reasons, extracted : Nat, stored : Nat, ignored : Nat]]
  /\ runs \in [Runners -> 0..MaxRuns]
  /\ counted \in Nat
  /\ uncounted \in Nat
  /\ lastSaved \in Seq(Ticket)

(* Nothing in the table holds residual PII or a pseudonym made without a   *)
(* secret, whichever runs stop where, with or without a secret: the checks *)
(* cover the whole batch before any of it is saved                         *)
(* (ticket_ingestion_service.py ingest_tickets).                           *)
RowsAreGuarded ==
  \A i \in Ids : rows[i] # NoRow =>
    /\ rows[i].text \notin Residual
    /\ rows[i].attr \in (Secrets \X Agents) \cup {Null}

(* A completed run has stored every ticket of its page, and what other     *)
(* runs do later takes none of them away.                                  *)
CompletedRunStoredItsPage ==
  \A r \in Runners : outcome[r].kind = "completed" =>
    \A k \in DOMAIN page[r] : rows[CleanId[page[r][k].id]] # NoRow

(* The stored counts the runs report add up to the rows of the table, save *)
(* those of saves whose answer was lost: no row is reported by two runs,   *)
(* or twice by one.                                                        *)
EveryRowCountedOnce ==
  counted + uncounted = Cardinality({i \in Ids : rows[i] # NoRow})

(* Saving again the batch that was saved last (a rerun after a lost        *)
(* answer) changes no row and reports nothing as stored.                   *)
RepeatedSaveChangesNothing ==
  [][\A r \in Runners :
       pc[r] = "save" /\ batch[r] = lastSaved /\ outcome'[r].kind = "completed" =>
         rows' = rows /\ outcome'[r].stored = 0 /\ outcome'[r].ignored = Len(batch[r])]_vars

(* "Invalid or unsupported provider date values fail closed to NULL and    *)
(* never block the whole ticket ingestion"                                 *)
(* (backend/docs/halopsa_business_dates.md:9).                             *)
DatesNeverBlockIngestion == \A r \in Runners : outcome[r].kind # "date overflow"
=============================================================================
