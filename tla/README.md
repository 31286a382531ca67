# TLA+ models of the redundant-ticket detection platform

These modules model the parts of the platform that run today: the backend
that extracts HaloPSA tickets under explicit gates, ingests them into PostgreSQL
and reports aggregates about them, and the ML package that turns tickets into a
dataset and exports it to a restricted directory. Every definition is translated
from the code; `PROJECT.json` gives the lines each one stands for. Paths below
are relative to the repository.

    tlc -config MCTicketStoreSafety.cfg MCTicketStore     # one of the runs
    tlapm TicketStoreProofs.tla                           # one of the proofs

## 1. Inventory

The program is a set of Python commands. There is no server and no thread; the
concurrency is between processes that run the commands, the PostgreSQL server,
the HaloPSA provider, and users that read the exported file.

| component | state it keeps | operations | who it talks to | what is hard |
|---|---|---|---|---|
| **PostgreSQL ticket repository** `backend/app/db/repositories/ticket_repository.py`, `db/schema.sql`, `db/migrations/` | the table `clean_tickets`; `_schema_initialized` per instance | `save_many`, `_ensure_schema` | psycopg2 connection, one transaction per call | several writers on the same rows, locks and deadlocks, rollback, a lost answer to COMMIT, the flag |
| in-memory repository `ticket_repository.py` | a list | `save_many` | tests | nothing |
| **ticket ingestion service** `services/ticket_ingestion_service.py`, `schemas/tickets.py` | none between runs | `ingest_tickets` | extractor, sanitizers, pseudonymization, repository | a page passes whole or not at all; reruns; overlapping runs |
| **HaloPSA HTTP transport** `data/extractors/halopsa_http_transport.py` | none between fetches | `fetch_tickets`, `_fetch_access_token`, `_request_json` | urllib, provider | two retry loops, lost answers, answers that are none, a provider that changes |
| HaloPSA client, extractor, dates `data/extractors/halopsa_client.py`, `halopsa_ticket_extractor.py`, `data/mappers/halopsa_dates.py` | none | payload to record, provider dates | transport | one bad payload in a page, dates at the limits |
| **sanitization and PII detection** `data/sanitizers.py`, `ml/src/preprocessing/pii.py` | none | `detect_pii`, `sanitize_text`, `sanitize_provider_text`, `assert_no_residual_pii` | ingestion, dataset | offsets after normalization, overlapping matches, what masking or the removal of a tag brings out |
| pseudonymization, guardrails `ml/src/preprocessing/pseudonymization.py`, `tickets.py` | the secret of the environment | HMAC of the agent | ingestion | the secret is absent, or changes between runs |
| **aggregate EDA** `data/commands/aggregate_ticket_eda.py`, `services/ticket_eda_service.py`, `db/repositories/ticket_eda_repository.py`, `schemas/ticket_eda.py` | singletons of service and repository | `build_report` | a connection per metric, a snapshot per statement | numbers of one report come from different snapshots |
| **controlled extraction command** `data/commands/controlled_halopsa_extract.py` | `os.environ` | `main`, `run_controlled_halopsa_extract` | dotenv file, configuration, transport, repository, service | gates before any effect; a setting checked in one place and used in another |
| PostgreSQL and HaloPSA configuration `db/postgres_config.py`, `data/extractors/halopsa_config.py` | none | `from_env`, `validate` | commands | two validations of one number |
| synthetic extractor | none | two constant tickets | tests | nothing |
| **secure export** `ml/src/ml_contract/secure_export.py`, `storage_guard.py` | the files, the umask | validate, write, rename, scan, purge | file system | a failure or a death between any two calls; two exports and one temporary name |
| EDA date scope `ml/src/eda/ticket_scope.py` | none | date of a record, counters | dataset | a copy of the backend's SQL filter; time zones |
| **dataset contract, transforms, dry run** `ml/src/ml_contract/` | none | column checks, feature rows, dry run report, command line | export | the same gates in three places; personal data that appears after the masking |
| docs, project management, CI | none | | | |

What makes each of the modelled ones correct:

* **repository**: a save is one atomic upsert of its batch whatever the others
  do; committed texts and dates are never lost; the count is that of the new
  rows; a call never hangs.
* **ingestion**: nothing with residual PII, and no pseudonym without a secret,
  is stored; a run that completes has stored its whole page; a rerun is
  harmless; no row is counted twice.
* **transport**: a bounded number of requests; the page returned is one the
  provider had; a fetch ends, with one kind of exception.
* **controlled extraction**: a blocked run has touched nothing; provider and
  database are touched only under their flags, which no dotenv file can turn on
  against the environment; whatever they do, they do with a whole configuration.
* **EDA**: numbers that belong together add up when nothing commits between,
  and are at least never impossible (a rate above one) when published.
* **sanitization and dataset**: a text loses its matches and nothing else;
  personal data is left only for causes that can be named; the dry run is
  evidence for the export; nothing of an accepted source is left out; the date
  scope is the backend's.
* **secure export**: the file is never readable by others nor half written;
  what stays at the destination has passed its scan; and where a fault, or a
  second export, prevents that, which.

`PROJECT.json` lists the hazards behind these sentences at their lines, with
the properties that cover them.

## 2. Modules

    CleanTickets            a row, and what one upsert statement does to it
      BatchEffect           what a whole batch does to the table
        BatchUpsert         abstract: what a save promises
        TicketStore         detailed: save_many, statement by statement
        TicketIngestion     runs of the service over the table
        TicketEda           a report over the table
    HaloTransport           a fetch
    ControlledExtract       the command: settings, gates, and the run it starts
    PiiSanitizer            detection and masking on texts
      TicketDataset         contract, scope, features, dry run and export gates
    SecureExport            exports to one destination

    BatchEffectProofs, TicketStoreProofs (with the refinement),
    TicketIngestionProofs, TicketEdaProofs, HaloTransportProofs,
    ControlledExtractProofs, TicketDatasetProofs (with the texts),
    SecureExportProofs
    MCTicketStore, MCTicketIngestion, MCTicketEda, MCHaloTransport,
    MCControlledExtract, MCTicketDataset, MCSecureExport

How they compose: `TicketStore` implements `BatchUpsert` (an `INSTANCE` named
`Promise`, with the mapping "a call is pending until it returns"), which is
proved. Because of that, `TicketIngestion` and `TicketEda` let a save be one
step that applies `TableAfter`, the operator `BatchUpsert` is stated with. The
fetch of an ingestion run is one step that returns a page or fails, which is
what `HaloTransport` shows of `fetch_tickets`; the ingestion run that
`ControlledExtract` starts is the one of `TicketIngestion`, reduced to the ways
it ends. `TicketDataset` prepares the rows that `SecureExport` writes, which
reach it as a value.

### CleanTickets and BatchEffect

`schema.sql` has many columns; the conflict clause of `save_many` treats them
in three ways, and a row is a record with one field for each: `text` (set by the
INSERT, never updated), `attr` (overwritten), `date` (`COALESCE(EXCLUDED.x,
clean_tickets.x)`). `UpsertedRow(row, ticket)` is one statement.

`BatchEffect` describes a batch without its order of statements: the text is
that of the first ticket with the id in an absent row, the attribute that of the
last, the date the last known one (`TableAfter`), and `NewIds` are the ids the
save adds. It is the reference definition `TicketStore` is compared with.

### TicketStore

One process per writer; a writer's variables are the locals of `save_many`
(`batch`, `next`, `stored`), the flag of its repository instance, its position,
and the state of its transaction on the server: `staged` row versions,
`created`, and its lock on the table.

| action | code |
|---|---|
| `CallSaveMany`, `ReturnEmpty` | the call, the early return for no tickets |
| `Connect`, `ConnectFails` | `connection_factory()` |
| `SkipSchema`, `CheckTable`, `CreateTable`, `TableAlreadyCreated`, `RunMigrations` | `_ensure_schema`: the flag, CREATE TABLE IF NOT EXISTS in its two halves (look up, create), the ALTER TABLEs and the setting of the flag |
| `UpsertNext`, `TableMissing` | one turn of the loop, with RETURNING (xmax = 0) |
| `Commit`, `CommitAnswerLost`, `StatementFails`, `DeadlockVictim` | the end of `with connection`, every way |
| `Crash` | the process ends; a new one has a new flag |

PostgreSQL is external: READ COMMITTED (a statement sees what is committed when
it runs, or the transaction's own version), row locks held to the end, an
exclusive lock for ALTER TABLE, a unique-key conflict in the catalog for two
CREATE TABLEs, and a detector that aborts one transaction of a cycle. A
statement that must wait is not enabled. `DeadlockVictim` picks any transaction
of the cycle.

### TicketIngestion

One process per runner: `Start` reads the environment, then fetch, extract,
guard, save. `RawIds`, `CleanId`, `RawTexts`, `CleanForm` and `Residual` abstract
the sanitizer: which id and text come out, and whether the detector still finds
something in it. `CleanId` need not be injective, since `_sanitize` treats the id
as a text and masks it. A page stops at its first payload without an id or with
a date `astimezone` cannot convert (dates are mapped before the id). A pseudonym
is the pair of secret and agent. The reasons a run ends with are the exceptions
of the code. A save may take effect and its answer be lost.

`counted`, `uncounted` and `lastSaved` are history variables: no action's guard
reads them.

### TicketEda

`Plan` lists the statements of `build_report` in the order of the code; `Query`
runs the next one on the table as it is then; `Ingest` may commit a batch in
between. A metric is a number in `seen`, and `Answer` is what each one would be
now. The metrics a single statement answers share its snapshot; a rate divides
two of them (`Rates`), some of one statement and some of two. A rate above one
makes the schema refuse the report when the metric is built, an exception of the
driver leaves `main` as it is. Of several statements of the same shape (three
distributions, two text qualities) one stands in their place. Left out: text
lengths, percentiles and other figures one statement computes by itself, and the
singletons.

### HaloTransport

`fetch_tickets` with its two requests, each up to `max_retries + 1` times. An
exchange is sent, answered by the provider (`issued` grows even if the answer is
lost), and taken by the client. Answers are a token, a page, a 4xx status,
another error status, text that is not JSON, JSON that is not an object, a
timeout, or a connection that ends too early. `provider` may change at any time.

### ControlledExtract

A setting is the class of its text (`Values`: absent, empty, blank, true, a text
nothing accepts, and the kinds of numbers the parsers tell apart), an
environment a function from settings to classes. Client id, client secret, tenant
and scope have one class together (`Missing` asks only whether all are set), and so
have the four keys of a PostgreSQL connection without a DSN. `junk` is, of the base
URL, the paths and the credentials, a text that is there and cannot be sent: no
scheme, no host or no port in the URL, a space or a letter outside ASCII in a
path, bytes that are no UTF-8 in the credentials. URLs of other schemes that
`urlopen` knows (`file:`, `ftp:`) are left out.

| action | code |
|---|---|
| `Init` | `main`, or a caller with a mapping and components of its own |
| `LoadDotenv` | `load_local_dotenv` (`override=False`) |
| `BuildConfig` | required keys and numbers of `build_config_from_env` |
| `CheckInjected` | the real transport or repository injected without its flag |
| `SelectTransport`, `SelectRepository`, `SelectService` | the injected component, the one built under its flag, or the refusal |
| `Delegate` | an injected service |
| `SettingsRefused`, `TicketsPathRefused` | what the gates let through and `Request()`, `http.client` or the socket does not: before anything is sent, or after a token has been issued |
| `Fetch`, `Guard`, `GuardFails`, `Save`, `SaveFails` | the ingestion run |

`requested` and `connected` are history: the real transport has sent a request,
the real repository has opened a connection. The secret is checked in the
mapping the command was given (`env`) but read from `os.environ` (`environ`) when
a page is pseudonymized; for `main` these are the same, for a caller not.

### PiiSanitizer

A text is a sequence of characters of a few kinds: a letter, a digit, white
space, an at sign, a full stop, angle brackets, a keyword such as "login", the
beginning of a link, and `&`, which encodes the character after it once
(`Normalize` takes one level away, as `html.unescape` does). Three more are there for
`text.lower()`: the entity of a space by its name, the same name in capitals, which
is no entity, and a capital that becomes a letter and a mark.

Each of the five patterns is an operator (`EmailEnds`, `PhoneEnds`, `Ipv4Ends`,
`UrlEnds`, `IdentifierEnds`) with the borders it has in the code, since these decide
what masking one match does to its neighbours: an address of a person may not be
followed by a letter or digit nor follow a character of a local part; a phone number
may touch anything but a digit; the other three begin at a border of a word, and a
network address ends at one. Lengths are reduced: three digits are a phone number,
two a network address, one label is a domain, one character is a token.

`DetectPii` finds greedy matches from left to right for each pattern, on a text it
normalizes again; `SanitizeText` replaces from left to right, by offsets in the
text it was given, and skips matches that start inside the one replaced before;
`GuardedText` is the way of a provider text: white space, masking, tags, white
space, masking. The wrappers around an address that was masked (`mailto:`,
`<[EMAIL]>`, `sanitizers.py:47`) are left out: what they remove holds no match and
is beside a placeholder.

Every operator on texts is one walk over the positions, as the loops of the code
and of `re` are: `Walk` collects a part for each position it visits, `Keep` leaves
positions out (normalization, strip, collapsed spaces, the filter of the records),
`Visited` are the positions a scan comes to when a match makes it jump, and
`Substitute` puts a mark in place of stretches (the masking, the tags). The
recursion is a function on positions and not a `RECURSIVE` operator, so that the
provers can unfold it.

### TicketDataset

The source is a sequence of records with a set of columns (name and whether in
lower case), two texts and a date. `ContractCounts` is the column check;
`CoercedDate` the date of a record, in hours around the minimum with an offset;
`ScopeMetrics` and `InScope` the two places that compare it, and `SqlIncluded`
the filter of the backend in a session time zone, each with the minimum its own
module writes down (`ScopeMinimum`, `ContractMinimum`, `RepositoryMinimum`);
`FeatureTexts` the rows: `CleanedText` joins the two texts, masks the whole, puts it in
small letters and collapses its spaces.
`DryRun`, `PrepareExport` / `RefuseExport` and `RunCommandLine` are the three places
that decide about a source or a request, and `GuardPage` is what the ingestion
says of the same texts. They share no state, so they run in one order.

### SecureExport

A file is its content and mode. One action per system call of
`write_parquet_securely`: umask and directory, open, write, chmod, rename,
chmod, then the scan and the purge of `_write_and_scan`. Each may fail and `Die` may
come between any two; then the next export starts from what is left. Several
processes export to the same destination: they share the directory, the temporary
name and the target. `handle` is the name of the file a process has open; it
follows the file when another process renames it, and is lost when the name is
given to another file. What is validated before the first call is `Refuse`.

`alone` (no other export ran since this one began) and `collided` (two exports
had the temporary name at the same time) are history variables.

## 3. Runs

| run | instance | distinct states | shows |
|---|---|---|---|
| `store_safety` | 2 writers, both creating the schema, 2 saves each, 2 faults, 2 ids | 57 052 | types, no lost update, the right count, locks, no deadlock of a save that migrates, no text or date lost, refinement of `BatchUpsert` |
| `store_liveness` | 3 writers that never create the table and one save each, opposite orders, 1 fault | 6 589 | every call returns or raises |
| `store_schema_flag` | 1 writer, 2 saves, 1 fault | | finding 1 |
| `eda_safety` | 3 commits, 1 report | 484 514 | the report adds up if nothing commits, included ≤ source always, no rate above one is published, and a report is refused only if something committed |
| `export_safety` | 2 exporters, 4 exports, 2 faults, 4 sets of rows | 245 260 | owner only, umask given back, never partial, findings or a temporary file left only by a fault or a collision, what a passed export alone has left |
| `export_scan` | 1 exporter, 1 export, 1 fault | | finding 2 |
| `transport` | 2 fetches, 1 retry, 2 tickets | 20 932 | token of this fetch, bounded requests, one page, and every fetch ends |
| `transport_errors` | 1 fetch | | finding 3 |
| `ingestion_safety` | 2 processes, 2 runs each, 2 secrets, 6 pages | 1 603 970 | guarded rows, whole pages, rows counted once, harmless rerun |
| `ingestion_dates` | the same | | finding 4 |
| `extract_gates` | a complete environment with one or two settings changed, as exports, dotenv file and mapping; every set of injected components | 2 094 911 | blocked runs did nothing, effects need their flags, no dotenv file turns one on, the secret is there, effects have their settings |
| `dataset` | every text of up to 4 of 12 blocks, longer ones with encodings and tags, every pair of 19 dates, every set of up to 4 of 10 columns, 30 requests | 129 205 | the gates agree, nothing of a source is left out, the two scopes, what masking loses, the causes of residual PII |

Why the bounds are enough for what is asked:

* two ids and two writers give opposite orders and thus a deadlock; a batch that
  repeats an id and one that omits a date give each branch of the conflict
  clause. Two saves per writer let the second skip the schema, with a flag that
  may be wrong, while the other writer is still in its first. Two faults let a
  rollback be followed by another;
* three writers in `store_liveness` give cycles and a queue behind a cycle;
* three commits in `eda_safety` let a row appear, gain a date and change an
  attribute between three statements. Two texts, marked by different scans,
  and two dates, one on each side of the limit, give all branches of the filters;
* two exporters are what a collision takes, and four exports with two faults let
  a death or a collision be followed by an export that ends, and by another;
* one retry distinguishes "first", "last" and "too many" attempts; two fetches
  let a token or page of the first come back in the second;
* two runs of two processes give a rerun after a lost answer with another run in
  between, and a change of secret. The pages give each reason to stop, after a
  ticket that would have passed, and two reasons in the order that matters;
* a gate looks at one setting, or at a flag and one setting: all environments
  that differ in one setting (exports, dotenv) or two (mappings) from a complete
  one meet each gate as the first that blocks. Whole and empty environments are
  combined with whole and empty dotenv files;
* four blocks (`MaxBlocks`) hold two matches of any two patterns side by side, or a
  match with a tag or a space in it, and what they can bring out: each cause in
  `ResidualPiiHasACause` is met, and the run fails when any one of them is left out.
  Texts with one to five levels of encoding of one to eight characters shift the
  offsets past a match, and four parts of matches with a tag behind each are joined
  by the removal of the tags. Seven characters (`MaxTextChars`, 512 in the code) cut
  such a text anywhere, and three (`SecretChars`) are the shortest run that is
  longer than a pair. Dates lie up to two hours around the minimum with offsets,
  and sessions in time zones (`Zones` −2, 0, 1), on both sides.

Limits of what a property says: `store_liveness` has no writer that creates the
schema, so that the race of two CREATE TABLEs is covered for safety only;
`FindingsNeedAFault` excepts every fault, of which `export_scan` then shows one;
`AcceptedSourceIsReadWhole` speaks of the counters of the dry run, not of the
constants in the report of an export; `TextsLoseTheirMatches` and
`ResidualPiiHasACause` except texts that are encoded more than once.

`MaxSaves`, `MaxFaults`, `MaxRuns`, `MaxCommits`, `MaxReports`, `MaxExports`,
`MaxFetches` and `MaxBlocks` are bounds of the models; `MaxRetries`,
`MaxTextChars` and `SecretChars` are constants of the code. When the bounds are
used up the system may stop: each module has a `Terminated` step, so deadlock
is looked for in every run. No symmetry is used.

Every property has a fault in `PROJECT.json` ("mutants"), an operator marked
"Fault:" in the modules, under which its run fails.

## 4. Fairness

`TicketStore!FairSpec` has weak fairness for each writer's `Proceed`, the
disjunction of what a call does next. That is: PostgreSQL runs a statement
whose locks are free, and aborts a transaction of a cycle (`deadlock_timeout`).
Since `Proceed` contains `DeadlockVictim`, a writer on a cycle is never stuck,
although the victim may be another. Faults and calls have no fairness.

`HaloTransport!FairSpec` has weak fairness for the client and for the end of an
exchange. `urlopen` is given a timeout, which bounds each socket operation and
not the whole answer: the assumption is that a provider does not drip bytes for
ever. How the exchange ends is not constrained.

Liveness is checked in `store_liveness` and `transport`. The other modules state
safety only: a command that is not run, or a process that dies, satisfies them.

## 5. Proofs

Every safety invariant and every action property of the runs is proved, as is the
refinement of `BatchUpsert`; the liveness properties are only model-checked. The
theorems hold for every number of writers, runners or exporters, every set of ids
and dates, all batches, pages, environments and sources, texts of any length over
the characters of `PiiSanitizer`, and all bounds. The assumptions are the
`ASSUME`s of the modules: bounds are naturals, `NoRow` and `NoFile` are no row and no
file, batches are sequences of tickets, environments are functions from settings
to classes, and the sources of `TicketDataset` are sequences of records with
finitely many columns each (`CasesAssumption`).

**BatchEffectProofs.** Lemmas about `First`, `Last` (they exist by the
well-foundedness of the naturals, since no recursion is used), the sources of
each field of `RowAfter`, the rows after a batch, and the number of new ids.
`SavingTwiceIsSavingOnce`: for each table and batch, applying the batch to
`TableAfter(table, batch)` changes nothing, and `NewIds` is then empty.

**TicketStoreProofs.** `TypeCorrect`: Spec ⇒ □TypeOK. `RowsAreLocked`: Spec ⇒
□RowLockInvariant, two open transactions never hold a version of the same
row, and a staged version keeps the text and known dates of the committed
row. It is inductive together with TypeOK: a commit replaces a row by a version
that keeps it (`KeepsIsTransitive` for versions staged earlier by the same writer),
and, the first conjunct says, nobody else has a version of that row that could now
be wrong. `RowsKeepTextAndDates` is the action property that follows: no step
removes a committed row, rewrites its text or loses a date.
`FirstSavesNeverDeadlock`: the first save of an instance that runs the migrations is
not on a cycle of waiting transactions. `MigrationInv` is why: until it has sent the
migrations such a save holds nothing another could wait for, afterwards it holds
the exclusive lock on the table and waits for nobody, since nobody else holds a
lock on it, and the flag cannot have let it skip the migrations.

The second half of the module is the refinement. `StagedRowsFollow` and `CountsFollow`: what an
open transaction has staged is the effect of the prefix of its batch already sent
on the table *as committed now*, and its count is that of the ids the prefix would
add to it. The table changes under the transaction, but not in the rows it holds
a version of, by the lock invariant; one more statement is `RowAfterNext`, how
`RowAfter` changes when the batch grows by one ticket, which needs no induction
because `RowAfter` speaks of first and last positions. `SavesAreAtomic`: Spec ⇒
SavesAreAtomicUpserts. A call begins when `Connect` may follow, a commit is the
abstract upsert of the whole batch (the two invariants at the end of the loop),
and every other step is a stutter or a failure without effect.

**TicketIngestionProofs.** The invariant is the conjunction of the types; what
each run has at each step (`RunInvariant`: after the guard the batch has no
residual PII, and its pseudonyms have a secret; the batch is the guarded page);
`LastSaveIsThere`: applying the batch saved last to the table changes
nothing, which is what `SavingTwiceIsSavingOnce` gives after each save;
`RowsAreGuarded`; and `CompletedRunStoredItsPage`. None of them is inductive
alone: the rows are guarded because the batches are, and completed runs keep
their rows because no save removes one. From it:
`IngestionTypeCorrect`, `RowsStayGuarded`, `CompletedRunsStored`, `RepeatedSaves` (with
`SavingTwiceIsSavingOnce`) and `RowsCountedOnce`, whose invariant adds that the
set of rows is finite and its cardinality the sum of the counts.

**TicketEdaProofs.** `ReportsAddUp`, `RatesAreRates`, `BlockedReportsWereDisturbed`,
`ReportTypeCorrect`.
`FreshInv`: while nothing has committed since the report began, what was read is
what `Answer` is now. `RateInv`: no rate read so far is above one, because the report is refused with
the statement that makes it so; and a rate that one statement answers cannot be. `ScopeInv`: the included tickets, counted first, are at most those of the
source as it is now, since a save removes none. The set of rows is finite although
`Ids` need not be, because a batch is; that is what cardinalities need, and what
makes every metric of `TypeOK` a number (`AnswerType`).

**HaloTransportProofs.** `TokensAreFresh`, `RequestsStayBounded`, `PagesAreOffered`,
`TransportTypeCorrect`.
The requests sent are counted against the phase and the attempt of the fetch
(`2 * (MaxRetries + 1)` is the last step of two loops); a page on its way or
returned is among those the provider had since the fetch began. The types rest on
that invariant: an attempt that is not bounded by the loop leaves its range.

**ControlledExtractProofs.** `ExtractTypeCorrect`, `BlockedBeforeAnyEffect`,
`EffectsUnderFlags`, `DotenvCannotOverride`, `PagesHaveTheirSecret` and
`EffectsAreConfigured`. Four invariants by step: the mapping of a command is
`os.environ` after the dotenv file, which keeps what was exported; past each gate
its condition holds of the mapping and of the components selected; no effect
before the fetch, and none by a real component without its flag; and past the
configuration no parser rejects anything in the mapping (`SettingsInv`), which still
holds when something is requested, since no later step changes the mapping.

**SecureExportProofs.** `ExportTypeCorrect`, `FilesStayOwnerOnly`,
`UmasksAreGivenBack`, `DestinationStaysWhole`, `FindingsDoNotStay`,
`PassedExportsAreThere`, `NoTemporaryIsLeft`, with overlapping exporters. The umask of
a process depends on its step alone, so every file is created private; a handle
that is open points to the file of that name, so a write meets a file and keeps
its mode. Without a collision one exporter at most is past the opening of the
temporary file, and what it finds there is its own; an exporter alone meets only
what dead ones left, which opening truncates.

**TicketDatasetProofs.** `GatesAlwaysAgree`, `SourceAlwaysReadWhole`,
`ScopesAlwaysDifferNearMidnightOnly`, `TextsAlwaysLoseTheirMatches`,
`ResidualPiiAlwaysHasACause`. The inductive invariant `ResultsAreComputed` says that
source and request stay one of `Cases`, and that each result, once there, is what
its part of the code makes of them, or the exception of a date out of range. The
rest is about operators, for every source:

* *the gates.* The dry run tests two counts for zero, the export their sum: these
  agree because the counts are naturals, which takes that a text has finitely many
  matches (`DetectPiiFinite`). The gates of the command line are those of the
  export by cases, in another order.
* *the source.* `ValidColumns`: a column that passes the first check in another
  case fails one of the other two. `ScopePartition`: the counters are the cells of
  a partition of the records, and the rows are as many as its first cell.
* *the scopes.* Integer arithmetic on days and hours, for every offset and zone.
* *walks.* `WalkIsCollected` shows that the recursive function of a walk exists, and
  `Downwards`, a well-foundedness argument, stands in for induction on the
  positions that are left. Then `KeepLists`: what `Keep` returns is listed by an
  increasing function to the kept positions, and there is only one such list
  (`ListsUnique`); `SubstituteTraced`: each character of a substitution comes from
  a visited position, and between two visited positions there is either nothing or
  the rest of a match; `FindIterFinds`: a scan meets every position that starts a
  match outside the matches before it.
* *what is left.* Texts without anything to decode are closed under masking,
  removing tags and spaces (`MaskedIsClean`, `StripTagsIsClean`, `KeepClean`), so
  the second normalization of the detector changes nothing there.
  `MaskedMatchIsRest`: what matches in a masked text touches a placeholder, or its
  category has left a rest: a match of the text that begins inside one of another
  category and ends behind it. Any other would stand between two stretches that
  were not replaced, so it is a stretch of the text before with the same borders
  (`MaskedStretch`); `StretchMatch` says, pattern by pattern, that such a stretch
  matches where it came from, and there each match starts where a scan comes by,
  or inside a longer one. The same stretches lead back through the collapsed
  spaces (`CollapsedStretch`: only spaces behind a space are gone, which each
  pattern either allows or cannot contain) and through the truncation, unless a
  match ends at the cut (`PrefixMatch`).
* *what is lost.* Of disjoint matches each start is visited, so what the masking
  leaves is just what no match covers (`LeftIsUncovered`) and the two lists of
  characters are one by `ListsUnique`; the placeholders are counted by a bijection
  with the matches. With overlaps only one inclusion holds (`UncoveredIsLeft`), and
  a bound on the lengths follows.

The cause of a blocked page is stated on the text after `Strip`, which is the text
the code normalizes first (`sanitizers.py:22`).

Only model-checked: liveness (`EverySaveEnds`, `EveryFetchEnds`) under the fairness of
section 4, which is out of the prover's reach, as is `ENABLED`; and the four
findings below, which are counterexamples.

## 6. Findings

1. `store_schema_flag`: `_schema_initialized` is set inside the transaction that
   creates the table. After a rollback the flag is wrong and each later save of
   the instance fails on the missing table (`ticket_repository.py:116`).
2. `export_scan`: a scan that raises leaves the unscanned export at the
   destination, against "purge it if post-write scan fails" (`secure_export.py:179`).
3. `transport_errors`: a connection that ends while the answer is read, and an
   answer that is not UTF-8, leave the transport as exceptions of other types, without
   a retry (`halopsa_http_transport.py:100`).
4. `ingestion_dates`: a date whose UTC equivalent is out of range raises
   `OverflowError` and stops the page, against "never block the whole ticket
   ingestion" (`halopsa_dates.py:65`).

Facts the models show that have no run of their own:

* `_safe_rate` promises a bounded rate (`ticket_eda_repository.py:376`), but its
  total may be of an earlier snapshot; only the `le=1` of the schema stops the
  report, and only after a commit in between (`OnlyDisturbedReportsAreBlocked`).
* Settings that no gate refuses make a run fail with an error that is neither
  `ControlledExtractionError` nor one of the transport: a timeout of `nan`, `inf` or
  1e10, a base URL without a scheme, a path that cannot be sent
  (`SettingsRefused`). A bad path of the tickets shows only after a token has been
  issued (`TicketsPathRefused`).
* A caller of `run_controlled_halopsa_extract` that passes a mapping has the secret
  checked in it, while pseudonymization reads `os.environ`: its page may be fetched
  and then refused. `FetchedPagesHaveTheirSecret` holds for the command only.
* `commands/README.md:5` says the command does not load `.env` files; `main` calls
  `load_local_dotenv`, which `LoadDotenv` models and `ExportedRefusalStands` bounds.
* `_parse_iso_like_date` of the date scope promises to "fail closed to exclusion",
  and lets the `OverflowError` of `astimezone` out of the dry run and the export
  (`DryRunRaises`, `ExportRaises`).
* Masking a match can bring another one out. Of `login 0701 02 03 04 05 06` the
  first token is masked as an identifier and leaves `02 03 04 05 06`, the rest of a
  match that was skipped. In `a@b.co0601020304` the digits keep `a@b.co` from being an
  address; they are masked as a phone number, and the result is `a@b.co[PHONE]`. In
  `x@www.foo.com/https://z` the link begins inside the address and is skipped: its
  rest, `[EMAIL]/https://z`, holds another link, apart from the placeholder. What
  comes out touches a placeholder or is of the category of a skipped match.
  The second masking of the ingestion or its residual check sees it; the dataset has
  one pass, and its scan blocks the export. Two more causes are the dataset's:
  `text.lower()` makes an entity of `&NBSP;`, which the scan decodes, and two
  characters of `İ`; and the truncation may cut a longer run of digits down to a
  number, or a placeholder in two (the model keeps a placeholder whole, the
  remains of one count as one). Removing a tag after the first masking joins what it
  kept apart. `ResidualPiiHasACause` says that these and nested encoding are the only
  causes.
* Two exports to one destination use one temporary name. Without any fault,
  their collision can put a half-written file at the destination, leave rows
  there that no scan has passed, or let an export purge the file of one that
  passed. The properties of `SecureExport` name the collision as the exception.
* The report of an export gives constants for its excluded rows
  (`secure_export.py:194`).

## 7. Not modelled

* The in-memory repository and the synthetic extractor: used in tests, no state
  worth a model.
* Formats: URLs, SQL text, date formats, the regular expressions of PII and NFKC,
  Parquet, the wording of reports. The models have the classes of values the code
  then tells apart.
* The calendar features and buckets of the feature rows, and the percentiles of
  the EDA: each is a value of one row or one statement, and nothing depends on it.
* The EDA singletons: the command builds one report per process.
* `read_from_env` and the redacted summary of the PostgreSQL configuration: no
  state, and no gate.
* The order in which pages of different runs are saved: the models have it; the
  code has no version to compare and promises nothing.
* The expiry of an export: it is reported, and no code removes the file.

## 8. Plan

Done, in this order: CleanTickets, BatchEffect, TicketStore and BatchUpsert (the
table is where all actors meet); TicketEda; HaloTransport; TicketIngestion;
SecureExport, with overlapping exporters; ControlledExtract; PiiSanitizer and
TicketDataset; the proofs of section 5, of every safety property.

What would come next:

1. `BusinessDates`: classes of provider dates, the epoch threshold at its
   boundary, the fold of naive dates, against a reference.
2. `HaloTransport` as the implementation of an abstract fetch (a page the provider
   offered, or a failure), which is the step `TicketIngestion` takes for it, with a
   proof of the refinement in `HaloTransportProofs`; likewise the end of the
   command in `ControlledExtract` against that of a run in `TicketIngestion`.
3. What an idempotent masking would take: the texts for which sanitizing twice is
   sanitizing once.
