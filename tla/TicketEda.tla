------------------------------ MODULE TicketEda ------------------------------
(***************************************************************************)
(* The aggregate EDA report (aggregate_ticket_eda.py, ticket_eda_service.py *)
(* and ticket_eda_repository.py) while saves commit.                       *)
(*                                                                         *)
(* build_report asks the repository one metric after the other; every      *)
(* metric opens its own connection, and every statement has its own        *)
(* snapshot. Between two statements any number of saves may commit: a save *)
(* is here the one step that TicketStore is shown to implement.            *)
(***************************************************************************)
EXTENDS BatchEffect, FiniteSets

CONSTANTS RecentDates,       \* dates on or after DEFAULT_MIN_TICKET_CREATED_AT
          Marks,             \* the texts in which each scan finds something
          Batches,           \* batches the ingestion may commit
          MaxCommits,        \* bound: commits in a behaviour
          MaxReports         \* bound: runs of the command

ASSUME RecentDatesAssumption == RecentDates \subseteq Dates
ASSUME BatchesAssumption == Batches \subseteq Seq(Ticket)
ASSUME BoundsAssumption == MaxCommits \in Nat /\ MaxReports \in Nat
ASSUME MarksAssumption ==
  Marks \in [{"placeholder", "blank", "untitled", "residual", "heuristic"} -> SUBSET Texts]

VARIABLES
  rows,       \* committed contents of clean_tickets
  status,     \* what the command has come to
  step,       \* position in the statements of build_report
  seen,       \* metrics read so far
  disturbed,  \* history: the table changed since the report began
  commits,    \* commits so far, for the bound
  reports     \* runs of the command so far, for the bound

vars == <<rows, status, step, seen, disturbed, commits, reports>>

-----------------------------------------------------------------------------
(* The scope filter: WHERE ticket_created_at >= minimum, and its complement. *)
Source == {i \in Ids : rows[i] # NoRow}
Included == {i \in Source : rows[i].date \in RecentDates}
(* Fault: historical is whatever is not included. *)
HistoricalNotIncluded == Source \ Included

Historical == {i \in Source : rows[i].date \notin RecentDates \cup {Null}}
Undated == {i \in Source : rows[i].date = Null}

WithAttr == {i \in Included : rows[i].attr # Null}
AttrsIn(S) == {rows[i].attr : i \in S}
Marked(scan) == {i \in Included : rows[i].text \in Marks[scan]}

(* count_tickets, count_source_tickets and the two counts of the excluded. *)
ScopeCounts ==
  [included |-> Cardinality(Included),
   source |-> Cardinality(Source),
   historical |-> Cardinality(Historical),
   missing |-> Cardinality(Undated)]

(* get_distribution: the counts, then the buckets. *)
Distribution ==
  [distinct |-> Cardinality(AttrsIn(WithAttr)),
   nulls |-> Cardinality(Included \ WithAttr),
   buckets |-> Cardinality(AttrsIn(WithAttr)),
   bucketed |-> Cardinality(WithAttr)]

(* get_text_quality and get_fallback_untitled_ticket_rate: an average over *)
(* the rows of one statement.                                              *)
TextQuality ==
  [blank |-> Cardinality(Marked("blank")), qualityTotal |-> Cardinality(Included)]
FallbackUntitled ==
  [untitled |-> Cardinality(Marked("untitled")), titleTotal |-> Cardinality(Included)]

(* get_placeholder_metrics: the denominator, then a placeholder. *)
PlaceholderMetrics ==
  [placeholderTotal |-> Cardinality(Included),
   withPlaceholder |-> Cardinality(Marked("placeholder"))]

(* get_temporal_distribution: a date, then the sums of the buckets. *)
TemporalDistribution ==
  [dated |-> Cardinality({i \in Included : rows[i].date # Null}),
   undated |-> Cardinality({i \in Included : rows[i].date = Null}),
   monthly |-> Cardinality(Included),
   yearly |-> Cardinality(Included)]

(* iter_sanitized_text_pairs: one statement, whose answer is fetched in    *)
(* batches; _build_official_pii_scan counts in them.                       *)
TextPairs == Included
PiiScan ==
  [scanned |-> Cardinality(TextPairs), residual |-> Cardinality(TextPairs \cap Marked("residual"))]

(* get_heuristic_like_pattern_count: a statement of its own. *)
HeuristicCount == [heuristic |-> Cardinality(Marked("heuristic"))]

(* Fault: the WHERE clause of the fields is missing. *)
CompletenessUnfiltered ==
  [completenessTotal |-> Cardinality(Included),
   withStatus |-> Cardinality(Source),
   populated |-> Cardinality({i \in Source : rows[i].attr # Null}),
   unpopulated |-> Cardinality({i \in Source : rows[i].attr = Null})]

(* get_completeness: the denominator, then every field. *)
Completeness ==
  [completenessTotal |-> Cardinality(Included),
   withStatus |-> Cardinality(Included),
   populated |-> Cardinality(WithAttr),
   unpopulated |-> Cardinality(Included \ WithAttr)]

(* The metrics of two answers. (This is @@ of TLC, which the prover does   *)
(* not know.)                                                              *)
Beside(a, b) ==
  [m \in DOMAIN a \cup DOMAIN b |-> IF m \in DOMAIN a THEN a[m] ELSE b[m]]

(* What a statement made now answers for each metric of the report. *)
Answer ==
  Beside(ScopeCounts, Beside(Distribution, Beside(TextQuality, Beside(FallbackUntitled,
    Beside(PlaceholderMetrics, Beside(TemporalDistribution, Beside(PiiScan,
      Beside(HeuristicCount, Completeness))))))))

Metrics == DOMAIN Answer

(* What follows the scope counts, in the order of build_report, one of the *)
(* three distributions and of the two text qualities in their place.       *)
PlanAfterScope ==
  <<{"distinct", "nulls"}, {"buckets", "bucketed"},
    {"blank", "qualityTotal"}, {"untitled", "titleTotal"},
    {"placeholderTotal"}, {"withPlaceholder"},
    {"dated", "undated"}, {"monthly"}, {"yearly"},
    {"scanned", "residual"}, {"heuristic"},
    {"completenessTotal"}, {"withStatus", "populated", "unpopulated"}>>

(* The statements of build_report: the metrics of one element are read by  *)
(* one statement, from one snapshot.                                       *)
Plan == <<{"included"}, {"source"}, {"historical"}, {"missing"}>> \o PlanAfterScope

(* The rates of the report, as count and total. _safe_rate divides them,   *)
(* or one statement has averaged.                                          *)
Rates == {<<"blank", "qualityTotal">>,
          <<"untitled", "titleTotal">>,
          <<"withPlaceholder", "placeholderTotal">>,
          <<"residual", "scanned">>,
          <<"withStatus", "completenessTotal">>,
          <<"populated", "completenessTotal">>}

RateAboveOne(metrics, rate) ==
  metrics[rate[2]] > 0 /\ metrics[rate[1]] > metrics[rate[2]]

(* Fault: the rate fields of the schema have no upper bound. *)
RejectsAnyValue(metrics, read) == FALSE

(* Field(ge=0, le=1): building the metric raises, a ValueError for main.   *)
Rejects(metrics, read) ==
  \E rate \in Rates : rate[1] \in read /\ RateAboveOne(metrics, rate)

-----------------------------------------------------------------------------
Init ==
  /\ rows = EmptyTable
  /\ status = "idle"
  /\ step = 1
  /\ seen = [m \in Metrics |-> 0]
  /\ disturbed = FALSE
  /\ commits = 0
  /\ reports = 0

(* A save commits. *)
Ingest ==
  /\ commits < MaxCommits
  /\ commits' = commits + 1
  /\ \E b \in Batches : rows' = TableAfter(rows, b)
  /\ disturbed' = (disturbed \/ rows' # rows)
  /\ UNCHANGED <<status, step, seen, reports>>

(* The command starts: nothing is read yet. *)
Start ==
  /\ status # "running"
  /\ reports < MaxReports
  /\ reports' = reports + 1
  /\ status' = "running"
  /\ step' = 1
  /\ seen' = [m \in Metrics |-> 0]
  /\ disturbed' = FALSE
  /\ UNCHANGED <<rows, commits>>

(* The next statement, and the metrics built from its answer. *)
Query ==
  LET read == Plan[step]
      metrics == [m \in Metrics |-> IF m \in read THEN Answer[m] ELSE seen[m]]
  IN
  /\ status = "running"
  /\ step <= Len(Plan)
  /\ seen' = metrics
  /\ step' = step + 1
  /\ status' = IF Rejects(metrics, read) THEN "blocked" ELSE "running"
  /\ UNCHANGED <<rows, disturbed, commits, reports>>

(* No connection, no table: the driver's exception is no ValueError and    *)
(* leaves main as it is.                                                   *)
QueryFails ==
  /\ status = "running"
  /\ step <= Len(Plan)
  /\ status' = "crashed"
  /\ UNCHANGED <<rows, step, seen, disturbed, commits, reports>>

(* The report is complete; it holds aggregates only, and is printed. *)
Publish ==
  /\ status = "running"
  /\ step > Len(Plan)
  /\ status' = "published"
  /\ UNCHANGED <<rows, step, seen, disturbed, commits, reports>>

Terminated ==
  /\ status # "running" /\ reports = MaxReports /\ commits = MaxCommits
  /\ UNCHANGED vars

Next == Ingest \/ Start \/ Query \/ QueryFails \/ Publish \/ Terminated

Spec == Init /\ [][Next]_vars

-----------------------------------------------------------------------------
(* The types of the variables. *)
TypeOK ==
  /\ rows \in Contents
  /\ status \in {"idle", "running", "blocked", "crashed", "published"}
  /\ step \in 1..(Len(Plan) + 1)
  /\ seen \in [Metrics -> Nat]
  /\ disturbed \in BOOLEAN
  /\ commits \in 0..MaxCommits
  /\ reports \in 0..MaxReports

Read(metric) == \E k \in 1..(step - 1) : metric \in Plan[k]

(* A report made while no save changed the table adds up: every ticket is  *)
(* included, historical or undated, and every partial count (buckets, PII  *)
(* scan, months, completeness) covers exactly the included tickets         *)
(* (ticket_eda_service.py build_report). Whatever commits meanwhile, no    *)
(* more tickets are included than the source has: the included are counted *)
(* first, and the table never loses a ticket.                              *)
ReportAddsUp ==
  /\ Read("included") /\ Read("source") => seen.included <= seen.source
  /\ status = "published" /\ ~disturbed =>
       /\ seen.included + seen.historical + seen.missing = seen.source
       /\ seen.bucketed + seen.nulls = seen.included
       /\ seen.buckets = seen.distinct
       /\ seen.monthly = seen.included /\ seen.yearly = seen.included
       /\ seen.dated = seen.included /\ seen.undated = 0
       /\ seen.scanned = seen.included
       /\ seen.populated + seen.unpopulated = seen.completenessTotal
       /\ seen.completenessTotal = seen.included

(* A rate whose two counts come from different snapshots may exceed one;   *)
(* then the report is not published (Field(le=1) in schemas/ticket_eda.py). *)
PublishedRatesAreRates ==
  status = "published" => \A rate \in Rates : ~RateAboveOne(seen, rate)

(* A report is refused only if a save changed the table while it was made: *)
(* a rate that one statement averages, or that is divided by rows of the   *)
(* same snapshot, never exceeds one.                                       *)
OnlyDisturbedReportsAreBlocked == status = "blocked" => disturbed
=============================================================================
