---------------------------- MODULE TicketDataset ----------------------------
(***************************************************************************)
(* The ML dataset before it is written (ml_contract/ and eda/ticket_scope): *)
(* the contract of the columns, the date scope, the feature rows, and the  *)
(* places that decide about a source, each with its own copy of the rules: *)
(* the guard of the ingestion, the dry run, which reports, the preparation *)
(* of an export, which refuses, and the command line, which only decides   *)
(* about requests. They do not depend on each other: one order is enough.  *)
(***************************************************************************)
EXTENDS PiiSanitizer

CONSTANTS Cases,         \* sources, and requests to export them
          Zones,         \* session time zones of the EDA database
          MaxTextChars,  \* MAX_CLEANED_TEXT_CHARS
          SecretChars    \* least length of a run that is taken for a secret

ASSUME BoundsAssumption == MaxTextChars \in Nat /\ SecretChars \in Nat \ {0}

Columns == [name : STRING, lower : BOOLEAN]
Date == [kind : {"none", "naive", "aware", "limit"}, hours : Int, offset : Int]
RecordSet == [columns : SUBSET Columns, summary : Seq(Characters), details : Seq(Characters),
              date : Date]
Request == [real : BOOLEAN, path : STRING, ttl : Int]

ASSUME CasesAssumption ==
  /\ Cases \subseteq [source : Seq(RecordSet), request : Request]
  /\ \A c \in Cases : \A k \in DOMAIN c.source : IsFiniteSet(c.source[k].columns)
ASSUME ZonesAssumption == Zones \subseteq Int

VARIABLES
  source,    \* the records
  request,   \* real_export, output_path and ttl_hours
  guard,     \* what the residual check of the ingestion says of the texts
  dry,       \* report of the dry run
  prepared,  \* what _prepare_export came to
  cli        \* gate the command line blocks the request with

vars == <<source, request, guard, dry, prepared, cli>>

NotRun == [status |-> "not run"]

-----------------------------------------------------------------------------
(* A column is its name in lower case and whether it is written so.        *)
Column(name) == [name |-> name, lower |-> TRUE]
RawInputAllowlist == {Column(n) : n \in {"summary", "details", "ticket_created_at"}}

ColumnsOf(records) == UNION {records[k].columns : k \in DOMAIN records}

IsExactTimestamp(c) == c.name \in {"ticket_created_at", "closed_at", "timestamp"}
IsRawText(c) == c.name \in {"summary", "details", "raw_text", "cleaned_text"}

(* validate_raw_input_columns: the first check ignores the case, the other *)
(* two take the allowlist away as it is written. The planned columns       *)
(* violate nothing, and every feature row has just these.                  *)
ContractCounts(columns) ==
  [forbidden |-> Cardinality({c \in columns : Column(c.name) \notin RawInputAllowlist}),
   timestamps |-> Cardinality({c \in columns : IsExactTimestamp(c)} \ RawInputAllowlist),
   rawTexts |-> Cardinality({c \in columns : IsRawText(c)} \ RawInputAllowlist)]

IsValid(counts) == counts = [forbidden |-> 0, timestamps |-> 0, rawTexts |-> 0]

-----------------------------------------------------------------------------
(* A date is a kind, hours after the start of 2025 as it is written, and   *)
(* the hours its time zone is ahead of UTC. limit: a datetime with an      *)
(* offset that has no equivalent in UTC. Days count from the same start;   *)
(* the minimum is written in three modules.                                *)
ContractMinimum == 0    \* MIN_TICKET_CREATED_AT of the dataset contract
ScopeMinimum == 0       \* DEFAULT_MIN_TICKET_CREATED_AT of the scope metrics
RepositoryMinimum == 0  \* and that of the EDA repository

Day(hours) == hours \div 24

(* Fault: the offset is ignored. *)
CoercedDateAsWritten(date) == IF date.kind = "none" THEN {} ELSE {Day(date.hours)}

(* _coerce_ticket_created_date: the day, if there is one. *)
CoercedDate(date) ==
  CASE date.kind = "none" -> {}
    [] date.kind = "naive" -> {Day(date.hours)}
    [] date.kind = "aware" -> {Day(date.hours - date.offset)}

(* A record is read by the names as they are written. *)
DateOf(record) ==
  IF Column("ticket_created_at") \in record.columns THEN record.date
  ELSE [kind |-> "none", hours |-> 0, offset |-> 0]
TextOf(record, field) ==
  IF Column(field) \in record.columns THEN record[field] ELSE <<>>

Overflows(records) == \E k \in DOMAIN records : DateOf(records[k]).kind = "limit"

CoercedDates(records) == [k \in DOMAIN records |-> CoercedDate(DateOf(records[k]))]

(* build_ticket_eda_scope_metrics *)
ScopeMetrics(records) ==
  LET dates == CoercedDates(records)
  IN [total |-> Len(records),
      included |-> Cardinality({k \in DOMAIN dates : \E d \in dates[k] : d >= ScopeMinimum}),
      historical |-> Cardinality({k \in DOMAIN dates : \E d \in dates[k] : d < ScopeMinimum}),
      missing |-> Cardinality({k \in DOMAIN dates : dates[k] = {}})]

(* The filter of the EDA repository: ticket_created_at >= date, the date   *)
(* being midnight in the time zone of the session.                         *)
SqlIncluded(date, zone) ==
  date.kind = "aware" /\ date.hours - date.offset >= 24 * RepositoryMinimum - zone

-----------------------------------------------------------------------------
(* " ".join(text.split()) *)
Collapse(text) ==
  Keep(text, {i \in DOMAIN text :
                i \notin Solid(text) => i - 1 \in Solid(text) /\ \E j \in Solid(text) : i < j})

RawText(record) == TextOf(record, "summary") \o <<"_">> \o TextOf(record, "details")

CleanedText(record) == Collapse(Lower(SanitizeText(RawText(record))))

Truncated(text) == SubSeq(text, 1, IF Len(text) < MaxTextChars THEN Len(text) ELSE MaxTextChars)

(* Runs of token characters that are long enough. *)
Secrets(text) ==
  {i \in DOMAIN text :
     /\ At(text, i - 1) \notin Word
     /\ \A j \in i..(i + SecretChars - 1) : At(text, j) \in Word}

InScope(record) == \E d \in CoercedDate(DateOf(record)) : d >= ContractMinimum

(* Fault: ticket_date <= minimum is left out. *)
FeatureTextsAfterMinimum(records) ==
  LET kept == Keep(records, {k \in DOMAIN records : \E d \in CoercedDate(DateOf(records[k])) : d > ContractMinimum})
  IN [k \in DOMAIN kept |-> Truncated(CleanedText(kept[k]))]

(* build_safe_ticket_features: the texts of the rows; lengths, buckets and *)
(* flags are computed from them, month, week and day from the date.        *)
FeatureTexts(records) ==
  LET kept == Keep(records, {k \in DOMAIN records : InScope(records[k])})
  IN [k \in DOMAIN kept |-> Truncated(CleanedText(kept[k]))]

PiiCount(texts) == Cardinality(UNION {{k} \X DetectPii(texts[k]) : k \in DOMAIN texts})
SecretsCount(texts) == Cardinality(UNION {{k} \X Secrets(texts[k]) : k \in DOMAIN texts})

-----------------------------------------------------------------------------
(* build_ticket_dataset_v1_dry_run_report *)
DryRunReport(records, attempted) ==
  LET counts == ContractCounts(ColumnsOf(records))
      texts == FeatureTexts(records)
      gates == /\ IsValid(counts)
               /\ PiiCount(texts) = 0
               /\ SecretsCount(texts) = 0
               /\ ~attempted
  IN [status |-> IF gates THEN "pass" ELSE "fail",
      scope |-> ScopeMetrics(records), rows |-> Len(texts), pii |-> PiiCount(texts)]

(* validate_secure_output_path raises. *)
PathRefused(path) == path # "fine"

(* _validate_export_request and the first line of _prepare_export. *)
RequestRefused(r) == ~r.real \/ r.path = "none" \/ r.ttl <= 0 \/ PathRefused(r.path)

(* Fault: the scan before the write looks for personal data only. *)
SourceRefusedForPii(records) ==
  \/ ~IsValid(ContractCounts(ColumnsOf(records)))
  \/ PiiCount(FeatureTexts(records)) > 0

(* The rest of _prepare_export. *)
SourceRefused(records) ==
  \/ ~IsValid(ContractCounts(ColumnsOf(records)))
  \/ PiiCount(FeatureTexts(records)) + SecretsCount(FeatureTexts(records)) > 0

(* _dispatch and _block_or_validate_real_mode; an empty path is no path.   *)
BlockingGate(r) ==
  CASE ~r.real -> "dry mode"
    [] r.real /\ r.path \in {"none", "empty"} -> "missing_required_output_path"
    [] r.real /\ r.path \notin {"none", "empty"} /\ r.ttl <= 0 -> "invalid_ttl_hours"
    [] r.real /\ r.path \notin {"none", "empty"} /\ r.ttl > 0 /\ PathRefused(r.path)
         -> "storage_guard_failed"
    [] OTHER -> "source_provider_not_configured"

-----------------------------------------------------------------------------
Init ==
  /\ \E c \in Cases : source = c.source /\ request = c.request
  /\ guard = "not run"
  /\ dry = NotRun
  /\ prepared = NotRun
  /\ cli = "not run"

(* The texts of a page are sanitized twice, then checked as a whole. *)
GuardPage ==
  /\ guard = "not run"
  /\ guard' = IF \A k \in DOMAIN source, field \in {"summary", "details"} :
                   NoResidualPii(GuardedText(TextOf(source[k], field)))
              THEN "passed" ELSE "blocked"
  /\ UNCHANGED <<source, request, dry, prepared, cli>>

(* The gate about output paths is set by the command line only. *)
DryRun ==
  /\ guard # "not run" /\ dry = NotRun
  /\ ~Overflows(source)
  /\ dry' = DryRunReport(source, request.path \notin {"none", "empty"} /\ ~request.real)
  /\ UNCHANGED <<source, request, guard, prepared, cli>>

PrepareExport ==
  /\ dry # NotRun /\ prepared = NotRun
  /\ ~RequestRefused(request) /\ ~Overflows(source) /\ ~SourceRefused(source)
  /\ prepared' = [status |-> "prepared", texts |-> FeatureTexts(source)]
  /\ UNCHANGED <<source, request, guard, dry, cli>>

RefuseExport ==
  /\ dry # NotRun /\ prepared = NotRun
  /\ \/ RequestRefused(request)
     \/ ~Overflows(source) /\ SourceRefused(source)
  /\ prepared' = [status |-> "refused"]
  /\ UNCHANGED <<source, request, guard, dry, cli>>

(* astimezone raises OverflowError, which nothing catches. *)
DryRunRaises ==
  /\ guard # "not run" /\ dry = NotRun
  /\ Overflows(source)
  /\ dry' = [status |-> "raised"]
  /\ UNCHANGED <<source, request, guard, prepared, cli>>

ExportRaises ==
  /\ dry # NotRun /\ prepared = NotRun
  /\ ~RequestRefused(request) /\ Overflows(source)
  /\ prepared' = [status |-> "raised"]
  /\ UNCHANGED <<source, request, guard, dry, cli>>

RunCommandLine ==
  /\ prepared # NotRun /\ cli = "not run"
  /\ cli' = BlockingGate(request)
  /\ UNCHANGED <<source, request, guard, dry, prepared>>

Terminated ==
  /\ cli # "not run"
  /\ UNCHANGED vars

Next ==
  \/ GuardPage \/ DryRun \/ DryRunRaises \/ PrepareExport \/ RefuseExport \/ ExportRaises
  \/ RunCommandLine \/ Terminated

Spec == Init /\ [][Next]_vars

-----------------------------------------------------------------------------
(* An export is prepared exactly when its request is valid and a dry run   *)
(* of the same source, without an output path, passes: two copies of the   *)
(* gates agree, or the dry run would be no evidence for the export. A      *)
(* third, the command line, blocks with its last gate exactly the requests *)
(* the export would go on with (ticket_v1_export.py, secure_export.py).    *)
CopiesOfTheGatesAgree ==
  /\ dry # NotRun /\ prepared # NotRun /\ ~RequestRefused(request) =>
       (dry.status = "pass" <=> prepared.status = "prepared")
  /\ cli # "not run" =>
       (cli = "source_provider_not_configured" <=> ~RequestRefused(request))

(* Nothing of an accepted source is silently left out. Its columns are the *)
(* ones the transforms read: one that differs by its case is refused       *)
(* (contract.py validate_raw_input_columns, transforms.py record.get). Its *)
(* records are each in one of the scope counters, which one module         *)
(* computes with a minimum of its own and which count the rows another     *)
(* module builds.                                                          *)
AcceptedSourceIsReadWhole ==
  /\ prepared.status = "prepared" => ColumnsOf(source) \subseteq RawInputAllowlist
  /\ dry.status \in {"pass", "fail"} =>
       /\ dry.scope.included = dry.rows
       /\ dry.scope.included + dry.scope.historical + dry.scope.missing = dry.scope.total
       /\ prepared.status = "prepared" => Len(prepared.texts) = dry.scope.included

(* The scope of the dataset is that of the EDA in a session in UTC; in     *)
(* another time zone they differ only for a ticket less than the offset    *)
(* away from the minimum (ticket_eda_repository.py:59).                    *)
ScopesDifferNearMidnightOnly ==
  \A k \in DOMAIN source, zone \in Zones :
    LET date == DateOf(source[k])
        utc == date.hours - date.offset
    IN date.kind = "aware" /\ InScope(source[k]) # SqlIncluded(date, zone) =>
         utc \in IF zone > 0 THEN (0 - zone)..(0 - 1) ELSE 0..(0 - zone - 1)

RawTexts == {RawText(source[k]) : k \in DOMAIN source}

(* Encoded so that normalizing twice is not normalizing once. *)
Nested(text) == Normalize(Normalize(text)) # Normalize(text)

Disjoint(matches) ==
  \A m, n \in matches : m # n => m.end < n.start \/ n.end < m.start

(* A text that is encoded at most once loses its matches, all of them and  *)
(* nothing else, wherever they stand; where some overlap, those that are   *)
(* skipped may leave their tails, and no character is lost beside them.    *)
TextsLoseTheirMatches ==
  \A text \in RawTexts :
    LET plain == Normalize(text)
        matches == DetectPii(plain)
        result == SanitizeText(text)
        covered == UNION {m.start..m.end : m \in matches}
        uncovered == Keep(plain, DOMAIN plain \ covered)
        kept == Keep(result, {i \in DOMAIN result : result[i] # Placeholder})
    IN ~Nested(text) =>
         IF Disjoint(matches)
         THEN kept = uncovered /\ Len(result) - Len(kept) = Cardinality(matches)
         ELSE Len(kept) \in Len(uncovered)..(Len(plain) - 1)

(* A placeholder stands in match m of text, or right beside it; the        *)
(* offsets of a match are those of the normalized text.                    *)
TouchesPlaceholder(text, m) ==
  \E p \in (m.start - 1)..(m.end + 1) : At(Normalize(text), p) = Placeholder

(* A match of the category begins in another one and ends behind it: it is *)
(* skipped when the other is replaced, and its end stays.                  *)
LeavesRest(text, category) ==
  \E m, n \in DetectPii(text) :
    n.category = category /\ m.start <= n.start /\ n.start <= m.end /\ m.end < n.end

(* Personal data is left in the dataset only where the text was encoded    *)
(* more than once, putting it in small letters made an entity of what was  *)
(* none, the truncation cut it, a match was masked beside it that had been *)
(* the border which kept it from matching, or it is in the rest of a match *)
(* that was skipped for overlapping: in every other source it is masked,   *)
(* however it is spaced or split over the two fields (pii.py               *)
(* sanitize_text, transforms.py _build_cleaned_text).                      *)
DatasetResidualHasACause ==
  dry.status \in {"pass", "fail"} =>
    \A k \in DOMAIN source :
      LET raw == RawText(source[k])
          sanitized == SanitizeText(raw)
          cleaned == CleanedText(source[k])
          text == Truncated(cleaned)
      IN \A m \in DetectPii(text) :
           \/ Nested(raw)
           \/ Lower(sanitized) # sanitized
           \/ m.end = MaxTextChars /\ m.end < Len(cleaned)
           \/ TouchesPlaceholder(text, m)
           \/ LeavesRest(Normalize(raw), m.category)

(* A page is blocked by the residual check of the ingestion only for a     *)
(* text that is encoded more than twice, or where the second masking has   *)
(* brought out a match in one of the two ways above: what the tags kept    *)
(* apart is joined only when they go, after the first masking, and is      *)
(* masked by the second (sanitizers.py sanitize_provider_text, pii.py      *)
(* assert_no_residual_pii).                                                *)
GuardResidualHasACause ==
  guard = "blocked" =>
    \E k \in DOMAIN source, field \in {"summary", "details"} :
      LET text == TextOf(source[k], field)
          guarded == GuardedText(text)
      IN \E m \in DetectPii(guarded) :
           \/ Nested(Normalize(Strip(text)))
           \/ TouchesPlaceholder(guarded, m)
           \/ LeavesRest(SanitizeProviderText(text), m.category)

(* Both pipelines leave personal data in a text for these causes only.     *)
ResidualPiiHasACause == DatasetResidualHasACause /\ GuardResidualHasACause
=============================================================================
