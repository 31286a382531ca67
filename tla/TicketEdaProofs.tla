--------------------------- MODULE TicketEdaProofs ---------------------------
(***************************************************************************)
(* Theorems about the EDA report, for any tickets, any saves that commit   *)
(* between its statements, and any number of reports.                      *)
(***************************************************************************)
EXTENDS TicketEda, BatchEffectProofs

(* The number of statements of a report. *)
LEMMA PlanLength == Len(Plan) = 17
BY DEF Plan, PlanAfterScope

(* Two answers side by side have the metrics of both. *)
LEMMA BesideDomain ==
  ASSUME NEW a, NEW b
  PROVE  DOMAIN Beside(a, b) = DOMAIN a \cup DOMAIN b
BY DEF Beside

(* The names of the metrics of a report ... *)
MetricNames ==
  {"included", "source", "historical", "missing",
   "distinct", "nulls", "buckets", "bucketed",
   "blank", "qualityTotal", "untitled", "titleTotal",
   "placeholderTotal", "withPlaceholder",
   "dated", "undated", "monthly", "yearly",
   "scanned", "residual", "heuristic",
   "completenessTotal", "withStatus", "populated", "unpopulated"}

(* ... which are those of its answers. *)
LEMMA MetricsAre == Metrics = MetricNames
<1>1. Metrics = DOMAIN ScopeCounts \cup DOMAIN Distribution \cup DOMAIN TextQuality
                  \cup DOMAIN FallbackUntitled \cup DOMAIN PlaceholderMetrics
                  \cup DOMAIN TemporalDistribution \cup DOMAIN PiiScan
                  \cup DOMAIN HeuristicCount \cup DOMAIN Completeness
  <2> DEFINE last2 == Beside(HeuristicCount, Completeness)
             last3 == Beside(PiiScan, last2)
             last4 == Beside(TemporalDistribution, last3)
             last5 == Beside(PlaceholderMetrics, last4)
             last6 == Beside(FallbackUntitled, last5)
             last7 == Beside(TextQuality, last6)
             last8 == Beside(Distribution, last7)
  <2>1. Metrics = DOMAIN ScopeCounts \cup DOMAIN last8
    BY BesideDomain DEF Metrics, Answer
  <2>2. /\ DOMAIN last8 = DOMAIN Distribution \cup DOMAIN last7
        /\ DOMAIN last7 = DOMAIN TextQuality \cup DOMAIN last6
        /\ DOMAIN last6 = DOMAIN FallbackUntitled \cup DOMAIN last5
        /\ DOMAIN last5 = DOMAIN PlaceholderMetrics \cup DOMAIN last4
    BY BesideDomain
  <2>3. /\ DOMAIN last4 = DOMAIN TemporalDistribution \cup DOMAIN last3
        /\ DOMAIN last3 = DOMAIN PiiScan \cup DOMAIN last2
        /\ DOMAIN last2 = DOMAIN HeuristicCount \cup DOMAIN Completeness
    BY BesideDomain
  <2> HIDE DEF last2, last3, last4, last5, last6, last7, last8
  <2> QED
    BY <2>1, <2>2, <2>3
<1>2. /\ DOMAIN ScopeCounts = {"included", "source", "historical", "missing"}
      /\ DOMAIN Distribution = {"distinct", "nulls", "buckets", "bucketed"}
      /\ DOMAIN TextQuality = {"blank", "qualityTotal"}
      /\ DOMAIN FallbackUntitled = {"untitled", "titleTotal"}
      /\ DOMAIN PlaceholderMetrics = {"placeholderTotal", "withPlaceholder"}
      /\ DOMAIN TemporalDistribution = {"dated", "undated", "monthly", "yearly"}
      /\ DOMAIN PiiScan = {"scanned", "residual"}
      /\ DOMAIN HeuristicCount = {"heuristic"}
      /\ DOMAIN Completeness = {"completenessTotal", "withStatus", "populated", "unpopulated"}
  BY DEF ScopeCounts, Distribution, TextQuality, FallbackUntitled, PlaceholderMetrics,
         TemporalDistribution, PiiScan, HeuristicCount, Completeness
<1> QED
  BY <1>1, <1>2 DEF MetricNames

(* What a statement answers for the metrics that are added or divided. *)
LEMMA AnswersAre ==
  /\ Answer.included = Cardinality(Included)
  /\ Answer.source = Cardinality(Source)
  /\ Answer.historical = Cardinality(Historical)
  /\ Answer.missing = Cardinality(Undated)
  /\ Answer.nulls = Cardinality(Included \ WithAttr)
  /\ Answer.bucketed = Cardinality(WithAttr)
  /\ Answer.buckets = Answer.distinct
  /\ Answer.blank = Cardinality(Marked("blank"))
  /\ Answer.qualityTotal = Cardinality(Included)
  /\ Answer.untitled = Cardinality(Marked("untitled"))
  /\ Answer.titleTotal = Cardinality(Included)
  /\ Answer.placeholderTotal = Cardinality(Included)
  /\ Answer.withPlaceholder = Cardinality(Marked("placeholder"))
  /\ Answer.dated = Cardinality({i \in Included : rows[i].date # Null})
  /\ Answer.undated = Cardinality({i \in Included : rows[i].date = Null})
  /\ Answer.monthly = Cardinality(Included)
  /\ Answer.yearly = Cardinality(Included)
  /\ Answer.scanned = Cardinality(Included)
  /\ Answer.residual = Cardinality(Included \cap Marked("residual"))
  /\ Answer.completenessTotal = Cardinality(Included)
  /\ Answer.withStatus = Cardinality(Included)
  /\ Answer.populated = Cardinality(WithAttr)
  /\ Answer.unpopulated = Cardinality(Included \ WithAttr)
BY DEF Answer, Beside, ScopeCounts, Distribution, TextQuality, FallbackUntitled,
       PlaceholderMetrics, TemporalDistribution, PiiScan, TextPairs, HeuristicCount,
       Completeness

(* A metric is read by one statement. *)
LEMMA ReadOnce ==
  ASSUME NEW j \in 1..Len(Plan), NEW k \in 1..Len(Plan), NEW m \in Plan[j], m \in Plan[k]
  PROVE  j = k
BY PlanLength DEF Plan, PlanAfterScope

(* The statements read metrics of the report. *)
LEMMA PlanReadsMetrics == \A k \in 1..Len(Plan) : Plan[k] \subseteq Metrics
BY MetricsAre, PlanLength DEF MetricNames, Plan, PlanAfterScope

(* The total of a rate is read before its count, or with it. *)
LEMMA TotalsComeFirst ==
  ASSUME NEW k \in 1..Len(Plan), NEW rate \in Rates, rate[1] \in Plan[k]
  PROVE  \E j \in 1..k : rate[2] \in Plan[j]
<1>1. /\ Plan[7] = {"blank", "qualityTotal"} /\ Plan[8] = {"untitled", "titleTotal"}
      /\ Plan[9] = {"placeholderTotal"} /\ Plan[10] = {"withPlaceholder"}
      /\ Plan[14] = {"scanned", "residual"} /\ Plan[16] = {"completenessTotal"}
      /\ Plan[17] = {"withStatus", "populated", "unpopulated"}
  BY DEF Plan, PlanAfterScope
<1>2. rate[1] \in Plan[7] \cup Plan[8] \cup Plan[10] \cup Plan[14] \cup Plan[17]
  BY <1>1 DEF Rates
<1>3. k \in {7, 8, 10, 14, 17}
  BY <1>2, ReadOnce, PlanLength
<1>4. CASE k = 7
  BY <1>1, <1>4 DEF Rates
<1>5. CASE k = 8
  BY <1>1, <1>5 DEF Rates
<1>6. CASE k = 10
  <2>1. rate[2] \in Plan[9] /\ 9 \in 1..k
    BY <1>1, <1>6 DEF Rates
  <2> QED
    BY <2>1
<1>7. CASE k = 14
  BY <1>1, <1>7 DEF Rates
<1>8. CASE k = 17
  <2>1. rate[2] \in Plan[16] /\ 16 \in 1..k
    BY <1>1, <1>8 DEF Rates
  <2> QED
    BY <2>1
<1> QED
  BY <1>3, <1>4, <1>5, <1>6, <1>7, <1>8

(* Counts of the included are numbers, and no part exceeds the whole. *)
LEMMA CountsAreNumbers ==
  ASSUME IsFiniteSet(Source)
  PROVE  /\ Cardinality(Source) \in Nat
         /\ \A S \in SUBSET Source : IsFiniteSet(S) /\ Cardinality(S) \in Nat
                                     /\ Cardinality(S) <= Cardinality(Source)
         /\ \A S \in SUBSET Included : Cardinality(S) <= Cardinality(Included)
<1>1. Included \in SUBSET Source
  BY DEF Included
<1>2. \A S \in SUBSET Source : IsFiniteSet(S) /\ Cardinality(S) <= Cardinality(Source)
  BY FS_Subset
<1>3. \A S \in SUBSET Source : Cardinality(S) \in Nat
  BY <1>2, FS_CardinalityType
<1>4. \A S \in SUBSET Included : Cardinality(S) <= Cardinality(Included)
  BY <1>1, <1>2, FS_Subset
<1> QED
  BY <1>2, <1>3, <1>4

(* Two parts without a common ticket count for the whole. *)
LEMMA PartsAddUp ==
  ASSUME NEW S, IsFiniteSet(S), NEW T, IsFiniteSet(T), S \cap T = {}
  PROVE  Cardinality(S) + Cardinality(T) = Cardinality(S \cup T)
<1>1. Cardinality(S) \in Nat /\ Cardinality(T) \in Nat
  BY FS_CardinalityType
<1>2. Cardinality(S \cup T) = Cardinality(S) + Cardinality(T) - Cardinality(S \cap T)
  BY FS_Union
<1>3. Cardinality(S \cap T) = 0
  BY FS_EmptySet
<1> QED
  BY <1>1, <1>2, <1>3

(* The metrics of one snapshot add up. *)
LEMMA SnapshotAddsUp ==
  ASSUME IsFiniteSet(Source)
  PROVE  /\ Answer.included + Answer.historical + Answer.missing = Answer.source
         /\ Answer.bucketed + Answer.nulls = Answer.included
         /\ Answer.buckets = Answer.distinct
         /\ Answer.monthly = Answer.included /\ Answer.yearly = Answer.included
         /\ Answer.dated = Answer.included /\ Answer.undated = 0
         /\ Answer.scanned = Answer.included
         /\ Answer.populated + Answer.unpopulated = Answer.completenessTotal
         /\ Answer.completenessTotal = Answer.included
<1>1. \A S \in SUBSET Source : IsFiniteSet(S) /\ Cardinality(S) \in Nat
  BY CountsAreNumbers
<1>2. /\ Included \in SUBSET Source /\ Historical \in SUBSET Source /\ Undated \in SUBSET Source
      /\ WithAttr \in SUBSET Included
  BY DEF Included, Historical, Undated, WithAttr
<1>3. \A i \in Included : rows[i].date # Null
  BY RecentDatesAssumption, NullAssumption DEF Included
<1>4. Cardinality(Included) + Cardinality(Historical) = Cardinality(Included \cup Historical)
  <2>1. Included \cap Historical = {}
    BY DEF Included, Historical
  <2> QED
    BY <1>1, <1>2, <2>1, PartsAddUp
<1>5. Cardinality(Included \cup Historical) + Cardinality(Undated) = Cardinality(Source)
  <2>1. (Included \cup Historical) \cap Undated = {}
    BY <1>3 DEF Included, Historical, Undated
  <2>2. (Included \cup Historical) \cup Undated = Source
    BY DEF Included, Historical, Undated
  <2>3. Included \cup Historical \in SUBSET Source
    BY <1>2
  <2> QED
    BY <1>1, <1>2, <2>1, <2>2, <2>3, PartsAddUp
<1>6. Cardinality(WithAttr) + Cardinality(Included \ WithAttr) = Cardinality(Included)
  <2>1. WithAttr \cap (Included \ WithAttr) = {} /\ WithAttr \cup (Included \ WithAttr) = Included
    BY <1>2
  <2>2. WithAttr \in SUBSET Source /\ Included \ WithAttr \in SUBSET Source
    BY <1>2
  <2> QED
    BY <1>1, <2>1, <2>2, PartsAddUp
<1>7. {i \in Included : rows[i].date # Null} = Included
      /\ {i \in Included : rows[i].date = Null} = {}
  BY <1>3
<1>8. Cardinality({}) = 0
  BY FS_EmptySet
<1> QED
  BY <1>4, <1>5, <1>6, <1>7, <1>8, AnswersAre

(* No rate of one snapshot exceeds one. *)
LEMMA SnapshotRates ==
  ASSUME IsFiniteSet(Source), NEW rate \in Rates
  PROVE  Answer[rate[1]] \in Nat /\ Answer[rate[2]] \in Nat /\ Answer[rate[1]] <= Answer[rate[2]]
<1>1. Cardinality(Included) \in Nat
  BY CountsAreNumbers, Included \in SUBSET Source DEF Included
<1>2. \A S \in SUBSET Included : Cardinality(S) \in Nat /\ Cardinality(S) <= Cardinality(Included)
  BY CountsAreNumbers, Included \in SUBSET Source DEF Included
<1>3. /\ Marked("blank") \in SUBSET Included /\ Marked("untitled") \in SUBSET Included
      /\ Marked("placeholder") \in SUBSET Included
      /\ Included \cap Marked("residual") \in SUBSET Included
      /\ WithAttr \in SUBSET Included
  BY DEF Marked, WithAttr
<1> QED
  BY <1>1, <1>2, <1>3, AnswersAre DEF Rates

-----------------------------------------------------------------------------
(***************************************************************************)
(* The report.                                                             *)
(***************************************************************************)

ReportTypes ==
  /\ rows \in Contents
  /\ IsFiniteSet(Source)
  /\ status \in {"idle", "running", "blocked", "crashed", "published"}
  /\ step \in 1..(Len(Plan) + 1)
  /\ disturbed \in BOOLEAN

Open == status \in {"running", "published"}

(* What is read is what the table says now, as long as it has not changed. *)
FreshInv ==
  /\ status = "published" => step = Len(Plan) + 1
  /\ Open /\ ~disturbed => \A k \in 1..(step - 1) : \A m \in Plan[k] : seen[m] = Answer[m]

(* Nothing out of range is kept, whatever changes. *)
RateInv == Open => \A rate \in Rates : Read(rate[1]) => ~RateAboveOne(seen, rate)

(* The included are counted before the source, and the source only grows.  *)
ScopeInv ==
  Read("included") =>
    /\ seen.included \in Nat
    /\ seen.included <= Cardinality(Source)
    /\ Read("source") => seen.included <= seen.source

IInv == ReportTypes /\ FreshInv /\ RateInv /\ ScopeInv /\ OnlyDisturbedReportsAreBlocked

(* A step that leaves the table alone leaves every answer alone. *)
LEMMA SameTable ==
  ASSUME rows' = rows
  PROVE  Answer' = Answer /\ Source' = Source
<1>1. Source' = Source
  BY DEF Source
<1>2. Included' = Included /\ Historical' = Historical /\ Undated' = Undated
  BY <1>1 DEF Included, Historical, Undated
<1>3. WithAttr' = WithAttr /\ AttrsIn(WithAttr)' = AttrsIn(WithAttr)
  BY <1>2 DEF WithAttr, AttrsIn
<1>4. \A scan : Marked(scan)' = Marked(scan)
  BY <1>2 DEF Marked
<1>5. ScopeCounts' = ScopeCounts /\ Distribution' = Distribution
  BY <1>1, <1>2, <1>3 DEF ScopeCounts, Distribution
<1>6. /\ TextQuality' = TextQuality /\ FallbackUntitled' = FallbackUntitled
      /\ PlaceholderMetrics' = PlaceholderMetrics /\ HeuristicCount' = HeuristicCount
      /\ PiiScan' = PiiScan
  BY <1>2, <1>4 DEF TextQuality, FallbackUntitled, PlaceholderMetrics, HeuristicCount,
                    PiiScan, TextPairs
<1>7. TemporalDistribution' = TemporalDistribution /\ Completeness' = Completeness
  BY <1>2, <1>3 DEF TemporalDistribution, Completeness
<1> QED
  BY <1>1, <1>5, <1>6, <1>7 DEF Answer, Beside

(* A save leaves a table of finitely many tickets, among them the old ones. *)
LEMMA SavesAddTickets ==
  ASSUME ReportTypes, NEW b \in Batches, rows' = TableAfter(rows, b)
  PROVE  /\ rows' \in Contents /\ IsFiniteSet(Source')
         /\ Cardinality(Source) \in Nat /\ Cardinality(Source') \in Nat
         /\ Cardinality(Source) <= Cardinality(Source')
<1>1. b \in Seq(Ticket)
  BY BatchesAssumption
<1>2. rows' \in Contents
  BY <1>1, TableAfterType DEF ReportTypes
<1>3. Source' = {i \in Ids : TableAfter(rows, b)[i] # NoRow}
  BY DEF Source
<1>4. IsFiniteSet(Source')
  BY <1>1, <1>3, RowsAfter DEF ReportTypes, Source
<1>5. Source \in SUBSET Source'
  <2>1. \A i \in Ids : rows[i] # NoRow => RowAfter(rows[i], b, i) # NoRow
    <3> TAKE i \in Ids
    <3>1. rows[i] \in Row \cup {NoRow}
      BY DEF ReportTypes, Contents
    <3>2. Positions(b, i) = {} => RowAfter(rows[i], b, i) = rows[i]
      BY DEF RowAfter
    <3>3. Positions(b, i) # {} => RowAfter(rows[i], b, i) # NoRow
      BY <1>1, <3>1, RowAfterType, NoRowAssumption
    <3> QED
      BY <3>2, <3>3
  <2> QED
    BY <1>3, <2>1 DEF Source, TableAfter
<1>6. Cardinality(Source) <= Cardinality(Source')
  BY <1>4, <1>5, FS_Subset
<1> QED
  BY <1>2, <1>4, <1>6, FS_CardinalityType DEF ReportTypes

(* The next statement, metric by metric. *)
LEMMA QueryReads ==
  ASSUME ReportTypes, Query
  PROVE  /\ step \in 1..Len(Plan) /\ step' = step + 1 /\ status = "running"
         /\ rows' = rows /\ disturbed' = disturbed
         /\ \A m \in Plan[step] : seen'[m] = Answer[m]
         /\ \A k \in 1..(step - 1) : \A m \in Plan[k] : seen'[m] = seen[m]
         /\ status' = IF Rejects(seen', Plan[step]) THEN "blocked" ELSE "running"
<1>1. step \in 1..Len(Plan)
  BY PlanLength DEF ReportTypes, Query
<1>2. seen' = [m \in Metrics |-> IF m \in Plan[step] THEN Answer[m] ELSE seen[m]]
  BY DEF Query
<1>3. \A m \in Plan[step] : seen'[m] = Answer[m]
  BY <1>1, <1>2, PlanReadsMetrics
<1>4. ASSUME NEW k \in 1..(step - 1), NEW m \in Plan[k]
      PROVE  seen'[m] = seen[m]
  <2>1. k \in 1..Len(Plan) /\ k # step
    BY <1>1, PlanLength
  <2>2. m \notin Plan[step]
    BY <1>1, <2>1, ReadOnce
  <2>3. m \in Metrics
    BY <2>1, PlanReadsMetrics
  <2> QED
    BY <1>2, <2>2, <2>3
<1> QED
  BY <1>1, <1>3, <1>4 DEF Query

(* What the next statement makes true. *)
LEMMA QueryKeeps ==
  ASSUME IInv, Query
  PROVE  IInv'
<1> USE PlanLength
<1>1. ReportTypes /\ FreshInv /\ RateInv /\ ScopeInv
  BY DEF IInv
<1>2. /\ step \in 1..Len(Plan) /\ step' = step + 1 /\ status = "running"
      /\ rows' = rows /\ disturbed' = disturbed
      /\ \A m \in Plan[step] : seen'[m] = Answer[m]
      /\ \A k \in 1..(step - 1) : \A m \in Plan[k] : seen'[m] = seen[m]
      /\ status' = IF Rejects(seen', Plan[step]) THEN "blocked" ELSE "running"
  BY <1>1, QueryReads
<1>3. Answer' = Answer /\ Source' = Source
  BY <1>2, SameTable
<1>4. 1..(step' - 1) = (1..(step - 1)) \cup {step}
  BY <1>2
<1>5. ReportTypes'
  BY <1>1, <1>2, <1>3 DEF ReportTypes
<1>6. ~disturbed => \A k \in 1..step : \A m \in Plan[k] : seen'[m] = Answer[m]
  BY <1>1, <1>2 DEF FreshInv, Open
<1>7. FreshInv'
  BY <1>2, <1>3, <1>6 DEF FreshInv, Open
<1>8. RateInv'
  <2> SUFFICES ASSUME status' = "running", NEW rate \in Rates,
                      NEW k \in 1..step, rate[1] \in Plan[k]
               PROVE  ~RateAboveOne(seen', rate)
    BY <1>2, <1>4 DEF RateInv, Open, Read
  <2>1. CASE k = step
    BY <1>2, <2>1 DEF Rejects
  <2>2. CASE k # step
    <3>1. k \in 1..(step - 1) /\ k \in 1..Len(Plan)
      BY <1>2, <2>2
    <3>2. PICK j \in 1..k : rate[2] \in Plan[j]
      BY <3>1, TotalsComeFirst
    <3>3. j \in 1..(step - 1)
      BY <1>2, <3>1
    <3>4. seen'[rate[1]] = seen[rate[1]] /\ seen'[rate[2]] = seen[rate[2]]
      BY <1>2, <3>1, <3>2, <3>3
    <3>5. ~RateAboveOne(seen, rate)
      BY <1>1, <1>2, <3>1 DEF RateInv, Open, Read
    <3> QED
      BY <3>4, <3>5 DEF RateAboveOne
  <2> QED
    BY <2>1, <2>2
<1>9. ScopeInv'
  <2>1. Plan[1] = {"included"} /\ Plan[2] = {"source"}
    BY DEF Plan, PlanAfterScope
  <2>2. Answer.included \in Nat /\ Answer.included <= Cardinality(Source)
        /\ Answer.source = Cardinality(Source)
    BY <1>1, AnswersAre, CountsAreNumbers, Included \in SUBSET Source DEF ReportTypes, Included
  <2>3. CASE step = 1
    <3>1. seen'.included = Answer.included
      BY <1>2, <2>1, <2>3
    <3>2. ~Read("source")'
      BY <1>2, <2>1, <2>3 DEF Read
    <3> QED
      BY <1>3, <2>2, <3>1, <3>2 DEF ScopeInv
  <2>4. CASE step > 1
    <3>1. seen'.included = seen.included
      BY <1>2, <2>1, <2>4
    <3>2. Read("included")
      BY <1>2, <2>1, <2>4 DEF Read
    <3>3. /\ seen.included \in Nat /\ seen.included <= Cardinality(Source)
          /\ Read("source") => seen.included <= seen.source
      BY <1>1, <3>2 DEF ScopeInv
    <3>4. CASE step = 2
      <4>1. seen'.source = Cardinality(Source)
        BY <1>2, <2>1, <2>2, <3>4
      <4> QED
        BY <1>3, <3>1, <3>3, <4>1 DEF ScopeInv
    <3>5. CASE step > 2
      <4>1. seen'.source = seen.source
        BY <1>2, <2>1, <3>5
      <4>2. Read("source")
        BY <1>2, <2>1, <3>5 DEF Read
      <4> QED
        BY <1>3, <3>1, <3>3, <4>1, <4>2 DEF ScopeInv
    <3> QED
      BY <1>2, <2>4, <3>4, <3>5
  <2> QED
    BY <1>2, <2>3, <2>4
<1>10. OnlyDisturbedReportsAreBlocked'
  <2> SUFFICES ASSUME ~disturbed, NEW rate \in Rates, rate[1] \in Plan[step],
                      RateAboveOne(seen', rate)
               PROVE  FALSE
    BY <1>2 DEF OnlyDisturbedReportsAreBlocked, Rejects
  <2>1. PICK j \in 1..step : rate[2] \in Plan[j]
    BY <1>2, TotalsComeFirst
  <2>2. seen'[rate[1]] = Answer[rate[1]] /\ seen'[rate[2]] = Answer[rate[2]]
    BY <1>2, <1>6, <2>1
  <2>3. /\ Answer[rate[1]] \in Nat /\ Answer[rate[2]] \in Nat
        /\ Answer[rate[1]] <= Answer[rate[2]]
    BY <1>1, SnapshotRates DEF ReportTypes
  <2> QED
    BY <2>2, <2>3 DEF RateAboveOne
<1> QED
  BY <1>5, <1>7, <1>8, <1>9, <1>10 DEF IInv

(* Every other step keeps the invariant. *)
LEMMA StepKeeps ==
  ASSUME IInv, [Next]_vars
  PROVE  IInv'
<1> USE PlanLength
<1>0. ReportTypes /\ FreshInv /\ RateInv /\ ScopeInv /\ OnlyDisturbedReportsAreBlocked
  BY DEF IInv
<1>1. CASE Ingest
  <2>1. PICK b \in Batches : rows' = TableAfter(rows, b)
    BY <1>1 DEF Ingest
  <2>2. UNCHANGED <<status, step, seen>> /\ disturbed' = (disturbed \/ rows' # rows)
    BY <1>1 DEF Ingest
  <2>3. /\ rows' \in Contents /\ IsFiniteSet(Source')
        /\ Cardinality(Source) \in Nat /\ Cardinality(Source') \in Nat
        /\ Cardinality(Source) <= Cardinality(Source')
    BY <1>0, <2>1, SavesAddTickets
  <2>4. ReportTypes' /\ RateInv' /\ OnlyDisturbedReportsAreBlocked'
    BY <1>0, <2>2, <2>3
    DEF ReportTypes, RateInv, Read, Open, RateAboveOne, OnlyDisturbedReportsAreBlocked
  <2>5. FreshInv'
    <3>1. CASE rows' = rows
      BY <1>0, <2>2, <3>1, SameTable DEF FreshInv, Open
    <3>2. CASE rows' # rows
      BY <1>0, <2>2, <3>2 DEF FreshInv
    <3> QED
      BY <3>1, <3>2
  <2>6. ScopeInv'
    BY <1>0, <2>2, <2>3 DEF ScopeInv, Read
  <2> QED
    BY <2>4, <2>5, <2>6 DEF IInv
<1>2. CASE Start
  <2>1. /\ rows' = rows /\ status' = "running" /\ step' = 1 /\ disturbed' = FALSE
    BY <1>2 DEF Start
  <2>2. 1..(step' - 1) = {}
    BY <2>1
  <2>3. ReportTypes'
    <3>1. Source' = Source
      BY <2>1, SameTable
    <3>2. 1 \in 1..(Len(Plan) + 1) /\ FALSE \in BOOLEAN
      BY PlanLength
    <3>3. step' \in 1..(Len(Plan) + 1) /\ disturbed' \in BOOLEAN
      BY <2>1, <3>2
    <3> QED
      BY <1>0, <2>1, <3>1, <3>3 DEF ReportTypes
  <2> QED
    BY <2>1, <2>2, <2>3
    DEF IInv, FreshInv, RateInv, ScopeInv, Open, Read, OnlyDisturbedReportsAreBlocked
<1>3. CASE Query
  BY <1>3, QueryKeeps
<1>4. CASE QueryFails \/ Publish
  <2>1. /\ UNCHANGED <<rows, step, seen, disturbed>>
        /\ status' = "crashed" \/ (status = "running" /\ status' = "published" /\ step > Len(Plan))
    BY <1>4 DEF QueryFails, Publish
  <2>2. Answer' = Answer /\ Source' = Source
    BY <2>1, SameTable
  <2>3. ReportTypes' /\ ScopeInv'
    BY <1>0, <2>1, <2>2 DEF ReportTypes, ScopeInv, Read
  <2>4. FreshInv'
    BY <1>0, <2>1, <2>2 DEF FreshInv, Open, ReportTypes
  <2>5. RateInv'
    BY <1>0, <2>1 DEF RateInv, Open, Read, RateAboveOne
  <2> QED
    BY <2>1, <2>3, <2>4, <2>5 DEF IInv, OnlyDisturbedReportsAreBlocked
<1>5. CASE UNCHANGED vars
  <2>1. UNCHANGED <<rows, status, step, seen, disturbed>>
    BY <1>5 DEF vars
  <2>2. Answer' = Answer /\ Source' = Source
    BY <2>1, SameTable
  <2> QED
    BY <1>0, <2>1, <2>2
    DEF IInv, ReportTypes, FreshInv, RateInv, ScopeInv, Open, Read, RateAboveOne,
        OnlyDisturbedReportsAreBlocked
<1> QED
  BY <1>1, <1>2, <1>3, <1>4, <1>5 DEF Next, Terminated

(* It holds in every reachable state. *)
LEMMA ReportInvariant == Spec => []IInv
<1>1. Init => IInv
  <2> SUFFICES ASSUME Init  PROVE IInv
    OBVIOUS
  <2>1. rows = EmptyTable /\ status = "idle" /\ step = 1 /\ disturbed = FALSE
    BY DEF Init
  <2>2. Source = {} /\ IsFiniteSet(Source)
    BY <2>1, FS_EmptySet DEF Source, EmptyTable
  <2>3. rows \in Contents
    BY <2>1 DEF EmptyTable, Contents
  <2>4. 1..(step - 1) = {}
    BY <2>1
  <2>5. ReportTypes
    <3>1. 1 \in 1..(Len(Plan) + 1) /\ FALSE \in BOOLEAN
      BY PlanLength
    <3>2. step \in 1..(Len(Plan) + 1) /\ disturbed \in BOOLEAN
      BY <2>1, <3>1
    <3> QED
      BY <2>1, <2>2, <2>3, <3>2 DEF ReportTypes
  <2>6. \A m : ~Read(m)
    BY <2>4 DEF Read
  <2> QED
    BY <2>1, <2>5, <2>6
    DEF IInv, FreshInv, RateInv, ScopeInv, Open, OnlyDisturbedReportsAreBlocked
<1>2. IInv /\ [Next]_vars => IInv'
  BY StepKeeps
<1> QED
  BY <1>1, <1>2, PTL DEF Spec

(* Every metric of a report is read by one of its statements. *)
LEMMA EveryMetricIsRead == \A m \in Metrics : \E k \in 1..Len(Plan) : m \in Plan[k]
<1>1. /\ Plan[1] = {"included"} /\ Plan[2] = {"source"} /\ Plan[3] = {"historical"}
      /\ Plan[4] = {"missing"} /\ Plan[5] = {"distinct", "nulls"}
      /\ Plan[6] = {"buckets", "bucketed"} /\ Plan[7] = {"blank", "qualityTotal"}
      /\ Plan[8] = {"untitled", "titleTotal"} /\ Plan[9] = {"placeholderTotal"}
      /\ Plan[10] = {"withPlaceholder"} /\ Plan[11] = {"dated", "undated"}
      /\ Plan[12] = {"monthly"} /\ Plan[13] = {"yearly"}
      /\ Plan[14] = {"scanned", "residual"} /\ Plan[15] = {"heuristic"}
      /\ Plan[16] = {"completenessTotal"}
      /\ Plan[17] = {"withStatus", "populated", "unpopulated"}
  BY DEF Plan, PlanAfterScope
<1>2. \A k \in 1..17 : k \in 1..Len(Plan)
  BY PlanLength
<1>3. \A m \in Metrics : \E k \in 1..17 : m \in Plan[k]
  BY <1>1, MetricsAre DEF MetricNames
<1> QED
  BY <1>2, <1>3

(* A report made while no save changed the table adds up, and none ever    *)
(* includes more tickets than the source has.                              *)
THEOREM ReportsAddUp == Spec => []ReportAddsUp
<1>1. IInv => ReportAddsUp
  <2> SUFFICES ASSUME IInv  PROVE ReportAddsUp
    OBVIOUS
  <2>1. Read("included") /\ Read("source") => seen.included <= seen.source
    BY DEF IInv, ScopeInv
  <2>2. ASSUME status = "published", ~disturbed
        PROVE  \A m \in Metrics : seen[m] = Answer[m]
    BY <2>2, PlanLength, EveryMetricIsRead DEF IInv, FreshInv, Open
  <2>3. IsFiniteSet(Source)
    BY DEF IInv, ReportTypes
  <2> QED
    BY <2>1, <2>2, <2>3, SnapshotAddsUp, MetricsAre DEF MetricNames, ReportAddsUp
<1> QED
  BY <1>1, ReportInvariant, PTL

(* No rate of a published report exceeds one. *)
THEOREM RatesAreRates == Spec => []PublishedRatesAreRates
<1>1. IInv => PublishedRatesAreRates
  <2> SUFFICES ASSUME IInv, status = "published", NEW rate \in Rates
               PROVE  ~RateAboveOne(seen, rate)
    BY DEF PublishedRatesAreRates
  <2>1. rate[1] \in Metrics
    BY MetricsAre DEF MetricNames, Rates
  <2>2. Read(rate[1])
    BY <2>1, PlanLength, EveryMetricIsRead DEF IInv, FreshInv, Read
  <2> QED
    BY <2>2 DEF IInv, RateInv, Open
<1> QED
  BY <1>1, ReportInvariant, PTL

(* A report is refused only if a save changed the table while it was made. *)
THEOREM BlockedReportsWereDisturbed == Spec => []OnlyDisturbedReportsAreBlocked
<1>1. IInv => OnlyDisturbedReportsAreBlocked
  BY DEF IInv
<1> QED
  BY <1>1, ReportInvariant, PTL

(* Every answer is a number: of the tickets of a finite table, or of their *)
(* attributes.                                                             *)
LEMMA AnswerType ==
  ASSUME IsFiniteSet(Source)
  PROVE  Answer \in [Metrics -> Nat]
<1>1. Answer \in [Metrics -> {Answer[m] : m \in Metrics}]
  BY DEF Metrics, Answer, Beside
<1>2. \A S \in SUBSET Source : Cardinality(S) \in Nat
  BY CountsAreNumbers
<1>3. /\ Included \in SUBSET Source /\ Historical \in SUBSET Source /\ Undated \in SUBSET Source
      /\ WithAttr \in SUBSET Source /\ Included \ WithAttr \in SUBSET Source
      /\ \A scan : Marked(scan) \in SUBSET Source
      /\ Included \cap Marked("residual") \in SUBSET Source
      /\ {i \in Included : rows[i].date # Null} \in SUBSET Source
      /\ {i \in Included : rows[i].date = Null} \in SUBSET Source
  BY DEF Included, Historical, Undated, WithAttr, Marked
<1>4. Answer.distinct \in Nat /\ Answer.heuristic \in Nat
  <2>1. /\ Answer.distinct = Cardinality(AttrsIn(WithAttr))
        /\ Answer.heuristic = Cardinality(Marked("heuristic"))
    BY DEF Answer, Beside, ScopeCounts, Distribution, TextQuality, FallbackUntitled,
           PlaceholderMetrics, TemporalDistribution, PiiScan, TextPairs, HeuristicCount,
           Completeness
  <2>2. IsFiniteSet(WithAttr)
    BY <1>3, CountsAreNumbers
  <2>3. IsFiniteSet(AttrsIn(WithAttr))
    <3> DEFINE f == [i \in WithAttr |-> rows[i].attr]
    <3>1. AttrsIn(WithAttr) = {f[i] : i \in WithAttr}
      BY DEF AttrsIn
    <3>2. f \in Surjection(WithAttr, AttrsIn(WithAttr))
      BY <3>1 DEF Surjection
    <3> HIDE DEF f
    <3> QED
      BY <2>2, <3>2, FS_Surjection
  <2> QED
    BY <1>2, <1>3, <2>1, <2>3, FS_CardinalityType
<1>5. \A m \in Metrics : Answer[m] \in Nat
  <2>1. /\ Answer.included \in Nat /\ Answer.source \in Nat /\ Answer.historical \in Nat
        /\ Answer.missing \in Nat /\ Answer.nulls \in Nat /\ Answer.bucketed \in Nat
        /\ Answer.buckets \in Nat /\ Answer.blank \in Nat /\ Answer.qualityTotal \in Nat
        /\ Answer.untitled \in Nat /\ Answer.titleTotal \in Nat
        /\ Answer.placeholderTotal \in Nat /\ Answer.withPlaceholder \in Nat
        /\ Answer.dated \in Nat /\ Answer.undated \in Nat
    BY <1>2, <1>3, <1>4, AnswersAre
  <2>2. /\ Answer.monthly \in Nat /\ Answer.yearly \in Nat /\ Answer.scanned \in Nat
        /\ Answer.residual \in Nat /\ Answer.completenessTotal \in Nat
        /\ Answer.withStatus \in Nat /\ Answer.populated \in Nat
        /\ Answer.unpopulated \in Nat
    BY <1>2, <1>3, AnswersAre
  <2> QED
    BY <1>4, <2>1, <2>2, MetricsAre DEF MetricNames
<1> QED
  BY <1>1, <1>5

(* Every reachable state is well typed: rows of the table, and a number    *)
(* for every metric of the report.                                         *)
THEOREM ReportTypeCorrect == Spec => []TypeOK
<1> USE BoundsAssumption
<1>1. Init => TypeOK
  <2> SUFFICES ASSUME Init  PROVE TypeOK
    OBVIOUS
  <2>1. rows \in Contents
    BY DEF Init, EmptyTable, Contents
  <2>2. step \in 1..(Len(Plan) + 1)
    BY PlanLength DEF Init
  <2>3. seen \in [Metrics -> Nat] /\ disturbed \in BOOLEAN
    BY DEF Init
  <2>4. commits \in 0..MaxCommits /\ reports \in 0..MaxReports /\ status = "idle"
    BY DEF Init
  <2> QED
    BY <2>1, <2>2, <2>3, <2>4 DEF TypeOK
<1>2. IInv /\ TypeOK /\ [Next]_vars => TypeOK'
  <2> SUFFICES ASSUME IInv, TypeOK, [Next]_vars  PROVE TypeOK'
    OBVIOUS
  <2>1. ReportTypes /\ ReportTypes'
    BY StepKeeps DEF IInv
  <2>2. Answer \in [Metrics -> Nat]
    BY <2>1, AnswerType DEF ReportTypes
  <2>3. Metrics' = Metrics
    <3>1. (Metrics = MetricNames)'
      BY MetricsAre, PTL
    <3> QED
      BY <3>1, MetricsAre
  <2>4. seen' \in [Metrics -> Nat]
    <3>1. CASE Start
      BY <3>1 DEF Start
    <3>2. CASE Query
      BY <2>2, <3>2 DEF Query, TypeOK
    <3>3. CASE Ingest \/ QueryFails \/ Publish \/ Terminated \/ UNCHANGED vars
      BY <3>3 DEF Ingest, QueryFails, Publish, Terminated, vars, TypeOK
    <3> QED
      BY <3>1, <3>2, <3>3 DEF Next
  <2>5. commits' \in 0..MaxCommits /\ reports' \in 0..MaxReports
    BY DEF TypeOK, Next, Ingest, Start, Query, QueryFails, Publish, Terminated, vars
  <2> QED
    BY <2>1, <2>3, <2>4, <2>5 DEF ReportTypes, TypeOK
<1> QED
  BY <1>1, <1>2, ReportInvariant, PTL DEF Spec
=============================================================================
