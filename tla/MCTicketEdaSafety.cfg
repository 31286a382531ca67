SPECIFICATION Spec
CONSTANTS
  i1 = i1
  i2 = i2
  x1 = x1
  x2 = x2
  p1 = p1
  p2 = p2
  recent = recent
  old = old
  Null = Null
  NoRow = NoRow
  Ids <- TwoIds
  Texts <- TwoTexts
  Attrs <- TwoAttrs
  Dates <- TwoDates
  RecentDates <- RecentOnly
  Marks <- AllMarks
  Batches <- EdaBatches
  MaxCommits = 3
  MaxReports = 1
INVARIANTS
  TypeOK
  ReportAddsUp
  PublishedRatesAreRates
  OnlyDisturbedReportsAreBlocked
