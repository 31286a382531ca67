SPECIFICATION Spec
CONSTANTS
  i1 = i1
  i2 = i2
  x1 = x1
  x2 = x2
  p1 = p1
  d1 = d1
  w1 = w1
  w2 = w2
  w3 = w3
  Null = Null
  NoRow = NoRow
  Ids <- TwoIds
  Texts <- TwoTexts
  Attrs <- OneAttr
  Dates <- OneDate
  Writers <- OnlyFirst
  SchemaWriters <- OnlyFirst
  Batches <- CrossingBatches
  MaxSaves = 2
  MaxFaults = 1
INVARIANT RequestedTableIsThere
