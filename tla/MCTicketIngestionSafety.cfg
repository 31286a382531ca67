SPECIFICATION Spec
CONSTANTS
  i1 = i1
  i2 = i2
  phone1 = phone1
  phone2 = phone2
  plain = plain
  mail = mail
  poison = poison
  masked = masked
  leak = leak
  a1 = a1
  s1 = s1
  s2 = s2
  d1 = d1
  r1 = r1
  r2 = r2
  Null = Null
  NoRow = NoRow
  NoSecret = NoSecret
  Missing = Missing
  Invalid = Invalid
  OutOfRange = OutOfRange
  Ids <- TwoIds
  RawIds <- AllRawIds
  CleanId <- MCCleanId
  Texts <- AllTexts
  RawTexts <- AllRawTexts
  CleanForm <- MCCleanForm
  Residual <- Leaks
  Agents <- OneAgent
  Secrets <- TwoSecrets
  Attrs <- Pseudonyms
  Dates <- OneDate
  Runners <- TwoRunners
  Pages <- MCPages
  MaxRuns = 2
INVARIANTS
  TypeOK
  RowsAreGuarded
  CompletedRunStoredItsPage
  EveryRowCountedOnce
PROPERTY RepeatedSaveChangesNothing
