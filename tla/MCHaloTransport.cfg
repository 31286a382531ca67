SPECIFICATION FairSpec
CONSTANTS
  t1 = t1
  t2 = t2
  Junk = Junk
  NoList = NoList
  Tickets <- TwoTickets
  Pages <- AllPages
  MaxRetries = 1
  MaxFetches = 2
INVARIANTS
  TypeOK
  TokenIsOfThisFetch
  RequestsAreBounded
  FetchedPageWasOffered
PROPERTY EveryFetchEnds
