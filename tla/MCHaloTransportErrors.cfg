SPECIFICATION Spec
CONSTANTS
  t1 = t1
  t2 = t2
  Junk = Junk
  NoList = NoList
  Tickets <- TwoTickets
  Pages <- AllPages
  MaxRetries = 1
  MaxFetches = 1
INVARIANT FailuresAreTransportErrors
