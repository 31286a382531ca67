SPECIFICATION Spec
CONSTANTS
  Cases <- AllCases
  Zones <- AllZones
  MaxTextChars = 7
  SecretChars = 3
  MaxBlocks = 4
INVARIANTS
  CopiesOfTheGatesAgree
  AcceptedSourceIsReadWhole
  ScopesDifferNearMidnightOnly
  TextsLoseTheirMatches
  ResidualPiiHasACause
