SPECIFICATION Spec
CONSTANTS
  Exports <- ExportedOnes
  Dotenvs <- DotenvOnes
  Hosts <- HostOnes
  Mappings <- MappingOnes
  Injections <- CalledWith
INVARIANTS
  TypeOK
  BlockedRunsDidNothing
  EffectsNeedTheirFlag
  ExportedRefusalStands
  FetchedPagesHaveTheirSecret
  EffectsHaveTheirSettings
