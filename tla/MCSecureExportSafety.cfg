SPECIFICATION Spec
CONSTANTS
  e1 = e1
  e2 = e2
  Exporters <- TwoExporters
  clean = clean
  other = other
  dirty = dirty
  refused = refused
  Inherited = Inherited
  Secure = Secure
  Partial = Partial
  NoFile = NoFile
  RowSets <- AllRowSets
  Dirty <- DirtyOnes
  Blocked <- RefusedOnes
  MaxExports = 4
  MaxFaults = 2
INVARIANTS
  TypeOK
  FilesAreOwnerOnly
  DestinationIsNeverPartial
  FindingsNeedAFault
  PassedExportIsAtDestination
  EndedExportLeavesNoTemporary
  UmaskIsGivenBack
