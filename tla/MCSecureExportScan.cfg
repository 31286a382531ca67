SPECIFICATION Spec
CONSTANTS
  e1 = e1
  e2 = e2
  Exporters <- OneExporter
  clean = clean
  other = other
  dirty = dirty
  refused = refused
  Inherited = Inherited
  Secure = Secure
  Partial = Partial
  NoFile = NoFile
  RowSets <- AllRowSets
  Dirty <- DirtyOnes
  Blocked <- RefusedOnes
  MaxExports = 1
  MaxFaults = 1
INVARIANT FailedScanPurgesExport
