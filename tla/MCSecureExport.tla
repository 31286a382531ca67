--------------------------- MODULE MCSecureExport ---------------------------
(***************************************************************************)
(* Instances of SecureExport for TLC: rows without findings, with findings *)
(* only the scan of the file sees, and refused ones.                       *)
(***************************************************************************)
EXTENDS SecureExport

CONSTANTS e1, e2, clean, other, dirty, refused

OneExporter == {e1}
TwoExporters == {e1, e2}
AllRowSets == {clean, other, dirty, refused}
DirtyOnes == {dirty}
RefusedOnes == {refused}
=============================================================================
