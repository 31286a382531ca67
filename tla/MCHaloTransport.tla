--------------------------- MODULE MCHaloTransport ---------------------------
(***************************************************************************)
(* Instances of HaloTransport for TLC: an empty page, a page with an item  *)
(* that is no object, a longer one, and an answer without a list.          *)
(***************************************************************************)
EXTENDS HaloTransport

CONSTANTS t1, t2

TwoTickets == {t1, t2}
AllPages == {<<>>, <<t1, Junk>>, <<t1, t2>>, NoList}
=============================================================================
