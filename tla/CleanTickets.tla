---------------------------- MODULE CleanTickets ----------------------------
(***************************************************************************)
(* The rows of the table clean_tickets and what the repository's single    *)
(* statement, INSERT ... ON CONFLICT (external_ticket_id) DO UPDATE, does  *)
(* to one of them.                                                         *)
(*                                                                         *)
(* The columns are grouped by the rule the statement applies to them:      *)
(*   text  summary, details, status, ingested_at: written by the INSERT,   *)
(*         never by the UPDATE                                             *)
(*   attr  priority, category, agent_id_pseudonym: the UPDATE assigns      *)
(*         EXCLUDED.column, NULL included                                  *)
(*   date  the three business dates: COALESCE(EXCLUDED.column, old)        *)
(* One value stands for the columns of a group, all of them follow the     *)
(* same rule.                                                              *)
(***************************************************************************)
CONSTANTS Ids,      \* external_ticket_id values (NOT NULL UNIQUE)
          Texts,    \* values of the text group (NOT NULL columns)
          Attrs,    \* values of the attr group, besides Null
          Dates,    \* values of the date group, besides Null
          Null,     \* SQL NULL, Python None
          NoRow     \* the table has no row of that id

ASSUME NullAssumption == Null \notin Attrs \cup Dates

Row == [text : Texts, attr : Attrs \cup {Null}, date : Dates \cup {Null}]

ASSUME NoRowAssumption == NoRow \notin Row

(* A StoredCleanTicket, and one tuple of the list `values` of save_many. *)
Ticket == [id : Ids, text : Texts, attr : Attrs \cup {Null}, date : Dates \cup {Null}]

(* What a table holds for each id. *)
Contents == [Ids -> Row \cup {NoRow}]

EmptyTable == [i \in Ids |-> NoRow]

(* Fault: column = EXCLUDED.column, without COALESCE. *)
CoalesceDropped(a, b) == a

Coalesce(a, b) == IF a # Null THEN a ELSE b

(* Fault: two columns swapped in the tuple of positional parameters. *)
InsertedRowSwapped(t) == [text |-> t.attr, attr |-> t.text, date |-> t.date]

(* The INSERT branch. *)
InsertedRow(t) == [text |-> t.text, attr |-> t.attr, date |-> t.date]

(* Fault: summary = EXCLUDED.summary added to the SET list. *)
UpdatedRowWithText(old, t) ==
  [old EXCEPT !.text = t.text, !.attr = t.attr, !.date = Coalesce(t.date, old.date)]

(* The DO UPDATE branch: the text columns are not in its SET list. *)
UpdatedRow(old, t) ==
  [old EXCEPT !.attr = t.attr, !.date = Coalesce(t.date, old.date)]

(* Fault: ON CONFLICT DO NOTHING. *)
UpsertedRowDoNothing(old, t) == IF old = NoRow THEN InsertedRow(t) ELSE old

(* The row the statement leaves, given the one it conflicts with (or none). *)
UpsertedRow(old, t) == IF old = NoRow THEN InsertedRow(t) ELSE UpdatedRow(old, t)
=============================================================================
