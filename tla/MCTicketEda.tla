----------------------------- MODULE MCTicketEda -----------------------------
(***************************************************************************)
(* Instances of TicketEda for TLC: two tickets, saves that add a recent or *)
(* an undated ticket, that give a date to an undated one, or that move one *)
(* out of scope.                                                           *)
(***************************************************************************)
EXTENDS TicketEda

CONSTANTS i1, i2, x1, x2, p1, p2, recent, old

Tkt(i, x, p, d) == [id |-> i, text |-> x, attr |-> p, date |-> d]

TwoIds == {i1, i2}
TwoTexts == {x1, x2}
TwoAttrs == {p1, p2}
TwoDates == {recent, old}
RecentOnly == {recent}
(* Every scan finds something in one of the texts. *)
AllMarks == [placeholder |-> {x1}, blank |-> {x2}, untitled |-> {x1},
             residual |-> {x2}, heuristic |-> {x1, x2}]

SingleTickets ==
  {<<Tkt(i, x1, p, d)>> : i \in TwoIds, p \in {p1, Null}, d \in {recent, Null}}
    \cup {<<Tkt(i, x2, p2, old)>> : i \in TwoIds}
Pairs == {<<Tkt(i1, x1, p1, recent), Tkt(i2, x2, p2, recent)>>}
EdaBatches == SingleTickets \cup Pairs
=============================================================================
