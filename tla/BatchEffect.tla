----------------------------- MODULE BatchEffect -----------------------------
(***************************************************************************)
(* What saving a batch means, stated on the batch as a whole: for each id  *)
(* the first text, the last attributes and the last known date.            *)
(***************************************************************************)
EXTENDS CleanTickets, Sequences, Integers

(* Positions of the tickets of b for the id i, and those that carry a date. *)
Positions(b, i) == {k \in DOMAIN b : b[k].id = i}
Dated(b, i) == {k \in Positions(b, i) : b[k].date # Null}

First(S) == CHOOSE k \in S : \A m \in S : k <= m
Last(S) == CHOOSE k \in S : \A m \in S : k >= m

(* Fault: the text and attribute columns swapped in the statement. *)
RowAfterSwapped(old, b, i) ==
  IF Positions(b, i) = {} THEN old
  ELSE [text |-> b[Last(Positions(b, i))].attr,
        attr |-> b[First(Positions(b, i))].text,
        date |-> b[Last(Positions(b, i))].date]

(* The row of id i after the whole batch, from the row before it. *)
RowAfter(old, b, i) ==
  IF Positions(b, i) = {} THEN old
  ELSE [text |-> IF old = NoRow THEN b[First(Positions(b, i))].text ELSE old.text,
        attr |-> b[Last(Positions(b, i))].attr,
        date |-> IF Dated(b, i) # {} THEN b[Last(Dated(b, i))].date
                 ELSE IF old = NoRow THEN Null ELSE old.date]

TableAfter(table, b) == [i \in Ids |-> RowAfter(table[i], b, i)]

NewIds(table, b) == {i \in Ids : table[i] = NoRow /\ Positions(b, i) # {}}
=============================================================================
