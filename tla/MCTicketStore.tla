--------------------------- MODULE MCTicketStore ---------------------------
(***************************************************************************)
(* Instances of TicketStore for TLC. Two ids are enough for two writers to *)
(* take rows in opposite orders; the batches repeat an id, give and omit   *)
(* a date, and differ in text and attributes.                              *)
(***************************************************************************)
EXTENDS TicketStore

CONSTANTS i1, i2,          \* ids
          x1, x2,          \* texts
          p1,              \* attributes
          d1,              \* dates
          w1, w2, w3       \* writers

Tkt(i, x, p, d) == [id |-> i, text |-> x, attr |-> p, date |-> d]

TwoIds == {i1, i2}
TwoTexts == {x1, x2}
OneAttr == {p1}
OneDate == {d1}
TwoWriters == {w1, w2}
ThreeWriters == {w1, w2, w3}
OnlyFirst == {w1}
Nobody == {}

(* In one order with everything known, in the other with nothing known, and *)
(* one id twice, known first and unknown after.                             *)
Forward == <<Tkt(i1, x1, p1, d1), Tkt(i2, x1, Null, Null)>>
Backward == <<Tkt(i2, x2, p1, d1), Tkt(i1, x2, Null, Null)>>
Twice == <<Tkt(i1, x2, p1, d1), Tkt(i1, x1, Null, Null)>>

MixedBatches == {<<>>, Forward, Backward, Twice}
CrossingBatches == {Forward, Backward}
=============================================================================
