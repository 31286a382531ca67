-------------------------- MODULE MCTicketIngestion --------------------------
(***************************************************************************)
(* Instances of TicketIngestion for TLC: two tickets, one agent, and pages *)
(* that are clean, repeat a ticket, or hold one ticket that stops the run  *)
(* after one that would not.                                               *)
(***************************************************************************)
EXTENDS TicketIngestion

CONSTANTS i1, i2,               \* ids
          phone1, phone2,       \* raw ids that sanitization masks, both as i2
          plain, mail, poison,  \* raw texts
          masked, leak,         \* their clean forms, besides plain
          a1, s1, s2, d1,       \* an agent, two secrets, a date
          r1, r2                \* runners

TwoIds == {i1, i2}
AllRawIds == {i1, phone1, phone2}
MCCleanId == [x \in AllRawIds |-> IF x = i1 THEN i1 ELSE i2]
AllRawTexts == {plain, mail, poison}
AllTexts == {plain, masked, leak}
MCCleanForm ==
  [x \in AllRawTexts |-> CASE x = plain -> plain [] x = mail -> masked [] x = poison -> leak]
Leaks == {leak}
OneAgent == {a1}
TwoSecrets == {s1, s2}
Pseudonyms == TwoSecrets \X OneAgent
OneDate == {d1}
TwoRunners == {r1, r2}

P(i, x, a, d) == [id |-> i, text |-> x, agent |-> a, date |-> d]

First1 == P(i1, plain, a1, d1)
MCPages ==
  {<<>>,
   <<First1, P(phone1, mail, Null, Invalid)>>,
   <<P(phone1, plain, a1, Null), P(phone2, mail, Null, d1)>>,
   <<First1, P(phone1, poison, Null, Null)>>,
   <<First1, P(Missing, plain, Null, d1), P(phone1, plain, Null, OutOfRange)>>,
   <<First1, P(phone1, plain, Null, OutOfRange)>>}
=============================================================================
