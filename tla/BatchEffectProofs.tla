-------------------------- MODULE BatchEffectProofs --------------------------
(***************************************************************************)
(* What saving a batch does to the table, for every table and every batch: *)
(* it yields rows, adds at most one row per ticket, and doing it again     *)
(* changes nothing.                                                        *)
(***************************************************************************)
EXTENDS BatchEffect, FiniteSetTheorems, WellFoundedInduction, TLAPS

(* A set of positions that is not empty has a first one ... *)
LEMMA FirstExists ==
  ASSUME NEW S \in SUBSET Nat, S # {}
  PROVE  First(S) \in S /\ \A m \in S : First(S) <= m
<1> DEFINE R == {p \in Nat \X Nat : p[1] < p[2]}
<1>1. IsWellFoundedOn(R, Nat)
  BY NatLessThanWellFounded DEF OpToRel
<1>2. PICK k \in S : \A m \in S : ~(<<m, k>> \in R)
  <2> HIDE DEF R
  <2> QED
    BY <1>1, WFMin
<1>3. \A m \in S : k <= m
  <2> TAKE m \in S
  <2>1. ~(m < k)
    BY <1>2
  <2> QED
    BY <2>1
<1> QED
  BY <1>3 DEF First

(* ... and, when it is bounded, a last one. *)
LEMMA LastExists ==
  ASSUME NEW n \in Nat, NEW S \in SUBSET (1..n), S # {}
  PROVE  Last(S) \in S /\ \A m \in S : Last(S) >= m
<1> DEFINE D == {n - k : k \in S}
<1>1. D \in SUBSET Nat /\ D # {}
  <2>1. \A k \in S : k \in 1..n /\ n - k \in Nat
    OBVIOUS
  <2>2. PICK k \in S : TRUE
    OBVIOUS
  <2>3. n - k \in D
    OBVIOUS
  <2>4. \A d \in D : d \in Nat
    BY <2>1
  <2> QED
    BY <2>3, <2>4
<1>2. First(D) \in D /\ \A m \in D : First(D) <= m
  <2> HIDE DEF D
  <2> QED  BY <1>1, FirstExists
<1>3. PICK k \in S : First(D) = n - k
  BY <1>2
<1>4. \A m \in S : k >= m
  <2> TAKE m \in S
  <2>1. n - m \in D
    OBVIOUS
  <2>2. n - k <= n - m
    BY <1>2, <1>3, <2>1
  <2> QED
    BY <2>2
<1> QED
  BY <1>4 DEF Last

(* What the positions of a ticket in a batch are. *)
LEMMA PositionsType ==
  ASSUME NEW b \in Seq(Ticket), NEW i \in Ids
  PROVE  /\ Positions(b, i) \in SUBSET (1..Len(b))
         /\ Dated(b, i) \in SUBSET Positions(b, i)
         /\ \A k \in Positions(b, i) : b[k] \in Ticket /\ b[k].id = i
BY DEF Positions, Dated

(* A batch leaves rows in the table, and a row for each of its ids. *)
LEMMA RowAfterType ==
  ASSUME NEW b \in Seq(Ticket), NEW i \in Ids, NEW old \in Row \cup {NoRow}
  PROVE  /\ RowAfter(old, b, i) \in Row \cup {NoRow}
         /\ Positions(b, i) # {} => RowAfter(old, b, i) \in Row
<1>1. CASE Positions(b, i) = {}
  BY <1>1 DEF RowAfter
<1>2. CASE Positions(b, i) # {}
  <2> DEFINE f == First(Positions(b, i))
             l == Last(Positions(b, i))
             d == Last(Dated(b, i))
  <2>1. b[f] \in Ticket
    BY <1>2, PositionsType, FirstExists, Positions(b, i) \in SUBSET Nat
  <2>2. b[l] \in Ticket
    BY <1>2, PositionsType, LastExists, Len(b) \in Nat
  <2>3. Dated(b, i) # {} => b[d] \in Ticket
    BY PositionsType, LastExists, Len(b) \in Nat, Dated(b, i) \in SUBSET (1..Len(b))
  <2>4. old # NoRow => old \in Row
    OBVIOUS
  <2> HIDE DEF f, l, d
  <2>5. RowAfter(old, b, i) =
          [text |-> IF old = NoRow THEN b[f].text ELSE old.text,
           attr |-> b[l].attr,
           date |-> IF Dated(b, i) # {} THEN b[d].date
                    ELSE IF old = NoRow THEN Null ELSE old.date]
    BY <1>2 DEF RowAfter, f, l, d
  <2>6. (IF old = NoRow THEN b[f].text ELSE old.text) \in Texts
    BY <2>1, <2>4 DEF Ticket, Row
  <2>7. b[l].attr \in Attrs \cup {Null}
    BY <2>2 DEF Ticket
  <2>8. (IF Dated(b, i) # {} THEN b[d].date
         ELSE IF old = NoRow THEN Null ELSE old.date) \in Dates \cup {Null}
    BY <2>3, <2>4 DEF Ticket, Row
  <2>9. RowAfter(old, b, i) \in Row
    BY <2>5, <2>6, <2>7, <2>8 DEF Row
  <2> QED
    BY <2>9
<1> QED
  BY <1>1, <1>2

(* The text and the attributes of a row come from the batch, or from the   *)
(* row that was there.                                                     *)
LEMMA RowAfterSources ==
  ASSUME NEW b \in Seq(Ticket), NEW i \in Ids, NEW old \in Row \cup {NoRow},
         RowAfter(old, b, i) # NoRow
  PROVE  /\ \/ old # NoRow /\ RowAfter(old, b, i).text = old.text
            \/ \E k \in DOMAIN b : RowAfter(old, b, i).text = b[k].text
         /\ \/ old # NoRow /\ RowAfter(old, b, i).attr = old.attr
            \/ \E k \in DOMAIN b : RowAfter(old, b, i).attr = b[k].attr
<1>1. CASE Positions(b, i) = {}
  BY <1>1 DEF RowAfter
<1>2. CASE Positions(b, i) # {}
  <2>1. First(Positions(b, i)) \in Positions(b, i)
    BY <1>2, PositionsType, FirstExists, Positions(b, i) \in SUBSET Nat
  <2>2. Last(Positions(b, i)) \in Positions(b, i)
    BY <1>2, PositionsType, LastExists, Len(b) \in Nat
  <2> QED
    BY <1>2, <2>1, <2>2 DEF RowAfter, Positions
<1> QED
  BY <1>1, <1>2

(* The table after a batch is a table. *)
LEMMA TableAfterType ==
  ASSUME NEW b \in Seq(Ticket), NEW table \in Contents
  PROVE  TableAfter(table, b) \in Contents
BY RowAfterType DEF TableAfter, Contents

(* Saving a batch twice leaves in each row what saving it once leaves. *)
LEMMA RowAfterTwice ==
  ASSUME NEW b \in Seq(Ticket), NEW i \in Ids, NEW old \in Row \cup {NoRow}
  PROVE  RowAfter(RowAfter(old, b, i), b, i) = RowAfter(old, b, i)
<1>1. CASE Positions(b, i) = {}
  BY <1>1 DEF RowAfter
<1>2. CASE Positions(b, i) # {}
  <2>1. RowAfter(old, b, i) # NoRow
    BY <1>2, RowAfterType, NoRowAssumption
  <2> QED
    BY <1>2, <2>1 DEF RowAfter
<1> QED
  BY <1>1, <1>2

(* A batch saved a second time, on what the first time left, changes no row *)
(* and inserts none (ticket_repository.py save_many).                      *)
THEOREM SavingTwiceIsSavingOnce ==
  ASSUME NEW b \in Seq(Ticket), NEW table \in Contents
  PROVE  /\ TableAfter(TableAfter(table, b), b) = TableAfter(table, b)
         /\ NewIds(TableAfter(table, b), b) = {}
<1> DEFINE after == TableAfter(table, b)
<1>1. after \in Contents
  BY TableAfterType
<1>2. \A i \in Ids : after[i] = RowAfter(table[i], b, i)
  BY DEF TableAfter
<1>3. \A i \in Ids : table[i] \in Row \cup {NoRow}
  BY DEF Contents
<1>4. \A i \in Ids : RowAfter(after[i], b, i) = after[i]
  BY <1>2, <1>3, RowAfterTwice
<1>5. TableAfter(after, b) = after
  BY <1>1, <1>4 DEF TableAfter, Contents
<1>6. \A i \in Ids : Positions(b, i) # {} => after[i] # NoRow
  BY <1>2, <1>3, RowAfterType, NoRowAssumption
<1>7. NewIds(after, b) = {}
  BY <1>6 DEF NewIds
<1> QED
  BY <1>5, <1>7

(* A batch adds no more rows than it has tickets. *)
LEMMA NewIdsBound ==
  ASSUME NEW b \in Seq(Ticket), NEW table \in Contents
  PROVE  /\ IsFiniteSet(NewIds(table, b))
         /\ Cardinality(NewIds(table, b)) \in 0..Len(b)
<1> DEFINE S == NewIds(table, b)
           f == [i \in S |-> CHOOSE k \in Positions(b, i) : TRUE]
<1>1. \A i \in S : f[i] \in Positions(b, i)
  BY DEF NewIds
<1>2. \A i \in S : f[i] \in 1..Len(b) /\ b[f[i]].id = i
  BY <1>1 DEF Positions
<1>3. f \in Injection(S, 1..Len(b))
  <2>1. f \in [S -> 1..Len(b)]
    BY <1>2
  <2>2. \A i, j \in S : f[i] = f[j] => i = j
    BY <1>2
  <2> HIDE DEF f, S
  <2> QED
    BY <2>1, <2>2 DEF Injection, IsInjective
<1>4. IsFiniteSet(1..Len(b)) /\ Cardinality(1..Len(b)) = Len(b)
  BY FS_Interval, Len(b) \in Nat
<1> HIDE DEF f, S
<1>5. IsFiniteSet(S) /\ Cardinality(S) <= Cardinality(1..Len(b))
  BY <1>3, <1>4, FS_Injection
<1>6. Cardinality(S) \in Nat
  BY <1>5, FS_CardinalityType
<1> QED
  BY <1>4, <1>5, <1>6, Len(b) \in Nat DEF S

(* The number of rows grows by the number of new tickets. *)
LEMMA RowsAfter ==
  ASSUME NEW b \in Seq(Ticket), NEW table \in Contents,
         IsFiniteSet({i \in Ids : table[i] # NoRow})
  PROVE  LET before == {i \in Ids : table[i] # NoRow}
             after == {i \in Ids : TableAfter(table, b)[i] # NoRow} IN
         /\ IsFiniteSet(after)
         /\ Cardinality(after) = Cardinality(before) + Cardinality(NewIds(table, b))
<1> DEFINE before == {i \in Ids : table[i] # NoRow}
           after == {i \in Ids : TableAfter(table, b)[i] # NoRow}
           new == NewIds(table, b)
<1>1. ASSUME NEW i \in Ids
      PROVE  (TableAfter(table, b)[i] # NoRow) <=> (table[i] # NoRow \/ Positions(b, i) # {})
  <2>1. TableAfter(table, b)[i] = RowAfter(table[i], b, i)
    BY DEF TableAfter
  <2>2. CASE Positions(b, i) = {}
    BY <2>1, <2>2 DEF RowAfter
  <2>3. CASE Positions(b, i) # {}
    BY <2>1, <2>3, RowAfterType, NoRowAssumption DEF Contents
  <2> QED
    BY <2>2, <2>3
<1>2. after = before \cup new /\ before \cap new = {}
  BY <1>1 DEF NewIds
<1>3. IsFiniteSet(new) /\ Cardinality(new) \in Nat
  BY NewIdsBound, Len(b) \in Nat
<1>4. IsFiniteSet(before) /\ Cardinality(before) \in Nat
  BY FS_CardinalityType
<1> HIDE DEF before, after, new
<1>5. /\ IsFiniteSet(before \cup new)
      /\ Cardinality(before \cup new) =
           Cardinality(before) + Cardinality(new) - Cardinality(before \cap new)
  BY <1>3, <1>4, FS_Union
<1>6. Cardinality(after) = Cardinality(before) + Cardinality(new) /\ IsFiniteSet(after)
  <2>1. Cardinality(before \cap new) = 0
    BY <1>2, FS_EmptySet
  <2>2. Cardinality(before \cup new) = Cardinality(before) + Cardinality(new)
    BY <1>3, <1>4, <1>5, <2>1
  <2> QED
    BY <1>2, <1>5, <2>2
<1> QED
  BY <1>6 DEF before, after, new
=============================================================================
