------------------------- MODULE TicketDatasetProofs -------------------------
(***************************************************************************)
(* Proofs about TicketDataset, for sources of any length, texts of any     *)
(* length and every bound: what the dataset lets through and what it       *)
(* leaves in a text.                                                       *)
(*                                                                         *)
(* The first part is about the walk every operator on texts is built from: *)
(* which positions it keeps, and where each element of the result stood.   *)
(* The second follows a match of a masked text back to the text: it        *)
(* touches a placeholder, or the text had more matches of its category     *)
(* than could be replaced. The third are the counts, and the inductive     *)
(* invariant: each result is what its part of the code makes of the source *)
(* and of the request. The fourth follows a match back through the         *)
(* collapsed spaces, the truncation and the tags, and the last counts what *)
(* a masked text has lost.                                                 *)
(***************************************************************************)
EXTENDS TicketDataset, FiniteSetTheorems, SequenceTheorems, WellFoundedInduction, TLAPS

(* What holds of a position as soon as it holds of all the later ones      *)
(* holds of every position.                                                *)
LEMMA Downwards ==
  ASSUME NEW n \in Nat, NEW S,
         \A i \in 1..(n + 1) : (\A j \in (i + 1)..(n + 1) : j \in S) => i \in S
  PROVE  \A i \in 1..(n + 1) : i \in S
<1> DEFINE R == {p \in Nat \X Nat : p[1] < p[2]}
           Late == {k \in 0..n : (n + 1) - k \notin S}
<1>1. IsWellFoundedOn(R, Nat)
  BY NatLessThanWellFounded DEF OpToRel
<1>2. ASSUME Late # {} PROVE FALSE
  <2>1. Late \subseteq Nat
    OBVIOUS
  <2>2. PICK k \in Late : \A m \in Late : ~(<<m, k>> \in R)
    <3> HIDE DEF R, Late
    <3> QED
      BY <1>1, <1>2, <2>1, WFMin
  <2>2a. \A m \in Late : ~(m < k)
    <3> TAKE m \in Late
    <3>1. m \in Nat /\ k \in Nat /\ <<m, k>> \notin R
      BY <2>2
    <3> QED
      BY <3>1
  <2>3. \A j \in ((n + 1) - k + 1)..(n + 1) : j \in S
    <3> TAKE j \in ((n + 1) - k + 1)..(n + 1)
    <3>1. (n + 1) - j \in 0..n /\ (n + 1) - j < k /\ (n + 1) - ((n + 1) - j) = j
      OBVIOUS
    <3>2. (n + 1) - j \notin Late
      BY <3>1, <2>2a
    <3> QED
      BY <3>1, <3>2
  <2>4. (n + 1) - k \in 1..(n + 1)
    OBVIOUS
  <2> QED
    BY <2>3, <2>4
<1>3. ASSUME NEW i \in 1..(n + 1) PROVE i \in S
  <2>1. (n + 1) - i \in 0..n /\ (n + 1) - ((n + 1) - i) = i
    OBVIOUS
  <2> QED
    BY <2>1, <1>2
<1> QED
  BY <1>3

(* A set of positions that is not empty has a first and a last one. *)
LEMMA MinExists ==
  ASSUME NEW S \in SUBSET Nat, S # {}
  PROVE  Min(S) \in S /\ \A m \in S : Min(S) <= m
<1> DEFINE R == {p \in Nat \X Nat : p[1] < p[2]}
<1>1. IsWellFoundedOn(R, Nat)
  BY NatLessThanWellFounded DEF OpToRel
<1>2. PICK k \in S : \A m \in S : ~(<<m, k>> \in R)
  <2> HIDE DEF R
  <2> QED
    BY <1>1, WFMin
<1>3. \A m \in S : k <= m
  <2> TAKE m \in S
  <2>1. ~(m < k)
    BY <1>2
  <2> QED
    BY <2>1
<1> QED
  BY <1>3 DEF Min

(* So has the other end: a bounded set of positions has a maximum. *)
LEMMA MaxExists ==
  ASSUME NEW n \in Nat, NEW S \in SUBSET (1..n), S # {}
  PROVE  Max(S) \in S /\ \A m \in S : Max(S) >= m
<1> DEFINE T == {n - k : k \in S}
<1>1. T \in SUBSET Nat /\ T # {}
  <2>1. \A k \in S : k \in 1..n /\ n - k \in Nat
    OBVIOUS
  <2>2. PICK k \in S : TRUE
    OBVIOUS
  <2>3. n - k \in T
    OBVIOUS
  <2>4. \A d \in T : d \in Nat
    BY <2>1
  <2> QED
    BY <2>3, <2>4
<1>2. Min(T) \in T /\ \A m \in T : Min(T) <= m
  <2> HIDE DEF T
  <2> QED  BY <1>1, MinExists
<1>3. PICK k \in S : Min(T) = n - k
  BY <1>2
<1>4. \A m \in S : k >= m
  <2> TAKE m \in S
  <2>1. n - m \in T
    OBVIOUS
  <2>2. n - k <= n - m
    BY <1>2, <1>3, <2>1
  <2> QED
    BY <2>2
<1> QED
  BY <1>4 DEF Max

-----------------------------------------------------------------------------
(* A step function of a walk over the positions 1..n. *)
Steps(n) == {next \in [1..n -> 1..(n + 1)] : \A i \in 1..n : i < next[i]}

(* f tells, from position m on, what a walk has collected. *)
Collects(f, m, n, part, next) ==
  /\ f = [i \in m..(n + 1) |-> f[i]]
  /\ f[n + 1] = <<>>
  /\ \A i \in m..n : f[i] = part[i] \o f[next[i]]

(* The recursive function a walk is defined with exists. *)
LEMMA WalkIsCollected ==
  ASSUME NEW n \in Nat, NEW part, NEW next \in Steps(n)
  PROVE  \E f : Collects(f, 1, n, part, next) /\ Walk(n, part, next) = f[1]
<1> DEFINE S == {m \in 1..(n + 1) : \E f : Collects(f, m, n, part, next)}
<1>1. ASSUME NEW m \in 1..(n + 1), \A j \in (m + 1)..(n + 1) : j \in S
      PROVE  m \in S
  <2>1. CASE m = n + 1
    <3> DEFINE f == [i \in (n + 1)..(n + 1) |-> <<>>]
    <3>1. Collects(f, n + 1, n, part, next)
      <4>1. f = [i \in (n + 1)..(n + 1) |-> f[i]]
        OBVIOUS
      <4>2. f[n + 1] = <<>>
        OBVIOUS
      <4>3. \A i \in (n + 1)..n : FALSE
        OBVIOUS
      <4> HIDE DEF f
      <4> QED
        BY <4>1, <4>2, <4>3 DEF Collects
    <3> QED
      BY <2>1, <3>1
  <2>2. CASE m # n + 1
    <3>1. m + 1 \in S /\ m \in 1..n
      BY <1>1, <2>2
    <3>2. PICK g : Collects(g, m + 1, n, part, next)
      BY <3>1
    <3> DEFINE head == part[m] \o g[next[m]]
               f == [i \in m..(n + 1) |-> IF i = m THEN head ELSE g[i]]
    <3>3. next[m] \in (m + 1)..(n + 1)
      BY <3>1 DEF Steps
    <3>4. f[n + 1] = <<>>
      BY <3>1, <3>2 DEF Collects
    <3>5. ASSUME NEW i \in m..n PROVE f[i] = part[i] \o f[next[i]]
      <4>1. next[i] \in (i + 1)..(n + 1)
        BY <3>1 DEF Steps
      <4>2. f[next[i]] = g[next[i]]
        BY <4>1
      <4>3. CASE i = m
        <5>1. f[i] = head
          <6> HIDE DEF head
          <6> QED
            BY <4>3
        <5> HIDE DEF f
        <5> QED
          BY <5>1, <4>2, <4>3
      <4>4. CASE i # m
        <5>1. f[i] = g[i] /\ i \in (m + 1)..n
          BY <4>4
        <5> QED
          BY <5>1, <4>2, <3>2 DEF Collects
      <4> QED
        BY <4>3, <4>4
    <3>6. Collects(f, m, n, part, next)
      <4>1. f = [i \in m..(n + 1) |-> f[i]]
        OBVIOUS
      <4> HIDE DEF f
      <4> QED
        BY <4>1, <3>4, <3>5 DEF Collects
    <3> QED
      BY <3>1, <3>6
  <2> QED
    BY <2>1, <2>2
<1>2. 1 \in S
  <2>1. \A i \in 1..(n + 1) : (\A j \in (i + 1)..(n + 1) : j \in S) => i \in S
    BY <1>1
  <2> HIDE DEF S
  <2>2. \A i \in 1..(n + 1) : i \in S
    BY <2>1, Downwards
  <2> QED
    BY <2>2
<1>3. PICK g : Collects(g, 1, n, part, next)
  BY <1>2
<1>4. g = [i \in 1..(n + 1) |-> IF i > n THEN <<>> ELSE part[i] \o g[next[i]]]
  <2>1. \A i \in 1..(n + 1) : g[i] = IF i > n THEN <<>> ELSE part[i] \o g[next[i]]
    <3> TAKE i \in 1..(n + 1)
    <3>1. CASE i = n + 1
      BY <1>3, <3>1 DEF Collects
    <3>2. CASE i # n + 1
      <4>1. ~(i > n) /\ i \in 1..n
        BY <3>2
      <4>2. g[i] = part[i] \o g[next[i]]
        BY <4>1, <1>3 DEF Collects
      <4> QED
        BY <4>1, <4>2
    <3> QED
      BY <3>1, <3>2
  <2> QED
    BY <1>3, <2>1 DEF Collects
<1> DEFINE f == CHOOSE h : h = [i \in 1..(n + 1) |-> IF i > n THEN <<>> ELSE part[i] \o h[next[i]]]
<1>5. f = [i \in 1..(n + 1) |-> IF i > n THEN <<>> ELSE part[i] \o f[next[i]]]
  BY <1>4
<1>6. Walk(n, part, next) = f[1]
  BY DEF Walk
<1>7. Collects(f, 1, n, part, next)
  <2> HIDE DEF f
  <2>1. \A i \in 1..(n + 1) : f[i] = IF i > n THEN <<>> ELSE part[i] \o f[next[i]]
    BY <1>5
  <2>2. f = [i \in 1..(n + 1) |-> f[i]]
    BY <1>5
  <2> QED
    <3>1. f[n + 1] = <<>>
      BY <2>1
    <3>2. \A i \in 1..n : f[i] = part[i] \o f[next[i]]
      <4> TAKE i \in 1..n
      <4>1. i \in 1..(n + 1) /\ ~(i > n)
        OBVIOUS
      <4> QED
        BY <4>1, <2>1
    <3> QED
      BY <3>1, <3>2, <2>2 DEF Collects
<1> QED
  BY <1>6, <1>7
-----------------------------------------------------------------------------
(* A sequence with one element more in front. *)
LEMMA Prepended ==
  ASSUME NEW T, NEW x \in T, NEW s \in Seq(T)
  PROVE  /\ <<x>> \o s \in Seq(T)
         /\ Len(<<x>> \o s) = Len(s) + 1
         /\ (<<x>> \o s)[1] = x
         /\ \A k \in 1..Len(s) : (<<x>> \o s)[k + 1] = s[k]
         /\ Range(<<x>> \o s) = {x} \cup Range(s)
<1> DEFINE r == <<x>> \o s
<1>1. r \in Seq(T) /\ Len(r) = Len(s) + 1
  OBVIOUS
<1>2. r[1] = x
  OBVIOUS
<1>3. \A k \in 1..Len(s) : r[k + 1] = s[k]
  OBVIOUS
<1>4. Range(r) = {x} \cup Range(s)
  <2> HIDE DEF r
  <2>1. DOMAIN r = 1..(Len(s) + 1) /\ DOMAIN s = 1..Len(s) /\ Len(s) \in Nat
    BY <1>1
  <2>2. \A k \in DOMAIN r : k = 1 \/ (k - 1 \in DOMAIN s /\ r[k] = s[k - 1])
    <3> TAKE k \in DOMAIN r
    <3>1. CASE k # 1
      <4>1. k - 1 \in 1..Len(s) /\ (k - 1) + 1 = k
        BY <2>1, <3>1
      <4>2. r[(k - 1) + 1] = s[k - 1]
        BY <4>1, <1>3
      <4> QED
        BY <2>1, <4>1, <4>2
    <3> QED
      BY <3>1
  <2>3. \A k \in DOMAIN s : k + 1 \in DOMAIN r /\ r[k + 1] = s[k]
    BY <2>1, <1>3
  <2>4. 1 \in DOMAIN r
    BY <2>1
  <2> QED
    BY <1>2, <2>2, <2>3, <2>4 DEF Range
<1> QED
  BY <1>1, <1>2, <1>3, <1>4

(* The positions a walk visits: each leads to the next, with none between, *)
(* and every position is in the stretch of one of them.                    *)
LEMMA VisitedPositions ==
  ASSUME NEW n \in Nat, NEW next \in Steps(n)
  PROVE  LET V == Visited(next)
         IN  /\ V \subseteq 1..n
             /\ n # 0 => 1 \in V
             /\ \A v \in V : next[v] \in V \cup {n + 1}
             /\ \A v, w \in V : ~(v < w /\ w < next[v])
             /\ \A s \in 1..n : \E v \in V : v <= s /\ s < next[v]
<1> DEFINE part == [i \in 1..n |-> <<i>>]
<1>1. next \in Seq(1..(n + 1)) /\ Len(next) = n /\ DOMAIN next = 1..n
  BY DEF Steps
<1>2. PICK g : Collects(g, 1, n, part, next) /\ Walk(n, part, next) = g[1]
  <2> HIDE DEF part
  <2> QED
    BY WalkIsCollected
<1>3. Visited(next) = Range(g[1])
  BY <1>1, <1>2 DEF Visited
<1> DEFINE R(i) == Range(g[i])
           Good(i) == /\ g[i] \in Seq(1..n)
                      /\ R(i) \subseteq i..n
                      /\ i # n + 1 => i \in R(i)
                      /\ \A v \in R(i) : next[v] \in R(i) \cup {n + 1}
                      /\ \A v, w \in R(i) : ~(v < w /\ w < next[v])
                      /\ \A s \in i..n : \E v \in R(i) : v <= s /\ s < next[v]
           S == {i \in 1..(n + 1) : Good(i)}
<1>4. \A i \in 1..(n + 1) : (\A j \in (i + 1)..(n + 1) : j \in S) => i \in S
  <2> SUFFICES ASSUME NEW i \in 1..(n + 1), \A j \in (i + 1)..(n + 1) : j \in S
               PROVE  Good(i)
    OBVIOUS
  <2>1. CASE i = n + 1
    <3>1. g[i] = <<>> /\ R(i) = {}
      BY <2>1, <1>2 DEF Collects, Range
    <3>2. i..n = {}
      BY <2>1
    <3> HIDE DEF R
    <3> QED
      BY <2>1, <3>1, <3>2
  <2>2. CASE i # n + 1
    <3> DEFINE m == next[i]
    <3>1. i \in 1..n /\ m \in (i + 1)..(n + 1)
      BY <2>2 DEF Steps
    <3>2. Good(m)
      BY <3>1
    <3>3. g[i] = <<i>> \o g[m]
      <4>1. part[i] = <<i>>
        BY <3>1
      <4> HIDE DEF part
      <4> QED
        BY <4>1, <3>1, <1>2 DEF Collects
    <3>4. g[i] \in Seq(1..n) /\ R(i) = {i} \cup R(m)
      <4>1. i \in 1..n /\ g[m] \in Seq(1..n)
        BY <3>1, <3>2
      <4>2. <<i>> \o g[m] \in Seq(1..n) /\ Range(<<i>> \o g[m]) = {i} \cup Range(g[m])
        <5> DEFINE t == g[m]  T == 1..n
        <5>1. i \in T /\ t \in Seq(T)
          BY <4>1
        <5> HIDE DEF t, T
        <5>2. <<i>> \o t \in Seq(T) /\ Range(<<i>> \o t) = {i} \cup Range(t)
          BY <5>1, Prepended
        <5> QED
          BY <5>2 DEF t, T
      <4> QED
        BY <3>3, <4>2
    <3> HIDE DEF R
    <3>5. R(i) \subseteq i..n
      BY <3>1, <3>2, <3>4
    <3>6. \A v \in R(i) : next[v] \in R(i) \cup {n + 1}
      <4>1. m \in R(i) \cup {n + 1}
        BY <3>1, <3>2, <3>4
      <4> QED
        BY <4>1, <3>2, <3>4
    <3>7. \A v, w \in R(i) : ~(v < w /\ w < next[v])
      <4>1. \A w \in R(m) : w >= m /\ w \in Int
        BY <3>1, <3>2
      <4>2. \A w \in R(i) : ~(i < w /\ w < m)
        BY <3>1, <3>4, <4>1
      <4>3. \A v \in R(m) : ~(v < i)
        BY <3>1, <4>1
      <4> QED
        BY <3>2, <3>4, <4>2, <4>3
    <3>8. \A s \in i..n : \E v \in R(i) : v <= s /\ s < next[v]
      <4> TAKE s \in i..n
      <4>1. CASE s < m
        BY <3>1, <3>4, <4>1
      <4>2. CASE ~(s < m)
        <5>1. s \in m..n
          BY <3>1, <4>2
        <5> QED
          BY <5>1, <3>2, <3>4
      <4> QED
        BY <4>1, <4>2
    <3> QED
      BY <3>4, <3>5, <3>6, <3>7, <3>8
  <2> QED
    BY <2>1, <2>2
<1>5. Good(1)
  <2> HIDE DEF S
  <2>1. \A i \in 1..(n + 1) : i \in S
    BY <1>4, Downwards
  <2>2. 1 \in S
    BY <2>1
  <2> QED
    BY <2>2 DEF S
<1> HIDE DEF part
<1> QED
  BY <1>3, <1>5
-----------------------------------------------------------------------------
(* f lists the positions in P, from the first to the last of its n. *)
Lists(f, n, P) ==
  /\ n \in Nat /\ P \subseteq Int
  /\ f \in [1..n -> P]
  /\ \A p \in P : \E k \in 1..n : f[k] = p
  /\ \A j, k \in 1..n : j < k => f[j] < f[k]

(* result holds what stands in text at the positions in P, in their order. *)
Holds(result, text, P, n, f) ==
  /\ Lists(f, n, P \cap DOMAIN text)
  /\ n \in Nat /\ Len(result) = n /\ DOMAIN result = 1..n
  /\ Len(text) \in Nat /\ DOMAIN text = 1..Len(text)
  /\ \A k \in 1..n : f[k] \in P /\ f[k] \in DOMAIN text /\ result[k] = text[f[k]]

(* Keep is a sequence of the elements at the positions it keeps, in their  *)
(* order.                                                                  *)
LEMMA KeepLists ==
  ASSUME NEW T, NEW text \in Seq(T), NEW P
  PROVE  /\ Keep(text, P) \in Seq(T)
         /\ \E n, f : n \in Nat /\ Holds(Keep(text, P), text, P, n, f)
<1> DEFINE n == Len(text)
           part == [i \in DOMAIN text |-> IF i \in P THEN <<text[i]>> ELSE <<>>]
           next == [i \in DOMAIN text |-> i + 1]
<1>1. n \in Nat /\ DOMAIN text = 1..n /\ next \in Steps(n)
  BY DEF Steps
<1>2. PICK g : Collects(g, 1, n, part, next) /\ Walk(n, part, next) = g[1]
  <2> HIDE DEF part, next, n
  <2> QED
    BY <1>1, WalkIsCollected
<1>3. Keep(text, P) = g[1]
  BY <1>2 DEF Keep
<1> DEFINE Good(i) == \E L, f :
                        /\ L \in Nat /\ Lists(f, L, P \cap (i..n))
                        /\ g[i] \in Seq(T) /\ Len(g[i]) = L
                        /\ \A k \in 1..L : g[i][k] = text[f[k]]
           S == {i \in 1..(n + 1) : Good(i)}
<1>4. \A i \in 1..(n + 1) : (\A j \in (i + 1)..(n + 1) : j \in S) => i \in S
  <2> SUFFICES ASSUME NEW i \in 1..(n + 1), \A j \in (i + 1)..(n + 1) : j \in S
               PROVE  Good(i)
    OBVIOUS
  <2>1. CASE i = n + 1
    <3>1. g[i] = <<>>
      BY <2>1, <1>2 DEF Collects
    <3>2. P \cap (i..n) = {}
      BY <2>1, <1>1
    <3>3. Lists(<<>>, 0, P \cap (i..n))
      BY <3>2 DEF Lists
    <3> QED
      BY <3>1, <3>3
  <2>2. CASE i # n + 1
    <3>1. i \in 1..n /\ i + 1 \in (i + 1)..(n + 1) /\ i + 1 \in 1..(n + 1)
      BY <2>2, <1>1
    <3>2. PICK L, f :
             /\ L \in Nat /\ Lists(f, L, P \cap ((i + 1)..n))
             /\ g[i + 1] \in Seq(T) /\ Len(g[i + 1]) = L
             /\ \A k \in 1..L : g[i + 1][k] = text[f[k]]
      BY <3>1
    <3>3. g[i] = part[i] \o g[i + 1]
      <4>1. next[i] = i + 1
        BY <3>1, <1>1
      <4> HIDE DEF part, next, n
      <4> QED
        BY <3>1, <4>1, <1>2 DEF Collects
    <3>4. CASE i \notin P
      <4>1. part[i] = <<>>
        BY <3>1, <3>4, <1>1
      <4>2. g[i] = g[i + 1]
        <5> HIDE DEF part, next, n
        <5> QED
          BY <3>2, <3>3, <4>1
      <4>3. P \cap (i..n) = P \cap ((i + 1)..n)
        BY <3>1, <3>4, <1>1
      <4>4. Lists(f, L, P \cap (i..n))
        <5> HIDE DEF part, next, n
        <5> QED
          BY <3>2, <4>3
      <4>5. g[i] \in Seq(T) /\ Len(g[i]) = L /\ \A k \in 1..L : g[i][k] = text[f[k]]
        <5> HIDE DEF part, next, n
        <5> QED
          BY <3>2, <4>2
      <4> QED
        BY <4>4, <4>5
    <3>5. CASE i \in P
      <4>1. part[i] = <<text[i]>> /\ text[i] \in T
        BY <3>1, <3>5, <1>1
      <4>2. g[i] = <<text[i]>> \o g[i + 1]
        <5> HIDE DEF part, next, n
        <5> QED
          BY <3>3, <4>1
      <4> DEFINE h == [k \in 1..(L + 1) |-> IF k = 1 THEN i ELSE f[k - 1]]
      <4>3. /\ g[i] \in Seq(T) /\ Len(g[i]) = L + 1
            /\ g[i][1] = text[i]
            /\ \A k \in 1..L : g[i][k + 1] = g[i + 1][k]
        <5> HIDE DEF n, part, next
        <5> QED
          BY <3>2, <4>1, <4>2, Prepended
      <4>3a. L \in Nat
        BY <3>2
      <4>4. \A k \in 1..(L + 1) : k = 1 \/ (k - 1 \in 1..L /\ (k - 1) + 1 = k)
        BY <4>3a
      <4>5. \A k \in 1..(L + 1) : h[k] = IF k = 1 THEN i ELSE f[k - 1]
        OBVIOUS
      <4>6. \A k \in 1..L : k + 1 \in 1..(L + 1) /\ h[k + 1] = f[k]
        BY <4>3a
      <4>7. 1 \in 1..(L + 1) /\ h[1] = i
        BY <4>3a
      <4>8. h = [k \in 1..(L + 1) |-> h[k]]
        OBVIOUS
      <4> HIDE DEF h
      <4>9. \A k \in 1..L : f[k] \in P \cap ((i + 1)..n)
        BY <3>2 DEF Lists
      <4>10. \A k \in 1..(L + 1) : h[k] \in P \cap (i..n)
        <5> TAKE k \in 1..(L + 1)
        <5>1. CASE k = 1
          BY <5>1, <4>7, <3>1, <3>5, <1>1
        <5>2. CASE k # 1
          <6>1. k - 1 \in 1..L /\ h[k] = f[k - 1]
            BY <5>2, <4>4, <4>5
          <6>2. h[k] \in P \cap ((i + 1)..n)
            BY <6>1, <4>9
          <6> QED
            BY <6>2, <3>1, <1>1
        <5> QED
          BY <5>1, <5>2
      <4>11. \A p \in P \cap (i..n) : \E k \in 1..(L + 1) : h[k] = p
        <5> TAKE p \in P \cap (i..n)
        <5>1. CASE p = i
          BY <5>1, <4>7
        <5>2. CASE p # i
          <6>1. p \in P \cap ((i + 1)..n)
            BY <5>2, <3>1, <1>1
          <6>2. PICK k \in 1..L : f[k] = p
            BY <6>1, <3>2 DEF Lists
          <6> QED
            BY <6>2, <4>6
        <5> QED
          BY <5>1, <5>2
      <4>12. \A j, k \in 1..(L + 1) : j < k => h[j] < h[k]
        <5> SUFFICES ASSUME NEW j \in 1..(L + 1), NEW k \in 1..(L + 1), j < k
                     PROVE  h[j] < h[k]
          OBVIOUS
        <5>1. k # 1 /\ k - 1 \in 1..L /\ h[k] = f[k - 1] /\ f[k - 1] \in (i + 1)..n
          BY <4>4, <4>5, <4>9
        <5>2. CASE j = 1
          BY <5>1, <5>2, <4>7, <3>1
        <5>3. CASE j # 1
          <6>0. j \in Int /\ k \in Int /\ j < k
            BY <4>3a
          <6>0a. j - 1 < k - 1
            BY <6>0
          <6>1. j - 1 \in 1..L /\ h[j] = f[j - 1] /\ j - 1 < k - 1
            BY <5>3, <4>4, <4>5, <6>0a
          <6> QED
            BY <5>1, <6>1, <3>2 DEF Lists
        <5> QED
          BY <5>2, <5>3
      <4>13. Lists(h, L + 1, P \cap (i..n))
        BY <4>3a, <4>8, <4>10, <4>11, <4>12 DEF Lists
      <4>14. \A k \in 1..(L + 1) : g[i][k] = text[h[k]]
        <5> TAKE k \in 1..(L + 1)
        <5>1. CASE k = 1
          BY <5>1, <4>3, <4>7
        <5>2. CASE k # 1
          <6>1. g[i][(k - 1) + 1] = g[i + 1][k - 1]
            BY <5>2, <4>3, <4>4
          <6> QED
            BY <6>1, <5>2, <4>4, <4>5, <3>2
        <5> QED
          BY <5>1, <5>2
      <4> QED
        BY <4>3, <4>13, <4>14
    <3> QED
      BY <3>4, <3>5
  <2> QED
    BY <2>1, <2>2
<1>5. Good(1)
  <2> HIDE DEF S, n
  <2>1. \A i \in 1..(n + 1) : i \in S
    BY <1>1, <1>4, Downwards
  <2>2. 1 \in S
    BY <1>1, <2>1
  <2> QED
    BY <2>2 DEF S
<1>6. PICK L, f :
        /\ L \in Nat /\ Lists(f, L, P \cap (1..n))
        /\ g[1] \in Seq(T) /\ Len(g[1]) = L
        /\ \A k \in 1..L : g[1][k] = text[f[k]]
  BY <1>5
<1>7. Holds(Keep(text, P), text, P, L, f)
  <2>1. P \cap (1..n) = P \cap DOMAIN text
    BY <1>1
  <2>2. Lists(f, L, P \cap DOMAIN text)
    BY <1>6, <2>1
  <2>3. \A k \in 1..L : f[k] \in P /\ f[k] \in DOMAIN text
    BY <2>2 DEF Lists
  <2>4. DOMAIN g[1] = 1..L
    BY <1>6
  <2> QED
    BY <1>1, <1>3, <1>6, <2>2, <2>3, <2>4 DEF Holds
<1> QED
  BY <1>3, <1>6, <1>7

(* A list keeps the order of its positions. *)
LEMMA ListsOrder ==
  ASSUME NEW P, NEW n, NEW f, Lists(f, n, P)
  PROVE  \A j, k \in 1..n : (f[j] < f[k] <=> j < k) /\ (f[j] = f[k] <=> j = k)
<1>1. n \in Nat /\ \A k \in 1..n : f[k] \in P /\ f[k] \in Int
  BY DEF Lists
<1>2. \A j, k \in 1..n : j < k => f[j] < f[k]
  BY DEF Lists
<1> TAKE j, k \in 1..n
<1>3. j < k \/ j = k \/ k < j
  BY <1>1
<1> QED
  BY <1>1, <1>2, <1>3

(* It is as long as there are positions. *)
LEMMA ListsCardinality ==
  ASSUME NEW P, NEW n, NEW f, Lists(f, n, P)
  PROVE  IsFiniteSet(P) /\ Cardinality(P) = n
<1>1. f \in Surjection(1..n, P) /\ f \in Injection(1..n, P)
  <2>1. \A j, k \in 1..n : f[j] = f[k] => j = k
    BY ListsOrder
  <2>2. f \in [1..n -> P] /\ \A p \in P : \E k \in 1..n : f[k] = p
    BY DEF Lists
  <2> QED
    BY <2>1, <2>2 DEF Surjection, Injection, IsInjective
<1>2. IsFiniteSet(1..n) /\ Cardinality(1..n) = n
  <2>1. n \in Nat
    BY DEF Lists
  <2> QED
    BY <2>1, FS_Interval
<1> QED
  BY <1>1, <1>2, FS_Surjection

(* There is only one. *)
LEMMA ListsUnique ==
  ASSUME NEW P, NEW n, NEW m, NEW f, NEW g,
         Lists(f, n, P), Lists(g, m, P)
  PROVE  n = m /\ \A k \in 1..n : f[k] = g[k]
<1>1. n = m /\ n \in Nat /\ P \subseteq Int
  <2>1. Cardinality(P) = n
    BY ListsCardinality
  <2>2. Cardinality(P) = m
    BY ListsCardinality
  <2>3. n \in Nat /\ P \subseteq Int
    BY DEF Lists
  <2> QED
    BY <2>1, <2>2, <2>3
<1> DEFINE D == {k \in 1..n : f[k] # g[k]}
<1>2. ASSUME D # {} PROVE FALSE
  <2>1. Min(D) \in D /\ \A k \in D : Min(D) <= k
    <3>1. D \in SUBSET Nat
      BY <1>1
    <3> HIDE DEF D
    <3> QED
      BY <1>2, <3>1, MinExists
  <2> DEFINE k == Min(D)
  <2>2. k \in 1..n /\ f[k] # g[k] /\ \A j \in 1..n : j < k => f[j] = g[j]
    <3>1. k \in D
      BY <2>1
    <3>2. \A j \in D : k <= j
      BY <2>1
    <3> HIDE DEF k
    <3> QED
      BY <1>1, <3>1, <3>2
  <2> HIDE DEF k, D
  <2>3. f[k] \in P /\ g[k] \in P
    BY <1>1, <2>2 DEF Lists
  <2>4. PICK i \in 1..n : g[i] = f[k]
    BY <1>1, <2>3 DEF Lists
  <2>5. PICK j \in 1..n : f[j] = g[k]
    BY <2>3 DEF Lists
  <2>6. \A a, b \in 1..n : (f[a] < f[b] <=> a < b) /\ (f[a] = f[b] <=> a = b)
    BY ListsOrder
  <2>9. \A a, b \in 1..m : (g[a] < g[b] <=> a < b) /\ (g[a] = g[b] <=> a = b)
    BY ListsOrder
  <2>7. CASE f[k] < g[k]
    <3>1. i < k
      BY <1>1, <2>2, <2>4, <2>7, <2>9
    <3>2. f[i] = f[k]
      BY <3>1, <2>2, <2>4
    <3>3. i = k
      BY <3>2, <2>2, <2>6
    <3> QED
      BY <3>1, <3>3
  <2>8. CASE g[k] < f[k]
    <3>1. j < k
      BY <2>2, <2>5, <2>6, <2>8
    <3>2. g[j] = g[k]
      BY <3>1, <2>2, <2>5
    <3>3. j = k
      BY <1>1, <3>2, <2>2, <2>9
    <3> QED
      BY <3>1, <3>3
  <2>10. f[k] < g[k] \/ g[k] < f[k]
    <3>1. f[k] \in Int /\ g[k] \in Int
      BY <1>1, <2>3
    <3> QED
      BY <2>2, <3>1
  <2> QED
    BY <2>7, <2>8, <2>10
<1> QED
  BY <1>1, <1>2

(* It is as long as there are positions to keep. *)
LEMMA KeepLength ==
  ASSUME NEW T, NEW text \in Seq(T), NEW P
  PROVE  /\ Keep(text, P) \in Seq(T)
         /\ IsFiniteSet(P \cap DOMAIN text)
         /\ Len(Keep(text, P)) = Cardinality(P \cap DOMAIN text)
<1>1. PICK n, f : n \in Nat /\ Holds(Keep(text, P), text, P, n, f)
  BY KeepLists
<1>2. Keep(text, P) \in Seq(T)
  BY KeepLists
<1> QED
  BY <1>1, <1>2, ListsCardinality DEF Holds

(* What keeps every position is the text itself. *)
LEMMA KeepAll ==
  ASSUME NEW T, NEW text \in Seq(T), NEW P, DOMAIN text \subseteq P
  PROVE  Keep(text, P) = text
<1> DEFINE n == Len(text)
<1>1. n \in Nat /\ DOMAIN text = 1..n /\ P \cap DOMAIN text = 1..n /\ 1..n \in SUBSET Int
  OBVIOUS
<1>2. PICK m, f : m \in Nat /\ Holds(Keep(text, P), text, P, m, f)
  <2> HIDE DEF n
  <2> QED
    BY KeepLists
<1> DEFINE id == [k \in 1..n |-> k]
<1>3. Lists(id, n, 1..n)
  BY DEF Lists
<1>4. \A k \in 1..n : id[k] = k
  OBVIOUS
<1> HIDE DEF id, n
<1>5. m = n /\ \A k \in 1..m : f[k] = id[k]
  <2>1. Lists(f, m, 1..n)
    <3>1. Lists(f, m, P \cap DOMAIN text)
      BY <1>2 DEF Holds
    <3> QED
      BY <1>1, <3>1
  <2> DEFINE Q == 1..n
  <2>2. Q \in SUBSET Int /\ Lists(f, m, Q) /\ Lists(id, n, Q) /\ n \in Nat
    BY <1>1, <1>3, <2>1
  <2> HIDE DEF Q
  <2> QED
    BY <2>2, ListsUnique
<1>6. Len(Keep(text, P)) = Len(text) /\ \A k \in 1..Len(text) : Keep(text, P)[k] = text[k]
  BY <1>2, <1>4, <1>5 DEF n, Holds
<1>7. Keep(text, P) \in Seq(T)
  BY KeepLists
<1> QED
  BY <1>6, <1>7, SeqEqual
-----------------------------------------------------------------------------
(* What a text is made of, placeholders included. *)
Chars == Characters \cup {Placeholder}

(* A text is normal when html.unescape has nothing to decode in it. *)
Encodes(text, i) == text[i] = "&" /\ At(text, i + 1) \in Characters \ {"&"}
Normal(text) == \A i \in DOMAIN text : text[i] # "n" /\ ~Encodes(text, i)

(* The two parts of html.unescape: what becomes of names, and what stays.  *)
Decoded(text) ==
  [i \in DOMAIN text |-> IF text[i] = "n" /\ At(text, i - 1) # "&" THEN "_" ELSE text[i]]
Staying(text) == {i \in DOMAIN text : ~Encodes(text, i)}

(* A space is one of the characters. *)
Spaced(T) == "_" \in T

LEMMA CharsAreSpaced == Spaced(Characters) /\ Spaced(Chars)
BY DEF Spaced, Chars, Characters

(* The names of spaces are replaced one for one. *)
LEMMA DecodedType ==
  ASSUME NEW T, NEW text \in Seq(T), Spaced(T)
  PROVE  /\ Decoded(text) \in Seq(T)
         /\ Len(Decoded(text)) = Len(text)
         /\ DOMAIN Decoded(text) = DOMAIN text
         /\ Normalize(text) = Keep(Decoded(text), Staying(text))
<1> DEFINE u == Decoded(text)
<1>1. DOMAIN text = 1..Len(text) /\ Len(text) \in Nat /\ \A i \in 1..Len(text) : text[i] \in T
  OBVIOUS
<1>2. u = [i \in 1..Len(text) |-> u[i]] /\ \A i \in 1..Len(text) : u[i] \in T
  BY <1>1 DEF Decoded, Spaced
<1>3. Normalize(text) = Keep(u, Staying(text))
  BY DEF Normalize, Decoded, Staying, Encodes
<1> HIDE DEF u
<1>4. u \in [1..Len(text) -> T]
  BY <1>2
<1>5. u \in Seq(T) /\ Len(u) = Len(text) /\ DOMAIN u = 1..Len(text)
  BY <1>1, <1>4
<1> QED
  BY <1>1, <1>3, <1>5 DEF u

(* html.unescape makes a text of a text, which is not longer. *)
LEMMA NormalizeType ==
  ASSUME NEW T, NEW text \in Seq(T), Spaced(T)
  PROVE  Normalize(text) \in Seq(T) /\ Len(Normalize(text)) <= Len(text)
<1> DEFINE u == Decoded(text)
           P == Staying(text)
           n == Len(text)
<1>1. u \in Seq(T) /\ DOMAIN u = 1..n /\ Normalize(text) = Keep(u, P)
  BY DecodedType
<1>2. n \in Nat
  OBVIOUS
<1> HIDE DEF u, P, n
<1>3. Keep(u, P) \in Seq(T) /\ Len(Keep(u, P)) = Cardinality(P \cap DOMAIN u)
  BY <1>1, KeepLength
<1>4. IsFiniteSet(1..n) /\ Cardinality(1..n) = n
  <2>1. IsFiniteSet(1..n) /\ Cardinality(1..n) = IF 1 > n THEN 0 ELSE n - 1 + 1
    BY <1>2, FS_Interval
  <2> QED
    BY <1>2, <2>1
<1>5. Cardinality(P \cap DOMAIN u) <= Cardinality(1..n)
  <2>1. P \cap DOMAIN u \subseteq 1..n
    BY <1>1
  <2> QED
    BY <1>4, <2>1, FS_Subset
<1> QED
  BY <1>1, <1>3, <1>4, <1>5 DEF n

(* A normal text is not changed by it ... *)
LEMMA NormalIsFixed ==
  ASSUME NEW T, NEW text \in Seq(T), Normal(text), Spaced(T)
  PROVE  Normalize(text) = text
<1>1. DOMAIN text \subseteq Staying(text)
  BY DEF Normal, Staying
<1>2. Decoded(text) = text
  <2>1. \A i \in DOMAIN text : text[i] # "n"
    BY DEF Normal
  <2>2. text = [i \in DOMAIN text |-> text[i]]
    OBVIOUS
  <2> QED
    BY <2>1, <2>2 DEF Decoded
<1>3. Normalize(text) = Keep(text, Staying(text))
  BY <1>2, DecodedType
<1> QED
  BY <1>1, <1>3, KeepAll

(* ... and only a normal text is not. *)
LEMMA FixedIsNormal ==
  ASSUME NEW T, NEW text \in Seq(T), Normalize(text) = text, Spaced(T)
  PROVE  Normal(text)
<1> DEFINE P == Staying(text)
           u == Decoded(text)
           n == Len(text)
<1>1. n \in Nat /\ DOMAIN text = 1..n /\ P \subseteq 1..n
  BY DEF Staying
<1>2. u \in Seq(T) /\ Len(u) = n /\ DOMAIN u = 1..n /\ text = Keep(u, P)
  BY <1>1, DecodedType
<1>3. \A i \in 1..n : u[i] = IF text[i] = "n" /\ At(text, i - 1) # "&" THEN "_" ELSE text[i]
  BY <1>1 DEF Decoded
<1> HIDE DEF P, u
<1>4. Len(Keep(u, P)) = Cardinality(P \cap DOMAIN u)
  BY <1>2, KeepLength
<1>5. IsFiniteSet(1..n) /\ Cardinality(1..n) = n
  <2>1. IsFiniteSet(1..n) /\ Cardinality(1..n) = IF 1 > n THEN 0 ELSE n - 1 + 1
    BY <1>1, FS_Interval
  <2> QED
    BY <1>1, <2>1
<1>6. Cardinality(P) = Cardinality(1..n)
  <2>1. P \cap DOMAIN u = P
    BY <1>1, <1>2
  <2> QED
    BY <1>2, <1>4, <1>5, <2>1
<1>7. P = 1..n
  BY <1>1, <1>5, <1>6, FS_Subset
<1>8. text = u
  <2>1. DOMAIN u \subseteq P
    BY <1>2, <1>7
  <2> QED
    BY <1>2, <2>1, KeepAll
<1>9. ASSUME NEW i \in 1..n, text[i] = "n" PROVE FALSE
  <2>1. At(text, i - 1) = "&"
    BY <1>3, <1>8, <1>9
  <2>2. i - 1 \in 1..n /\ text[i - 1] = "&" /\ (i - 1) + 1 = i
    BY <1>1, <2>1 DEF At
  <2>3. At(text, i) \in Characters \ {"&"}
    BY <1>1, <1>9 DEF At, Characters
  <2>4. Encodes(text, i - 1)
    BY <2>2, <2>3 DEF Encodes
  <2> QED
    BY <1>7, <2>2, <2>4 DEF P, Staying
<1> QED
  BY <1>1, <1>7, <1>9 DEF Normal, P, Staying

(* A text that is encoded at most once is normal after it is normalized. *)
LEMMA NotNested ==
  ASSUME NEW text \in Seq(Characters), ~Nested(text)
  PROVE  Normalize(text) \in Seq(Characters) /\ Normal(Normalize(text))
<1>1. Normalize(text) \in Seq(Characters) /\ Spaced(Characters)
  BY NormalizeType, CharsAreSpaced
<1>2. Normalize(Normalize(text)) = Normalize(text)
  BY DEF Nested
<1> QED
  BY <1>1, <1>2, FixedIsNormal

-----------------------------------------------------------------------------
(* The position a substitution goes on with after v. *)
After(ends, v) == IF ends[v] = {} THEN v + 1 ELSE Min(ends[v]) + 1

(* result comes from text by substituting, f being the way back. *)
Substituted(result, text, ends, mark, n, f) ==
  /\ n \in Nat /\ Len(result) = n /\ DOMAIN result = 1..n
  /\ Len(text) \in Nat /\ DOMAIN text = 1..Len(text)
  /\ f \in [1..n -> DOMAIN text]
  /\ \A j, k \in 1..n : (f[j] < f[k] <=> j < k) /\ (f[j] = f[k] <=> j = k)
  /\ \A k \in 1..n : result[k] = IF ends[f[k]] = {} THEN text[f[k]] ELSE mark
  /\ DOMAIN text # {} => n > 0 /\ f[1] = 1
  /\ \A k \in 1..n : After(ends, f[k]) = IF k = n THEN Len(text) + 1 ELSE f[k + 1]
  /\ \A s \in DOMAIN text : \E k \in 1..n : f[k] <= s /\ s < After(ends, f[k])

(* Every character of a substitution comes from a position of the text,    *)
(* and the visited positions leave no gap.                                 *)
LEMMA SubstituteTraced ==
  ASSUME NEW T, NEW text \in Seq(T), NEW mark \in T,
         NEW ends \in [DOMAIN text -> SUBSET (DOMAIN text)],
         \A i \in DOMAIN text : \A j \in ends[i] : i <= j
  PROVE  /\ Substitute(text, ends, mark) \in Seq(T)
         /\ \E n, f : n \in Nat /\ Substituted(Substitute(text, ends, mark), text, ends, mark, n, f)
<1> DEFINE n == Len(text)
           next == [i \in DOMAIN text |-> IF ends[i] = {} THEN i + 1 ELSE Min(ends[i]) + 1]
           masked == [i \in DOMAIN text |-> IF ends[i] = {} THEN text[i] ELSE mark]
           V == Visited(next)
           r == Substitute(text, ends, mark)
<1>1. n \in Nat /\ DOMAIN text = 1..n
  OBVIOUS
<1>2. \A i \in 1..n : ends[i] # {} => Min(ends[i]) \in ends[i]
  <2> TAKE i \in 1..n
  <2>1. ends[i] \in SUBSET Nat
    BY <1>1
  <2> QED
    BY <2>1, MinExists
<1>3. next \in Steps(n)
  <2>1. \A i \in 1..n : next[i] \in 1..(n + 1) /\ i < next[i]
    <3> TAKE i \in 1..n
    <3>1. CASE ends[i] = {}
      BY <1>1, <3>1
    <3>2. CASE ends[i] # {}
      <4>1. Min(ends[i]) \in 1..n /\ i <= Min(ends[i])
        BY <1>1, <1>2, <3>2
      <4>2. next[i] = Min(ends[i]) + 1
        BY <1>1, <3>2
      <4> HIDE DEF next
      <4> QED
        BY <4>1, <4>2
    <3> QED
      BY <3>1, <3>2
  <2> QED
    BY <1>1, <2>1 DEF Steps
<1>4. \A i \in 1..n : next[i] = After(ends, i)
  BY <1>1 DEF After
<1>5. masked \in Seq(T) /\ DOMAIN masked = 1..n
  BY <1>1
<1>6. r = Keep(masked, V)
  BY DEF Substitute
<1>7. /\ V \subseteq 1..n
      /\ n # 0 => 1 \in V
      /\ \A v \in V : next[v] \in V \cup {n + 1}
      /\ \A v, w \in V : ~(v < w /\ w < next[v])
      /\ \A s \in 1..n : \E v \in V : v <= s /\ s < next[v]
  <2> HIDE DEF next, n
  <2> QED
    BY <1>1, <1>3, VisitedPositions
<1>8. \A i \in 1..n : masked[i] = IF ends[i] = {} THEN text[i] ELSE mark
  BY <1>1
<1> HIDE DEF masked, V, next, r
<1>9. r \in Seq(T)
  BY <1>5, <1>6, KeepLists
<1>9a. PICK L \in Nat : \E f : Holds(Keep(masked, V), masked, V, L, f)
  BY <1>5, KeepLists
<1>10. PICK f : Holds(Keep(masked, V), masked, V, L, f)
  BY <1>9a
<1>11. Lists(f, L, V) /\ V \in SUBSET Int
  <2>1. V \cap DOMAIN masked = V
    BY <1>5, <1>7
  <2>2. Lists(f, L, V \cap DOMAIN masked)
    BY <1>10 DEF Holds
  <2>3. Lists(f, L, V)
    BY <2>1, <2>2
  <2>4. V \in SUBSET Int
    BY <1>1, <1>7
  <2> QED
    BY <2>3, <2>4
<1>12. Len(r) = L /\ \A k \in 1..L : r[k] = masked[f[k]]
  BY <1>6, <1>10 DEF Holds
<1>13. \A j, k \in 1..L : (f[j] < f[k] <=> j < k) /\ (f[j] = f[k] <=> j = k)
  BY <1>11, ListsOrder
<1>14. \A k \in 1..L : f[k] \in V /\ f[k] \in 1..n
  BY <1>7, <1>11 DEF Lists
<1>15. f \in [1..L -> DOMAIN text]
  <2>1. f = [k \in 1..L |-> f[k]]
    BY <1>11 DEF Lists
  <2> QED
    BY <1>1, <1>14, <2>1
<1>16. \A k \in 1..L : r[k] = IF ends[f[k]] = {} THEN text[f[k]] ELSE mark
  BY <1>8, <1>12, <1>14
<1>17. DOMAIN text # {} => L > 0 /\ f[1] = 1
  <2> HAVE DOMAIN text # {}
  <2>1. 1 \in V
    BY <1>1, <1>7
  <2>2. PICK k \in 1..L : f[k] = 1
    BY <2>1, <1>11 DEF Lists
  <2>3. 1 \in 1..L /\ f[1] \in 1..n
    BY <1>14, <2>2
  <2>4. ~(f[1] < f[k]) => f[1] = 1
    <3>1. 1 <= k
      BY <2>2
    <3>2. k = 1 \/ 1 < k
      BY <3>1, <2>2
    <3> QED
      BY <3>2, <1>13, <2>2, <2>3
  <2> QED
    BY <1>1, <2>2, <2>3, <2>4
<1>18. \A k \in 1..L : After(ends, f[k]) = IF k = L THEN n + 1 ELSE f[k + 1]
  <2> TAKE k \in 1..L
  <2>1. After(ends, f[k]) = next[f[k]] /\ next[f[k]] \in V \cup {n + 1}
    BY <1>4, <1>7, <1>14
  <2>2. f[k] < next[f[k]] /\ next[f[k]] \in 1..(n + 1)
    BY <1>3, <1>14 DEF Steps
  <2>3. CASE next[f[k]] = n + 1
    <3>1. ASSUME k # L PROVE FALSE
      <4>1. k + 1 \in 1..L
        BY <3>1
      <4>2. f[k] < f[k + 1] /\ f[k + 1] \in V /\ f[k + 1] < n + 1
        BY <4>1, <1>1, <1>13, <1>14
      <4> QED
        BY <4>2, <2>3, <1>7, <1>14
    <3> QED
      BY <3>1, <2>1, <2>3
  <2>4. CASE next[f[k]] # n + 1
    <3>1. PICK j \in 1..L : f[j] = next[f[k]]
      BY <2>1, <2>4, <1>11 DEF Lists
    <3>2. k < j
      BY <3>1, <2>2, <1>13
    <3>3. k # L /\ k + 1 \in 1..L /\ f[k + 1] \in V
      BY <3>2, <1>14
    <3>4. f[k] < f[k + 1]
      BY <3>3, <1>13
    <3>5. ~(f[k + 1] < f[j])
      BY <3>1, <3>3, <3>4, <1>7, <1>14
    <3>6. ~(k + 1 < j)
      BY <3>3, <3>5, <1>13
    <3>7. j = k + 1
      BY <3>2, <3>6
    <3> QED
      BY <3>1, <3>3, <3>7, <2>1
  <2> QED
    BY <2>3, <2>4
<1>19. \A s \in DOMAIN text : \E k \in 1..L : f[k] <= s /\ s < After(ends, f[k])
  <2> TAKE s \in DOMAIN text
  <2>1. PICK v \in V : v <= s /\ s < next[v]
    BY <1>1, <1>7
  <2>2. PICK k \in 1..L : f[k] = v
    BY <1>11 DEF Lists
  <2> QED
    BY <2>1, <2>2, <1>4, <1>7
<1>20. L \in Nat /\ DOMAIN r = 1..L /\ Len(text) \in Nat /\ DOMAIN text = 1..Len(text)
  BY <1>9, <1>12
<1>21. Substituted(r, text, ends, mark, L, f)
  BY <1>12, <1>13, <1>15, <1>16, <1>17, <1>18, <1>19, <1>20 DEF Substituted
<1> QED
  BY <1>9, <1>21 DEF r

(* Nothing is substituted at v. *)
Free(ends, v) == ends[v] = {}

(* Where nothing is substituted, the text is as it was ... *)
LEMMA Untouched ==
  ASSUME NEW text, NEW r, NEW ends, NEW mark, NEW n, NEW f,
         Substituted(r, text, ends, mark, n, f),
         NEW i \in 1..n, NEW j \in 1..n, i <= j, \A k \in i..j : r[k] # mark
  PROVE  \A k \in i..j : f[k] = f[i] + (k - i) /\ r[k] = text[f[k]]
<1> DEFINE D == {k \in i..j : f[k] # f[i] + (k - i)}
<1>0. \A k \in i..j : ends[f[k]] = {}
  <2> TAKE k \in i..j
  <2>1. k \in 1..n /\ r[k] # mark
    BY DEF Substituted
  <2> QED
    BY <2>1 DEF Substituted
<1>1. n \in Nat /\ \A k \in 1..n : f[k] \in Int
  BY DEF Substituted
<1>2. ASSUME D # {} PROVE FALSE
  <2>1. PICK k \in D : \A l \in D : k <= l
    <3>1. D \in SUBSET Nat
      BY <1>1
    <3> HIDE DEF D
    <3> QED
      BY <1>2, <3>1, MinExists
  <2>2. k \in i..j /\ k # i
    BY <1>1
  <2>3. k - 1 \in i..j /\ k - 1 \in 1..n /\ k - 1 # n /\ (k - 1) + 1 = k /\ k - 1 \notin D
    BY <1>1, <2>1, <2>2
  <2>4. f[k - 1] = f[i] + ((k - 1) - i)
    BY <2>3
  <2>5. After(ends, f[k - 1]) = f[k - 1] + 1
    BY <1>0, <2>3 DEF After
  <2>6. After(ends, f[k - 1]) = f[(k - 1) + 1]
    BY <2>3 DEF Substituted
  <2>7. f[k] = f[k - 1] + 1
    BY <2>3, <2>5, <2>6
  <2>8. f[k] = f[i] + (k - i)
    BY <1>1, <2>2, <2>3, <2>4, <2>7
  <2> QED
    BY <2>1, <2>8
<1>3. \A k \in i..j : r[k] = text[f[k]]
  <2> TAKE k \in i..j
  <2>1. k \in 1..n /\ ends[f[k]] = {}
    BY <1>0, <1>1
  <2> QED
    BY <2>1 DEF Substituted
<1> QED
  BY <1>2, <1>3

(* ... and so are the characters beside it that are not substituted. *)
LEMMA NeighbourBefore ==
  ASSUME NEW text, NEW r, NEW ends, NEW mark, NEW n, NEW f,
         Substituted(r, text, ends, mark, n, f), NEW k \in 1..n, r[k] # mark
  PROVE  At(r, k - 1) = At(text, f[k] - 1) \/ At(r, k - 1) = mark
<1>1. DOMAIN r = 1..n /\ DOMAIN text = 1..Len(text) /\ n \in Nat /\ Len(text) \in Nat
  BY DEF Substituted
<1>2. \A i \in 1..n : f[i] \in 1..Len(text) /\ f[i] \in Int
  <2>1. f \in [1..n -> 1..Len(text)]
    BY DEF Substituted
  <2> QED
    BY <1>1, <2>1
<1>3. \A i \in 1..n : r[i] = IF ends[f[i]] = {} THEN text[f[i]] ELSE mark
  BY DEF Substituted
<1>4. \A i \in 1..n : After(ends, f[i]) = IF i = n THEN Len(text) + 1 ELSE f[i + 1]
  BY DEF Substituted
<1>5. CASE k = 1
  <2>1. f[1] = 1
    BY <1>1, <1>2 DEF Substituted
  <2>2. k - 1 \notin DOMAIN r /\ f[k] - 1 \notin DOMAIN text
    BY <1>5, <2>1, <1>1
  <2> QED
    BY <2>2 DEF At
<1>6. CASE k # 1
  <2> DEFINE j == k - 1
  <2>1. j \in 1..n /\ j # n /\ j + 1 = k
    BY <1>1, <1>6
  <2> HIDE DEF j
  <2>2. CASE ends[f[j]] = {}
    <3>1. f[k] = f[j] + 1
      BY <2>1, <2>2, <1>4 DEF After
    <3>2. f[k] - 1 = f[j]
      BY <3>1, <2>1, <1>2
    <3>3. r[j] = text[f[j]]
      BY <2>1, <2>2, <1>3
    <3>4. At(r, j) = r[j] /\ At(text, f[j]) = text[f[j]]
      BY <2>1, <1>1, <1>2 DEF At
    <3> QED
      BY <3>2, <3>3, <3>4 DEF j
  <2>3. CASE ends[f[j]] # {}
    <3>1. At(r, j) = mark
      BY <2>1, <2>3, <1>1, <1>3 DEF At
    <3> QED
      BY <3>1 DEF j
  <2> QED
    BY <2>2, <2>3
<1> QED
  BY <1>5, <1>6

(* The same for the character behind it. *)
LEMMA NeighbourAfter ==
  ASSUME NEW text, NEW r, NEW ends, NEW mark, NEW n, NEW f,
         Substituted(r, text, ends, mark, n, f), NEW k \in 1..n, r[k] # mark
  PROVE  \/ At(r, k + 1) = At(text, f[k] + 1)
         \/ At(r, k + 1) = mark /\ f[k] + 1 \in DOMAIN text /\ ~Free(ends, f[k] + 1)
<1>1. DOMAIN r = 1..n /\ DOMAIN text = 1..Len(text) /\ n \in Nat /\ Len(text) \in Nat
  BY DEF Substituted
<1>2. \A i \in 1..n : f[i] \in 1..Len(text) /\ f[i] \in Int
  <2>1. f \in [1..n -> 1..Len(text)]
    BY DEF Substituted
  <2> QED
    BY <1>1, <2>1
<1>3. \A i \in 1..n : r[i] = IF ends[f[i]] = {} THEN text[f[i]] ELSE mark
  BY DEF Substituted
<1>4. \A i \in 1..n : After(ends, f[i]) = IF i = n THEN Len(text) + 1 ELSE f[i + 1]
  BY DEF Substituted
<1>5. After(ends, f[k]) = f[k] + 1
  BY <1>3 DEF After
<1>6. CASE k = n
  <2>1. f[k] + 1 = Len(text) + 1
    BY <1>5, <1>6, <1>4
  <2>2. k + 1 \notin DOMAIN r /\ f[k] + 1 \notin DOMAIN text
    BY <1>6, <2>1, <1>1
  <2> QED
    BY <2>2 DEF At
<1>7. CASE k # n
  <2>1. k + 1 \in 1..n /\ f[k + 1] = f[k] + 1
    BY <1>1, <1>5, <1>7, <1>4
  <2>2. At(r, k + 1) = r[k + 1] /\ f[k] + 1 \in DOMAIN text
    BY <2>1, <1>1, <1>2 DEF At
  <2>3. At(text, f[k] + 1) = text[f[k + 1]]
    BY <2>1, <2>2 DEF At
  <2>4. r[k + 1] = IF ends[f[k + 1]] = {} THEN text[f[k + 1]] ELSE mark
    BY <2>1, <1>3
  <2>5. CASE ends[f[k + 1]] = {}
    BY <2>2, <2>3, <2>4, <2>5
  <2>6. CASE ends[f[k + 1]] # {}
    <3>1. At(r, k + 1) = mark
      BY <2>2, <2>4, <2>6
    <3>2. ~Free(ends, f[k] + 1)
      BY <2>1, <2>6 DEF Free
    <3> QED
      BY <3>1, <3>2, <2>2
  <2> QED
    BY <2>5, <2>6
<1> QED
  BY <1>6, <1>7

(* Substituting for characters, or by what is none, keeps a text normal. *)
LEMMA SubstituteNormal ==
  ASSUME NEW text, Normal(text), NEW r, NEW ends, NEW mark, NEW n, NEW f,
         Substituted(r, text, ends, mark, n, f), mark \notin {"&", "n"},
         \/ mark \notin Characters
         \/ \A i \in DOMAIN text : ends[i] # {} => text[i] \in Characters \ {"&"}
  PROVE  Normal(r)
<1> SUFFICES ASSUME NEW k \in DOMAIN r PROVE r[k] # "n" /\ ~Encodes(r, k)
  BY DEF Normal
<1>1. k \in 1..n /\ f[k] \in DOMAIN text /\ r[k] = IF ends[f[k]] = {} THEN text[f[k]] ELSE mark
  BY DEF Substituted
<1>2. r[k] # "n"
  BY <1>1 DEF Normal
<1> SUFFICES ASSUME r[k] = "&", At(r, k + 1) \in Characters \ {"&"} PROVE FALSE
  BY <1>2 DEF Encodes
<1>3. ends[f[k]] = {} /\ text[f[k]] = "&"
  BY <1>1
<1>4. At(text, f[k] + 1) \notin Characters \ {"&"}
  BY <1>1, <1>3 DEF Normal, Encodes
<1>5. At(r, k + 1) = mark /\ f[k] + 1 \in DOMAIN text /\ ~Free(ends, f[k] + 1)
  BY <1>1, <1>4, NeighbourAfter
<1>6. text[f[k] + 1] \notin Characters \ {"&"}
  BY <1>4, <1>5 DEF At
<1> QED
  BY <1>5, <1>6 DEF Free
-----------------------------------------------------------------------------
(* text is made of characters and placeholders, and is normal. *)
Clean(text) == text \in Seq(Chars) /\ Normal(text)

(* A match ends in the text, after its start. *)
LEMMA EndsType ==
  ASSUME NEW c \in Categories, NEW text, NEW i \in Int, Len(text) \in Nat
  PROVE  Ends(c, text, i) \subseteq (i + 1)..Len(text)
<1>1. \A j \in (i + 2)..Len(text) : j \in (i + 1)..Len(text)
  OBVIOUS
<1> QED
  BY <1>1 DEF Ends, Categories, EmailEnds, PhoneEnds, Ipv4Ends, UrlEnds, IdentifierEnds

(* What finditer finds, and that it leaves no match beside the ones found. *)
IsMatch(m, c, text) ==
  /\ m.start \in DOMAIN text
  /\ m.category = c
  /\ m.end \in Ends(c, text, m.start)
  /\ \A j \in Ends(c, text, m.start) : j <= m.end
  /\ m = [start |-> m.start, end |-> m.end, category |-> m.category]

(* Every match that is found is one, and every candidate starts in one     *)
(* that is found.                                                          *)
LEMMA FindIterFinds ==
  ASSUME NEW T, NEW text \in Seq(T), NEW c \in Categories
  PROVE  /\ \A m \in FindIter(c, text) : IsMatch(m, c, text)
         /\ \A a \in DOMAIN text : Ends(c, text, a) # {} =>
              \E m \in FindIter(c, text) : m.start <= a /\ a <= m.end
<1> DEFINE n == Len(text)
           next == [i \in DOMAIN text |->
                      IF Ends(c, text, i) = {} THEN i + 1 ELSE Max(Ends(c, text, i)) + 1]
           V == Visited(next)
<1>1. n \in Nat /\ DOMAIN text = 1..n
  OBVIOUS
<1>2. \A i \in 1..n : Ends(c, text, i) # {} =>
        /\ Max(Ends(c, text, i)) \in Ends(c, text, i)
        /\ \A j \in Ends(c, text, i) : j <= Max(Ends(c, text, i))
        /\ Max(Ends(c, text, i)) \in (i + 1)..n
  <2> SUFFICES ASSUME NEW i \in 1..n, Ends(c, text, i) # {}
               PROVE  /\ Max(Ends(c, text, i)) \in Ends(c, text, i)
                      /\ \A j \in Ends(c, text, i) : j <= Max(Ends(c, text, i))
                      /\ Max(Ends(c, text, i)) \in (i + 1)..n
    OBVIOUS
  <2> DEFINE E == Ends(c, text, i)
  <2>1. E \subseteq (i + 1)..n
    BY <1>1, EndsType
  <2>2. E \in SUBSET (1..n) /\ E # {}
    BY <1>1, <2>1
  <2> HIDE DEF E
  <2>3. Max(E) \in E /\ \A m \in E : Max(E) >= m
    BY <1>1, <2>2, MaxExists
  <2>4. \A m \in E : m \in Int
    BY <1>1, <2>2
  <2>5. Max(E) \in E /\ (\A m \in E : m <= Max(E)) /\ Max(E) \in (i + 1)..n
    BY <2>1, <2>3, <2>4
  <2> QED
    BY <2>5 DEF E
<1>3. \A i \in 1..n : next[i] = IF Ends(c, text, i) = {} THEN i + 1 ELSE Max(Ends(c, text, i)) + 1
  BY <1>1
<1>4. next \in Steps(n)
  <2>1. \A i \in 1..n : next[i] \in 1..(n + 1) /\ i < next[i]
    <3> HIDE DEF next
    <3> TAKE i \in 1..n
    <3>1. CASE Ends(c, text, i) = {}
      BY <1>1, <1>3, <3>1
    <3>2. CASE Ends(c, text, i) # {}
      <4> DEFINE e == Max(Ends(c, text, i))
      <4>1. e \in (i + 1)..n /\ next[i] = e + 1
        BY <1>2, <1>3, <3>2
      <4> HIDE DEF e
      <4> QED
        BY <1>1, <4>1
    <3> QED
      BY <3>1, <3>2
  <2>2. next = [i \in 1..n |-> next[i]]
    BY <1>1
  <2> HIDE DEF next
  <2> QED
    BY <2>1, <2>2 DEF Steps
<1>5. V \subseteq 1..n /\ \A s \in 1..n : \E v \in V : v <= s /\ s < next[v]
  <2> HIDE DEF next, n
  <2> QED
    BY <1>1, <1>4, VisitedPositions
<1>6. FindIter(c, text) = {[start |-> i, end |-> next[i] - 1, category |-> c] :
                             i \in {v \in V : Ends(c, text, v) # {}}}
  BY DEF FindIter
<1> HIDE DEF next, V
<1>7. \A i \in 1..n : Ends(c, text, i) # {} => next[i] - 1 = Max(Ends(c, text, i))
  <2> SUFFICES ASSUME NEW i \in 1..n, Ends(c, text, i) # {}
               PROVE  next[i] - 1 = Max(Ends(c, text, i))
    OBVIOUS
  <2> DEFINE e == Max(Ends(c, text, i))
  <2>1. e \in (i + 1)..n /\ next[i] = e + 1
    BY <1>2, <1>3
  <2> HIDE DEF e
  <2>2. next[i] - 1 = e
    BY <1>1, <2>1
  <2> QED
    BY <2>2 DEF e
<1>8. \A m \in FindIter(c, text) : IsMatch(m, c, text)
  <2> TAKE m \in FindIter(c, text)
  <2>1. PICK i \in V : Ends(c, text, i) # {} /\
                       m = [start |-> i, end |-> next[i] - 1, category |-> c]
    BY <1>6
  <2>2. i \in 1..n /\ next[i] - 1 = Max(Ends(c, text, i))
    BY <1>5, <1>7, <2>1
  <2>3. m.start = i /\ m.end = Max(Ends(c, text, i)) /\ m.category = c
    BY <2>1, <2>2
  <2>4. m = [start |-> m.start, end |-> m.end, category |-> m.category]
    BY <2>1
  <2>5. m.end \in Ends(c, text, i) /\ \A j \in Ends(c, text, i) : j <= m.end
    BY <1>2, <2>1, <2>2, <2>3
  <2> QED
    BY <1>1, <2>2, <2>3, <2>4, <2>5 DEF IsMatch
<1>9. ASSUME NEW a \in DOMAIN text, Ends(c, text, a) # {}
      PROVE  \E m \in FindIter(c, text) : m.start <= a /\ a <= m.end
  <2>1. PICK v \in V : v <= a /\ a < next[v]
    BY <1>1, <1>5
  <2>2. v \in 1..n
    BY <1>5
  <2>3. ASSUME Ends(c, text, v) = {} PROVE FALSE
    <3>1. next[v] = v + 1
      BY <1>3, <2>2, <2>3
    <3>2. v = a
      BY <1>1, <2>1, <2>2, <3>1
    <3> QED
      BY <1>9, <2>3, <3>2
  <2> DEFINE m == [start |-> v, end |-> next[v] - 1, category |-> c]
  <2>4. m \in FindIter(c, text)
    BY <1>6, <2>3
  <2>5. next[v] \in 1..(n + 1)
    BY <1>4, <2>2 DEF Steps
  <2>6. m.start <= a /\ a <= m.end
    BY <1>1, <2>1, <2>2, <2>5
  <2> HIDE DEF m
  <2> QED
    BY <2>4, <2>6
<1> QED
  BY <1>8, <1>9

(* In a normal text the detector finds what the patterns match in it. *)
LEMMA DetectPiiFinds ==
  ASSUME NEW text, Clean(text)
  PROVE  DetectPii(text) = UNION {FindIter(c, text) : c \in Categories}
<1>1. Normalize(text) = text
  BY NormalIsFixed, CharsAreSpaced DEF Clean
<1> QED
  BY <1>1 DEF DetectPii

-----------------------------------------------------------------------------
(* The ends of the matches that are replaced in a text, by their starts. *)
MatchEnds(text) ==
  [i \in DOMAIN text |-> {m.end : m \in {n \in DetectPii(text) : n.start = i}}]

(* Ends are positions behind their start, where there is a match, and no   *)
(* match that is found is without one.                                     *)
LEMMA MatchEndsAre ==
  ASSUME NEW text, Clean(text)
  PROVE  /\ MatchEnds(text) \in [DOMAIN text -> SUBSET (DOMAIN text)]
         /\ \A i \in DOMAIN text : \A j \in MatchEnds(text)[i] : i <= j
         /\ \A i \in DOMAIN text : ~Free(MatchEnds(text), i) =>
              \E c \in Categories : Ends(c, text, i) # {}
         /\ \A c \in Categories : \A m \in FindIter(c, text) : ~Free(MatchEnds(text), m.start)
<1> DEFINE ends == MatchEnds(text)
<1>1. text \in Seq(Chars) /\ DOMAIN text = 1..Len(text) /\ Len(text) \in Nat
  BY DEF Clean
<1>2. \A c \in Categories : \A m \in FindIter(c, text) : IsMatch(m, c, text)
  BY <1>1, FindIterFinds
<1>3. DetectPii(text) = UNION {FindIter(c, text) : c \in Categories}
  BY DetectPiiFinds
<1>4. \A i \in DOMAIN text : ends[i] = {m.end : m \in {n \in DetectPii(text) : n.start = i}}
  BY DEF MatchEnds
<1>5. \A i \in DOMAIN text : \A j \in ends[i] :
        \E c \in Categories : j \in Ends(c, text, i) /\ j \in (i + 1)..Len(text)
  <2> SUFFICES ASSUME NEW i \in DOMAIN text, NEW j \in ends[i]
               PROVE  \E c \in Categories : j \in Ends(c, text, i) /\ j \in (i + 1)..Len(text)
    OBVIOUS
  <2>1. PICK m \in DetectPii(text) : m.start = i /\ j = m.end
    BY <1>4
  <2>2. PICK c \in Categories : m \in FindIter(c, text)
    BY <1>3
  <2>3. j \in Ends(c, text, i)
    BY <1>2, <2>1, <2>2 DEF IsMatch
  <2> QED
    BY <1>1, <2>3, EndsType
<1>6. ends \in [DOMAIN text -> SUBSET (DOMAIN text)]
  <2>1. \A i \in DOMAIN text : ends[i] \in SUBSET (DOMAIN text)
    BY <1>1, <1>5
  <2>2. ends = [i \in DOMAIN text |-> ends[i]]
    BY DEF MatchEnds
  <2> HIDE DEF ends
  <2> QED
    BY <2>1, <2>2
<1>7. \A i \in DOMAIN text : \A j \in ends[i] : i <= j
  BY <1>1, <1>5
<1>8. \A i \in DOMAIN text : ~Free(ends, i) => \E c \in Categories : Ends(c, text, i) # {}
  <2> SUFFICES ASSUME NEW i \in DOMAIN text, ~Free(ends, i)
               PROVE  \E c \in Categories : Ends(c, text, i) # {}
    OBVIOUS
  <2>1. PICK j \in ends[i] : TRUE
    BY DEF Free
  <2> QED
    BY <1>5, <2>1
<1>9. \A c \in Categories : \A m \in FindIter(c, text) : ~Free(ends, m.start)
  <2> SUFFICES ASSUME NEW c \in Categories, NEW m \in FindIter(c, text)
               PROVE  ~Free(ends, m.start)
    OBVIOUS
  <2>1. m \in DetectPii(text)
    BY <1>3
  <2>2. m.start \in DOMAIN text
    BY <1>2 DEF IsMatch
  <2>3. m.end \in ends[m.start]
    BY <1>4, <2>1, <2>2
  <2> QED
    BY <2>3 DEF Free
<1> QED
  BY <1>6, <1>7, <1>8, <1>9

(* masked is what is left of text when its matches are replaced, f tells   *)
(* where its characters come from.                                         *)
Masks(masked, text, n, f) ==
  Clean(text) /\ Substituted(masked, text, MatchEnds(text), Placeholder, n, f)

(* Masking a normal text leaves a normal text. *)
LEMMA MaskedIsClean ==
  ASSUME NEW text, Clean(text)
  PROVE  LET masked == ReplaceNonOverlapping(text, DetectPii(text))
         IN  Clean(masked) /\ \E n, f : Masks(masked, text, n, f)
<1> DEFINE masked == ReplaceNonOverlapping(text, DetectPii(text))
           ends == MatchEnds(text)
<1>1. text \in Seq(Chars) /\ Normal(text) /\ Placeholder \in Chars
  BY DEF Clean, Chars
<1>2. masked = Substitute(text, ends, Placeholder)
  BY DEF ReplaceNonOverlapping, MatchEnds
<1>3. ends \in [DOMAIN text -> SUBSET (DOMAIN text)]
  BY MatchEndsAre
<1>4. \A i \in DOMAIN text : \A j \in ends[i] : i <= j
  BY MatchEndsAre
<1> HIDE DEF ends, masked
<1>5. /\ masked \in Seq(Chars)
      /\ \E n, f : n \in Nat /\ Substituted(masked, text, ends, Placeholder, n, f)
  BY <1>1, <1>2, <1>3, <1>4, SubstituteTraced
<1>6. PICK n, f : n \in Nat /\ Substituted(masked, text, ends, Placeholder, n, f)
  BY <1>5
<1>7. Placeholder \notin {"&", "n"} /\ Placeholder \notin Characters
  BY DEF Placeholder, Characters
<1>8. Normal(masked)
  BY <1>1, <1>6, <1>7, SubstituteNormal
<1> QED
  BY <1>5, <1>6, <1>8 DEF Clean, Masks, masked, ends

(* Both are the same character, or neither is one a pattern looks at: a    *)
(* space, or the end of the text.                                          *)
Fits(x, y) == x = y \/ (x \in {"_", "end"} /\ y \in {"_", "end"})

(* From i to j, t is u from g[i] to g[j] with at most some spaces left out *)
(* behind other spaces, and its borders are the same to a pattern.         *)
Stretched(t, i, j, u, g) ==
  /\ Len(u) \in Nat /\ DOMAIN u = 1..Len(u)
  /\ i \in Int /\ j \in Int /\ i < j
  /\ \A k \in i..j : g[k] \in 1..Len(u) /\ u[g[k]] = t[k]
  /\ \A k, l \in i..j : k < l => g[k] < g[l]
  /\ \A k \in i..(j - 1) : t[k] # "_" => g[k + 1] = g[k] + 1
  /\ \A q \in g[i]..g[j] : u[q] = "_" \/ \E k \in i..j : g[k] = q
  /\ Fits(At(t, i - 1), At(u, g[i] - 1))
  /\ Fits(At(t, j + 1), At(u, g[j] + 1))

(* No space stands at k, or from a to the position before b. *)
NoSpaceAt(t, k) == t[k] # "_"
NoSpaces(t, a, b) == \A k \in a..(b - 1) : NoSpaceAt(t, k)

(* Where t has no space, u has nothing else. *)
LEMMA Contiguous ==
  ASSUME NEW t, NEW u, NEW g, NEW i, NEW j, Stretched(t, i, j, u, g),
         NEW a \in i..j, NEW b \in i..j, a <= b, NoSpaces(t, a, b)
  PROVE  /\ g[a] \in Int /\ g[b] = g[a] + (b - a)
         /\ \A q \in g[a]..g[b] : a + (q - g[a]) \in a..b /\ u[q] = t[a + (q - g[a])]
<1> DEFINE D == {l \in 0..(b - a) : g[a + l] # g[a] + l}
<1>1. i \in Int /\ j \in Int /\ Len(u) \in Nat
  BY DEF Stretched
<1>2. a \in Int /\ b \in Int /\ \A k \in a..b : k \in i..j
  BY <1>1
<1>3. \A k \in i..j : g[k] \in 1..Len(u) /\ u[g[k]] = t[k]
  BY DEF Stretched
<1>4. \A k \in a..(b - 1) : k \in i..(j - 1) => g[k + 1] = g[k] + 1
  BY DEF Stretched, NoSpaces, NoSpaceAt
<1>5. \A k \in i..j : g[k] \in Int
  <2>1. \A k \in i..j : g[k] \in 1..Len(u)
    BY <1>3
  <2> QED
    BY <1>1, <2>1
<1>6. ASSUME D # {} PROVE FALSE
  <2>1. D \in SUBSET Nat
    BY <1>2
  <2> HIDE DEF D
  <2>2. PICK l \in D : \A m \in D : l <= m
    BY <1>6, <2>1, MinExists
  <2> USE DEF D
  <2>3. l \in 0..(b - a) /\ l # 0
    <3>1. g[a + 0] = g[a] + 0
      BY <1>2, <1>5
    <3> QED
      BY <2>2, <3>1
  <2>4. l - 1 \in 0..(b - a) /\ l - 1 \notin D
    BY <1>2, <2>2, <2>3
  <2> DEFINE k == a + (l - 1)
  <2>5. k \in a..(b - 1) /\ k \in i..(j - 1) /\ k + 1 = a + l
    BY <1>1, <1>2, <2>3
  <2>6. g[k] = g[a] + (l - 1)
    BY <2>4
  <2> HIDE DEF k
  <2>7. g[k + 1] = g[k] + 1
    BY <1>4, <2>5
  <2>8. g[a + l] = g[a] + l
    BY <1>2, <1>5, <2>3, <2>5, <2>6, <2>7
  <2> QED
    BY <2>2, <2>8
<1>7. \A l \in 0..(b - a) : g[a + l] = g[a] + l
  BY <1>6
<1>8. g[b] = g[a] + (b - a)
  <2>1. b - a \in 0..(b - a) /\ a + (b - a) = b
    BY <1>2
  <2> QED
    BY <1>7, <2>1
<1> HIDE DEF D
<1>9. ASSUME NEW q \in g[a]..g[b]
      PROVE  a + (q - g[a]) \in a..b /\ u[q] = t[a + (q - g[a])]
  <2>1. g[a] \in Int /\ g[b] \in Int
    BY <1>5
  <2>2. q - g[a] \in 0..(b - a) /\ a + (q - g[a]) \in a..b /\ g[a] + (q - g[a]) = q
    BY <1>2, <1>8, <2>1
  <2>3. g[a + (q - g[a])] = q
    BY <1>7, <2>2
  <2> QED
    BY <1>2, <1>3, <2>2, <2>3
<1> QED
  BY <1>5, <1>8, <1>9

(* What the borders of a match are in t, they are in u. *)
LEMMA StretchBorders ==
  ASSUME NEW t, NEW u, NEW g, NEW i, NEW j, Stretched(t, i, j, u, g),
         NEW S, "_" \notin S, "end" \notin S
  PROVE  /\ At(t, i - 1) \notin S => At(u, g[i] - 1) \notin S
         /\ At(t, j + 1) \notin S => At(u, g[j] + 1) \notin S
BY DEF Stretched, Fits

(* The positions of a stretch. *)
LEMMA StretchBounds ==
  ASSUME NEW t, NEW u, NEW g, NEW i, NEW j, Stretched(t, i, j, u, g)
  PROVE  /\ i \in Int /\ j \in Int /\ i < j /\ i \in i..j /\ j \in i..j
         /\ Len(u) \in Int /\ g[i] \in Int /\ g[j] \in Int
         /\ 1 <= g[i] /\ g[i] < g[j] /\ g[j] <= Len(u)
         /\ u[g[i]] = t[i] /\ u[g[j]] = t[j]
<1>1. i \in Int /\ j \in Int /\ i < j /\ Len(u) \in Nat
  BY DEF Stretched
<1>2. i \in i..j /\ j \in i..j
  BY <1>1
<1>3. g[i] \in 1..Len(u) /\ g[j] \in 1..Len(u) /\ g[i] < g[j] /\ u[g[i]] = t[i] /\ u[g[j]] = t[j]
  BY <1>1, <1>2 DEF Stretched
<1> QED
  BY <1>1, <1>2, <1>3

(* So each pattern matches in u what it matches in t: an address, ...      *)
LEMMA StretchEmail ==
  ASSUME NEW t, NEW u, NEW g, NEW i, NEW j, Stretched(t, i, j, u, g), j \in EmailEnds(t, i)
  PROVE  g[j] \in EmailEnds(u, g[i])
<1> DEFINE A == g[i]  B == g[j]
<1>1. /\ i \in Int /\ j \in Int /\ i < j /\ i \in i..j /\ j \in i..j
      /\ Len(u) \in Int /\ A \in Int /\ B \in Int /\ 1 <= A /\ A < B /\ B <= Len(u)
      /\ u[A] = t[i] /\ u[B] = t[j]
  BY StretchBounds
<1>2. /\ At(t, i - 1) \notin Local /\ t[i] \in Word /\ i + 2 <= j
      /\ t[j] \in Letters /\ At(t, j + 1) \notin Word
  <2>1. j \in (i + 2)..Len(t)
    BY DEF EmailEnds
  <2>2. i + 2 <= j
    BY <1>1, <2>1
  <2> QED
    BY <2>2 DEF EmailEnds
<1>3. PICK k \in (i + 1)..(j - 1) :
          /\ t[k] = "@" /\ t[k - 1] \in Word
          /\ \A p \in i..(k - 1) : t[p] \in Local
          /\ \A p \in (k + 1)..j : t[p] \in Word \cup {"."}
          /\ \A p \in k..(j - 1) : t[p] \in {"@", "."} => t[p + 1] \in Word
  BY DEF EmailEnds
<1>4. NoSpaces(t, i, j)
  <2> SUFFICES ASSUME NEW p \in i..(j - 1) PROVE t[p] # "_"
    BY DEF NoSpaces, NoSpaceAt
  <2>1. p \in i..(k - 1) \/ p = k \/ p \in (k + 1)..j
    BY <1>1
  <2> QED
    BY <1>3, <2>1 DEF Local, Word, Letters
<1>5. B = A + (j - i) /\ \A q \in A..B : i + (q - A) \in i..j /\ u[q] = t[i + (q - A)]
  BY <1>1, <1>4, Contiguous
<1>6. At(u, A - 1) \notin Local /\ At(u, B + 1) \notin Word
  BY <1>2, StretchBorders DEF Local, Word, Letters
<1> DEFINE K == A + (k - i)
<1> HIDE DEF A, B
<1>7. K \in (A + 1)..(B - 1) /\ i + (K - A) = k /\ i + ((K - 1) - A) = k - 1
  BY <1>1, <1>5
<1>8. u[K] = "@" /\ u[K - 1] \in Word
  <2>1. K \in A..B /\ K - 1 \in A..B
    BY <1>1, <1>7
  <2>2. u[K] = t[k] /\ u[K - 1] = t[k - 1]
    BY <1>5, <1>7, <2>1
  <2> QED
    BY <1>3, <2>2
<1> HIDE DEF K
<1>9. \A p \in A..(K - 1) : u[p] \in Local
  <2> TAKE p \in A..(K - 1)
  <2>1. p \in A..B /\ i + (p - A) \in i..(k - 1)
    BY <1>1, <1>7
  <2> QED
    BY <1>3, <1>5, <2>1
<1>10. \A p \in (K + 1)..B : u[p] \in Word \cup {"."}
  <2> TAKE p \in (K + 1)..B
  <2>1. p \in A..B /\ i + (p - A) \in (k + 1)..j
    BY <1>1, <1>5, <1>7
  <2> QED
    BY <1>3, <1>5, <2>1
<1>11. \A p \in K..(B - 1) : u[p] \in {"@", "."} => u[p + 1] \in Word
  <2> TAKE p \in K..(B - 1)
  <2>1. p \in A..B /\ p + 1 \in A..B /\ i + (p - A) \in k..(j - 1)
    BY <1>1, <1>5, <1>7
  <2>2. i + ((p + 1) - A) = (i + (p - A)) + 1
    BY <1>1, <2>1
  <2>3. u[p] = t[i + (p - A)] /\ u[p + 1] = t[(i + (p - A)) + 1]
    BY <1>5, <2>1, <2>2
  <2> QED
    BY <1>3, <2>1, <2>3
<1>12. B \in (A + 2)..Len(u)
  BY <1>1, <1>2, <1>5
<1>13. u[A] \in Word /\ u[B] \in Letters
  BY <1>1, <1>2
<1>14. B \in EmailEnds(u, A)
  BY <1>6, <1>7, <1>8, <1>9, <1>10, <1>11, <1>12, <1>13 DEF EmailEnds
<1> QED
  BY <1>14 DEF A, B

(* ... a phone number, which may have had more spaces in it, ...           *)
LEMMA StretchPhone ==
  ASSUME NEW t, NEW u, NEW g, NEW i, NEW j, Stretched(t, i, j, u, g), j \in PhoneEnds(t, i)
  PROVE  g[j] \in PhoneEnds(u, g[i])
<1> DEFINE A == g[i]  B == g[j]
<1>1. /\ i \in Int /\ j \in Int /\ i < j /\ i \in i..j /\ j \in i..j
      /\ Len(u) \in Int /\ A \in Int /\ B \in Int /\ 1 <= A /\ A < B /\ B <= Len(u)
      /\ u[A] = t[i] /\ u[B] = t[j]
  BY StretchBounds
<1>2. At(t, i - 1) # "d" /\ t[i] = "d" /\ t[j] = "d" /\ At(t, j + 1) # "d"
  BY DEF PhoneEnds
<1>3. PICK k \in (i + 1)..(j - 1) :
        t[k] = "d" /\ \A p \in (i + 1)..(j - 1) : p # k => t[p] \in {"_", "."}
  BY DEF PhoneEnds
<1>4. k \in i..j /\ i < k /\ k < j
  BY <1>1
<1>5. g[k] \in Int /\ A < g[k] /\ g[k] < B /\ u[g[k]] = "d"
  <2>1. g[k] \in 1..Len(u) /\ u[g[k]] = t[k] /\ g[i] < g[k] /\ g[k] < g[j]
    BY <1>1, <1>4 DEF Stretched
  <2>2. g[k] \in Int
    BY <1>1, <2>1
  <2>3. u[g[k]] = "d"
    BY <1>3, <2>1
  <2> QED
    BY <2>1, <2>2, <2>3
<1>6. At(u, A - 1) # "d" /\ At(u, B + 1) # "d"
  <2>1. At(u, A - 1) \notin {"d"} /\ At(u, B + 1) \notin {"d"}
    BY <1>2, StretchBorders
  <2> QED
    BY <2>1
<1>7. \A p \in (A + 1)..(B - 1) : p # g[k] => u[p] \in {"_", "."}
  <2> SUFFICES ASSUME NEW p \in (A + 1)..(B - 1), p # g[k] PROVE u[p] \in {"_", "."}
    OBVIOUS
  <2>1. p \in A..B /\ p # A /\ p # B
    <3> HIDE DEF A, B
    <3> QED
      BY <1>1
  <2>2. u[p] = "_" \/ \E l \in i..j : g[l] = p
    BY <2>1 DEF Stretched
  <2>3. ASSUME NEW l \in i..j, g[l] = p PROVE u[p] \in {"_", "."}
    <3>1. l # i /\ l # j /\ l # k
      BY <2>1, <2>3
    <3>2. l \in (i + 1)..(j - 1)
      BY <1>1, <3>1
    <3>3. t[l] \in {"_", "."}
      BY <1>3, <3>1, <3>2
    <3>4. u[g[l]] = t[l]
      BY DEF Stretched
    <3> QED
      BY <2>3, <3>3, <3>4
  <2> QED
    BY <2>2, <2>3
<1> HIDE DEF A, B
<1>8. g[k] \in (A + 1)..(B - 1) /\ B \in (A + 2)..Len(u)
  BY <1>1, <1>5
<1>9. B \in PhoneEnds(u, A)
  BY <1>1, <1>2, <1>5, <1>6, <1>7, <1>8 DEF PhoneEnds
<1> QED
  BY <1>9 DEF A, B

(* ... a network address, a link, ...                                      *)
LEMMA StretchIpv4 ==
  ASSUME NEW t, NEW u, NEW g, NEW i, NEW j, Stretched(t, i, j, u, g), j \in Ipv4Ends(t, i)
  PROVE  g[j] \in Ipv4Ends(u, g[i])
<1> DEFINE A == g[i]  B == g[j]
<1>1. /\ i \in Int /\ j \in Int /\ i < j /\ i \in i..j /\ j \in i..j
      /\ Len(u) \in Int /\ A \in Int /\ B \in Int /\ 1 <= A /\ A < B /\ B <= Len(u)
      /\ u[A] = t[i] /\ u[B] = t[j]
  BY StretchBounds
<1>2. /\ At(t, i - 1) \notin Word /\ t[i] = "d" /\ t[i + 1] = "."
      /\ j = i + 2 /\ t[j] = "d" /\ At(t, j + 1) \notin Word
  BY DEF Ipv4Ends
<1>2a. j = i + 2
  BY <1>2
<1>3. NoSpaces(t, i, j)
  <2> SUFFICES ASSUME NEW p \in i..(j - 1) PROVE t[p] # "_"
    BY DEF NoSpaces, NoSpaceAt
  <2>1. p = i \/ p = i + 1
    BY <1>1, <1>2a
  <2> QED
    BY <1>2, <2>1
<1>4. B = A + (j - i) /\ \A q \in A..B : i + (q - A) \in i..j /\ u[q] = t[i + (q - A)]
  BY <1>1, <1>3, Contiguous
<1>5. At(u, A - 1) \notin Word /\ At(u, B + 1) \notin Word
  BY <1>2, StretchBorders DEF Word, Letters
<1> HIDE DEF A, B
<1>6. A + 1 \in A..B /\ i + ((A + 1) - A) = i + 1 /\ B = A + 2 /\ B \in (A + 2)..Len(u)
  BY <1>1, <1>2a, <1>4
<1>7. u[A + 1] = "."
  BY <1>2, <1>4, <1>6
<1>8. B \in Ipv4Ends(u, A)
  BY <1>1, <1>2, <1>5, <1>6, <1>7 DEF Ipv4Ends
<1> QED
  BY <1>8 DEF A, B

LEMMA StretchUrl ==
  ASSUME NEW t, NEW u, NEW g, NEW i, NEW j, Stretched(t, i, j, u, g), j \in UrlEnds(t, i)
  PROVE  g[j] \in UrlEnds(u, g[i])
<1> DEFINE A == g[i]  B == g[j]
<1>1. /\ i \in Int /\ j \in Int /\ i < j /\ i \in i..j /\ j \in i..j
      /\ Len(u) \in Int /\ A \in Int /\ B \in Int /\ 1 <= A /\ A < B /\ B <= Len(u)
      /\ u[A] = t[i] /\ u[B] = t[j]
  BY StretchBounds
<1>2. /\ At(t, i - 1) \notin Word /\ t[i] = "w" /\ t[i + 1] = "." /\ i + 2 <= j
      /\ \A p \in (i + 2)..j : t[p] \notin {"_", "<", ">"}
  <2>1. j \in (i + 2)..Len(t)
    BY DEF UrlEnds
  <2>2. i + 2 <= j
    BY <1>1, <2>1
  <2> QED
    BY <2>2 DEF UrlEnds
<1>2a. i + 2 <= j
  BY <1>2
<1>3. NoSpaces(t, i, j)
  <2> SUFFICES ASSUME NEW p \in i..(j - 1) PROVE t[p] # "_"
    BY DEF NoSpaces, NoSpaceAt
  <2>1. p = i \/ p = i + 1 \/ p \in (i + 2)..j
    BY <1>1, <1>2a
  <2> QED
    BY <1>2, <2>1
<1>4. B = A + (j - i) /\ \A q \in A..B : i + (q - A) \in i..j /\ u[q] = t[i + (q - A)]
  BY <1>1, <1>3, Contiguous
<1>5. At(u, A - 1) \notin Word
  BY <1>2, StretchBorders DEF Word, Letters
<1> HIDE DEF A, B
<1>6. A + 1 \in A..B /\ i + ((A + 1) - A) = i + 1 /\ B \in (A + 2)..Len(u)
  BY <1>1, <1>2a, <1>4
<1>7. u[A + 1] = "."
  BY <1>2, <1>4, <1>6
<1>8. \A p \in (A + 2)..B : u[p] \notin {"_", "<", ">"}
  <2> TAKE p \in (A + 2)..B
  <2>1. p \in A..B /\ i + (p - A) \in (i + 2)..j
    BY <1>1, <1>4
  <2> QED
    BY <1>2, <1>4, <2>1
<1>9. B \in UrlEnds(u, A)
  BY <1>1, <1>2, <1>5, <1>6, <1>7, <1>8 DEF UrlEnds
<1> QED
  BY <1>9 DEF A, B

(* ... and an identifier, which may have had more spaces in front of it.   *)
LEMMA StretchIdentifier ==
  ASSUME NEW t, NEW u, NEW g, NEW i, NEW j, Stretched(t, i, j, u, g), j \in IdentifierEnds(t, i)
  PROVE  g[j] \in IdentifierEnds(u, g[i])
<1> DEFINE A == g[i]  B == g[j]
<1>1. /\ i \in Int /\ j \in Int /\ i < j /\ i \in i..j /\ j \in i..j
      /\ Len(u) \in Int /\ A \in Int /\ B \in Int /\ 1 <= A /\ A < B /\ B <= Len(u)
      /\ u[A] = t[i] /\ u[B] = t[j]
  BY StretchBounds
<1>2. At(t, i - 1) \notin Word /\ t[i] = "l" /\ t[i + 1] \notin Word
  BY DEF IdentifierEnds
<1>3. PICK k \in (i + 1)..j :
        /\ \A p \in (i + 1)..(k - 1) : t[p] = "_"
        /\ \A p \in k..j : t[p] \in Word \cup {".", "@"}
  BY DEF IdentifierEnds
<1>4. k \in i..j /\ i < k /\ k <= j /\ \A p \in k..(j - 1) : p \in k..j
  BY <1>1
<1>5. NoSpaces(t, k, j)
  BY <1>3, <1>4 DEF Word, Letters, NoSpaces, NoSpaceAt
<1> DEFINE K == g[k]
<1>6. K \in Int /\ B = K + (j - k) /\ \A q \in K..B : k + (q - K) \in k..j /\ u[q] = t[k + (q - K)]
  BY <1>1, <1>4, <1>5, Contiguous
<1>7. A < K /\ K <= B
  <2>1. g[i] < g[k]
    BY <1>1, <1>4 DEF Stretched
  <2> HIDE DEF B, K, A
  <2>2. K <= B
    BY <1>1, <1>4, <1>6
  <2> QED
    BY <2>1, <2>2 DEF A, K
<1>8. u[A + 1] \notin Word
  <2>1. i \in i..(j - 1) /\ i + 1 \in i..j
    BY <1>1
  <2>2. g[i + 1] = A + 1
    BY <1>2, <2>1 DEF Stretched
  <2>3. u[g[i + 1]] = t[i + 1]
    BY <2>1 DEF Stretched
  <2> QED
    BY <1>2, <2>2, <2>3
<1>9. \A p \in (A + 1)..(K - 1) : u[p] = "_"
  <2> TAKE p \in (A + 1)..(K - 1)
  <2>1. p \in A..B /\ p \in Int /\ A < p /\ p < K
    <3> HIDE DEF A, B, K
    <3> QED
      BY <1>1, <1>6, <1>7
  <2>2. u[p] = "_" \/ \E l \in i..j : g[l] = p
    BY <2>1 DEF Stretched
  <2>3. ASSUME NEW l \in i..j, g[l] = p PROVE u[p] = "_"
    <3>1. ASSUME l <= i PROVE FALSE
      <4>1. l = i
        BY <1>1, <3>1
      <4> QED
        BY <1>1, <2>1, <2>3, <4>1
    <3>2. ASSUME k <= l PROVE FALSE
      <4>1. k = l \/ k < l
        BY <1>1, <3>2
      <4>2. g[k] = g[l] \/ g[k] < g[l]
        BY <1>4, <4>1 DEF Stretched
      <4> QED
        BY <1>6, <2>1, <2>3, <4>2
    <3>3. l \in (i + 1)..(k - 1)
      BY <1>1, <3>1, <3>2
    <3>4. u[g[l]] = t[l]
      BY DEF Stretched
    <3> QED
      BY <1>3, <2>3, <3>3, <3>4
  <2> QED
    BY <2>2, <2>3
<1>10. At(u, A - 1) \notin Word
  BY <1>2, StretchBorders DEF Word, Letters
<1> HIDE DEF A, B, K
<1>11. \A p \in K..B : u[p] \in Word \cup {".", "@"}
  BY <1>3, <1>6
<1>12. K \in (A + 1)..B /\ B \in (A + 1)..Len(u)
  BY <1>1, <1>6, <1>7
<1>13. B \in IdentifierEnds(u, A)
  BY <1>1, <1>2, <1>8, <1>9, <1>10, <1>11, <1>12 DEF IdentifierEnds
<1> QED
  BY <1>13 DEF A, B

LEMMA StretchMatch ==
  ASSUME NEW t, NEW u, NEW g, NEW i, NEW j, Stretched(t, i, j, u, g),
         NEW c \in Categories, j \in Ends(c, t, i)
  PROVE  g[j] \in Ends(c, u, g[i])
<1>1. CASE c = "email"
  BY <1>1, StretchEmail DEF Ends
<1>2. CASE c = "fr_phone"
  BY <1>2, StretchPhone DEF Ends
<1>3. CASE c = "ipv4"
  BY <1>3, StretchIpv4 DEF Ends
<1>4. CASE c = "url"
  BY <1>4, StretchUrl DEF Ends
<1>5. CASE c = "obvious_identifier"
  BY <1>5, StretchIdentifier DEF Ends
<1> QED
  BY <1>1, <1>2, <1>3, <1>4, <1>5 DEF Categories

-----------------------------------------------------------------------------
(* A placeholder stands in the positions i..j of r, or right beside them.  *)
Touched(r, i, j) == \E p \in (i - 1)..(j + 1) : At(r, p) = Placeholder

(* What no placeholder touches stood like that before the masking. *)
LEMMA MaskedStretch ==
  ASSUME NEW text, NEW r, NEW n, NEW f, Masks(r, text, n, f),
         NEW i \in 1..n, NEW j \in 1..n, i < j, ~Touched(r, i, j)
  PROVE  Stretched(r, i, j, text, f)
<1> DEFINE ends == MatchEnds(text)
<1>1. Substituted(r, text, ends, Placeholder, n, f)
  BY DEF Masks
<1>2. /\ n \in Nat /\ DOMAIN r = 1..n /\ Len(text) \in Nat /\ DOMAIN text = 1..Len(text)
      /\ \A k \in 1..n : f[k] \in 1..Len(text)
      /\ \A k, l \in 1..n : f[k] < f[l] <=> k < l
  BY <1>1 DEF Substituted
<1>3. i \in Int /\ j \in Int /\ i <= j /\ \A k \in i..j : k \in 1..n
  BY <1>2
<1>4. \A p \in (i - 1)..(j + 1) : At(r, p) # Placeholder
  BY DEF Touched
<1>5. \A k \in i..j : r[k] # Placeholder
  <2> TAKE k \in i..j
  <2>1. k \in (i - 1)..(j + 1) /\ k \in DOMAIN r
    BY <1>2, <1>3
  <2> QED
    BY <1>4, <2>1 DEF At
<1>6. \A k \in i..j : f[k] = f[i] + (k - i) /\ r[k] = text[f[k]]
  BY <1>1, <1>3, <1>5, Untouched
<1> HIDE DEF ends
<1>7. /\ i \in i..j /\ j \in i..j /\ f[i] \in Int /\ f[j] \in Int
      /\ i - 1 \in (i - 1)..(j + 1) /\ j + 1 \in (i - 1)..(j + 1)
  BY <1>2, <1>3
<1>8. At(r, i - 1) = At(text, f[i] - 1)
  <2>1. r[i] # Placeholder /\ At(r, i - 1) # Placeholder
    BY <1>4, <1>5, <1>7
  <2> QED
    BY <1>1, <2>1, NeighbourBefore
<1>9. At(r, j + 1) = At(text, f[j] + 1)
  <2>1. r[j] # Placeholder /\ At(r, j + 1) # Placeholder
    BY <1>4, <1>5, <1>7
  <2> QED
    BY <1>1, <2>1, NeighbourAfter
<1>10. \A k \in i..(j - 1) : f[k + 1] = f[k] + 1
  <2> TAKE k \in i..(j - 1)
  <2>1. k \in i..j /\ k + 1 \in i..j
    BY <1>3
  <2>2. f[k] = f[i] + (k - i) /\ f[k + 1] = f[i] + ((k + 1) - i)
    BY <1>6, <2>1
  <2> QED
    BY <1>3, <1>7, <2>1, <2>2
<1>11. \A q \in f[i]..f[j] : \E k \in i..j : f[k] = q
  <2> TAKE q \in f[i]..f[j]
  <2>1. f[j] = f[i] + (j - i)
    BY <1>6, <1>7
  <2> DEFINE k == i + (q - f[i])
  <2>2. k \in i..j /\ f[i] + (k - i) = q
    BY <1>3, <1>7, <2>1
  <2> HIDE DEF k
  <2>3. f[k] = q
    BY <1>6, <2>2
  <2> QED
    BY <2>2, <2>3
<1>12. \A k, l \in i..j : k < l => f[k] < f[l]
  BY <1>2, <1>3
<1>13. \A k \in i..j : f[k] \in 1..Len(text) /\ text[f[k]] = r[k]
  BY <1>2, <1>3, <1>6
<1> QED
  BY <1>2, <1>3, <1>8, <1>9, <1>10, <1>11, <1>12, <1>13 DEF Stretched, Fits

(* So what still matches in a masked text, touched by no placeholder, was  *)
(* matched before. It was skipped for starting in another match, whose     *)
(* replacement ends before it does.                                        *)
LEMMA MaskedMatchIsRest ==
  ASSUME NEW text, NEW r, NEW n, NEW f, Masks(r, text, n, f),
         NEW c \in Categories, NEW i \in 1..n, NEW j \in Ends(c, r, i), ~Touched(r, i, j)
  PROVE  LeavesRest(text, c)
<1> DEFINE ends == MatchEnds(text)
           a == f[i]
<1>1. Substituted(r, text, ends, Placeholder, n, f) /\ Clean(text)
  BY DEF Masks
<1>2. /\ n \in Nat /\ Len(r) = n /\ DOMAIN r = 1..n
      /\ Len(text) \in Nat /\ DOMAIN text = 1..Len(text)
      /\ \A k \in 1..n : f[k] \in 1..Len(text)
      /\ \A k \in 1..n : r[k] = IF ends[f[k]] = {} THEN text[f[k]] ELSE Placeholder
      /\ \A k \in 1..n : After(ends, f[k]) = IF k = n THEN Len(text) + 1 ELSE f[k + 1]
      /\ \A k, l \in 1..n : (f[k] < f[l] <=> k < l) /\ (f[k] = f[l] <=> k = l)
  BY <1>1 DEF Substituted
<1>3. j \in 1..n /\ i < j
  <2>1. j \in (i + 1)..Len(r)
    BY <1>2, EndsType
  <2> QED
    BY <1>2, <2>1
<1>4. Stretched(r, i, j, text, f)
  BY <1>3, MaskedStretch
<1>5. f[j] \in Ends(c, text, a) /\ a \in DOMAIN text
  BY <1>2, <1>4, StretchMatch
<1>6. text \in Seq(Chars)
  BY <1>1 DEF Clean
<1>7. PICK m \in FindIter(c, text) : m.start <= a /\ a <= m.end
  BY <1>5, <1>6, FindIterFinds
<1>8. IsMatch(m, c, text) /\ m \in DetectPii(text) /\ m.category = c
  <2>1. IsMatch(m, c, text)
    BY <1>6, FindIterFinds
  <2>2. m \in DetectPii(text)
    BY <1>1, DetectPiiFinds
  <2> QED
    BY <2>1, <2>2 DEF IsMatch
<1> DEFINE s == m.start
<1>9. s \in 1..Len(text) /\ m.end \in Int
  <2>1. s \in DOMAIN text /\ m.end \in Ends(c, text, s)
    BY <1>8 DEF IsMatch
  <2>2. s \in Int
    BY <1>2, <2>1
  <2>3. m.end \in (s + 1)..Len(text)
    BY <1>2, <2>1, <2>2, EndsType
  <2> QED
    BY <1>2, <2>1, <2>2, <2>3
<1>10. ends[s] # {}
  BY <1>1, MatchEndsAre DEF Free
<1>11. PICK k \in 1..n : f[k] <= s /\ s < After(ends, f[k])
  BY <1>1, <1>2, <1>9 DEF Substituted
<1>12. f[k] \in Int /\ a \in Int /\ f[k] \in DOMAIN text
  BY <1>2
<1>13. ends[f[k]] # {}
  <2>1. ASSUME ends[f[k]] = {} PROVE FALSE
    <3>1. After(ends, f[k]) = f[k] + 1
      BY <2>1 DEF After
    <3>2. f[k] = s
      BY <1>9, <1>11, <1>12, <3>1
    <3> QED
      BY <1>10, <2>1, <3>2
  <2> QED
    BY <2>1
<1> DEFINE e == Min(ends[f[k]])
<1>14. After(ends, f[k]) = e + 1
  BY <1>13 DEF After
<1>15. e \in ends[f[k]] /\ e \in Int
  <2>1. ends \in [DOMAIN text -> SUBSET (DOMAIN text)]
    BY <1>1, MatchEndsAre
  <2>2. ends[f[k]] \in SUBSET (1..Len(text))
    BY <1>2, <1>12, <2>1
  <2>3. ends[f[k]] \in SUBSET Nat
    BY <2>2
  <2>4. e \in ends[f[k]]
    BY <1>13, <2>3, MinExists
  <2> QED
    BY <2>3, <2>4
<1>16. PICK p \in DetectPii(text) : p.start = f[k] /\ p.end = e
  <2>1. ends[f[k]] = {q.end : q \in {h \in DetectPii(text) : h.start = f[k]}}
    BY <1>12 DEF MatchEnds
  <2> HIDE DEF e, ends
  <2> QED
    BY <1>15, <2>1
<1> HIDE DEF e
<1>17. r[k] = Placeholder
  BY <1>2, <1>13
<1>18. r[i] # Placeholder
  <2>1. i \in (i - 1)..(j + 1) /\ i \in DOMAIN r
    BY <1>2, <1>3
  <2> QED
    BY <2>1 DEF Touched, At
<1> HIDE DEF ends
<1>19. k < i
  <2>1. f[k] <= a
    BY <1>7, <1>9, <1>11, <1>12
  <2>2. k # i
    BY <1>17, <1>18
  <2>3. f[k] # f[i]
    BY <1>2, <2>2
  <2>4. f[k] < f[i]
    BY <1>12, <2>1, <2>3
  <2> QED
    BY <1>2, <2>4
<1>20. e + 1 <= a
  <2>1. k # n /\ k + 1 \in 1..n /\ (k + 1 = i \/ k + 1 < i)
    BY <1>2, <1>19
  <2>2. f[k + 1] = e + 1
    BY <1>2, <1>14, <2>1
  <2>3. f[k + 1] = f[i] \/ f[k + 1] < f[i]
    BY <1>2, <2>1
  <2> QED
    BY <1>12, <1>15, <2>2, <2>3
<1> HIDE DEF a
<1>21. p.start <= m.start /\ m.start <= p.end /\ p.end < m.end
  BY <1>7, <1>9, <1>11, <1>12, <1>14, <1>15, <1>16, <1>20
<1> QED
  BY <1>8, <1>16, <1>21 DEF LeavesRest

-----------------------------------------------------------------------------
(* Neighbours in a text that are both kept are neighbours in the result.   *)
LEMMA ListsSuccessor ==
  ASSUME NEW P, NEW n, NEW f, Lists(f, n, P), NEW k \in 1..n, NEW p \in P, p = f[k] + 1
  PROVE  k + 1 \in 1..n /\ f[k + 1] = p
<1>1. PICK j \in 1..n : f[j] = p
  BY DEF Lists
<1>2. n \in Nat /\ \A l \in 1..n : f[l] \in Int
  BY DEF Lists
<1>3. \A l, m \in 1..n : (f[l] < f[m] <=> l < m) /\ (f[l] = f[m] <=> l = m)
  BY ListsOrder
<1>4. k < j
  <2>1. f[k] < f[j]
    BY <1>1, <1>2
  <2> QED
    BY <1>3, <2>1
<1>5. k + 1 \in 1..n
  BY <1>2, <1>4
<1>6. ~(f[k + 1] < f[j])
  <2>1. f[k] < f[k + 1]
    BY <1>2, <1>3, <1>5
  <2> QED
    BY <1>1, <1>2, <1>5, <2>1
<1>7. ~(k + 1 < j)
  BY <1>3, <1>5, <1>6
<1>8. k + 1 = j
  BY <1>2, <1>4, <1>7
<1> QED
  BY <1>1, <1>5, <1>8

(* The same for the one before. *)
LEMMA ListsPredecessor ==
  ASSUME NEW P, NEW n, NEW f, Lists(f, n, P), NEW k \in 1..n, NEW p \in P, f[k] = p + 1
  PROVE  k - 1 \in 1..n /\ f[k - 1] = p
<1>1. PICK j \in 1..n : f[j] = p
  BY DEF Lists
<1>2. n \in Nat /\ f[k] \in P
  BY DEF Lists
<1>3. f[k] = f[j] + 1
  BY <1>1
<1>4. j + 1 \in 1..n /\ f[j + 1] = f[k]
  BY <1>2, <1>3, ListsSuccessor
<1>5. j + 1 = k
  BY <1>4, ListsOrder
<1>6. j = k - 1
  BY <1>2, <1>5
<1> QED
  BY <1>1, <1>6

(* In a normal text a space is a space. *)
LEMMA SolidOfNormal ==
  ASSUME NEW text, Clean(text)
  PROVE  Solid(text) = {i \in DOMAIN text : text[i] # "_"}
<1>1. DOMAIN text = 1..Len(text) /\ Len(text) \in Nat /\ Normal(text)
  BY DEF Clean
<1>2. ASSUME NEW i \in DOMAIN text, text[i] = "_", At(text, i - 1) = "&" PROVE FALSE
  <2>1. i - 1 \in DOMAIN text /\ text[i - 1] = "&"
    BY <1>2 DEF At
  <2>2. (i - 1) + 1 = i
    BY <1>1
  <2>3. At(text, (i - 1) + 1) \notin Characters \ {"&"}
    BY <1>1, <2>1 DEF Normal, Encodes
  <2>4. At(text, i) = "_"
    BY <1>2 DEF At
  <2> QED
    BY <2>2, <2>3, <2>4 DEF Characters
<1> QED
  BY <1>2 DEF Solid, Unencoded

(* What leaves out spaces only keeps a text normal. *)
DropsSpaces(text, P) == \A q \in DOMAIN text \ P : text[q] = "_"

(* A text that loses nothing but spaces stays normal: no character comes   *)
(* after an ampersand that did not.                                        *)
LEMMA KeepClean ==
  ASSUME NEW text, Clean(text), NEW P, DropsSpaces(text, P)
  PROVE  Clean(Keep(text, P))
<1> DEFINE K == P \cap DOMAIN text
           r == Keep(text, P)
<1>1. text \in Seq(Chars) /\ Normal(text)
  BY DEF Clean
<1>2. r \in Seq(Chars)
  BY <1>1, KeepLists
<1>3. PICK n, f : n \in Nat /\ Holds(r, text, P, n, f)
  BY <1>1, KeepLists
<1>4. Lists(f, n, K)
  BY <1>3 DEF Holds
<1>5. /\ DOMAIN r = 1..n /\ DOMAIN text = 1..Len(text) /\ Len(text) \in Nat
      /\ \A k \in 1..n : f[k] \in 1..Len(text) /\ r[k] = text[f[k]]
  BY <1>3 DEF Holds
<1> HIDE DEF r
<1>6. ASSUME NEW k \in 1..n, r[k] = "&"
      PROVE  At(r, k + 1) \notin Characters \ {"&"}
  <2>1. text[f[k]] = "&" /\ f[k] \in DOMAIN text
    BY <1>5, <1>6
  <2>2. At(text, f[k] + 1) \notin Characters \ {"&"}
    BY <1>1, <2>1 DEF Normal, Encodes
  <2>3. CASE f[k] + 1 \in K
    <3>1. k + 1 \in 1..n /\ f[k + 1] = f[k] + 1
      <4> DEFINE p == f[k] + 1
      <4>1. p \in K /\ p = f[k] + 1
        BY <2>3
      <4> HIDE DEF p, K
      <4>2. k + 1 \in 1..n /\ f[k + 1] = p
        BY <1>4, <4>1, ListsSuccessor
      <4> QED
        BY <4>1, <4>2
    <3>2. At(r, k + 1) = text[f[k + 1]] /\ At(text, f[k] + 1) = text[f[k + 1]]
      BY <1>5, <2>3, <3>1 DEF At
    <3> QED
      BY <2>2, <3>2
  <2>4. CASE f[k] + 1 \notin K
    <3>1. ASSUME f[k] + 1 \in DOMAIN text PROVE FALSE
      <4>1. text[f[k] + 1] = "_"
        BY <2>4, <3>1 DEF DropsSpaces
      <4> QED
        BY <2>2, <3>1, <4>1 DEF At, Characters
    <3>2. k + 1 \notin 1..n
      <4>1. ASSUME k + 1 \in 1..n PROVE FALSE
        <5>1. f[k] < f[k + 1]
          <6>1. \A l, m \in 1..n : f[l] < f[m] <=> l < m
            <7> HIDE DEF K
            <7> QED
              BY <1>4, ListsOrder
          <6>2. k \in Int /\ k < k + 1
            BY <1>3
          <6> QED
            BY <4>1, <6>1, <6>2
        <5>2. f[k + 1] \in 1..Len(text) /\ f[k] \in 1..Len(text)
          BY <1>5, <4>1
        <5>3. f[k] + 1 \in 1..Len(text)
          <6> DEFINE u == f[k]  v == f[k + 1]
          <6>1. u \in 1..Len(text) /\ v \in 1..Len(text) /\ u < v /\ Len(text) \in Nat
            BY <1>5, <5>1, <5>2
          <6> HIDE DEF u, v
          <6>2. u + 1 \in 1..Len(text)
            BY <6>1
          <6> QED
            BY <6>2 DEF u
        <5> QED
          BY <1>5, <3>1, <5>3
      <4> QED
        BY <4>1
    <3>3. At(r, k + 1) = "end"
      BY <1>5, <3>2 DEF At
    <3> QED
      BY <3>3 DEF Characters
  <2> QED
    BY <2>3, <2>4
<1>7. \A k \in 1..n : r[k] # "n"
  BY <1>1, <1>5 DEF Normal
<1>8. Normal(r)
  BY <1>5, <1>6, <1>7 DEF Normal, Encodes
<1> QED
  BY <1>2, <1>8 DEF Clean, r

-----------------------------------------------------------------------------
(* A set with a finite part for each of finitely many positions is finite. *)
LEMMA FiniteParts ==
  ASSUME NEW n \in Nat, NEW g, \A k \in 1..n : IsFiniteSet(g[k])
  PROVE  IsFiniteSet(UNION {g[k] : k \in 1..n})
<1>2. IsFiniteSet(1..n)
  <2>1. n \in Int
    OBVIOUS
  <2> QED
    BY <2>1, FS_Interval
<1> DEFINE G == {g[k] : k \in 1..n}
           h == [k \in 1..n |-> g[k]]
<1>1. h \in Surjection(1..n, G)
  BY DEF Surjection
<1>3. \A T \in G : IsFiniteSet(T)
  OBVIOUS
<1> HIDE DEF G, h
<1>4. IsFiniteSet(G)
  BY <1>1, <1>2, FS_Surjection
<1>5. IsFiniteSet(UNION G)
  BY <1>3, <1>4, FS_UNION
<1> QED
  BY <1>5 DEF G

(* A category matches finitely often: once from a start at most. *)
LEMMA FindIterFinite ==
  ASSUME NEW T, NEW text \in Seq(T), NEW c \in Categories
  PROVE  IsFiniteSet(FindIter(c, text))
<1> DEFINE F == FindIter(c, text)
           s == [m \in F |-> m.start]
<1>1. \A m \in F : IsMatch(m, c, text)
  BY FindIterFinds
<1>2. \A m \in F : m.start \in 1..Len(text)
  BY <1>1 DEF IsMatch
<1>3. ASSUME NEW m \in F, NEW k \in F, m.start = k.start PROVE m = k
  <2>1. IsMatch(m, c, text) /\ IsMatch(k, c, text)
    BY <1>1
  <2>2. m.end <= k.end /\ k.end <= m.end
    BY <1>3, <2>1 DEF IsMatch
  <2>3. m.end \in Int /\ k.end \in Int
    <3>1. m.start \in Int /\ k.start \in Int /\ Len(text) \in Nat
      BY <1>2
    <3>2. m.end \in (m.start + 1)..Len(text) /\ k.end \in (k.start + 1)..Len(text)
      BY <2>1, <3>1, EndsType DEF IsMatch
    <3> QED
      BY <3>2
  <2>4. m.end = k.end
    BY <2>2, <2>3
  <2>5. m = [start |-> m.start, end |-> m.end, category |-> c]
    BY <2>1 DEF IsMatch
  <2>6. k = [start |-> k.start, end |-> k.end, category |-> c]
    BY <2>1 DEF IsMatch
  <2> QED
    BY <1>3, <2>4, <2>5, <2>6
<1> HIDE DEF F
<1>4. s \in Injection(F, 1..Len(text))
  BY <1>2, <1>3 DEF Injection, IsInjective
<1>5. IsFiniteSet(1..Len(text))
  BY FS_Interval
<1> HIDE DEF s
<1>6. IsFiniteSet(F)
  BY <1>4, <1>5, FS_Injection
<1> QED
  BY <1>6 DEF F

(* So are all the matches of a text. *)
LEMMA DetectPiiFinite ==
  ASSUME NEW T, NEW text \in Seq(T), Spaced(T)
  PROVE  IsFiniteSet(DetectPii(text))
<1> DEFINE z == Normalize(text)
           F(c) == FindIter(c, z)
<1>1. z \in Seq(T)
  BY NormalizeType
<1>2. DetectPii(text) = F("email") \cup F("fr_phone") \cup F("ipv4") \cup F("url")
                          \cup F("obvious_identifier")
  BY DEF DetectPii, Categories
<1> HIDE DEF z
<1>3. \A c \in Categories : IsFiniteSet(F(c))
  BY <1>1, FindIterFinite
<1>4. /\ IsFiniteSet(F("email")) /\ IsFiniteSet(F("fr_phone")) /\ IsFiniteSet(F("ipv4"))
      /\ IsFiniteSet(F("url")) /\ IsFiniteSet(F("obvious_identifier"))
  BY <1>3 DEF Categories
<1> HIDE DEF F
<1>5. IsFiniteSet(F("email") \cup F("fr_phone"))
  BY <1>4, FS_Union
<1>6. IsFiniteSet(F("email") \cup F("fr_phone") \cup F("ipv4"))
  BY <1>4, <1>5, FS_Union
<1>7. IsFiniteSet(F("email") \cup F("fr_phone") \cup F("ipv4") \cup F("url"))
  BY <1>4, <1>6, FS_Union
<1> QED
  BY <1>2, <1>4, <1>7, FS_Union

(* The counts over the texts of the rows are numbers. *)
LEMMA CountsType ==
  ASSUME NEW T, NEW texts \in Seq(Seq(T)), Spaced(T)
  PROVE  PiiCount(texts) \in Nat /\ SecretsCount(texts) \in Nat
<1> DEFINE n == Len(texts)
           p == [k \in 1..n |-> {k} \X DetectPii(texts[k])]
           s == [k \in 1..n |-> {k} \X Secrets(texts[k])]
<1>1. n \in Nat /\ DOMAIN texts = 1..n /\ \A k \in 1..n : texts[k] \in Seq(T)
  OBVIOUS
<1>2. \A k \in 1..n : IsFiniteSet(p[k]) /\ IsFiniteSet(s[k])
  <2> TAKE k \in 1..n
  <2>1. IsFiniteSet(DetectPii(texts[k]))
    BY <1>1, DetectPiiFinite
  <2>2. IsFiniteSet(Secrets(texts[k]))
    <3>1. Secrets(texts[k]) \in SUBSET (1..Len(texts[k])) /\ Len(texts[k]) \in Nat
      BY <1>1 DEF Secrets
    <3>2. IsFiniteSet(1..Len(texts[k]))
      BY <3>1, FS_Interval
    <3> QED
      BY <3>1, <3>2, FS_Subset
  <2>3. IsFiniteSet({k})
    BY FS_Singleton
  <2>4. IsFiniteSet({k} \X DetectPii(texts[k])) /\ IsFiniteSet({k} \X Secrets(texts[k]))
    BY <2>1, <2>2, <2>3, FS_Product
  <2> QED
    BY <2>4
<1>3. /\ UNION {{k} \X DetectPii(texts[k]) : k \in DOMAIN texts} = UNION {p[k] : k \in 1..n}
      /\ UNION {{k} \X Secrets(texts[k]) : k \in DOMAIN texts} = UNION {s[k] : k \in 1..n}
  BY <1>1
<1> HIDE DEF p, s, n
<1>4. IsFiniteSet(UNION {p[k] : k \in 1..n}) /\ IsFiniteSet(UNION {s[k] : k \in 1..n})
  BY <1>1, <1>2, FiniteParts
<1> QED
  BY <1>3, <1>4, FS_CardinalityType DEF PiiCount, SecretsCount
-----------------------------------------------------------------------------
(* The records a source can consist of. *)
Records == Seq(RecordSet)

(* The text of a record is one, also where the record has no such column. *)
LEMMA TextOfType ==
  ASSUME NEW record \in RecordSet, NEW field \in {"summary", "details"}
  PROVE  TextOf(record, field) \in Seq(Characters)
BY DEF TextOf, RecordSet

(* A text that has been replaced in is a text, wherever the offsets of the *)
(* matches come from.                                                      *)
LEMMA SanitizeTextType ==
  ASSUME NEW text \in Seq(Chars)
  PROVE  SanitizeText(text) \in Seq(Chars)
<1> DEFINE z == Normalize(text)
           y == Normalize(z)
           ends == [i \in DOMAIN z |-> {m.end : m \in {n \in DetectPii(z) : n.start = i}}]
<1>0. Spaced(Chars)
  BY CharsAreSpaced
<1>1. z \in Seq(Chars) /\ y \in Seq(Chars) /\ Len(y) <= Len(z)
  <2>1. z \in Seq(Chars)
    BY <1>0, NormalizeType
  <2> HIDE DEF z
  <2> QED
    BY <1>0, <2>1, NormalizeType
<1> HIDE DEF z, y
<1>2. Len(y) \in Nat /\ Len(z) \in Nat /\ Len(y) <= Len(z) /\ DOMAIN z = 1..Len(z)
  BY <1>1
<1>3. \A m \in DetectPii(z) : m.start \in 1..Len(z) /\ m.end \in 1..Len(z) /\ m.start <= m.end
  <2> TAKE m \in DetectPii(z)
  <2>1. PICK c \in Categories : m \in FindIter(c, y)
    BY DEF DetectPii, y
  <2>2. IsMatch(m, c, y)
    BY <1>1, <2>1, FindIterFinds
  <2>2a. m.start \in 1..Len(y) /\ m.start \in Int
    BY <1>1, <2>2 DEF IsMatch
  <2>3. m.start \in 1..Len(y) /\ m.end \in (m.start + 1)..Len(y)
    BY <1>2, <2>2, <2>2a, EndsType DEF IsMatch
  <2> QED
    BY <1>2, <2>3
<1>4. ends \in [DOMAIN z -> SUBSET (DOMAIN z)] /\ \A i \in DOMAIN z : \A j \in ends[i] : i <= j
  BY <1>2, <1>3
<1>5. SanitizeText(text) = Substitute(z, ends, Placeholder)
  BY DEF SanitizeText, ReplaceNonOverlapping, z
<1> HIDE DEF ends
<1>6. Placeholder \in Chars
  BY DEF Chars
<1> QED
  BY <1>1, <1>4, <1>5, <1>6, SubstituteTraced

(* A walk makes a sequence of its parts. *)
LEMMA WalkType ==
  ASSUME NEW T, NEW n \in Nat, NEW part, \A i \in 1..n : part[i] \in Seq(T), NEW next \in Steps(n)
  PROVE  Walk(n, part, next) \in Seq(T)
<1>1. PICK g : Collects(g, 1, n, part, next) /\ Walk(n, part, next) = g[1]
  BY WalkIsCollected
<1> DEFINE S == {i \in 1..(n + 1) : g[i] \in Seq(T)}
<1>2. ASSUME NEW i \in 1..(n + 1), \A j \in (i + 1)..(n + 1) : j \in S
      PROVE  i \in S
  <2>1. CASE i = n + 1
    <3>1. g[n + 1] = <<>>
      BY <1>1 DEF Collects
    <3>2. <<>> \in Seq(T)
      OBVIOUS
    <3> QED
      BY <2>1, <3>1, <3>2
  <2>2. CASE i # n + 1
    <3>1. i \in 1..n /\ next[i] \in (i + 1)..(n + 1)
      BY <2>2 DEF Steps
    <3>2. part[i] \in Seq(T) /\ g[next[i]] \in Seq(T)
      BY <1>2, <3>1
    <3>3. g[i] = part[i] \o g[next[i]]
      BY <1>1, <3>1 DEF Collects
    <3> DEFINE head == part[i]
               tail == g[next[i]]
    <3>4. head \in Seq(T) /\ tail \in Seq(T) /\ g[i] = head \o tail
      BY <3>2, <3>3
    <3> HIDE DEF head, tail
    <3>5. head \o tail \in Seq(T)
      BY <3>4
    <3> QED
      BY <3>4, <3>5
  <2> QED
    BY <2>1, <2>2
<1>3. \A i \in 1..(n + 1) : (\A j \in (i + 1)..(n + 1) : j \in S) => i \in S
  BY <1>2
<1> HIDE DEF S
<1>4. \A i \in 1..(n + 1) : i \in S
  BY <1>3, Downwards
<1>5. 1 \in S
  BY <1>4
<1> QED
  BY <1>1, <1>5 DEF S

(* Small letters make a text of a text. *)
LEMMA LowerType ==
  ASSUME NEW text \in Seq(Chars)
  PROVE  Lower(text) \in Seq(Chars)
<1> DEFINE n == Len(text)
           part == [i \in DOMAIN text |-> CASE text[i] = "N" -> <<"n">>
                                             [] text[i] = "I" -> <<"a", "^">>
                                             [] OTHER -> <<text[i]>>]
           next == [i \in DOMAIN text |-> i + 1]
<1>1. n \in Nat /\ DOMAIN text = 1..n /\ next \in Steps(n) /\ \A i \in 1..n : text[i] \in Chars
  BY DEF Steps
<1>2. "n" \in Chars /\ "a" \in Chars /\ "^" \in Chars
  BY DEF Chars, Characters
<1>3. <<"n">> \in Seq(Chars) /\ <<"a", "^">> \in Seq(Chars)
  <2> HIDE DEF n, part, next
  <2> QED
    BY <1>2
<1>4. \A i \in 1..n : part[i] \in Seq(Chars)
  <2> TAKE i \in 1..n
  <2>1. <<text[i]>> \in Seq(Chars)
    BY <1>1
  <2>2. part[i] \in {<<"n">>, <<"a", "^">>, <<text[i]>>}
    BY <1>1
  <2> HIDE DEF part
  <2> QED
    BY <1>3, <2>1, <2>2
<1>5. Lower(text) = Walk(n, part, next)
  BY DEF Lower
<1> HIDE DEF n, part, next
<1> QED
  BY <1>1, <1>4, <1>5, WalkType

(* The same for the cleaned text of a record. *)
LEMMA CleanedTextType ==
  ASSUME NEW record \in RecordSet
  PROVE  RawText(record) \in Seq(Characters) /\ CleanedText(record) \in Seq(Chars)
<1>1. TextOf(record, "summary") \in Seq(Characters) /\ TextOf(record, "details") \in Seq(Characters)
  BY TextOfType
<1>2. <<"_">> \in Seq(Characters)
  BY DEF Characters
<1>3. RawText(record) \in Seq(Characters)
  <2> DEFINE u == TextOf(record, "summary")
             v == TextOf(record, "details")
             w == <<"_">>
  <2>1. u \in Seq(Characters) /\ v \in Seq(Characters) /\ w \in Seq(Characters)
    BY <1>1, <1>2
  <2>2. RawText(record) = u \o w \o v
    BY DEF RawText
  <2> HIDE DEF u, v, w
  <2> QED
    BY <2>1, <2>2
<1>4. RawText(record) \in Seq(Chars)
  BY <1>3 DEF Chars
<1>5. SanitizeText(RawText(record)) \in Seq(Chars)
  BY <1>4, SanitizeTextType
<1>6. CleanedText(record) = Collapse(Lower(SanitizeText(RawText(record))))
  BY DEF CleanedText
<1>7. Lower(SanitizeText(RawText(record))) \in Seq(Chars)
  BY <1>5, LowerType
<1> QED
  BY <1>3, <1>6, <1>7, KeepLists DEF Collapse

(* The truncation is the text up to its bound. *)
LEMMA TruncatedType ==
  ASSUME NEW T, NEW text \in Seq(T)
  PROVE  /\ Truncated(text) \in Seq(T)
         /\ Len(Truncated(text)) = IF Len(text) < MaxTextChars THEN Len(text) ELSE MaxTextChars
         /\ \A i \in 1..Len(Truncated(text)) : Truncated(text)[i] = text[i]
<1> DEFINE n == IF Len(text) < MaxTextChars THEN Len(text) ELSE MaxTextChars
<1>1. Len(text) \in Nat /\ n \in 0..Len(text) /\ DOMAIN text = 1..Len(text)
  BY BoundsAssumption
<1>2. Truncated(text) = SubSeq(text, 1, n)
  BY DEF Truncated
<1> HIDE DEF n
<1>3. SubSeq(text, 1, n) \in Seq(T) /\ Len(SubSeq(text, 1, n)) = n
      /\ \A i \in 1..n : SubSeq(text, 1, n)[i] = text[i]
  BY <1>1
<1> QED
  BY <1>2, <1>3 DEF n

(* There is a row for each record that is in the scope. *)
LEMMA FeatureTextsType ==
  ASSUME NEW records \in Records
  PROVE  /\ FeatureTexts(records) \in Seq(Seq(Chars))
         /\ IsFiniteSet({k \in DOMAIN records : InScope(records[k])})
         /\ Len(FeatureTexts(records)) = Cardinality({k \in DOMAIN records : InScope(records[k])})
<1> DEFINE P == {k \in DOMAIN records : InScope(records[k])}
           kept == Keep(records, P)
<1>1. P \cap DOMAIN records = P
  OBVIOUS
<1>2. kept \in Seq(RecordSet) /\ IsFiniteSet(P) /\ Len(kept) = Cardinality(P)
  <2> HIDE DEF P
  <2> QED
    BY <1>1, KeepLength DEF Records
<1>3. FeatureTexts(records) = [k \in DOMAIN kept |-> Truncated(CleanedText(kept[k]))]
  BY DEF FeatureTexts
<1> HIDE DEF kept
<1>4. /\ DOMAIN kept = 1..Len(kept) /\ Len(kept) \in Nat
      /\ \A k \in 1..Len(kept) : kept[k] \in RecordSet
  <2> HIDE DEF P
  <2> QED
    BY <1>2
<1>5. \A k \in 1..Len(kept) : Truncated(CleanedText(kept[k])) \in Seq(Chars)
  BY <1>4, CleanedTextType, TruncatedType
<1>6. FeatureTexts(records) = [k \in 1..Len(kept) |-> FeatureTexts(records)[k]]
      /\ \A k \in 1..Len(kept) : FeatureTexts(records)[k] \in Seq(Chars)
  BY <1>3, <1>4, <1>5
<1>7. FeatureTexts(records) \in Seq(Seq(Chars)) /\ Len(FeatureTexts(records)) = Len(kept)
  BY <1>4, <1>6
<1> QED
  BY <1>2, <1>7
-----------------------------------------------------------------------------
(* The columns of a valid source are columns of the allowlist. *)
LEMMA ValidColumns ==
  ASSUME NEW columns, IsFiniteSet(columns), columns \subseteq Columns,
         IsValid(ContractCounts(columns))
  PROVE  columns \subseteq RawInputAllowlist
<1> DEFINE A == {c \in columns : Column(c.name) \notin RawInputAllowlist}
           B == {c \in columns : IsExactTimestamp(c)} \ RawInputAllowlist
           C == {c \in columns : IsRawText(c)} \ RawInputAllowlist
<1>1. ContractCounts(columns) =
        [forbidden |-> Cardinality(A), timestamps |-> Cardinality(B), rawTexts |-> Cardinality(C)]
  BY DEF ContractCounts
<1>2. A \in SUBSET columns /\ B \in SUBSET columns /\ C \in SUBSET columns
  OBVIOUS
<1> HIDE DEF A, B, C
<1>3. Cardinality(A) = 0 /\ Cardinality(B) = 0 /\ Cardinality(C) = 0
  BY <1>1 DEF IsValid
<1>4. IsFiniteSet(A) /\ IsFiniteSet(B) /\ IsFiniteSet(C)
  BY <1>2, FS_Subset
<1>5. A = {} /\ B = {} /\ C = {}
  BY <1>3, <1>4, FS_EmptySet
<1> USE DEF A, B, C
<1> SUFFICES ASSUME NEW c \in columns, c \notin RawInputAllowlist PROVE FALSE
  OBVIOUS
<1>6. Column(c.name) \in RawInputAllowlist
  BY <1>5
<1>7. c.name \in {"summary", "details", "ticket_created_at"}
  BY <1>6 DEF RawInputAllowlist, Column
<1>8. IsExactTimestamp(c) \/ IsRawText(c)
  BY <1>7 DEF IsExactTimestamp, IsRawText
<1> QED
  BY <1>5, <1>8

(* A source has finitely many columns. *)
LEMMA ColumnsOfFinite ==
  ASSUME NEW records \in Records, \A k \in DOMAIN records : IsFiniteSet(records[k].columns)
  PROVE  IsFiniteSet(ColumnsOf(records)) /\ ColumnsOf(records) \subseteq Columns
<1> DEFINE n == Len(records)
           g == [k \in 1..n |-> records[k].columns]
<1>1. n \in Nat /\ DOMAIN records = 1..n /\ \A k \in 1..n : records[k] \in RecordSet
  BY DEF Records
<1>2. ColumnsOf(records) = UNION {g[k] : k \in 1..n}
  BY <1>1 DEF ColumnsOf
<1>3. \A k \in 1..n : IsFiniteSet(g[k]) /\ g[k] \subseteq Columns
  BY <1>1 DEF RecordSet
<1> HIDE DEF g, n
<1>4. IsFiniteSet(UNION {g[k] : k \in 1..n})
  BY <1>1, <1>3, FiniteParts
<1> QED
  BY <1>2, <1>3, <1>4

-----------------------------------------------------------------------------
(* The date of a record is one, also where the record has none. *)
LEMMA DateOfType ==
  ASSUME NEW record \in RecordSet
  PROVE  DateOf(record) \in Date
BY DEF DateOf, RecordSet, Date

(* A date that is left out of no scope is one day, or none. *)
LEMMA CoercedDateType ==
  ASSUME NEW date \in Date, date.kind # "limit"
  PROVE  CoercedDate(date) = {} \/ \E d \in Int : CoercedDate(date) = {d}
<1>1. date.hours \in Int /\ date.offset \in Int /\ date.kind \in {"none", "naive", "aware"}
  BY DEF Date
<1>2. Day(date.hours) \in Int /\ Day(date.hours - date.offset) \in Int
  BY <1>1 DEF Day
<1>3. CASE date.kind = "none"
  BY <1>3 DEF CoercedDate
<1>4. CASE date.kind = "naive"
  BY <1>2, <1>4 DEF CoercedDate
<1>5. CASE date.kind = "aware"
  BY <1>2, <1>5 DEF CoercedDate
<1> QED
  BY <1>1, <1>3, <1>4, <1>5

(* The counters of the scope are those of a partition of the records, and  *)
(* the first of them is that of the rows.                                  *)
LEMMA ScopePartition ==
  ASSUME NEW records \in Records, ~Overflows(records)
  PROVE  LET scope == ScopeMetrics(records)
         IN  /\ scope.included = Len(FeatureTexts(records))
             /\ scope.included + scope.historical + scope.missing = scope.total
<1> DEFINE n == Len(records)
           dates == CoercedDates(records)
           I == {k \in 1..n : \E d \in dates[k] : d >= 0}
           H == {k \in 1..n : \E d \in dates[k] : d < 0}
           M == {k \in 1..n : dates[k] = {}}
           scope == ScopeMetrics(records)
<1>1. n \in Nat /\ DOMAIN records = 1..n /\ \A k \in 1..n : records[k] \in RecordSet
  BY DEF Records
<1>2. DOMAIN dates = 1..n /\ \A k \in 1..n : dates[k] = CoercedDate(DateOf(records[k]))
  BY <1>1 DEF CoercedDates
<1>3. \A k \in 1..n : dates[k] = {} \/ \E d \in Int : dates[k] = {d}
  <2> TAKE k \in 1..n
  <2>1. DateOf(records[k]) \in Date /\ DateOf(records[k]).kind # "limit"
    BY <1>1, DateOfType DEF Overflows
  <2> HIDE DEF dates
  <2> QED
    BY <1>2, <2>1, CoercedDateType
<1>4. /\ scope.total = n
      /\ scope.included = Cardinality(I)
      /\ scope.historical = Cardinality(H)
      /\ scope.missing = Cardinality(M)
  BY <1>2 DEF ScopeMetrics, ScopeMinimum
<1>5. I = {k \in DOMAIN records : InScope(records[k])}
  BY <1>1, <1>2 DEF InScope, ContractMinimum
<1>6. Len(FeatureTexts(records)) = Cardinality(I)
  <2> HIDE DEF I
  <2> QED
    BY <1>5, FeatureTextsType
<1>7. I \cup H \cup M = 1..n /\ I \cap H = {} /\ (I \cup H) \cap M = {}
  <2> HIDE DEF dates
  <2>1. \A k \in 1..n : k \in I \/ k \in H \/ k \in M
    BY <1>3
  <2>2. \A k \in 1..n : ~(k \in I /\ k \in H)
    BY <1>3
  <2>3. \A k \in 1..n : ~(k \in I /\ k \in M) /\ ~(k \in H /\ k \in M)
    OBVIOUS
  <2>4. I \in SUBSET (1..n) /\ H \in SUBSET (1..n) /\ M \in SUBSET (1..n)
    OBVIOUS
  <2> HIDE DEF I, H, M
  <2> QED
    BY <2>1, <2>2, <2>3, <2>4
<1>8. IsFiniteSet(1..n) /\ Cardinality(1..n) = n
  <2>1. n \in Int /\ 1 \in Int
    BY <1>1
  <2> HIDE DEF n
  <2>2. IsFiniteSet(1..n) /\ Cardinality(1..n) = IF 1 > n THEN 0 ELSE n - 1 + 1
    BY <2>1, FS_Interval
  <2> QED
    BY <1>1, <2>2
<1>9. I \in SUBSET (1..n) /\ H \in SUBSET (1..n) /\ M \in SUBSET (1..n)
  OBVIOUS
<1> HIDE DEF I, H, M, n, scope, dates
<1>10. IsFiniteSet(I) /\ IsFiniteSet(H) /\ IsFiniteSet(M)
  BY <1>8, <1>9, FS_Subset
<1>11. /\ IsFiniteSet(I \cup H)
       /\ Cardinality(I \cup H) = Cardinality(I) + Cardinality(H) - Cardinality({})
  BY <1>7, <1>10, FS_Union
<1>12. Cardinality(1..n) = Cardinality(I \cup H) + Cardinality(M) - Cardinality({})
  <2> DEFINE U == I \cup H
  <2>1. IsFiniteSet(U) /\ U \cup M = 1..n /\ U \cap M = {}
    BY <1>7, <1>11
  <2> HIDE DEF U
  <2>2. Cardinality(U \cup M) = Cardinality(U) + Cardinality(M) - Cardinality(U \cap M)
    BY <1>10, <2>1, FS_Union
  <2>3. Cardinality(1..n) = Cardinality(U) + Cardinality(M) - Cardinality({})
    BY <2>1, <2>2
  <2> QED
    BY <2>3 DEF U
<1>13. Cardinality({}) = 0
  BY FS_EmptySet
<1>14. Cardinality(I) \in Nat /\ Cardinality(H) \in Nat /\ Cardinality(M) \in Nat
  BY <1>10, FS_CardinalityType
<1>15. Cardinality(I) + Cardinality(H) + Cardinality(M) = n
  BY <1>8, <1>11, <1>12, <1>13, <1>14
<1> QED
  BY <1>4, <1>6, <1>15 DEF scope
-----------------------------------------------------------------------------
(* Each result is what its part of the code makes of the case. *)
GuardPasses ==
  \A k \in DOMAIN source, field \in {"summary", "details"} :
    NoResidualPii(GuardedText(TextOf(source[k], field)))

IsCase == \E c \in Cases : source = c.source /\ request = c.request

GuardIsComputed == guard \in {"not run", IF GuardPasses THEN "passed" ELSE "blocked"}

DryIsComputed ==
  \/ dry = NotRun
  \/ Overflows(source) /\ dry = [status |-> "raised"]
  \/ /\ ~Overflows(source)
     /\ dry = DryRunReport(source, request.path \notin {"none", "empty"} /\ ~request.real)

PreparedIsComputed ==
  \/ prepared = NotRun
  \/ /\ ~RequestRefused(request) /\ ~Overflows(source) /\ ~SourceRefused(source)
     /\ prepared = [status |-> "prepared", texts |-> FeatureTexts(source)]
  \/ /\ RequestRefused(request) \/ (~Overflows(source) /\ SourceRefused(source))
     /\ prepared = [status |-> "refused"]
  \/ ~RequestRefused(request) /\ Overflows(source) /\ prepared = [status |-> "raised"]

CliIsComputed == cli \in {"not run", BlockingGate(request)}

ResultsAreComputed ==
  IsCase /\ GuardIsComputed /\ DryIsComputed /\ PreparedIsComputed /\ CliIsComputed

(* It holds in the beginning, when nothing has been computed ... *)
LEMMA DatasetInit == Init => ResultsAreComputed
BY DEF Init, ResultsAreComputed, IsCase, GuardIsComputed, DryIsComputed, PreparedIsComputed,
       CliIsComputed

(* ... and every step computes what it says, from a source and a request   *)
(* that stay.                                                              *)
LEMMA DatasetStep == ResultsAreComputed /\ [Next]_vars => ResultsAreComputed'
<1> SUFFICES ASSUME ResultsAreComputed, [Next]_vars PROVE ResultsAreComputed'
  OBVIOUS
<1> USE DEF ResultsAreComputed
<1>1. CASE GuardPage
  BY <1>1 DEF GuardPage, IsCase, GuardIsComputed, GuardPasses, DryIsComputed, PreparedIsComputed,
              CliIsComputed
<1>2. CASE DryRun
  BY <1>2 DEF DryRun, IsCase, GuardIsComputed, GuardPasses, DryIsComputed, PreparedIsComputed,
              CliIsComputed
<1>3. CASE DryRunRaises
  BY <1>3 DEF DryRunRaises, IsCase, GuardIsComputed, GuardPasses, DryIsComputed,
              PreparedIsComputed, CliIsComputed
<1>4. CASE PrepareExport
  BY <1>4 DEF PrepareExport, IsCase, GuardIsComputed, GuardPasses, DryIsComputed,
              PreparedIsComputed, CliIsComputed
<1>5. CASE RefuseExport
  BY <1>5 DEF RefuseExport, IsCase, GuardIsComputed, GuardPasses, DryIsComputed,
              PreparedIsComputed, CliIsComputed
<1>6. CASE ExportRaises
  BY <1>6 DEF ExportRaises, IsCase, GuardIsComputed, GuardPasses, DryIsComputed,
              PreparedIsComputed, CliIsComputed
<1>7. CASE RunCommandLine
  BY <1>7 DEF RunCommandLine, IsCase, GuardIsComputed, GuardPasses, DryIsComputed,
              PreparedIsComputed, CliIsComputed
<1>8. CASE UNCHANGED vars
  BY <1>8 DEF vars, IsCase, GuardIsComputed, GuardPasses, DryIsComputed, PreparedIsComputed,
              CliIsComputed
<1> QED
  BY <1>1, <1>2, <1>3, <1>4, <1>5, <1>6, <1>7, <1>8 DEF Next, Terminated

(* The inductive invariant of the dataset. *)
LEMMA DatasetResults == Spec => []ResultsAreComputed
BY DatasetInit, DatasetStep, PTL DEF Spec

(* What is assumed of the cases holds of the source. *)
LEMMA SourceType ==
  ASSUME IsCase
  PROVE  /\ source \in Records /\ request \in Request
         /\ \A k \in DOMAIN source : IsFiniteSet(source[k].columns)
BY CasesAssumption DEF IsCase, Records

-----------------------------------------------------------------------------
(* Where the dates are in range both gates are the same three tests; where *)
(* they are not, both raise.                                               *)
LEMMA GatesAgree ==
  ASSUME ResultsAreComputed
  PROVE  CopiesOfTheGatesAgree
<1>1. source \in Records /\ request \in Request
  BY SourceType DEF ResultsAreComputed
<1> DEFINE counts == ContractCounts(ColumnsOf(source))
           texts == FeatureTexts(source)
<1>2. PiiCount(texts) \in Nat /\ SecretsCount(texts) \in Nat
  <2>1. texts \in Seq(Seq(Chars))
    BY <1>1, FeatureTextsType
  <2>2. Spaced(Chars)
    BY CharsAreSpaced
  <2> HIDE DEF texts
  <2> QED
    BY <2>1, <2>2, CountsType
<1> HIDE DEF counts, texts
<1>3. ASSUME dry # NotRun, prepared # NotRun, ~RequestRefused(request)
      PROVE  dry.status = "pass" <=> prepared.status = "prepared"
  <2>1. CASE Overflows(source)
    BY <1>3, <2>1 DEF ResultsAreComputed, DryIsComputed, PreparedIsComputed
  <2>2. CASE ~Overflows(source)
    <3>1. request.real
      BY <1>3 DEF RequestRefused
    <3>2. dry = DryRunReport(source, FALSE)
      BY <1>3, <2>2, <3>1 DEF ResultsAreComputed, DryIsComputed
    <3>3. dry.status = "pass" <=> IsValid(counts) /\ PiiCount(texts) = 0 /\ SecretsCount(texts) = 0
      BY <3>2 DEF DryRunReport, counts, texts
    <3>4. SourceRefused(source) <=> ~IsValid(counts) \/ PiiCount(texts) + SecretsCount(texts) > 0
      BY DEF SourceRefused, counts, texts
    <3>5. prepared.status = "prepared" <=> ~SourceRefused(source)
      BY <1>3, <2>2 DEF ResultsAreComputed, PreparedIsComputed
    <3> QED
      BY <1>2, <3>3, <3>4, <3>5
  <2> QED
    BY <2>1, <2>2
<1>4. ASSUME cli # "not run"
      PROVE  cli = "source_provider_not_configured" <=> ~RequestRefused(request)
  <2>1. cli = BlockingGate(request) /\ request.ttl \in Int /\ request.real \in BOOLEAN
    BY <1>1, <1>4 DEF ResultsAreComputed, CliIsComputed, Request
  <2>2. CASE ~request.real
    BY <2>1, <2>2 DEF BlockingGate, RequestRefused
  <2>3. CASE request.real /\ request.path \in {"none", "empty"}
    BY <2>1, <2>3 DEF BlockingGate, RequestRefused, PathRefused
  <2>4. CASE request.real /\ request.path \notin {"none", "empty"} /\ request.ttl <= 0
    BY <2>1, <2>4 DEF BlockingGate, RequestRefused
  <2>5. CASE request.real /\ request.path \notin {"none", "empty"} /\ request.ttl > 0
    BY <2>1, <2>5 DEF BlockingGate, RequestRefused, PathRefused
  <2> QED
    BY <2>1, <2>2, <2>3, <2>4, <2>5
<1> QED
  BY <1>3, <1>4 DEF CopiesOfTheGatesAgree

(* An export is prepared exactly when a dry run of the same source passes, *)
(* and the command line blocks at its last gate exactly the requests the   *)
(* export would go on with, for every source and every request             *)
(* (secure_export.py _prepare_export, ticket_v1_export.py _dispatch).      *)
THEOREM GatesAlwaysAgree == Spec => []CopiesOfTheGatesAgree
BY DatasetResults, GatesAgree, PTL

(* A result with another status is another result. *)
LEMMA OtherStatus ==
  ASSUME NEW result, NEW s, result.status # s
  PROVE  result # [status |-> s]
OBVIOUS

(* A report is that of a source whose dates are all in range. *)
LEMMA ReportIsComputed ==
  ASSUME ResultsAreComputed, dry.status \in {"pass", "fail"}
  PROVE  /\ ~Overflows(source)
         /\ dry = DryRunReport(source, request.path \notin {"none", "empty"} /\ ~request.real)
<1>1. dry # NotRun /\ dry # [status |-> "raised"]
  <2>1. dry.status # "not run" /\ dry.status # "raised"
    OBVIOUS
  <2> QED
    BY <2>1, OtherStatus DEF NotRun
<1>2. DryIsComputed
  BY DEF ResultsAreComputed
<1> QED
  BY <1>1, <1>2 DEF DryIsComputed

(* The columns from the contract, the counters from the partition. *)
LEMMA SourceReadWhole ==
  ASSUME ResultsAreComputed
  PROVE  AcceptedSourceIsReadWhole
<1>1. source \in Records /\ \A k \in DOMAIN source : IsFiniteSet(source[k].columns)
  BY SourceType DEF ResultsAreComputed
<1>2. ASSUME prepared.status = "prepared"
      PROVE  /\ ~Overflows(source) /\ ~SourceRefused(source)
             /\ prepared = [status |-> "prepared", texts |-> FeatureTexts(source)]
  <2>1. /\ prepared # NotRun
        /\ prepared # [status |-> "refused"]
        /\ prepared # [status |-> "raised"]
    <3>1. prepared.status # "not run" /\ prepared.status # "refused" /\ prepared.status # "raised"
      BY <1>2
    <3> QED
      BY <3>1, OtherStatus DEF NotRun
  <2>2. PreparedIsComputed
    BY DEF ResultsAreComputed
  <2> QED
    BY <2>1, <2>2 DEF PreparedIsComputed
<1>3. ASSUME prepared.status = "prepared"
      PROVE  ColumnsOf(source) \subseteq RawInputAllowlist
  <2>1. IsValid(ContractCounts(ColumnsOf(source)))
    BY <1>2, <1>3 DEF SourceRefused
  <2> QED
    BY <1>1, <2>1, ColumnsOfFinite, ValidColumns
<1>4. ASSUME dry.status \in {"pass", "fail"}
      PROVE  /\ dry.scope.included = dry.rows
             /\ dry.scope.included + dry.scope.historical + dry.scope.missing = dry.scope.total
             /\ prepared.status = "prepared" => Len(prepared.texts) = dry.scope.included
  <2>1. /\ ~Overflows(source)
        /\ dry = DryRunReport(source, request.path \notin {"none", "empty"} /\ ~request.real)
    BY <1>4, ReportIsComputed
  <2>2. dry.scope = ScopeMetrics(source) /\ dry.rows = Len(FeatureTexts(source))
    BY <2>1 DEF DryRunReport
  <2>3. /\ ScopeMetrics(source).included = Len(FeatureTexts(source))
        /\ ScopeMetrics(source).included + ScopeMetrics(source).historical
             + ScopeMetrics(source).missing = ScopeMetrics(source).total
    BY <1>1, <2>1, ScopePartition
  <2> QED
    BY <1>2, <2>2, <2>3
<1> QED
  BY <1>3, <1>4 DEF AcceptedSourceIsReadWhole

(* The columns of an accepted source are the ones the transforms read, and *)
(* each of its records is in one scope counter and, when it is in scope,   *)
(* in one row (contract.py validate_raw_input_columns, ticket_scope.py,    *)
(* transforms.py build_safe_ticket_features).                              *)
THEOREM SourceAlwaysReadWhole == Spec => []AcceptedSourceIsReadWhole
BY DatasetResults, SourceReadWhole, PTL

(* Both compare an hour with a midnight; between the two midnights lies    *)
(* the offset of the zone.                                                 *)
LEMMA ScopesDiffer ==
  ASSUME ResultsAreComputed
  PROVE  ScopesDifferNearMidnightOnly
<1>1. source \in Records
  BY SourceType DEF ResultsAreComputed
<1> SUFFICES ASSUME NEW k \in DOMAIN source, NEW zone \in Zones,
                    DateOf(source[k]).kind = "aware",
                    InScope(source[k]) # SqlIncluded(DateOf(source[k]), zone)
             PROVE  DateOf(source[k]).hours - DateOf(source[k]).offset
                      \in IF zone > 0 THEN (0 - zone)..(0 - 1) ELSE 0..(0 - zone - 1)
  BY DEF ScopesDifferNearMidnightOnly
<1> DEFINE date == DateOf(source[k])
           utc == date.hours - date.offset
<1>2. date \in Date
  BY <1>1, DateOfType DEF Records
<1>3. utc \in Int /\ zone \in Int
  BY <1>2, ZonesAssumption DEF Date
<1>4. InScope(source[k]) <=> Day(utc) >= 0
  BY DEF InScope, CoercedDate, ContractMinimum
<1>5. SqlIncluded(date, zone) <=> utc >= 0 - zone
  BY <1>3 DEF SqlIncluded, RepositoryMinimum
<1>6. (InScope(source[k]) \in BOOLEAN) /\ (SqlIncluded(date, zone) \in BOOLEAN)
  BY DEF InScope, SqlIncluded
<1>7. ~(InScope(source[k]) <=> SqlIncluded(date, zone))
  BY <1>6
<1> HIDE DEF utc
<1>8. Day(utc) >= 0 <=> utc >= 0
  BY <1>3 DEF Day
<1>9. ~(utc >= 0 <=> utc >= 0 - zone)
  BY <1>4, <1>5, <1>7, <1>8
<1>10. utc \in IF zone > 0 THEN (0 - zone)..(0 - 1) ELSE 0..(0 - zone - 1)
  BY <1>3, <1>9
<1> QED
  BY <1>10 DEF utc

(* For every date and every time zone, the scope of the dataset and the    *)
(* filter of the EDA repository differ only by the offset of the session   *)
(* (ticket_scope.py, ticket_eda_repository.py).                            *)
THEOREM ScopesAlwaysDifferNearMidnightOnly == Spec => []ScopesDifferNearMidnightOnly
BY DatasetResults, ScopesDiffer, PTL

-----------------------------------------------------------------------------
(* The positions of a normal text that Collapse keeps. *)
Kept(text) ==
  {i \in DOMAIN text :
     text[i] = "_" => /\ i - 1 \in DOMAIN text /\ text[i - 1] # "_"
                      /\ \E j \in DOMAIN text : i < j /\ text[j] # "_"}

(* result is a normal text collapsed, f tells where it comes from. *)
Collapses(result, text, n, f) ==
  /\ Clean(text)
  /\ Lists(f, n, Kept(text))
  /\ n \in Nat /\ Len(result) = n /\ DOMAIN result = 1..n
  /\ Len(text) \in Nat /\ DOMAIN text = 1..Len(text)
  /\ \A j, k \in 1..n : (f[j] < f[k] <=> j < k) /\ (f[j] = f[k] <=> j = k)
  /\ \A k \in 1..n : f[k] \in 1..Len(text)
  /\ \A k \in 1..n : result[k] = text[f[k]]
  /\ \A q \in 1..Len(text) : text[q] = "_" \/ \E k \in 1..n : f[k] = q

(* Collapsing a normal text leaves a normal text. *)
LEMMA CollapsedIsClean ==
  ASSUME NEW text, Clean(text)
  PROVE  Clean(Collapse(text)) /\ \E n, f : Collapses(Collapse(text), text, n, f)
<1> DEFINE S == Solid(text)
           P == {i \in DOMAIN text : i \notin S => i - 1 \in S /\ \E j \in S : i < j}
<1>1. S = {i \in DOMAIN text : text[i] # "_"}
  BY SolidOfNormal
<1>2. P = Kept(text)
  <2> HIDE DEF S
  <2> QED
    BY <1>1 DEF Kept
<1>3. Collapse(text) = Keep(text, Kept(text))
  <2>1. Collapse(text) = Keep(text, P)
    BY DEF Collapse
  <2> HIDE DEF P
  <2> QED
    BY <1>2, <2>1
<1> HIDE DEF P, S
<1>4. DropsSpaces(text, Kept(text))
  BY DEF DropsSpaces, Kept
<1>5. Clean(Keep(text, Kept(text)))
  BY <1>4, KeepClean
<1>6. PICK n, f : n \in Nat /\ Holds(Keep(text, Kept(text)), text, Kept(text), n, f)
  BY KeepLists DEF Clean
<1>7. Kept(text) \cap DOMAIN text = Kept(text)
  BY DEF Kept
<1> DEFINE r == Keep(text, Kept(text))
<1>8. Lists(f, n, Kept(text))
  BY <1>6, <1>7 DEF Holds
<1> HIDE DEF r
<1>9. /\ n \in Nat /\ DOMAIN r = 1..n /\ Len(r) = n
      /\ Len(text) \in Nat /\ DOMAIN text = 1..Len(text)
  BY <1>6 DEF Holds, r
<1>10. \A k \in 1..n : f[k] \in 1..Len(text)
  BY <1>6 DEF Holds
<1>11. \A k \in 1..n : r[k] = text[f[k]]
  BY <1>6 DEF Holds, r
<1>12. \A q \in 1..Len(text) : text[q] = "_" \/ q \in Kept(text)
  BY <1>9 DEF Kept
<1>13. \A q \in Kept(text) : \E k \in 1..n : f[k] = q
  BY <1>8 DEF Lists
<1>14. \A j, k \in 1..n : (f[j] < f[k] <=> j < k) /\ (f[j] = f[k] <=> j = k)
  BY <1>8, ListsOrder
<1>15. \A q \in 1..Len(text) : text[q] = "_" \/ \E k \in 1..n : f[k] = q
  BY <1>12, <1>13
<1>16. Collapses(r, text, n, f)
  BY <1>8, <1>9, <1>10, <1>11, <1>14, <1>15 DEF Collapses
<1> QED
  BY <1>3, <1>5, <1>16 DEF r

(* A character is followed by the one it was followed by: a space behind   *)
(* it is kept, if there is anything behind the space.                      *)
LEMMA CollapsedNext ==
  ASSUME NEW text, NEW r, NEW n, NEW f, Collapses(r, text, n, f),
         NEW k \in 1..n, k + 1 \in 1..n, NoSpaceAt(r, k)
  PROVE  f[k + 1] = f[k] + 1
<1>1. Len(text) \in Nat /\ n \in Nat /\ DOMAIN text = 1..Len(text) /\ Lists(f, n, Kept(text))
  BY DEF Collapses
<1>2. k < k + 1
  BY <1>1
<1> DEFINE p == f[k] + 1
           s == f[k]
           t == f[k + 1]
<1>3. s < t /\ s \in 1..Len(text) /\ t \in 1..Len(text) /\ p = s + 1 /\ t \in Kept(text)
  BY <1>1, <1>2 DEF Collapses, Lists
<1>4. text[s] # "_"
  BY DEF Collapses, NoSpaceAt
<1>5. p = f[k] + 1
  OBVIOUS
<1>6. ASSUME p \in Kept(text) PROVE t = p
  <2> HIDE DEF p
  <2> QED
    BY <1>1, <1>5, <1>6, ListsSuccessor
<1> HIDE DEF p, s
<1>7. p \in 1..Len(text) /\ p - 1 = s /\ (p = t \/ p < t)
  <2> HIDE DEF t
  <2> QED
    BY <1>1, <1>3
<1>8. ASSUME p # t PROVE p \in Kept(text)
  <2>1. p - 1 \in DOMAIN text /\ text[p - 1] # "_"
    BY <1>1, <1>3, <1>4, <1>7
  <2>2. t \in DOMAIN text /\ p \in DOMAIN text /\ p < t
    BY <1>1, <1>3, <1>7, <1>8
  <2>3. \E l \in DOMAIN text : p < l /\ text[l] # "_"
    <3>1. CASE text[t] # "_"
      BY <2>2, <3>1
    <3>2. CASE text[t] = "_"
      <4>1. PICK l \in DOMAIN text : t < l /\ text[l] # "_"
        BY <1>3, <3>2 DEF Kept
      <4>2. p < l
        <5>1. l \in Int /\ t \in Int /\ p \in Int
          BY <1>1, <1>3, <1>7
        <5>2. p < t /\ t < l
          BY <2>2, <4>1
        <5> HIDE DEF t
        <5> QED
          BY <5>1, <5>2
      <4> QED
        BY <4>1, <4>2
    <3> QED
      BY <3>1, <3>2
  <2> QED
    BY <2>1, <2>2, <2>3 DEF Kept
<1> QED
  BY <1>6, <1>8 DEF p

(* What ends in a character stood like that, more spaces in it. *)
LEMMA CollapsedStretch ==
  ASSUME NEW text, NEW r, NEW n, NEW f, Collapses(r, text, n, f),
         NEW i \in 1..n, NEW j \in 1..n, i < j, NoSpaceAt(r, j)
  PROVE  Stretched(r, i, j, text, f)
<1>1. /\ n \in Nat /\ DOMAIN r = 1..n /\ Len(text) \in Nat /\ DOMAIN text = 1..Len(text)
      /\ \A k \in 1..n : f[k] \in 1..Len(text) /\ r[k] = text[f[k]]
      /\ \A k, l \in 1..n : (f[k] < f[l] <=> k < l) /\ (f[k] = f[l] <=> k = l)
  BY DEF Collapses
<1>1a. \A q \in 1..Len(text) : text[q] = "_" \/ \E k \in 1..n : f[k] = q
  BY DEF Collapses
<1>2. /\ i \in Int /\ j \in Int /\ (\A k \in i..j : k \in 1..n)
      /\ \A k \in i..(j - 1) : k \in 1..n /\ k + 1 \in 1..n
  BY <1>1
<1>3. \A k \in i..(j - 1) : NoSpaceAt(r, k) => f[k + 1] = f[k] + 1
  BY <1>2, CollapsedNext
<1>4. f[i] \in Int /\ f[j] \in Int /\ f[i] \in 1..Len(text) /\ f[j] \in 1..Len(text)
  BY <1>1
<1>5. ASSUME NEW q \in f[i]..f[j] PROVE text[q] = "_" \/ \E k \in i..j : f[k] = q
  <2>1. q \in 1..Len(text) /\ q \in Int /\ f[i] <= q /\ q <= f[j]
    BY <1>1, <1>4
  <2>2. ASSUME NEW k \in 1..n, f[k] = q PROVE k \in i..j
    <3>1. ~(f[k] < f[i]) /\ ~(f[j] < f[k])
      BY <1>4, <2>1, <2>2
    <3>2. ~(k < i) /\ ~(j < k)
      BY <1>1, <3>1
    <3> QED
      BY <1>1, <3>2
  <2> QED
    BY <1>1a, <2>1, <2>2
<1>6. Fits(At(r, i - 1), At(text, f[i] - 1))
  <2> DEFINE p == f[i] - 1
  <2>1. p \in Int /\ p < f[i] /\ (p \in 1..Len(text) \/ p = 0)
    BY <1>1, <1>4
  <2> HIDE DEF p
  <2>2. CASE \E k \in 1..n : f[k] = p
    <3>1. PICK k \in 1..n : f[k] = p
      BY <2>2
    <3>2. k < i
      BY <1>1, <2>1, <3>1
    <3>3. i - 1 \in 1..n /\ (k = i - 1 \/ k < i - 1) /\ i - 1 < i
      BY <1>1, <3>2
    <3>4. f[i - 1] < f[i] /\ f[i - 1] \in Int
      BY <1>1, <3>3
    <3>5. ~(f[k] < f[i - 1])
      BY <1>4, <2>1, <3>1, <3>4 DEF p
    <3>6. k = i - 1
      BY <1>1, <3>3, <3>5
    <3>7. At(r, i - 1) = text[p] /\ At(text, p) = text[p]
      BY <1>1, <3>1, <3>3, <3>6 DEF At
    <3> QED
      BY <3>7 DEF Fits, p
  <2>3. CASE ~\E k \in 1..n : f[k] = p
    <3>1. At(text, p) \in {"_", "end"}
      BY <1>1, <1>1a, <2>1, <2>3 DEF At
    <3>2. At(r, i - 1) \in {"_", "end"}
      <4>1. CASE i = 1
        <5>1. i - 1 \notin DOMAIN r
          BY <1>1, <4>1
        <5> QED
          BY <5>1 DEF At
      <4>2. CASE i # 1
        <5> DEFINE h == i - 1
        <5>1. h \in 1..n /\ h + 1 \in 1..n /\ h + 1 = i
          BY <1>1, <4>2
        <5> HIDE DEF h
        <5>2. ASSUME NoSpaceAt(r, h) PROVE FALSE
          <6>1. f[h + 1] = f[h] + 1
            BY <5>1, <5>2, CollapsedNext
          <6>2. f[h] = p
            <7>1. f[h] \in Int
              BY <1>1, <5>1
            <7> QED
              BY <1>4, <5>1, <6>1, <7>1 DEF p
          <6> QED
            BY <2>3, <5>1, <6>2
        <5>3. At(r, h) = "_"
          BY <1>1, <5>1, <5>2 DEF At, NoSpaceAt
        <5> QED
          BY <5>3 DEF h
      <4> QED
        BY <4>1, <4>2
    <3> QED
      BY <3>1, <3>2 DEF Fits, p
  <2> QED
    BY <2>2, <2>3
<1>7. Fits(At(r, j + 1), At(text, f[j] + 1))
  <2>1. CASE j = n
    <3> DEFINE p == f[j] + 1
    <3>1. p \in Int /\ f[j] < p /\ (p \in 1..Len(text) \/ p = Len(text) + 1)
      BY <1>1, <1>4
    <3> HIDE DEF p
    <3>2. ASSUME NEW k \in 1..n, f[k] = p PROVE FALSE
      <4>1. j < k
        BY <1>1, <3>1, <3>2
      <4> QED
        BY <1>1, <2>1, <4>1
    <3>3. At(text, p) \in {"_", "end"}
      <4>1. CASE p \in 1..Len(text)
        BY <1>1, <1>1a, <3>2, <4>1 DEF At
      <4>2. CASE p = Len(text) + 1
        <5>1. p \notin DOMAIN text
          BY <1>1, <4>2
        <5> QED
          BY <5>1 DEF At
      <4> QED
        BY <3>1, <4>1, <4>2
    <3>4. j + 1 \notin DOMAIN r
      BY <1>1, <2>1
    <3>5. At(r, j + 1) = "end"
      BY <3>4 DEF At
    <3> QED
      BY <3>3, <3>5 DEF Fits, p
  <2>2. CASE j # n
    <3>1. j + 1 \in 1..n
      BY <1>1, <2>2
    <3>2. f[j + 1] = f[j] + 1
      BY <3>1, CollapsedNext
    <3>3. At(r, j + 1) = text[f[j + 1]] /\ f[j] + 1 \in DOMAIN text
      BY <1>1, <3>1, <3>2 DEF At
    <3>4. At(text, f[j] + 1) = text[f[j + 1]]
      BY <3>2, <3>3 DEF At
    <3> QED
      BY <3>3, <3>4 DEF Fits
  <2> QED
    BY <2>1, <2>2
<1>8. \A k, l \in i..j : k < l => f[k] < f[l]
  BY <1>1, <1>2
<1>9. \A k \in i..j : f[k] \in 1..Len(text) /\ text[f[k]] = r[k]
  BY <1>1, <1>2
<1> QED
  BY <1>1, <1>2, <1>3, <1>5, <1>6, <1>7, <1>8, <1>9 DEF Stretched, NoSpaceAt

(* A placeholder that touched it still does. *)
LEMMA CollapsedTouched ==
  ASSUME NEW text, NEW r, NEW n, NEW f, Collapses(r, text, n, f),
         NEW i \in 1..n, NEW j \in 1..n, Touched(text, f[i], f[j])
  PROVE  Touched(r, i, j)
<1>1. /\ n \in Nat /\ DOMAIN r = 1..n /\ Len(text) \in Nat /\ DOMAIN text = 1..Len(text)
      /\ \A k \in 1..n : f[k] \in 1..Len(text) /\ r[k] = text[f[k]]
      /\ \A k, l \in 1..n : (f[k] < f[l] <=> k < l) /\ (f[k] = f[l] <=> k = l)
  BY DEF Collapses
<1>1a. \A q \in 1..Len(text) : text[q] = "_" \/ \E k \in 1..n : f[k] = q
  BY DEF Collapses
<1>2. \A k \in 1..n : f[k] \in Int
  BY <1>1
<1>3. PICK p \in (f[i] - 1)..(f[j] + 1) : At(text, p) = Placeholder
  BY DEF Touched
<1>4. p \in 1..Len(text) /\ text[p] = Placeholder /\ text[p] # "_"
  BY <1>1, <1>3 DEF At, Placeholder
<1>5. PICK k \in 1..n : f[k] = p
  BY <1>1a, <1>4
<1>5a. p \in (f[i] - 1)..(f[j] + 1)
  BY <1>3
<1>6. ASSUME k < i - 1 PROVE FALSE
  <2>1. i - 1 \in 1..n /\ i - 1 < i
    BY <1>1, <1>6
  <2>2. f[k] < f[i - 1] /\ f[i - 1] < f[i] /\ f[i - 1] \in Int /\ f[i] \in Int /\ f[k] \in Int
    BY <1>1, <1>2, <1>6, <2>1
  <2> QED
    BY <1>5a, <1>5, <2>2
<1>7. ASSUME j + 1 < k PROVE FALSE
  <2>1. j + 1 \in 1..n /\ j < j + 1
    BY <1>1, <1>7
  <2>2. f[j + 1] < f[k] /\ f[j] < f[j + 1] /\ f[j + 1] \in Int /\ f[j] \in Int /\ f[k] \in Int
    BY <1>1, <1>2, <1>7, <2>1
  <2> QED
    BY <1>5a, <1>5, <2>2
<1>8. k \in (i - 1)..(j + 1)
  BY <1>1, <1>6, <1>7
<1>9. At(r, k) = Placeholder
  BY <1>1, <1>4, <1>5 DEF At
<1> QED
  BY <1>8, <1>9 DEF Touched

(* A match ends in a character. *)
LEMMA EndsSolid ==
  ASSUME NEW c \in Categories, NEW text, NEW i \in Int, Len(text) \in Nat,
         NEW j \in Ends(c, text, i)
  PROVE  text[j] # "_"
<1>0. j \in Int /\ i < j
  <2>1. j \in (i + 1)..Len(text)
    BY EndsType
  <2> QED
    BY <2>1
<1>1. CASE c = "email"
  BY <1>1 DEF Ends, EmailEnds, Letters
<1>2. CASE c = "fr_phone"
  BY <1>2 DEF Ends, PhoneEnds
<1>3. CASE c = "ipv4"
  BY <1>3 DEF Ends, Ipv4Ends
<1>4. CASE c = "url"
  <2>1. j \in (i + 2)..Len(text) /\ \A p \in (i + 2)..j : text[p] \notin {"_", "<", ">"}
    BY <1>4 DEF Ends, UrlEnds
  <2>1a. j \in (i + 2)..Len(text)
    BY <2>1
  <2>2. j \in (i + 2)..j
    BY <1>0, <2>1a
  <2> QED
    BY <2>1, <2>2
<1>5. CASE c = "obvious_identifier"
  <2>1. PICK k \in (i + 1)..j : \A p \in k..j : text[p] \in Word \cup {".", "@"}
    BY <1>5 DEF Ends, IdentifierEnds
  <2>2. j \in k..j
    BY <1>0
  <2> QED
    BY <2>1, <2>2 DEF Word, Letters
<1> QED
  BY <1>1, <1>2, <1>3, <1>4, <1>5 DEF Categories

-----------------------------------------------------------------------------
(* What matches in r, which text has become, touches a placeholder or is   *)
(* of a category that has left a rest.                                     *)
Masked(r, text) ==
  \A c \in Categories, i \in DOMAIN r : \A j \in Ends(c, r, i) :
    Touched(r, i, j) \/ LeavesRest(text, c)

(* That is so after masking ... *)
LEMMA SanitizedIsMasked ==
  ASSUME NEW text, Clean(text)
  PROVE  /\ Clean(ReplaceNonOverlapping(text, DetectPii(text)))
         /\ Masked(ReplaceNonOverlapping(text, DetectPii(text)), text)
<1> DEFINE r == ReplaceNonOverlapping(text, DetectPii(text))
<1>1. Clean(r) /\ \E n, f : Masks(r, text, n, f)
  BY MaskedIsClean
<1> HIDE DEF r
<1>2. PICK n, f : Masks(r, text, n, f)
  BY <1>1
<1>3. DOMAIN r = 1..n
  BY <1>2 DEF Masks, Substituted
<1>4. Masked(r, text)
  BY <1>2, <1>3, MaskedMatchIsRest DEF Masked
<1> QED
  BY <1>1, <1>4 DEF r

(* ... and stays so when the spaces collapse. *)
LEMMA CollapsedIsMasked ==
  ASSUME NEW text, Clean(text), NEW plain, Masked(text, plain)
  PROVE  Clean(Collapse(text)) /\ Masked(Collapse(text), plain)
<1> DEFINE r == Collapse(text)
<1>1. Clean(r) /\ \E n, f : Collapses(r, text, n, f)
  BY CollapsedIsClean
<1> HIDE DEF r
<1>2. PICK n, f : Collapses(r, text, n, f)
  BY <1>1
<1>3. DOMAIN r = 1..n /\ Len(r) = n /\ n \in Nat
  BY <1>2 DEF Collapses
<1>4. ASSUME NEW i \in 1..n, NEW c \in Categories, NEW j \in Ends(c, r, i)
      PROVE  Touched(r, i, j) \/ LeavesRest(plain, c)
  <2>1. j \in 1..n /\ i < j /\ i \in Int
    <3>1. j \in (i + 1)..Len(r)
      BY <1>3, EndsType
    <3> QED
      BY <1>3, <3>1
  <2>2. NoSpaceAt(r, j)
    BY <1>3, <2>1, EndsSolid DEF NoSpaceAt
  <2>3. Stretched(r, i, j, text, f)
    BY <1>2, <2>1, <2>2, CollapsedStretch
  <2>4. f[j] \in Ends(c, text, f[i])
    BY <2>3, StretchMatch
  <2>5. f[i] \in DOMAIN text
    BY <1>2 DEF Collapses
  <2>6. Touched(text, f[i], f[j]) \/ LeavesRest(plain, c)
    BY <2>4, <2>5 DEF Masked
  <2> QED
    BY <1>2, <2>1, <2>6, CollapsedTouched
<1>5. Masked(r, plain)
  BY <1>3, <1>4 DEF Masked
<1> QED
  BY <1>1, <1>5 DEF r

(* A text that is encoded at most once is left with what masking others    *)
(* has brought out.                                                        *)
LEMMA SanitizeTextIsMasked ==
  ASSUME NEW text \in Seq(Chars), Normal(Normalize(text))
  PROVE  Clean(SanitizeText(text)) /\ Masked(SanitizeText(text), Normalize(text))
<1> DEFINE z == Normalize(text)
<1>0. Spaced(Chars)
  BY CharsAreSpaced
<1>1. Clean(z)
  BY <1>0, NormalizeType DEF Clean
<1>2. SanitizeText(text) = ReplaceNonOverlapping(z, DetectPii(z))
  BY DEF SanitizeText
<1> HIDE DEF z
<1>3. Clean(SanitizeText(text)) /\ Masked(SanitizeText(text), z)
  BY <1>1, <1>2, SanitizedIsMasked
<1> QED
  BY <1>3 DEF z

(* What the detector finds in a normal text is a match there. *)
LEMMA MatchOfClean ==
  ASSUME NEW text, Clean(text), NEW m \in DetectPii(text)
  PROVE  /\ m.start \in DOMAIN text /\ m.category \in Categories
         /\ m.end \in Ends(m.category, text, m.start)
<1>1. PICK c \in Categories : m \in FindIter(c, text)
  BY DetectPiiFinds
<1>2. IsMatch(m, c, text)
  BY <1>1, FindIterFinds DEF Clean
<1> QED
  BY <1>2 DEF IsMatch

(* The truncation of a text, position by position. *)
Prefix(t, text) ==
  /\ Len(t) \in Nat /\ DOMAIN t = 1..Len(t)
  /\ Len(text) \in Nat /\ DOMAIN text = 1..Len(text)
  /\ Len(t) <= Len(text)
  /\ \A i \in 1..Len(t) : t[i] = text[i]

(* Up to its end a prefix has the neighbours of the text. *)
LEMMA PrefixAt ==
  ASSUME NEW t, NEW text, Prefix(t, text), NEW i \in Int, i <= Len(t)
  PROVE  At(t, i) = At(text, i)
<1>1. DOMAIN t = 1..Len(t) /\ DOMAIN text = 1..Len(text)
  BY DEF Prefix
<1>2. i \in 1..Len(t) <=> i \in 1..Len(text)
  <2>1. Len(t) \in Nat /\ Len(text) \in Nat /\ Len(t) <= Len(text)
    BY DEF Prefix
  <2> QED
    BY <2>1
<1>3. CASE i \in 1..Len(t)
  <2>1. t[i] = text[i]
    BY <1>3 DEF Prefix
  <2> QED
    BY <1>1, <1>2, <1>3, <2>1 DEF At
<1>4. CASE i \notin 1..Len(t)
  BY <1>1, <1>2, <1>4 DEF At
<1> QED
  BY <1>3, <1>4

(* A match in the prefix is one in the text, but for one that is cut off.  *)
LEMMA PrefixMatch ==
  ASSUME NEW t, NEW text, Prefix(t, text), NEW c \in Categories,
         NEW i \in 1..Len(t), NEW j \in Ends(c, t, i), At(t, j + 1) = At(text, j + 1)
  PROVE  j \in Ends(c, text, i)
<1>1. Len(t) \in Nat /\ Len(text) \in Nat /\ Len(t) <= Len(text) /\ DOMAIN text = 1..Len(text)
  BY DEF Prefix
<1>2. j \in (i + 1)..Len(t)
  BY <1>1, EndsType
<1> DEFINE g == [k \in i..j |-> k]
<1>3. i \in Int /\ j \in Int /\ i < j /\ i \in i..j /\ j \in i..j
  BY <1>1, <1>2
<1>4. \A k \in i..j : g[k] = k
  OBVIOUS
<1> HIDE DEF g
<1>5. \A k \in i..j : k \in 1..Len(t) /\ k \in 1..Len(text) /\ k \in Int
  BY <1>1, <1>2
<1>6. \A k \in i..j : text[k] = t[k]
  BY <1>5 DEF Prefix
<1>7. At(t, i - 1) = At(text, i - 1)
  <2>1. i - 1 \in Int /\ i - 1 <= Len(t)
    BY <1>1, <1>2
  <2> QED
    BY <2>1, PrefixAt
<1>8. \A k \in i..(j - 1) : g[k + 1] = g[k] + 1
  <2> TAKE k \in i..(j - 1)
  <2>1. k \in i..j /\ k + 1 \in i..j
    BY <1>3
  <2> QED
    BY <1>4, <2>1
<1>9. g[i] = i /\ g[j] = j
  BY <1>3, <1>4
<1>10. Stretched(t, i, j, text, g)
  BY <1>1, <1>3, <1>4, <1>5, <1>6, <1>7, <1>8, <1>9 DEF Stretched, Fits
<1> QED
  BY <1>9, <1>10, StretchMatch

(* A placeholder that touches it is in the prefix. *)
LEMMA PrefixTouched ==
  ASSUME NEW t, NEW text, Prefix(t, text), NEW i \in Int, NEW j \in Int, j <= Len(t),
         At(t, j + 1) = At(text, j + 1), Touched(text, i, j)
  PROVE  Touched(t, i, j)
<1>1. PICK p \in (i - 1)..(j + 1) : At(text, p) = Placeholder
  BY DEF Touched
<1>2. Len(t) \in Nat
  BY DEF Prefix
<1>3. At(t, p) = At(text, p)
  <2>1. CASE p = j + 1
    BY <2>1
  <2>2. CASE p # j + 1
    <3>1. p \in Int /\ p <= Len(t)
      BY <1>2, <2>2
    <3> QED
      BY <3>1, PrefixAt
  <2> QED
    BY <2>1, <2>2
<1> QED
  BY <1>1, <1>3 DEF Touched

(* A prefix of a normal text is normal: what follows a last ampersand is   *)
(* cut off.                                                                *)
LEMMA PrefixIsClean ==
  ASSUME NEW t \in Seq(Chars), NEW text, Prefix(t, text), Clean(text)
  PROVE  Clean(t)
<1>1. Len(t) \in Nat /\ DOMAIN t = 1..Len(t) /\ DOMAIN text = 1..Len(text)
  BY DEF Prefix
<1>2. ASSUME NEW i \in DOMAIN t PROVE t[i] # "n" /\ ~Encodes(t, i)
  <2>0. i \in DOMAIN text /\ text[i] = t[i]
    <3>1. i \in 1..Len(t) /\ Len(t) \in Nat /\ Len(text) \in Nat /\ Len(t) <= Len(text)
      BY <1>1 DEF Prefix
    <3>2. i \in 1..Len(text)
      BY <3>1
    <3> QED
      BY <1>1, <3>1, <3>2 DEF Prefix
  <2>1. text[i] # "n" /\ ~Encodes(text, i)
    BY <2>0 DEF Clean, Normal
  <2>2. CASE i + 1 <= Len(t)
    <3>1. At(t, i + 1) = At(text, i + 1)
      BY <1>1, <2>2, PrefixAt
    <3> QED
      BY <2>0, <2>1, <3>1 DEF Encodes
  <2>3. CASE ~(i + 1 <= Len(t))
    <3>1. At(t, i + 1) = "end"
      BY <1>1, <2>3 DEF At
    <3> QED
      BY <2>0, <2>1, <3>1 DEF Encodes, Characters
  <2> QED
    BY <2>2, <2>3
<1> QED
  BY <1>2 DEF Clean, Normal

(* The truncation is a prefix, and a proper one only at its bound. *)
LEMMA TruncatedIsPrefix ==
  ASSUME NEW text \in Seq(Chars)
  PROVE  /\ Prefix(Truncated(text), text)
         /\ Len(Truncated(text)) = Len(text) \/ (Len(Truncated(text)) = MaxTextChars
                                                 /\ MaxTextChars < Len(text))
<1> DEFINE t == Truncated(text)
<1>1. /\ t \in Seq(Chars)
      /\ Len(t) = IF Len(text) < MaxTextChars THEN Len(text) ELSE MaxTextChars
      /\ \A i \in 1..Len(t) : t[i] = text[i]
  BY TruncatedType
<1> HIDE DEF t
<1>2. Len(t) \in Nat /\ DOMAIN t = 1..Len(t) /\ Len(text) \in Nat /\ DOMAIN text = 1..Len(text)
  BY <1>1
<1>3. Len(t) <= Len(text)
  BY <1>1, <1>2, BoundsAssumption
<1>4. Len(t) = Len(text) \/ (Len(t) = MaxTextChars /\ MaxTextChars < Len(text))
  <2> DEFINE a == Len(t)
             b == Len(text)
  <2>1. a \in Int /\ b \in Int /\ MaxTextChars \in Int
    BY <1>2, BoundsAssumption
  <2>2. a = IF b < MaxTextChars THEN b ELSE MaxTextChars
    BY <1>1
  <2> HIDE DEF a, b
  <2>3. a = b \/ (a = MaxTextChars /\ MaxTextChars < b)
    BY <2>1, <2>2
  <2> QED
    BY <2>3 DEF a, b
<1>5. Prefix(t, text)
  BY <1>1, <1>2, <1>3 DEF Prefix
<1> QED
  BY <1>4, <1>5 DEF t

-----------------------------------------------------------------------------
(* A row that was encoded at most once and has no letter that is another   *)
(* text when it is small.                                                  *)
LEMMA RowResidual ==
  ASSUME NEW record \in RecordSet, ~Nested(RawText(record)),
         Lower(SanitizeText(RawText(record))) = SanitizeText(RawText(record)),
         NEW m \in DetectPii(Truncated(CleanedText(record)))
  PROVE  \/ m.end = MaxTextChars /\ m.end < Len(CleanedText(record))
         \/ TouchesPlaceholder(Truncated(CleanedText(record)), m)
         \/ LeavesRest(Normalize(RawText(record)), m.category)
<1> DEFINE raw == RawText(record)
           plain == Normalize(raw)
           cleaned == CleanedText(record)
           t == Truncated(cleaned)
<1>1. raw \in Seq(Characters) /\ cleaned \in Seq(Chars)
  BY CleanedTextType
<1>2. Normal(plain) /\ raw \in Seq(Chars)
  <2> HIDE DEF raw
  <2> QED
    BY <1>1, NotNested DEF Chars, raw
<1>3. cleaned = Collapse(SanitizeText(raw))
  BY DEF CleanedText
<1> HIDE DEF raw, cleaned
<1>4. Clean(cleaned) /\ Masked(cleaned, plain)
  <2>1. Clean(SanitizeText(raw)) /\ Masked(SanitizeText(raw), plain)
    BY <1>2, SanitizeTextIsMasked
  <2> HIDE DEF plain
  <2> QED
    BY <1>3, <2>1, CollapsedIsMasked
<1> HIDE DEF plain
<1>5. t \in Seq(Chars)
  BY <1>1, TruncatedType
<1>6. Prefix(t, cleaned)
  BY <1>1, TruncatedIsPrefix
<1>7. Len(t) = Len(cleaned) \/ (Len(t) = MaxTextChars /\ MaxTextChars < Len(cleaned))
  BY <1>1, TruncatedIsPrefix
<1>8. m \in DetectPii(t)
  BY DEF cleaned
<1> HIDE DEF t
<1>9. Clean(t)
  BY <1>4, <1>5, <1>6, PrefixIsClean
<1> DEFINE c == m.category
           i == m.start
           j == m.end
<1>10. i \in DOMAIN t /\ c \in Categories /\ j \in Ends(c, t, i)
  BY <1>8, <1>9, MatchOfClean
<1>11. /\ Len(t) \in Nat /\ DOMAIN t = 1..Len(t)
       /\ Len(cleaned) \in Nat /\ DOMAIN cleaned = 1..Len(cleaned)
       /\ Len(t) <= Len(cleaned)
  BY <1>6 DEF Prefix
<1>12. Normalize(t) = t
  BY <1>9, NormalIsFixed, CharsAreSpaced DEF Clean
<1> HIDE DEF i, j, c
<1>13. i \in 1..Len(t) /\ i \in Int /\ j \in (i + 1)..Len(t) /\ j \in Int /\ j <= Len(t)
  <2>1. i \in 1..Len(t) /\ i \in Int
    BY <1>10, <1>11
  <2>2. j \in (i + 1)..Len(t)
    BY <1>10, <1>11, <2>1, EndsType
  <2> QED
    BY <1>11, <2>1, <2>2
<1>14. CASE At(t, j + 1) = At(cleaned, j + 1)
  <2>1. j \in Ends(c, cleaned, i)
    BY <1>6, <1>10, <1>13, <1>14, PrefixMatch
  <2>2. i \in DOMAIN cleaned
    BY <1>11, <1>13
  <2>3. Touched(cleaned, i, j) \/ LeavesRest(plain, c)
    BY <1>4, <1>10, <2>1, <2>2 DEF Masked
  <2>4. Touched(t, i, j) \/ LeavesRest(plain, c)
    BY <1>6, <1>13, <1>14, <2>3, PrefixTouched
  <2>5. TouchesPlaceholder(t, m) \/ LeavesRest(plain, c)
    BY <1>12, <2>4 DEF Touched, TouchesPlaceholder, i, j
  <2> QED
    BY <2>5 DEF t, cleaned, plain, raw, c
<1>15. CASE At(t, j + 1) # At(cleaned, j + 1)
  <2>1. j = Len(t)
    <3>1. ~(j + 1 <= Len(t))
      BY <1>6, <1>13, <1>15, PrefixAt
    <3> DEFINE l == Len(t)
    <3>2. l \in Int /\ j <= l /\ ~(j + 1 <= l) /\ j \in Int
      BY <1>11, <1>13, <3>1
    <3> HIDE DEF l
    <3>3. j = l
      BY <3>2
    <3> QED
      BY <3>3 DEF l
  <2>2. Len(t) # Len(cleaned)
    <3>1. ASSUME Len(t) = Len(cleaned) PROVE FALSE
      <4>1. j + 1 \notin 1..Len(t) /\ j + 1 \notin 1..Len(cleaned)
        BY <1>11, <2>1, <3>1
      <4> QED
        BY <1>11, <1>15, <4>1 DEF At
    <3> QED
      BY <3>1
  <2>3. j = MaxTextChars /\ j < Len(cleaned)
    BY <1>7, <2>1, <2>2
  <2> QED
    BY <2>3 DEF j, cleaned
<1> QED
  BY <1>14, <1>15

(* So for every row of the dataset. *)
LEMMA DatasetResidual ==
  ASSUME ResultsAreComputed
  PROVE  DatasetResidualHasACause
<1>1. source \in Records
  BY SourceType DEF ResultsAreComputed
<1> SUFFICES ASSUME NEW k \in DOMAIN source,
                    NEW m \in DetectPii(Truncated(CleanedText(source[k]))),
                    ~Nested(RawText(source[k])),
                    Lower(SanitizeText(RawText(source[k]))) = SanitizeText(RawText(source[k]))
             PROVE  \/ m.end = MaxTextChars /\ m.end < Len(CleanedText(source[k]))
                    \/ TouchesPlaceholder(Truncated(CleanedText(source[k])), m)
                    \/ LeavesRest(Normalize(RawText(source[k])), m.category)
  BY DEF DatasetResidualHasACause
<1>2. source[k] \in RecordSet
  BY <1>1 DEF Records
<1> QED
  BY <1>2, RowResidual

-----------------------------------------------------------------------------
(* A tag that is replaced by a space leaves a normal text, and so does     *)
(* stripping its ends.                                                     *)
LEMMA StripTagsIsClean ==
  ASSUME NEW text, Clean(text)
  PROVE  Clean(StripTags(text))
<1> DEFINE ends == [i \in DOMAIN text |->
                      IF i \in Unencoded(text, "<") /\ At(text, i + 1) \in Letters
                      THEN {j \in Unencoded(text, ">") : j > i + 1} ELSE {}]
           r == StripTags(text)
<1>1. text \in Seq(Chars) /\ Normal(text) /\ DOMAIN text = 1..Len(text)
  BY DEF Clean
<1>2. r = Substitute(text, ends, "_")
  BY DEF StripTags
<1>3. \A i \in DOMAIN text :
        ends[i] = IF i \in Unencoded(text, "<") /\ At(text, i + 1) \in Letters
                  THEN {j \in Unencoded(text, ">") : j > i + 1} ELSE {}
  OBVIOUS
<1>4. \A i \in DOMAIN text : ends[i] # {} => text[i] \in Characters \ {"&"}
  BY <1>3 DEF Unencoded, Characters
<1>5. \A i \in DOMAIN text : \A j \in ends[i] : j \in DOMAIN text /\ j > i + 1
  BY <1>3 DEF Unencoded
<1>6. \A i \in DOMAIN text : \A j \in ends[i] : i <= j
  BY <1>1, <1>5
<1>7. ends \in [DOMAIN text -> SUBSET (DOMAIN text)]
  BY <1>5
<1>8. "_" \in Chars /\ "_" \notin {"&", "n"}
  BY DEF Chars, Characters
<1> HIDE DEF ends, r
<1>9. /\ r \in Seq(Chars)
      /\ \E n, f : n \in Nat /\ Substituted(r, text, ends, "_", n, f)
  BY <1>1, <1>2, <1>6, <1>7, <1>8, SubstituteTraced
<1>10. PICK n, f : n \in Nat /\ Substituted(r, text, ends, "_", n, f)
  BY <1>9
<1>11. Normal(r)
  BY <1>1, <1>4, <1>8, <1>10, SubstituteNormal
<1> QED
  BY <1>9, <1>11 DEF Clean, r

(* Stripping its ends leaves a normal text too. *)
LEMMA StripIsClean ==
  ASSUME NEW text, Clean(text)
  PROVE  Clean(Strip(text))
<1> DEFINE P == {i \in DOMAIN text : \E j, k \in Solid(text) : j <= i /\ i <= k}
<1>1. Solid(text) = {i \in DOMAIN text : text[i] # "_"}
  BY SolidOfNormal
<1>2. DOMAIN text = 1..Len(text)
  BY DEF Clean
<1>3. DropsSpaces(text, P)
  <2>1. ASSUME NEW q \in DOMAIN text, text[q] # "_" PROVE q \in P
    <3>1. q \in Solid(text)
      BY <1>1, <2>1
    <3>2. q \in Int
      BY <1>2
    <3>3. q <= q
      BY <3>2
    <3> QED
      BY <3>1, <3>3
  <2> QED
    BY <2>1 DEF DropsSpaces
<1>4. Strip(text) = Keep(text, P)
  BY DEF Strip
<1> HIDE DEF P
<1> QED
  BY <1>3, <1>4, KeepClean

(* The guard looks at a text that has been masked twice; the second        *)
(* masking starts from a normal text, tags and ends gone.                  *)
LEMMA GuardResidual ==
  ASSUME ResultsAreComputed
  PROVE  GuardResidualHasACause
<1>1. source \in Records
  BY SourceType DEF ResultsAreComputed
<1> SUFFICES ASSUME guard = "blocked"
             PROVE  \E k \in DOMAIN source, field \in {"summary", "details"} :
                      LET text == TextOf(source[k], field)
                          guarded == GuardedText(text)
                      IN \E m \in DetectPii(guarded) :
                           \/ Nested(Normalize(Strip(text)))
                           \/ TouchesPlaceholder(guarded, m)
                           \/ LeavesRest(SanitizeProviderText(text), m.category)
  BY DEF GuardResidualHasACause
<1>2. ~GuardPasses
  BY DEF ResultsAreComputed, GuardIsComputed
<1>3. PICK k \in DOMAIN source, field \in {"summary", "details"} :
        ~NoResidualPii(GuardedText(TextOf(source[k], field)))
  BY <1>2 DEF GuardPasses
<1> DEFINE text == TextOf(source[k], field)
           guarded == GuardedText(text)
           y == Normalize(Strip(text))
           p == SanitizeProviderText(text)
<1>4. text \in Seq(Characters)
  BY <1>1, TextOfType DEF Records
<1>5. PICK m \in DetectPii(guarded) : TRUE
  BY <1>3 DEF NoResidualPii
<1> HIDE DEF text
<1>6. y \in Seq(Characters)
  <2>1. Strip(text) \in Seq(Characters) /\ Spaced(Characters)
    BY <1>4, KeepLists, CharsAreSpaced DEF Strip
  <2> QED
    BY <2>1, NormalizeType
<1>7. p = Strip(StripTags(SanitizeText(y))) /\ guarded = SanitizeText(p)
  BY DEF SanitizeProviderText, GuardedText
<1> HIDE DEF y, p, guarded
<1>8. ASSUME ~Nested(y)
      PROVE  TouchesPlaceholder(guarded, m) \/ LeavesRest(p, m.category)
  <2>0. Spaced(Chars)
    BY CharsAreSpaced
  <2>1. Normal(Normalize(y)) /\ y \in Seq(Chars)
    BY <1>6, <1>8, NotNested DEF Chars
  <2>2. Clean(SanitizeText(y))
    BY <2>1, SanitizeTextIsMasked
  <2>3. Clean(p)
    BY <1>7, <2>2, StripTagsIsClean, StripIsClean
  <2>4. p \in Seq(Chars) /\ Normal(p) /\ Normalize(p) = p
    <3>1. p \in Seq(Chars) /\ Normal(p)
      BY <2>3 DEF Clean
    <3> QED
      BY <2>0, <3>1, NormalIsFixed
  <2>5. Clean(guarded) /\ Masked(guarded, p)
    <3>1. Clean(SanitizeText(p)) /\ Masked(SanitizeText(p), Normalize(p))
      BY <2>4, SanitizeTextIsMasked
    <3> QED
      BY <1>7, <2>4, <3>1
  <2>6. Normalize(guarded) = guarded
    BY <2>0, <2>5, NormalIsFixed DEF Clean
  <2>7. /\ m.start \in DOMAIN guarded /\ m.category \in Categories
        /\ m.end \in Ends(m.category, guarded, m.start)
    BY <1>5, <2>5, MatchOfClean
  <2>8. Touched(guarded, m.start, m.end) \/ LeavesRest(p, m.category)
    BY <2>5, <2>7 DEF Masked
  <2> QED
    BY <2>6, <2>8 DEF Touched, TouchesPlaceholder
<1> QED
  BY <1>5, <1>8 DEF text, guarded, y, p

(* Texts of any length: personal data is left in a row, or in a text that  *)
(* blocks a page, only for one of the causes the model names (pii.py       *)
(* sanitize_text, transforms.py, sanitizers.py).                           *)
THEOREM ResidualPiiAlwaysHasACause == Spec => []ResidualPiiHasACause
<1>1. ResultsAreComputed => ResidualPiiHasACause
  BY DatasetResidual, GuardResidual DEF ResidualPiiHasACause
<1> QED
  BY <1>1, DatasetResults, PTL

-----------------------------------------------------------------------------
(* Where matches start, and what they cover. *)
Starts(text) == {i \in DOMAIN text : ~Free(MatchEnds(text), i)}
Covered(text) == UNION {m.start..m.end : m \in DetectPii(text)}

(* The positions of text that the substitution has visited and not         *)
(* replaced.                                                               *)
Left(text, n, f) == {f[k] : k \in 1..n} \ Starts(text)

(* A match lies in the text. *)
LEMMA MatchBounds ==
  ASSUME NEW text, Clean(text), NEW m \in DetectPii(text)
  PROVE  m.start \in 1..Len(text) /\ m.end \in 1..Len(text) /\ m.start < m.end
<1>1. Len(text) \in Nat /\ DOMAIN text = 1..Len(text)
  BY DEF Clean
<1>2. m.start \in DOMAIN text /\ m.category \in Categories
      /\ m.end \in Ends(m.category, text, m.start)
  BY MatchOfClean
<1>3. m.start \in 1..Len(text) /\ m.start \in Int
  BY <1>1, <1>2
<1>4. m.end \in (m.start + 1)..Len(text)
  BY <1>1, <1>2, <1>3, EndsType
<1> QED
  BY <1>1, <1>3, <1>4

(* A match that is found starts at a start ... *)
LEMMA StartsOfMatches ==
  ASSUME NEW text, Clean(text), NEW m \in DetectPii(text)
  PROVE  m.start \in Starts(text)
<1>1. PICK c \in Categories : m \in FindIter(c, text)
  BY DetectPiiFinds
<1>2. ~Free(MatchEnds(text), m.start)
  BY <1>1, MatchEndsAre
<1>3. m.start \in DOMAIN text
  BY MatchOfClean
<1> QED
  BY <1>2, <1>3 DEF Starts

(* The replacement of a start ends where one of its matches ends. *)
EndsMatch(text, i, e) ==
  \E m \in DetectPii(text) : m.start = i /\ m.end = e

(* ... and at a start one is found that ends where the replacement does. *)
LEMMA StartEndsMatch ==
  ASSUME NEW text, Clean(text), NEW i \in Starts(text)
  PROVE  EndsMatch(text, i, Min(MatchEnds(text)[i]))
<1>1. i \in DOMAIN text /\ MatchEnds(text)[i] # {}
  BY DEF Starts, Free
<1>2. MatchEnds(text)[i] \in SUBSET Nat
  <2>1. MatchEnds(text)[i] \in SUBSET (DOMAIN text)
    BY <1>1, MatchEndsAre
  <2>2. DOMAIN text = 1..Len(text)
    BY DEF Clean
  <2> QED
    BY <2>1, <2>2
<1>3. Min(MatchEnds(text)[i]) \in MatchEnds(text)[i]
  BY <1>1, <1>2, MinExists
<1>4. MatchEnds(text)[i] = {m.end : m \in {n \in DetectPii(text) : n.start = i}}
  BY <1>1 DEF MatchEnds
<1> QED
  BY <1>3, <1>4 DEF EndsMatch

(* A visited position that is no start, and the end of one that is. *)
LEMMA AfterFree ==
  ASSUME NEW text, NEW v \in DOMAIN text, v \notin Starts(text)
  PROVE  After(MatchEnds(text), v) = v + 1
BY DEF Starts, Free, After

(* The walk goes on behind the match it has replaced. *)
LEMMA AfterStart ==
  ASSUME NEW text, Clean(text), NEW v \in Starts(text)
  PROVE  \E m \in DetectPii(text) : m.start = v /\ After(MatchEnds(text), v) = m.end + 1
<1> DEFINE e == Min(MatchEnds(text)[v])
<1>1. PICK m \in DetectPii(text) : m.start = v /\ m.end = e
  BY StartEndsMatch DEF EndsMatch
<1>2. After(MatchEnds(text), v) = e + 1
  BY DEF Starts, Free, After
<1> HIDE DEF e
<1> QED
  BY <1>1, <1>2

(* What no match covers is left. *)
LEMMA UncoveredIsLeft ==
  ASSUME NEW text, NEW r, NEW n, NEW f, Masks(r, text, n, f)
  PROVE  DOMAIN text \ Covered(text) \subseteq Left(text, n, f)
<1>1. Clean(text) /\ DOMAIN text = 1..Len(text)
  BY DEF Masks, Substituted
<1> SUFFICES ASSUME NEW s \in 1..Len(text), s \notin Covered(text)
             PROVE  s \in Left(text, n, f)
  BY <1>1
<1>2. PICK k \in 1..n : f[k] <= s /\ s < After(MatchEnds(text), f[k])
  BY <1>1 DEF Masks, Substituted
<1>3. f[k] \in 1..Len(text)
  BY <1>1 DEF Masks, Substituted
<1>4. s \notin Starts(text)
  <2>1. ASSUME s \in Starts(text) PROVE FALSE
    <3>1. PICK m \in DetectPii(text) : m.start = s
      BY <1>1, <2>1, StartEndsMatch DEF EndsMatch
    <3>2. m.start \in 1..Len(text) /\ m.end \in 1..Len(text) /\ m.start < m.end
      BY <1>1, MatchBounds
    <3>3. s \in m.start..m.end
      BY <3>1, <3>2
    <3> QED
      BY <3>3 DEF Covered
  <2> QED
    BY <2>1
<1>5. f[k] \notin Starts(text)
  <2>1. ASSUME f[k] \in Starts(text) PROVE FALSE
    <3>1. PICK m \in DetectPii(text) :
            m.start = f[k] /\ After(MatchEnds(text), f[k]) = m.end + 1
      BY <1>1, <2>1, AfterStart
    <3>2. m.start \in 1..Len(text) /\ m.end \in 1..Len(text)
      BY <1>1, MatchBounds
    <3>3. s \in m.start..m.end
      BY <1>2, <3>1, <3>2
    <3> QED
      BY <3>3 DEF Covered
  <2> QED
    BY <2>1
<1>6. After(MatchEnds(text), f[k]) = f[k] + 1
  BY <1>1, <1>3, <1>5, AfterFree
<1>7. s = f[k]
  BY <1>2, <1>3, <1>6
<1> QED
  BY <1>4, <1>7 DEF Left

(* Where the matches do not overlap, every start is visited, and nothing   *)
(* that a match covers is left.                                            *)
LEMMA StartIsVisited ==
  ASSUME NEW text, NEW r, NEW n, NEW f, Masks(r, text, n, f), Disjoint(DetectPii(text)),
         NEW m \in DetectPii(text)
  PROVE  \E k \in 1..n : f[k] = m.start /\ After(MatchEnds(text), f[k]) = m.end + 1
<1>1. Clean(text) /\ DOMAIN text = 1..Len(text)
  BY DEF Masks, Substituted
<1>2. m.start \in 1..Len(text) /\ m.end \in 1..Len(text) /\ m.start < m.end
  BY <1>1, MatchBounds
<1>3. PICK k \in 1..n : f[k] <= m.start /\ m.start < After(MatchEnds(text), f[k])
  BY <1>1, <1>2 DEF Masks, Substituted
<1>4. f[k] \in 1..Len(text)
  BY <1>1 DEF Masks, Substituted
<1>5. f[k] \in Starts(text)
  <2>1. ASSUME f[k] \notin Starts(text) PROVE FALSE
    <3>1. After(MatchEnds(text), f[k]) = f[k] + 1
      BY <1>1, <1>4, <2>1, AfterFree
    <3>2. f[k] = m.start
      BY <1>2, <1>3, <1>4, <3>1
    <3> QED
      BY <1>1, <2>1, <3>2, StartsOfMatches
  <2> QED
    BY <2>1
<1>6. PICK p \in DetectPii(text) :
        p.start = f[k] /\ After(MatchEnds(text), f[k]) = p.end + 1
  BY <1>1, <1>5, AfterStart
<1>7. p.start \in 1..Len(text) /\ p.end \in 1..Len(text) /\ p.start < p.end
  BY <1>1, MatchBounds
<1>8. p.start <= m.start /\ m.start <= p.end
  BY <1>2, <1>3, <1>6, <1>7
<1>9. p = m
  <2>1. ASSUME p # m PROVE FALSE
    <3>1. p.end < m.start \/ m.end < p.start
      BY <2>1 DEF Disjoint
    <3> QED
      BY <1>2, <1>7, <1>8, <3>1
  <2> QED
    BY <2>1
<1> QED
  BY <1>6, <1>9

(* So what is left is what no match covers. *)
LEMMA LeftIsUncovered ==
  ASSUME NEW text, NEW r, NEW n, NEW f, Masks(r, text, n, f), Disjoint(DetectPii(text))
  PROVE  Left(text, n, f) = DOMAIN text \ Covered(text)
<1>1. Clean(text) /\ DOMAIN text = 1..Len(text) /\ n \in Nat
  BY DEF Masks, Substituted
<1>2. \A k \in 1..n : f[k] \in 1..Len(text)
  BY <1>1 DEF Masks, Substituted
<1>3. ASSUME NEW v \in Left(text, n, f), v \in Covered(text) PROVE FALSE
  <2>1. PICK k \in 1..n : f[k] = v
    BY DEF Left
  <2>2. PICK m \in DetectPii(text) : v \in m.start..m.end
    BY <1>3 DEF Covered
  <2>3. m.start \in 1..Len(text) /\ m.end \in 1..Len(text) /\ m.start < m.end
    BY <1>1, MatchBounds
  <2>4. PICK l \in 1..n : f[l] = m.start /\ After(MatchEnds(text), f[l]) = m.end + 1
    BY StartIsVisited
  <2>5. v # m.start
    BY <1>1, StartsOfMatches DEF Left
  <2>6. v \in Int /\ m.start < v /\ v <= m.end
    BY <2>2, <2>3, <2>5
  <2>7. f[l] < f[k]
    BY <2>1, <2>4, <2>6
  <2>8. l < k
    BY <2>7 DEF Masks, Substituted
  <2>9. l # n /\ l + 1 \in 1..n /\ (l + 1 = k \/ l + 1 < k)
    BY <1>1, <2>8
  <2>10. After(MatchEnds(text), f[l]) = f[l + 1]
    BY <2>9 DEF Masks, Substituted
  <2>11. f[l + 1] = f[k] \/ f[l + 1] < f[k]
    BY <2>9 DEF Masks, Substituted
  <2>12. m.end + 1 = v \/ m.end + 1 < v
    BY <2>1, <2>4, <2>10, <2>11
  <2> QED
    BY <2>3, <2>6, <2>12
<1>4. Left(text, n, f) \subseteq DOMAIN text
  BY <1>1, <1>2 DEF Left
<1> QED
  BY <1>3, <1>4, UncoveredIsLeft

-----------------------------------------------------------------------------
(* A provider text has no placeholder of its own. *)
Unmarked(text) == \A i \in DOMAIN text : text[i] # Placeholder

(* The positions of the result that hold no placeholder come from those    *)
(* that are left.                                                          *)
Others(r) == {i \in DOMAIN r : r[i] # Placeholder}

(* A placeholder stands for a start, and only for a start. *)
LEMMA MarksAreStarts ==
  ASSUME NEW text, NEW r, NEW n, NEW f, Masks(r, text, n, f), Unmarked(text), NEW k \in 1..n
  PROVE  r[k] # Placeholder <=> f[k] \notin Starts(text)
<1>1. f[k] \in DOMAIN text
  BY DEF Masks, Substituted
<1>2. r[k] = IF MatchEnds(text)[f[k]] = {} THEN text[f[k]] ELSE Placeholder
  BY DEF Masks, Substituted
<1>3. text[f[k]] # Placeholder
  BY <1>1 DEF Unmarked
<1> QED
  BY <1>1, <1>2, <1>3 DEF Starts, Free

(* The positions without a placeholder, followed back, list what is left   *)
(* in order.                                                               *)
LEMMA LeftListed ==
  ASSUME NEW text, NEW r, NEW n, NEW f, Masks(r, text, n, f), Unmarked(text),
         NEW l, NEW g, Lists(g, l, Others(r))
  PROVE  Lists([k \in 1..l |-> f[g[k]]], l, Left(text, n, f))
<1> DEFINE h == [k \in 1..l |-> f[g[k]]]
<1>1. DOMAIN r = 1..n
  BY DEF Masks, Substituted
<1>2. \A k \in 1..n : f[k] \in Int
  <2>1. DOMAIN text = 1..Len(text) /\ \A k \in 1..n : f[k] \in DOMAIN text
    BY DEF Masks, Substituted
  <2> QED
    BY <2>1
<1>3. \A j, k \in 1..n : f[j] < f[k] <=> j < k
  BY DEF Masks, Substituted
<1>4. l \in Nat /\ \A k \in 1..l : g[k] \in Others(r)
  BY DEF Lists
<1>5. \A k \in 1..l : g[k] \in 1..n /\ r[g[k]] # Placeholder
  BY <1>1, <1>4 DEF Others
<1>6. \A j, k \in 1..l : j < k => g[j] < g[k]
  BY DEF Lists
<1>7. \A k \in 1..l : h[k] = f[g[k]]
  OBVIOUS
<1>8. DOMAIN h = 1..l
  OBVIOUS
<1>9. h = [k \in 1..l |-> h[k]]
  OBVIOUS
<1> HIDE DEF h
<1>10. \A k \in 1..l : h[k] \in Left(text, n, f)
  <2> TAKE k \in 1..l
  <2>1. g[k] \in 1..n /\ r[g[k]] # Placeholder
    BY <1>5
  <2>2. f[g[k]] \notin Starts(text)
    BY <2>1, MarksAreStarts
  <2> QED
    BY <1>7, <2>1, <2>2 DEF Left
<1>11. \A p \in Left(text, n, f) : \E k \in 1..l : h[k] = p
  <2> TAKE p \in Left(text, n, f)
  <2>1. PICK i \in 1..n : f[i] = p /\ p \notin Starts(text)
    BY DEF Left
  <2>2. r[i] # Placeholder
    BY <2>1, MarksAreStarts
  <2>3. i \in Others(r)
    BY <1>1, <2>2 DEF Others
  <2>4. PICK k \in 1..l : g[k] = i
    BY <2>3 DEF Lists
  <2> QED
    BY <1>7, <2>1, <2>4
<1>12. \A j, k \in 1..l : j < k => h[j] < h[k]
  <2> TAKE j, k \in 1..l
  <2>1. ASSUME j < k PROVE h[j] < h[k]
    <3>1. g[j] < g[k] /\ g[j] \in 1..n /\ g[k] \in 1..n
      BY <1>5, <1>6, <2>1
    <3>2. f[g[j]] < f[g[k]]
      BY <1>3, <3>1
    <3> QED
      BY <1>7, <3>2
  <2> QED
    BY <2>1
<1>13. Left(text, n, f) \subseteq Int
  BY <1>2 DEF Left
<1>14. h \in [1..l -> Left(text, n, f)]
  BY <1>8, <1>9, <1>10
<1>15. Lists(h, l, Left(text, n, f))
  BY <1>4, <1>11, <1>12, <1>13, <1>14 DEF Lists
<1> QED
  BY <1>15 DEF h

(* What is kept of the result, and how it lists what is left. *)
KeptOf(r) == Keep(r, Others(r))
UncoveredOf(text) == Keep(text, DOMAIN text \ Covered(text))

(* What is kept of the result stands at what is left of the text. *)
LEMMA KeptOfLists ==
  ASSUME NEW text, NEW r \in Seq(Chars), NEW n, NEW f, Masks(r, text, n, f), Unmarked(text)
  PROVE  \E h : /\ Lists(h, Len(KeptOf(r)), Left(text, n, f))
                /\ \A k \in 1..Len(KeptOf(r)) : KeptOf(r)[k] = text[h[k]]
<1>1. PICK l, g : l \in Nat /\ Holds(KeptOf(r), r, Others(r), l, g)
  BY KeepLists DEF KeptOf
<1>2. Others(r) \cap DOMAIN r = Others(r)
  BY DEF Others
<1>3. Lists(g, l, Others(r)) /\ Len(KeptOf(r)) = l
  BY <1>1, <1>2 DEF Holds
<1> DEFINE h == [k \in 1..l |-> f[g[k]]]
<1>4. Lists(h, l, Left(text, n, f))
  <2>1. Lists([k \in 1..l |-> f[g[k]]], l, Left(text, n, f))
    BY <1>3, LeftListed
  <2> QED
    BY <2>1
<1>5. \A k \in 1..l : h[k] = f[g[k]]
  OBVIOUS
<1> HIDE DEF h
<1>6. \A k \in 1..l : KeptOf(r)[k] = text[h[k]]
  <2> TAKE k \in 1..l
  <2>1. g[k] \in Others(r) /\ KeptOf(r)[k] = r[g[k]]
    BY <1>1 DEF Holds
  <2>2. g[k] \in 1..n /\ r[g[k]] # Placeholder
    BY <2>1 DEF Others, Masks, Substituted
  <2>3. r[g[k]] = text[f[g[k]]]
    BY <2>2 DEF Masks, Substituted
  <2> QED
    BY <1>5, <2>1, <2>3
<1> QED
  BY <1>3, <1>4, <1>6

(* What is not covered stands where no match covers. *)
LEMMA UncoveredLists ==
  ASSUME NEW text \in Seq(Chars)
  PROVE  \E h : /\ Lists(h, Len(UncoveredOf(text)), DOMAIN text \ Covered(text))
                /\ \A k \in 1..Len(UncoveredOf(text)) : UncoveredOf(text)[k] = text[h[k]]
<1> DEFINE U == DOMAIN text \ Covered(text)
<1>1. U \cap DOMAIN text = U
  OBVIOUS
<1>2. UncoveredOf(text) = Keep(text, U)
  BY DEF UncoveredOf
<1> HIDE DEF U
<1>3. PICK l, g : l \in Nat /\ Holds(UncoveredOf(text), text, U, l, g)
  BY <1>2, KeepLists
<1>4. Lists(g, l, U) /\ Len(UncoveredOf(text)) = l
  BY <1>1, <1>3 DEF Holds
<1>5. \A k \in 1..l : UncoveredOf(text)[k] = text[g[k]]
  BY <1>3 DEF Holds
<1> QED
  BY <1>4, <1>5 DEF U

(* Without overlaps, just what no match covers is left ... *)
LEMMA DisjointKept ==
  ASSUME NEW text, NEW r \in Seq(Chars), NEW n, NEW f, Masks(r, text, n, f), Unmarked(text),
         Disjoint(DetectPii(text))
  PROVE  KeptOf(r) = UncoveredOf(text)
<1>1. text \in Seq(Chars)
  BY DEF Masks, Clean
<1>2. PICK g : /\ Lists(g, Len(KeptOf(r)), Left(text, n, f))
               /\ \A k \in 1..Len(KeptOf(r)) : KeptOf(r)[k] = text[g[k]]
  BY KeptOfLists
<1>3. PICK h : /\ Lists(h, Len(UncoveredOf(text)), DOMAIN text \ Covered(text))
               /\ \A k \in 1..Len(UncoveredOf(text)) : UncoveredOf(text)[k] = text[h[k]]
  BY <1>1, UncoveredLists
<1>4. Lists(h, Len(UncoveredOf(text)), Left(text, n, f))
  BY <1>3, LeftIsUncovered
<1>5. Len(KeptOf(r)) = Len(UncoveredOf(text)) /\ \A k \in 1..Len(KeptOf(r)) : g[k] = h[k]
  BY <1>2, <1>4, ListsUnique
<1>6. KeptOf(r) \in Seq(Chars)
  BY KeepLists DEF KeptOf
<1>7. UncoveredOf(text) \in Seq(Chars)
  BY <1>1, KeepLists DEF UncoveredOf
<1>8. \A k \in 1..Len(KeptOf(r)) : KeptOf(r)[k] = UncoveredOf(text)[k]
  BY <1>2, <1>3, <1>5
<1> QED
  BY <1>5, <1>6, <1>7, <1>8, SeqEqual

(* ... and there are as many placeholders as matches. *)
LEMMA DisjointPlaceholders ==
  ASSUME NEW text, NEW r \in Seq(Chars), NEW n, NEW f, Masks(r, text, n, f), Unmarked(text),
         Disjoint(DetectPii(text))
  PROVE  Len(r) - Len(KeptOf(r)) = Cardinality(DetectPii(text))
<1> DEFINE M == DetectPii(text)
           S == Starts(text)
           Q == {k \in 1..n : r[k] = Placeholder}
           a == [m \in M |-> m.start]
           b == [k \in Q |-> f[k]]
<1>1. Clean(text) /\ text \in Seq(Chars) /\ n \in Nat /\ Len(r) = n /\ DOMAIN r = 1..n
  BY DEF Masks, Substituted, Clean
<1>2. a \in Surjection(M, S)
  <2>1. \A m \in M : a[m] \in S
    BY <1>1, StartsOfMatches
  <2>2. \A s \in S : \E m \in M : a[m] = s
    <3> TAKE s \in S
    <3>1. PICK m \in DetectPii(text) : m.start = s
      BY <1>1, AfterStart
    <3> QED
      BY <3>1
  <2>3. a = [m \in M |-> a[m]]
    OBVIOUS
  <2> HIDE DEF a, M, S
  <2> QED
    BY <2>1, <2>2, <2>3 DEF Surjection
<1>3. a \in Injection(M, S)
  <2>1. ASSUME NEW m \in M, NEW p \in M, m.start = p.start, m # p PROVE FALSE
    <3>1. m.start < m.end /\ p.start < p.end /\ m.start \in Int /\ m.end \in Int /\ p.end \in Int
      <4>1. m.start \in 1..Len(text) /\ m.end \in 1..Len(text) /\ m.start < m.end
        BY <1>1, MatchBounds
      <4>2. p.start \in 1..Len(text) /\ p.end \in 1..Len(text) /\ p.start < p.end
        BY <1>1, MatchBounds
      <4> QED
        BY <4>1, <4>2
    <3>2. m.end < p.start \/ p.end < m.start
      BY <2>1 DEF Disjoint
    <3> QED
      BY <2>1, <3>1, <3>2
  <2>2. \A m, p \in M : a[m] = a[p] => m = p
    BY <2>1
  <2>3. a \in [M -> S]
    BY <1>2 DEF Surjection
  <2> HIDE DEF a, M, S
  <2> QED
    BY <2>2, <2>3 DEF Injection, IsInjective
<1>4. b \in Surjection(Q, S)
  <2>1. \A k \in Q : b[k] \in S
    BY MarksAreStarts
  <2>2. \A s \in S : \E k \in Q : b[k] = s
    <3> TAKE s \in S
    <3>1. PICK m \in DetectPii(text) : m.start = s
      BY <1>1, AfterStart
    <3>2. PICK k \in 1..n : f[k] = m.start
      BY StartIsVisited
    <3>3. r[k] = Placeholder
      BY <3>1, <3>2, MarksAreStarts
    <3> QED
      BY <3>1, <3>2, <3>3
  <2>3. b = [k \in Q |-> b[k]]
    OBVIOUS
  <2> HIDE DEF b, Q, S
  <2> QED
    BY <2>1, <2>2, <2>3 DEF Surjection
<1>5. b \in Injection(Q, S)
  <2>1. \A j, k \in 1..n : f[j] = f[k] <=> j = k
    BY DEF Masks, Substituted
  <2>2. \A j, k \in Q : b[j] = b[k] => j = k
    BY <2>1
  <2>3. b \in [Q -> S]
    BY <1>4 DEF Surjection
  <2> HIDE DEF b, Q, S
  <2> QED
    BY <2>2, <2>3 DEF Injection, IsInjective
<1>6. IsFiniteSet(1..n) /\ Cardinality(1..n) = n
  <2>1. 1 \in Int /\ n \in Int
    BY <1>1
  <2>2. IsFiniteSet(1..n) /\ Cardinality(1..n) = IF 1 > n THEN 0 ELSE n - 1 + 1
    BY <2>1, FS_Interval
  <2> QED
    BY <1>1, <2>2
<1>7. Q \in SUBSET (1..n) /\ Others(r) = (1..n) \ Q /\ (1..n) \cap Q = Q
  BY <1>1 DEF Others
<1>8. IsFiniteSet(M)
  BY <1>1, DetectPiiFinite, CharsAreSpaced
<1> HIDE DEF M, S, Q, a, b
<1>9. IsFiniteSet(Q)
  BY <1>6, <1>7, FS_Subset
<1>10. Cardinality(S) = Cardinality(M)
  BY <1>2, <1>3, <1>8, FS_Surjection
<1>11. Cardinality(S) = Cardinality(Q)
  BY <1>4, <1>5, <1>9, FS_Surjection
<1>12. Cardinality((1..n) \ Q) = Cardinality(1..n) - Cardinality((1..n) \cap Q)
  BY <1>6, FS_Difference
<1>13. Len(KeptOf(r)) = Cardinality(Others(r))
  <2>1. Others(r) \cap DOMAIN r = Others(r)
    BY DEF Others
  <2> QED
    BY <2>1, KeepLength DEF KeptOf
<1>14. Cardinality(Q) \in Nat
  BY <1>9, FS_CardinalityType
<1>15. Len(KeptOf(r)) = n - Cardinality(Q)
  BY <1>6, <1>7, <1>12, <1>13
<1> QED
  BY <1>1, <1>10, <1>11, <1>14, <1>15 DEF M

(* With overlaps, at least what no match covers is left, and not all. *)
LEMMA OverlappingKept ==
  ASSUME NEW text, NEW r \in Seq(Chars), NEW n, NEW f, Masks(r, text, n, f), Unmarked(text),
         ~Disjoint(DetectPii(text))
  PROVE  Len(KeptOf(r)) \in Len(UncoveredOf(text))..(Len(text) - 1)
<1> DEFINE L == Left(text, n, f)
           U == DOMAIN text \ Covered(text)
           N == Len(text)
<1>1. Clean(text) /\ text \in Seq(Chars) /\ n \in Nat /\ N \in Nat /\ DOMAIN text = 1..N
  BY DEF Masks, Substituted, Clean
<1>2. PICK s \in 1..N : s \in Starts(text)
  <2>1. PICK m \in DetectPii(text) : TRUE
    BY DEF Disjoint
  <2>2. m.start \in Starts(text) /\ m.start \in 1..N
    BY <1>1, <2>1, StartsOfMatches, MatchBounds
  <2> QED
    BY <2>2
<1>3. L \subseteq (1..N) \ {s}
  <2>1. \A k \in 1..n : f[k] \in 1..N
    BY <1>1 DEF Masks, Substituted
  <2> QED
    BY <1>2, <2>1 DEF Left
<1>4. U \subseteq L
  BY UncoveredIsLeft
<1>5. PICK g : /\ Lists(g, Len(KeptOf(r)), L)
               /\ \A k \in 1..Len(KeptOf(r)) : KeptOf(r)[k] = text[g[k]]
  BY KeptOfLists
<1>6. PICK h : /\ Lists(h, Len(UncoveredOf(text)), U)
               /\ \A k \in 1..Len(UncoveredOf(text)) : UncoveredOf(text)[k] = text[h[k]]
  BY <1>1, UncoveredLists
<1> HIDE DEF L, U, N
<1>7. IsFiniteSet(L) /\ Cardinality(L) = Len(KeptOf(r))
  BY <1>5, ListsCardinality
<1>8. Cardinality(U) = Len(UncoveredOf(text))
  BY <1>6, ListsCardinality
<1>9. IsFiniteSet(1..N) /\ Cardinality(1..N) = N
  <2>1. 1 \in Int /\ N \in Int
    BY <1>1
  <2>2. IsFiniteSet(1..N) /\ Cardinality(1..N) = IF 1 > N THEN 0 ELSE N - 1 + 1
    BY <2>1, FS_Interval
  <2> QED
    BY <1>1, <2>2
<1>10. IsFiniteSet((1..N) \ {s}) /\ Cardinality((1..N) \ {s}) = N - 1
  BY <1>2, <1>9, FS_RemoveElement
<1>11. Cardinality(L) <= Cardinality((1..N) \ {s})
  BY <1>3, <1>10, FS_Subset
<1>12. Cardinality(U) <= Cardinality(L)
  BY <1>4, <1>7, FS_Subset
<1> DEFINE x == Len(KeptOf(r))
           y == Len(UncoveredOf(text))
<1>13. x \in Nat /\ y \in Nat
  BY <1>5, <1>6 DEF Lists
<1>14. y <= x /\ x <= N - 1
  BY <1>7, <1>8, <1>10, <1>11, <1>12
<1> HIDE DEF x, y
<1>15. x \in y..(N - 1)
  BY <1>1, <1>13, <1>14
<1> QED
  BY <1>15 DEF x, y, N

(* The two cases for every text of a source. *)
LEMMA TextsLose ==
  ASSUME ResultsAreComputed
  PROVE  TextsLoseTheirMatches
<1>1. source \in Records
  BY SourceType DEF ResultsAreComputed
<1>2. ASSUME NEW text \in RawTexts, ~Nested(text)
      PROVE  LET plain == Normalize(text)
                 result == SanitizeText(text)
             IN  IF Disjoint(DetectPii(plain))
                 THEN /\ KeptOf(result) = UncoveredOf(plain)
                      /\ Len(result) - Len(KeptOf(result)) = Cardinality(DetectPii(plain))
                 ELSE Len(KeptOf(result)) \in Len(UncoveredOf(plain))..(Len(plain) - 1)
  <2> DEFINE plain == Normalize(text)
             result == SanitizeText(text)
  <2>1. text \in Seq(Characters)
    <3>1. PICK k \in DOMAIN source : text = RawText(source[k])
      BY DEF RawTexts
    <3>2. source[k] \in RecordSet
      BY <1>1 DEF Records
    <3> QED
      BY <3>1, <3>2, CleanedTextType
  <2>2. plain \in Seq(Characters) /\ Normal(plain)
    BY <1>2, <2>1, NotNested
  <2>3. result = ReplaceNonOverlapping(plain, DetectPii(plain))
    BY DEF SanitizeText
  <2> HIDE DEF plain, result
  <2>4. Clean(plain)
    BY <2>2 DEF Clean, Chars
  <2>5. Unmarked(plain)
    <3>1. \A i \in DOMAIN plain : plain[i] \in Characters
      BY <2>2
    <3>2. Placeholder \notin Characters
      BY DEF Characters, Placeholder
    <3> QED
      BY <3>1, <3>2 DEF Unmarked
  <2>6. Clean(result) /\ \E n, f : Masks(result, plain, n, f)
    BY <2>3, <2>4, MaskedIsClean
  <2>7. PICK n, f : Masks(result, plain, n, f)
    BY <2>6
  <2>8. result \in Seq(Chars)
    BY <2>6 DEF Clean
  <2>9. Disjoint(DetectPii(plain)) =>
          /\ KeptOf(result) = UncoveredOf(plain)
          /\ Len(result) - Len(KeptOf(result)) = Cardinality(DetectPii(plain))
    BY <2>5, <2>7, <2>8, DisjointKept, DisjointPlaceholders
  <2>10. ~Disjoint(DetectPii(plain)) =>
           Len(KeptOf(result)) \in Len(UncoveredOf(plain))..(Len(plain) - 1)
    BY <2>5, <2>7, <2>8, OverlappingKept
  <2> QED
    BY <2>9, <2>10 DEF plain, result
<1> QED
  BY <1>2 DEF TextsLoseTheirMatches, KeptOf, Others, UncoveredOf, Covered

(* Texts of any length: masking takes all the matches and nothing else     *)
(* where they do not overlap, and where they do it loses no character      *)
(* beside them (pii.py replace_non_overlapping).                           *)
THEOREM TextsAlwaysLoseTheirMatches == Spec => []TextsLoseTheirMatches
BY DatasetResults, TextsLose, PTL
=============================================================================
