------------------------ MODULE TelemetryFeed_proofs ------------------------
(***************************************************************************)
(* Proofs about TelemetryFeed, for every set of senders and labels, every   *)
(* priority, race and list of cars: the row the DDU marks is the player's   *)
(* (PlayerShown), a frame is what the senders say (Authoritative), and the  *)
(* best lap is this session's (BestOfSession).                              *)
(*                                                                         *)
(* A list is right because of how it was selected, whenever that was:       *)
(* ListInv says that the outbox, the writer and the DDU hold lists made of  *)
(* a grid.  Selection sorts, so that the lemmas about Ranking come first: a *)
(* list without two equal keys has one element with n - 1 before it.        *)
(*                                                                         *)
(* A frame is right because of what the cache holds (FeedInv): one entry by *)
(* label, with what its one sender said last and at least what that sender  *)
(* ever gave, and a label that nobody was heard under is silent.  The frame *)
(* is built from the entries that are not silent, the highest priority      *)
(* last: the lemmas on Merged say what a chain of overlays leaves of each   *)
(* field, those on Update what the trackers fill in.                        *)
(*                                                                         *)
(* The best lap needs what the tracker does not say: BestInv relates its    *)
(* lap count to the race's, so that a new session is noticed although the   *)
(* frame that begins it may have been built long after.                     *)
(***************************************************************************)
EXTENDS TelemetryFeed, SequenceTheorems, FiniteSetTheorems, WellFoundedInduction, TLAPS

-----------------------------------------------------------------------------
(* Sorting, and the cars of the list                                      *)

LEMMA BeforeTotal ==
  ASSUME NEW S \in SUBSET Int, NEW rank \in [S -> Int], NEW i \in S, NEW j \in S
  PROVE  /\ ~Before(rank, i, i)
         /\ i # j => Before(rank, i, j) \/ Before(rank, j, i)
         /\ ~(Before(rank, i, j) /\ Before(rank, j, i))
         /\ \A k \in S : Before(rank, i, j) /\ Before(rank, j, k) => Before(rank, i, k)
<1>1. i \in Int /\ j \in Int /\ rank[i] \in Int /\ rank[j] \in Int
  OBVIOUS
<1>2. ASSUME NEW k \in S, Before(rank, i, j), Before(rank, j, k) PROVE Before(rank, i, k)
  <2>1. k \in Int /\ rank[k] \in Int
    OBVIOUS
  <2> QED BY <2>1, <1>1, <1>2 DEF Before
<1>3. ~Before(rank, i, i)
  BY <1>1 DEF Before
<1>4. i # j => Before(rank, i, j) \/ Before(rank, j, i)
  BY <1>1 DEF Before
<1>5. ~(Before(rank, i, j) /\ Before(rank, j, i))
  BY <1>1 DEF Before
<1> QED BY <1>2, <1>3, <1>4, <1>5

\* Sorting by a key puts every element at one place, smaller ones before it.
LEMMA RankedSorts ==
  ASSUME NEW S \in SUBSET Int, IsFiniteSet(S), NEW rank \in [S -> Int]
  PROVE  /\ Cardinality(S) \in Nat
         /\ Ranked(rank) \in [1..Cardinality(S) -> S]
         /\ \A i \in S : \E n \in 1..Cardinality(S) : Ranked(rank)[n] = i
         /\ \A m, n \in 1..Cardinality(S) : m < n => Before(rank, Ranked(rank)[m], Ranked(rank)[n])
<1> DEFINE c == Cardinality(S)
           below(i) == {j \in S : Before(rank, j, i)}
           b == [i \in S |-> Cardinality(below(i))]
           r == Ranked(rank)
<1>1. c \in Nat
  BY FS_CardinalityType
<1>2. ASSUME NEW i \in S PROVE IsFiniteSet(below(i)) /\ b[i] \in 0..c - 1
  <2>1. below(i) \in SUBSET (S \ {i})
    BY BeforeTotal
  <2>2. IsFiniteSet(S \ {i}) /\ Cardinality(S \ {i}) = c - 1
    BY FS_RemoveElement
  <2>3. IsFiniteSet(below(i)) /\ Cardinality(below(i)) <= c - 1
    BY <2>1, <2>2, FS_Subset
  <2>4. Cardinality(below(i)) \in Nat
    BY <2>3, FS_CardinalityType
  <2> QED BY <2>3, <2>4, <1>1
<1>3. ASSUME NEW i \in S, NEW j \in S, Before(rank, i, j) PROVE b[i] < b[j]
  <2>1. below(i) \in SUBSET below(j)
    BY <1>3, BeforeTotal
  <2>2. i \in below(j) /\ i \notin below(i)
    BY <1>3, BeforeTotal
  <2>3. IsFiniteSet(below(j))
    BY <1>2
  <2>4. Cardinality(below(i)) <= Cardinality(below(j)) /\ Cardinality(below(i)) # Cardinality(below(j))
    BY <2>1, <2>2, <2>3, FS_Subset
  <2> QED BY <2>4, <1>2
<1>4. ASSUME NEW i \in S, NEW j \in S, b[i] = b[j] PROVE i = j
  <2> HIDE DEF below
  <2>1. ASSUME i # j PROVE FALSE
    <3>1. Before(rank, i, j) \/ Before(rank, j, i)
      BY <2>1, BeforeTotal
    <3> QED BY <3>1, <1>3, <1>4, <1>2
  <2> QED BY <2>1
<1>5. ASSUME NEW k \in 0..c - 1 PROVE \E i \in S : b[i] = k
  <2> HIDE DEF below, b
  <2>1. b \in [S -> 0..c - 1]
    BY <1>2 DEF b
  <2>2. b \in Injection(S, 0..c - 1)
    BY <2>1, <1>4 DEF Injection, IsInjective
  <2>3. IsFiniteSet(0..c - 1) /\ Cardinality(0..c - 1) = c
    <3>1. 0 \in Int /\ c - 1 \in Int
      BY <1>1
    <3>2. IsFiniteSet(0..c - 1) /\ Cardinality(0..c - 1) = IF 0 > c - 1 THEN 0 ELSE c - 1 - 0 + 1
      BY <3>1, FS_Interval
    <3> QED BY <3>2, <1>1
  <2>4. b \in Surjection(S, 0..c - 1)
    BY <2>2, <2>3, FS_Injection
  <2> QED BY <2>4 DEF Surjection
<1>6. DOMAIN rank = S
  OBVIOUS
<1>7. r = [n \in 1..c |-> CHOOSE i \in S : Cardinality(below(i)) = n - 1]
  BY <1>6 DEF Ranked
<1>8. ASSUME NEW n \in 1..c PROVE r[n] \in S /\ b[r[n]] = n - 1
  <2>1. n - 1 \in 0..c - 1
    BY <1>1
  <2>2. \E i \in S : Cardinality(below(i)) = n - 1
    BY <2>1, <1>5
  <2> HIDE DEF below, r
  <2>3. r[n] = CHOOSE i \in S : Cardinality(below(i)) = n - 1
    BY <1>7
  <2>4. r[n] \in S /\ Cardinality(below(r[n])) = n - 1
    BY <2>2, <2>3
  <2> QED BY <2>4
<1> HIDE DEF below, b, r
<1>9. r \in [1..c -> S]
  BY <1>7, <1>8
<1>10. ASSUME NEW i \in S PROVE \E n \in 1..c : r[n] = i
  <2>1. b[i] + 1 \in 1..c /\ (b[i] + 1) - 1 = b[i]
    BY <1>1, <1>2
  <2>2. r[b[i] + 1] = i
    BY <2>1, <1>8, <1>4
  <2> QED BY <2>1, <2>2
<1>11. ASSUME NEW m \in 1..c, NEW n \in 1..c, m < n PROVE Before(rank, r[m], r[n])
  <2>1. b[r[m]] < b[r[n]]
    BY <1>8, <1>11, <1>1
  <2>2. r[m] # r[n] /\ ~(b[r[n]] < b[r[m]])
    BY <2>1, <1>2, <1>8
  <2> QED BY <2>2, <1>8, <1>3, BeforeTotal
<1> QED BY <1>1, <1>9, <1>10, <1>11 DEF r

\* Places that are a list's own retain all of it.
LEMMA RetainedWhole ==
  ASSUME NEW n \in Nat, NEW seq, DOMAIN seq = 1..n, seq = [i \in 1..n |-> seq[i]]
  PROVE  Retained(seq, 1..n) = seq
<1> DEFINE rank == [i \in 1..n |-> i]
<1>1. 1..n \in SUBSET Int /\ IsFiniteSet(1..n) /\ rank \in [1..n -> Int] /\ Cardinality(1..n) = n
  <2>1. 1 \in Int /\ n \in Int
    OBVIOUS
  <2>2. IsFiniteSet(1..n) /\ Cardinality(1..n) = IF 1 > n THEN 0 ELSE n - 1 + 1
    BY <2>1, FS_Interval
  <2> QED BY <2>1, <2>2
<1>2. DOMAIN rank = 1..n
  OBVIOUS
<1> DEFINE below(i) == {j \in 1..n : Before(rank, j, i)}
<1>3. ASSUME NEW i \in 1..n PROVE Cardinality(below(i)) = i - 1
  <2>1. below(i) = 1..i - 1
    BY DEF Before
  <2>2. 1 \in Int /\ i - 1 \in Int
    OBVIOUS
  <2>3. Cardinality(1..i - 1) = IF 1 > i - 1 THEN 0 ELSE i - 1 - 1 + 1
    BY <2>2, FS_Interval
  <2> HIDE DEF below
  <2> QED BY <2>1, <2>3
<1>4. Ranked(rank) = [m \in 1..n |-> m]
  <2>1. Ranked(rank) = [m \in 1..n |-> CHOOSE i \in 1..n : Cardinality(below(i)) = m - 1]
    BY <1>1, <1>2 DEF Ranked
  <2> HIDE DEF rank, below
  <2>2. ASSUME NEW m \in 1..n PROVE (CHOOSE i \in 1..n : Cardinality(below(i)) = m - 1) = m
    <3>1. m - 1 = Cardinality(below(m))
      BY <1>3
    <3>2. \A i \in 1..n : Cardinality(below(i)) = m - 1 => i = m
      BY <1>3
    <3> QED BY <3>1, <3>2
  <2> QED BY <2>1, <2>2
<1> HIDE DEF rank
<1>5. Retained(seq, 1..n) = [m \in 1..n |-> seq[m]]
  BY <1>4 DEF Retained, rank
<1> QED BY <1>5

\* The places of a list, sorted by a key.
LEMMA PlacesSorted ==
  ASSUME NEW S \in SUBSET Int, IsFiniteSet(S), NEW rank \in [S -> Int], NEW n \in Nat
  PROVE  FirstOf(Ranked(rank), n) \in SUBSET S /\ IsFiniteSet(FirstOf(Ranked(rank), n))
         /\ Cardinality(FirstOf(Ranked(rank), n)) = IF n < Cardinality(S) THEN n ELSE Cardinality(S)
<1> DEFINE r == Ranked(rank)
           c == Cardinality(S)
           k == IF n < c THEN n ELSE c
           cut == [m \in 1..k |-> r[m]]
<1>1. /\ c \in Nat /\ r \in [1..c -> S]
      /\ \A m, l \in 1..c : m < l => Before(rank, r[m], r[l])
  BY RankedSorts
<1>2. r \in Seq(S) /\ Len(r) = c
  <2> HIDE DEF r, c
  <2> QED BY <1>1
<1> HIDE DEF r, c
<1>3. k \in Nat /\ k <= c
  BY <1>1
<1>4. FirstOf(r, n) = {r[m] : m \in 1..k}
  BY <1>2 DEF FirstOf
<1>5. FirstOf(r, n) \in SUBSET S
  BY <1>1, <1>3, <1>4
<1>6. cut \in Bijection(1..k, FirstOf(r, n))
  <2>1. cut \in [1..k -> FirstOf(r, n)] /\ \A i \in FirstOf(r, n) : \E m \in 1..k : cut[m] = i
    BY <1>4
  <2>2. ASSUME NEW m \in 1..k, NEW l \in 1..k, cut[m] = cut[l] PROVE m = l
    <3>1. m \in 1..c /\ l \in 1..c
      BY <1>1, <1>3
    <3>2. ~Before(rank, r[m], r[l]) /\ ~Before(rank, r[l], r[m])
      BY <3>1, <2>2, <1>1, BeforeTotal
    <3>3. ~(m < l) /\ ~(l < m)
      BY <3>1, <3>2, <1>1
    <3> QED BY <3>3, <1>3
  <2>3. DOMAIN cut = 1..k
    OBVIOUS
  <2> HIDE DEF cut, k
  <2> QED BY <2>1, <2>2, <2>3 DEF Bijection, Injection, Surjection, IsInjective
<1>7. IsFiniteSet(1..k) /\ Cardinality(1..k) = k
  <2>1. 1 \in Int /\ k \in Int
    BY <1>3
  <2>2. IsFiniteSet(1..k) /\ Cardinality(1..k) = IF 1 > k THEN 0 ELSE k - 1 + 1
    BY <2>1, FS_Interval
  <2> HIDE DEF k
  <2> QED BY <2>2, <1>3
<1>8. IsFiniteSet(FirstOf(r, n)) /\ Cardinality(FirstOf(r, n)) = k
  <2> HIDE DEF cut, k
  <2>1. ExistsBijection(1..k, FirstOf(r, n))
    BY <1>6 DEF ExistsBijection
  <2> QED BY <2>1, <1>7, FS_Bijection
<1> QED BY <1>5, <1>8 DEF r, c


LEMMA CarFields ==
  ASSUME NEW g \in Cars
  PROVE  /\ DOMAIN g = 1..Len(g) /\ Len(g) \in Nat
         /\ \A i \in DOMAIN g : g[i].place \in Int /\ g[i].gap \in Int /\ g[i].text
<1> DEFINE Car == [place : Int, gap : Int, player : BOOLEAN, text : {TRUE}]
<1>1. DOMAIN g = 1..Len(g) /\ Len(g) \in Nat /\ \A i \in DOMAIN g : g[i] \in Car
  <2> HIDE DEF Car
  <2>1. g \in Seq(Car)
    BY DEF Cars, Car
  <2> QED BY <2>1
<1>2. ASSUME NEW x \in Car PROVE x.place \in Int /\ x.gap \in Int /\ x.text = TRUE
  OBVIOUS
<1> HIDE DEF Car
<1> QED BY <1>1, <1>2

LEMMA ChosenCars ==
  ASSUME NEW g \in Cars
  PROVE  /\ Chosen(g) \in SUBSET (DOMAIN g) /\ IsFiniteSet(Chosen(g)) /\ DOMAIN g \in SUBSET Int
         /\ IsFiniteSet(DOMAIN g \ Leaders(g))
         /\ Len(g) > MaxRel => /\ Leaders(g) \in SUBSET Chosen(g) /\ IsFiniteSet(Leaders(g))
                               /\ Cardinality(Leaders(g)) \in Nat /\ Cardinality(Leaders(g)) <= Top
<1> DEFINE D == DOMAIN g
           place == [i \in D |-> g[i].place]
           near == [i \in D \ Leaders(g) |-> Abs(g[i].gap)]
<1>1. D \in SUBSET Int /\ IsFiniteSet(D) /\ D = 1..Len(g) /\ Len(g) \in Nat
  <2>1. D = 1..Len(g) /\ Len(g) \in Nat
    BY CarFields
  <2>2. 1 \in Int /\ Len(g) \in Int
    BY <2>1
  <2>3. IsFiniteSet(1..Len(g))
    BY <2>2, FS_Interval
  <2> QED BY <2>1, <2>3
<1>2. place \in [D -> Int]
  BY CarFields
<1>3. /\ Leaders(g) \in SUBSET D /\ IsFiniteSet(Leaders(g))
      /\ Cardinality(Leaders(g)) = IF Top < Cardinality(D) THEN Top ELSE Cardinality(D)
  <2> HIDE DEF place, D
  <2>1. /\ FirstOf(Ranked(place), Top) \in SUBSET D /\ IsFiniteSet(FirstOf(Ranked(place), Top))
        /\ Cardinality(FirstOf(Ranked(place), Top)) = IF Top < Cardinality(D) THEN Top ELSE Cardinality(D)
    BY <1>1, <1>2, PlacesSorted, LineAssumption
  <2>2. Leaders(g) = FirstOf(Ranked(place), Top)
    BY DEF Leaders, place, D
  <2> QED BY <2>1, <2>2
<1>4. Cardinality(Leaders(g)) \in Nat /\ Cardinality(Leaders(g)) <= Top
  <2>1. Cardinality(D) \in Nat
    BY <1>1, FS_CardinalityType
  <2> QED BY <2>1, <1>3, LineAssumption
<1>5. D \ Leaders(g) \in SUBSET Int /\ IsFiniteSet(D \ Leaders(g)) /\ near \in [D \ Leaders(g) -> Int]
  <2>1. IsFiniteSet(D \ Leaders(g))
    <3>1. D \ Leaders(g) \in SUBSET D
      OBVIOUS
    <3> HIDE DEF D
    <3> QED BY <3>1, <1>1, FS_Subset
  <2>2. ASSUME NEW i \in D PROVE Abs(g[i].gap) \in Int
    <3>1. g[i].gap \in Int
      BY CarFields
    <3> QED BY <3>1 DEF Abs
  <2> QED BY <1>1, <2>1, <2>2
<1>6. CASE Len(g) <= MaxRel
  <2>1. Chosen(g) = D
    BY <1>6 DEF Chosen
  <2> QED BY <2>1, <1>1, <1>5, <1>6, <1>3, <1>4, LineAssumption
<1>7. CASE Len(g) > MaxRel
  <2> DEFINE k == MaxRel - Cardinality(Leaders(g))
  <2>1. k \in Nat
    BY <1>4, LineAssumption
  <2>2. FirstOf(Ranked(near), k) \in SUBSET (D \ Leaders(g)) /\ IsFiniteSet(FirstOf(Ranked(near), k))
    <3> HIDE DEF near, k, D
    <3> QED BY <2>1, <1>5, PlacesSorted
  <2>3. Chosen(g) = Leaders(g) \cup FirstOf(Ranked(near), k)
    BY <1>7, <1>1, LineAssumption DEF Chosen, Nearest
  <2>4. IsFiniteSet(Chosen(g))
    <3> HIDE DEF near, k, D
    <3> QED BY <2>2, <2>3, <1>3, FS_Union
  <2> HIDE DEF near, k
  <2> QED BY <2>2, <2>3, <2>4, <1>3, <1>4, <1>1, <1>5
<1> QED BY <1>6, <1>7, <1>1, LineAssumption

\* "Player included via gap 0": a list without the player is full of cars that
\* are level with it.
LEMMA LevelCars ==
  ASSUME NEW g \in Cars, NEW p \in DOMAIN g, g[p].gap = 0, p \notin Chosen(g)
  PROVE  \E A \in SUBSET Chosen(g) : /\ IsFiniteSet(A) /\ Cardinality(A) >= MaxRel - Top
                                     /\ \A i \in A : g[i].gap = 0
<1> DEFINE S == DOMAIN g \ Leaders(g)
           near == [i \in S |-> Abs(g[i].gap)]
           r == Ranked(near)
           c == Cardinality(S)
           k == MaxRel - Cardinality(Leaders(g))
           A == FirstOf(r, k)
<1>1. Len(g) > MaxRel
  <2>1. Len(g) \in Nat
    BY CarFields
  <2> QED BY <2>1, LineAssumption DEF Chosen
<1>2. /\ S \in SUBSET Int /\ IsFiniteSet(S) /\ DOMAIN g \in SUBSET Int
      /\ Leaders(g) \in SUBSET Chosen(g) /\ Cardinality(Leaders(g)) \in Nat /\ Cardinality(Leaders(g)) <= Top
  BY <1>1, ChosenCars
<1>3. k \in Nat /\ k >= MaxRel - Top
  BY <1>2, LineAssumption
<1>4. near \in [S -> Int] /\ \A i \in S : g[i].gap \in Int /\ near[i] = Abs(g[i].gap)
  <2>1. ASSUME NEW i \in S PROVE g[i].gap \in Int /\ Abs(g[i].gap) \in Int
    <3>1. g[i].gap \in Int
      BY CarFields
    <3> QED BY <3>1 DEF Abs
  <2> QED BY <2>1
<1>5. Chosen(g) = Leaders(g) \cup A
  <2>1. ~(Len(g) <= MaxRel)
    BY <1>1, LineAssumption
  <2> QED BY <2>1 DEF Chosen, Nearest
<1>6. p \in S /\ p \notin A
  BY <1>2, <1>5
<1> HIDE DEF S, near, r, k, A
<1>7. /\ c \in Nat /\ r \in [1..c -> S] /\ \A i \in S : \E n \in 1..c : r[n] = i
      /\ \A m, n \in 1..c : m < n => Before(near, r[m], r[n])
  BY <1>2, <1>4, RankedSorts DEF r
<1>8. IsFiniteSet(A) /\ Cardinality(A) = IF k < c THEN k ELSE c
  BY <1>2, <1>3, <1>4, PlacesSorted DEF r, A
<1> HIDE DEF c
<1>9. A = {r[m] : m \in 1 .. IF k < c THEN k ELSE c}
  <2>1. r \in Seq(S) /\ Len(r) = c
    BY <1>7
  <2> QED BY <2>1 DEF A, FirstOf
<1>10. PICK n \in 1..c : r[n] = p
  BY <1>6, <1>7
<1>11. k < n /\ k < c
  BY <1>3, <1>7, <1>10, <1>9, <1>6
<1>12. ASSUME NEW i \in A PROVE g[i].gap = 0
  <2>1. PICK m \in 1..k : r[m] = i
    BY <1>9, <1>11
  <2>2. m \in 1..c /\ m < n
    BY <1>3, <1>7, <1>11, <2>1
  <2>3. Before(near, i, p)
    BY <2>1, <2>2, <1>7, <1>10
  <2>4. i \in S
    BY <2>1, <2>2, <1>7
  <2>5. near[p] = 0
    BY <1>6, <1>4 DEF Abs
  <2>6. near[i] \in Int /\ near[i] <= 0
    BY <2>3, <2>4, <2>5, <1>4 DEF Before
  <2>7. near[i] = Abs(g[i].gap) /\ g[i].gap \in Int
    BY <2>4, <1>4
  <2> QED BY <2>6, <2>7 DEF Abs
<1>13. Cardinality(A) >= MaxRel - Top
  BY <1>8, <1>11, <1>3
<1> QED BY <1>5, <1>8, <1>12, <1>13

LEMMA ListMarksPlayer ==
  ASSUME NEW g \in Cars, \A i \in DOMAIN g : g[i].player => g[i].gap = 0,
         \E i \in DOMAIN g : g[i].player,
         Cardinality(Level(FromWire(Relatives(g)).rows)) < MaxRel - Top
  PROVE  FromWire(Relatives(g)).rows[FromWire(Relatives(g)).player].player
<1> DEFINE C == Chosen(g)
           rank == [i \in C |-> g[i].place]
           order == Ranked(rank)
           c == Cardinality(C)
           rows == [n \in 1..c |-> g[order[n]]]
<1>1. C \in SUBSET (DOMAIN g) /\ IsFiniteSet(C) /\ DOMAIN g \in SUBSET Int
  BY ChosenCars
<1>2. rank \in [C -> Int]
  BY <1>1, CarFields
<1> HIDE DEF C, rank, order
<1>3. /\ c \in Nat /\ order \in [1..c -> C]
      /\ \A i \in C : \E n \in 1..c : order[n] = i
  BY <1>1, <1>2, RankedSorts DEF order
<1>4. Relatives(g) = [rows |-> rows, player |-> PlayerRow(rows)]
  <2>1. Relatives(g) = Select(g)
    BY DEF Relatives
  <2>2. DOMAIN order = 1..c
    BY <1>3
  <2> QED BY <2>1, <2>2 DEF Select, C, rank, order
<1> HIDE DEF c
<1>5. FromWire(Relatives(g)).player = PlayerRow(rows) /\ FromWire(Relatives(g)).rows = rows
  <2>1. \A i \in 1..c : rows[i].text
    BY <1>1, <1>3, CarFields
  <2>2. {i \in DOMAIN rows : rows[i].text} = 1..c
    BY <2>1
  <2>3. Retained(rows, 1..c) = rows
    <3>1. DOMAIN rows = 1..c /\ rows = [i \in 1..c |-> rows[i]]
      OBVIOUS
    <3> HIDE DEF rows
    <3> QED BY <3>1, <1>3, RetainedWhole
  <2> DEFINE w == [rows |-> rows, player |-> PlayerRow(rows)]
  <2>4. w.rows = rows /\ w.player = PlayerRow(rows)
    OBVIOUS
  <2>5. FromWire(w).rows = Retained(w.rows, {i \in DOMAIN w.rows : w.rows[i].text}) /\ FromWire(w).player = w.player
    BY DEF FromWire
  <2> HIDE DEF rows
  <2>6. FromWire(w).rows = Retained(rows, {i \in DOMAIN rows : rows[i].text})
    BY <2>5
  <2> HIDE DEF w
  <2>7. FromWire(w).rows = rows /\ FromWire(w).player = PlayerRow(rows)
    BY <2>2, <2>3, <2>4, <2>5, <2>6
  <2> QED BY <1>4, <2>7 DEF w
<1>6. CASE \E i \in DOMAIN rows : rows[i].player
  <2> HIDE DEF rows
  <2>1. rows[PlayerRow(rows)].player
    BY <1>6 DEF PlayerRow
  <2> QED BY <2>1, <1>5
<1>7. CASE ~\E i \in DOMAIN rows : rows[i].player
  <2>1. PICK p \in DOMAIN g : g[p].player
    OBVIOUS
  <2>2. g[p].gap = 0
    BY <2>1
  <2>3. p \notin C
    BY <1>3, <1>7, <2>1
  <2>4. PICK A \in SUBSET C : IsFiniteSet(A) /\ Cardinality(A) >= MaxRel - Top /\ \A i \in A : g[i].gap = 0
    BY <2>2, <2>3, LevelCars DEF C
  <2> DEFINE L == Level(rows)
             f == [n \in {m \in L : order[m] \in A} |-> order[n]]
             E == {m \in L : order[m] \in A}
  <2>5. L \in SUBSET (1..c)
    BY DEF Level
  <2>6. IsFiniteSet(L) /\ IsFiniteSet(E) /\ Cardinality(E) <= Cardinality(L) /\ Cardinality(E) \in Nat
    <3>1. IsFiniteSet(1..c)
      <4>1. 1 \in Int /\ c \in Int
        BY <1>3
      <4> QED BY <4>1, FS_Interval
    <3>2. E \in SUBSET L
      OBVIOUS
    <3> HIDE DEF L, E
    <3>3. IsFiniteSet(L)
      BY <3>1, <2>5, FS_Subset
    <3> QED BY <3>2, <3>3, FS_Subset, FS_CardinalityType
  <2>7. f \in Surjection(E, A)
    <3>1. ASSUME NEW i \in A PROVE \E m \in E : f[m] = i
      <4>1. PICK m \in 1..c : order[m] = i
        BY <1>3
      <4>2. m \in L
        BY <4>1, <2>4 DEF Level
      <4> QED BY <4>1, <4>2
    <3>2. f \in [E -> A]
      OBVIOUS
    <3> HIDE DEF f, E
    <3> QED BY <3>1, <3>2 DEF Surjection
  <2>8. Cardinality(A) <= Cardinality(E)
    <3> HIDE DEF f, E
    <3> QED BY <2>6, <2>7, FS_Surjection
  <2>9. Cardinality(A) \in Nat /\ Cardinality(L) \in Nat
    <3> HIDE DEF L
    <3> QED BY <2>4, <2>6, FS_CardinalityType
  <2>10. Cardinality(L) < MaxRel - Top
    BY <1>5
  <2> HIDE DEF L, E
  <2> QED BY <2>4, <2>6, <2>8, <2>9, <2>10, LineAssumption
<1> QED BY <1>6, <1>7

-----------------------------------------------------------------------------
(* What the steps do                                                       *)

Labels == {Senders[x].label : x \in DOMAIN Senders}

\* Steps that leave telemetry and the list of cars alone.
Elsewhere ==
  /\ UNCHANGED <<merge, sends, cast, at, grid, device, past>>
  /\ tag' \in {tag, Nil} \cup Labels

\* A datagram as a sender writes it, or with one token spoilt.
Written(x, text) ==
  \/ text = LineOf(x, race)
  \/ \E i \in DOMAIN LineOf(x, race) : text = Spoilt(LineOf(x, race), i)

LEMMA Effects ==
  ASSUME [Next]_vars, cast.asks \in {"none"} \cup DOMAIN Senders
  PROVE  \/ Elsewhere
         \/ \E x \in Everyone : \E text : Written(x, text) /\ Receives(x, text)
         \/ \E t \in Threads : Hands(t) \/ \E c \in Consumers : Tick(t, c)
         \/ \E l \in Sources : Silent(l)
         \/ \E x \in Everyone : List(x)
         \/ Writes \/ Sends \/ Unplug \/ Advance
<1> USE DEF Elsewhere
<1>1. CASE UNCHANGED vars
  BY <1>1 DEF vars, merge, sends, world, device, past
<1>2. ASSUME NEW x \in Everyone, Frame(x) PROVE \E text : Written(x, text) /\ Receives(x, text)
  BY <1>2 DEF Frame, Written
<1>3. ASSUME NEW x \in Everyone, BadFrame(x) PROVE \E text : Written(x, text) /\ Receives(x, text)
  BY <1>3 DEF BadFrame, Written
<1>4. ASSUME NEW x \in Everyone, Tags(x) PROVE Elsewhere
  BY <1>4 DEF Tags, merge, sends, device, past, Labels, Everyone
<1>5. ASSUME NEW x \in Everyone, Names(x) PROVE Elsewhere
  BY <1>5 DEF Names, Aside, merge, sends, world, device, past
<1>6. CASE TagFades
  BY <1>6 DEF TagFades, merge, sends, device, past
<1>7. CASE Fetch \/ Push \/ Page \/ Connect \/ Status \/ Replug
  BY <1>7 DEF Fetch, Push, Page, Connect, Status, Replug, AroundCar, merge, sends, world, device, past
<1>8. CASE OtaRuns
  BY <1>8 DEF OtaRuns, merge, sends, world, device, past
<1>9. CASE ScanGames \/ Browse \/ Load \/ Choose
  BY <1>9 DEF ScanGames, Browse, Load, Choose, AroundCar, merge, sends, world, device, past
<1>10. CASE Turn \/ OtherCar \/ GameChanges
  BY <1>10 DEF Turn, OtherCar, GameChanges, World, merge, sends, device, past
<1>11. CASE Asked \/ Answers \/ PeerHears \/ PeerActs
  BY <1>11 DEF Asked, Answers, PeerHears, PeerActs, Still, merge, sends, world, device, past
<1>12. CASE Streams
  <2>1. Kind \in Everyone
    BY <1>12 DEF Streams, Kind, Everyone
  <2>2. Written(Kind, LineOf(Kind, race)) /\ Receives(Kind, LineOf(Kind, race))
    BY <1>12 DEF Streams, Written
  <2> QED BY <2>1, <2>2
<1> QED BY <1>1, <1>2, <1>3, <1>4, <1>5, <1>6, <1>7, <1>8, <1>9, <1>10, <1>11, <1>12 DEF Next

-----------------------------------------------------------------------------
(* The list of cars                                                        *)

AllGrids == UNION {s.grids : s \in Scenarios}

\* What is on its way to the DDU, or shown by it, was made of a grid.
Listed(r) == \E g \in AllGrids : r = Relatives(g) /\ \E i \in DOMAIN g : g[i].player
ListInv ==
  /\ cast.grids \subseteq AllGrids /\ grid \in AllGrids
  /\ DOMAIN out = {"telem", "rel"}
  /\ out.rel = Nil \/ Listed(out.rel)
  /\ took.rel = Nil \/ Listed(took.rel)
  /\ row = Nil \/ \E r : Listed(r) /\ row = FromWire(r)
CastInv == cast.asks \in {"none"} \cup DOMAIN Senders

LEMMA ListInit == Init => ListInv /\ CastInv
<1> SUFFICES ASSUME Init PROVE ListInv /\ CastInv
  OBVIOUS
<1>1. PICK s \in Scenarios : /\ cast = [k \in {"script", "grids", "asks", "two", "clock", "named"} |-> s[k]]
                             /\ grid \in s.grids
  BY DEF Init
<1>2. cast.grids = s.grids /\ cast.asks = s.asks
  BY <1>1
<1>3. out = Empties /\ took = Empties /\ row = Nil
  BY DEF Init, InitMerge
<1>4. CastInv
  BY <1>2, RaceAssumption DEF CastInv
<1>5. cast.grids \subseteq AllGrids /\ grid \in AllGrids
  BY <1>1, <1>2 DEF AllGrids
<1> QED BY <1>3, <1>4, <1>5 DEF ListInv, Empties

LEMMA ListStep == ListInv /\ CastInv /\ [Next]_vars => ListInv' /\ CastInv'
<1> SUFFICES ASSUME ListInv, CastInv, [Next]_vars PROVE ListInv' /\ CastInv'
  OBVIOUS
<1> USE DEF ListInv, CastInv
<1>1. CASE Elsewhere
  BY <1>1 DEF Elsewhere, sends, device
<1>2. ASSUME NEW x \in Everyone, NEW text, Receives(x, text) PROVE ListInv' /\ CastInv'
  BY <1>2 DEF Receives, sends, world, device
<1>3. ASSUME NEW t \in Threads, Hands(t) PROVE ListInv' /\ CastInv'
  <2>1. UNCHANGED <<took, cast, grid, row>> /\ out' \in {out, [out EXCEPT !.telem = ToFrame(pend[t].frame)]}
    BY <1>3 DEF Hands, HandsOn, world, device
  <2>2. out'.rel = out.rel /\ DOMAIN out' = DOMAIN out
    BY <2>1
  <2> QED BY <2>1, <2>2
<1>4. ASSUME NEW t \in Threads, NEW c \in Consumers, Tick(t, c) PROVE ListInv' /\ CastInv'
  BY <1>4 DEF Tick, sends, world, device
<1>5. ASSUME NEW l \in Sources, Silent(l) PROVE ListInv' /\ CastInv'
  BY <1>5 DEF Silent, sends, world, device
<1>6. ASSUME NEW x \in Everyone, List(x) PROVE ListInv' /\ CastInv'
  <2>1. /\ UNCHANGED <<took, cast, grid, row>> /\ Relatives(grid) # Nothing
        /\ out' \in {out, [out EXCEPT !.rel = Relatives(grid)]}
    BY <1>6 DEF List, ApplyRelatives, world, device
  <2>2. Listed(Relatives(grid))
    BY <2>1 DEF Listed, Relatives
  <2>3. DOMAIN out' = DOMAIN out /\ out'.rel \in {out.rel, Relatives(grid)}
    BY <2>1
  <2> QED BY <2>1, <2>2, <2>3
<1>7. CASE Writes
  <2>1. UNCHANGED <<cast, grid, row>> /\ out' = Empties /\ took' \in {took, out}
    BY <1>7 DEF Writes, WriterTakes, world, device
  <2> QED BY <2>1 DEF Empties
<1>8. CASE Sends
  <2>1. /\ UNCHANGED <<cast, grid, out>> /\ took' = Empties
        /\ row' = row \/ (took.rel # Nil /\ row' = FromWire(took.rel))
    BY <1>8 DEF Sends, WriterSends, world
  <2> QED BY <2>1 DEF Empties
<1>9. CASE Unplug
  BY <1>9 DEF Unplug, AroundCar, sends, world
<1>10. CASE Advance
  BY <1>10 DEF Advance, World, sends, device
<1> QED BY <1>1, <1>2, <1>3, <1>4, <1>5, <1>6, <1>7, <1>8, <1>9, <1>10, Effects

LEMMA ListImplies == ListInv => PlayerShown
<1> SUFFICES ASSUME ListInv, row # Nil, Cardinality(Level(row.rows)) < MaxRel - Top
             PROVE  row.rows[row.player].player
  BY DEF PlayerShown
<1>1. PICK g \in AllGrids : row = FromWire(Relatives(g)) /\ \E i \in DOMAIN g : g[i].player
  BY DEF ListInv, Listed
<1>2. g \in Cars /\ \A i \in DOMAIN g : g[i].player => g[i].gap = 0
  BY GridsAssumption DEF AllGrids
<1> QED BY <1>1, <1>2, ListMarksPlayer

\* "Player included via gap 0": whatever the list was made of, the row the DDU
\* marks is the player's, unless the line is full of cars level with it
\* (relatives.rs, select: the player is among the nearest, and the number the
\* line names is its row's after the sort by place).
THEOREM PlayerMarked == Spec => []PlayerShown
<1>1. Spec => [](ListInv /\ CastInv)
  BY ListInit, ListStep, PTL DEF Spec
<1> QED BY <1>1, ListImplies, PTL

-----------------------------------------------------------------------------
(* What a line says                                                        *)

LEMMA WireNames ==
  /\ DOMAIN Wire = 1..13 /\ Len(Wire) = 13
  /\ \A k, l \in 1..13 : Wire[k] = Wire[l] => k = l
  /\ \A k \in 1..13 : Wire[k] \in Fields /\ Wire[k] # "gear" /\ Wire[k] # "rpm"
  /\ \A f \in Fields : \E k \in 1..13 : f = Wire[k]
  /\ Wire[2] = "last" /\ Wire[5] = "lap"
<1>1. DOMAIN Wire = 1..13 /\ Len(Wire) = 13
  BY DEF Wire
<1>2. \A k, l \in 1..13 : Wire[k] = Wire[l] => k = l
  BY DEF Wire
<1>3. Fields = {Wire[k] : k \in 1..13}
  BY <1>1 DEF Fields, Range
<1>4. \A k \in 1..13 : Wire[k] # "gear" /\ Wire[k] # "rpm"
  BY DEF Wire
<1>5. Wire[2] = "last" /\ Wire[5] = "lap"
  BY DEF Wire
<1> QED BY <1>1, <1>2, <1>3, <1>4, <1>5

LEMMA FrameFields ==
  /\ DOMAIN Blank = Fields \cup {"gear", "rpm"} /\ Numbers = Fields \cup {"rpm"}
  /\ \A f \in Numbers : Blank[f] = 0
  /\ {"cur", "last", "best", "delta", "lap", "fuel", "fpl", "fuelLaps", "pct", "ve", "vpl", "isVe"} \subseteq Fields
<1>1. DOMAIN Blank = Fields \cup {"gear", "rpm"}
  BY DEF Blank
<1>2. Numbers = Fields \cup {"rpm"}
  <2>1. "gear" \notin Fields
    BY WireNames
  <2> QED BY <1>1, <2>1 DEF Numbers
<1>3. \A f \in Numbers : Blank[f] = 0
  BY <1>2, WireNames DEF Blank
<1>4. \A k \in 1..13 : Wire[k] \in Fields
  BY WireNames
<1>5. \A f \in {"cur", "last", "best", "delta", "lap", "fuel", "fpl", "fuelLaps", "pct", "ve", "vpl", "isVe"} : \E k \in 1..13 : f = Wire[k]
  BY DEF Wire
<1> QED BY <1>1, <1>2, <1>3, <1>4, <1>5

\* The token of a field, unless the line ended before it.
LEMMA Parsed ==
  ASSUME NEW text, Len(text) \in Nat, ParseLine(text) # NoFrame
  PROVE  /\ DOMAIN ParseLine(text) = DOMAIN Blank
         /\ ParseLine(text) = [f \in DOMAIN Blank |-> ParseLine(text)[f]]
         /\ ParseLine(text).gear \in Gears
         /\ ParseLine(text).rpm = text[2] /\ text[2] \notin {Empty, Junk}
         /\ \A e \in 3 .. Len(text) : text[e] # Junk
         /\ \A k \in 1..13 :
              ParseLine(text)[Wire[k]] =
                IF k + 2 > Len(text) \/ text[k + 2] = Empty
                THEN Absent(Wire[k]) ELSE text[k + 2]
<1> DEFINE last     == Len(Wire) + 2
           left     == {i \in 3 .. Len(text) : text[i] = Junk \/ (i > last /\ text[i] # Empty)}
           place(f) == CHOOSE i \in 3 .. last : Wire[i - 2] = f
           field(f) == IF place(f) > Len(text) THEN Absent(f)
                       ELSE IF text[place(f)] = Empty THEN Absent(f) ELSE text[place(f)]
           t == [f \in DOMAIN Blank |-> CASE f = "gear" -> text[1] [] f = "rpm" -> text[2] [] OTHER -> field(f)]
<1>1. Len(Wire) + 2 = 15
  BY WireNames
<1>2. ParseLine(text) = IF Len(text) < 2 THEN NoFrame ELSE IF text[1] \notin Gears \/ text[2] \in {Empty, Junk} \/ left # {} THEN NoFrame ELSE t
  BY DEF ParseLine
<1>3. ASSUME NEW k \in 1..13 PROVE place(Wire[k]) = k + 2
  <2>0. place(Wire[k]) = CHOOSE i \in 3 .. 15 : Wire[i - 2] = Wire[k]
    BY <1>1
  <2>1. k + 2 \in 3..15 /\ (k + 2) - 2 = k
    OBVIOUS
  <2>2. ASSUME NEW i \in 3..15, Wire[i - 2] = Wire[k] PROVE i = k + 2
    <3>1. i - 2 \in 1..13
      OBVIOUS
    <3>2. i - 2 = k
      BY <3>1, <2>2, WireNames
    <3> QED BY <3>2
  <2> HIDE DEF place
  <2> QED BY <2>0, <2>1, <2>2
<1> HIDE DEF place
<1>4. ASSUME NEW k \in 1..13 PROVE t[Wire[k]] = field(Wire[k])
  <2>1. Wire[k] \in DOMAIN Blank /\ Wire[k] # "gear" /\ Wire[k] # "rpm"
    BY WireNames, FrameFields
  <2> HIDE DEF field
  <2> QED BY <2>1
<1>5. t.gear = text[1] /\ t.rpm = text[2] /\ DOMAIN t = DOMAIN Blank /\ t = [f \in DOMAIN Blank |-> t[f]]
  <2>1. "gear" \in DOMAIN Blank /\ "rpm" \in DOMAIN Blank
    BY FrameFields
  <2> HIDE DEF field
  <2> QED BY <2>1
<1> HIDE DEF t
<1>6. ParseLine(text) = t /\ text[1] \in Gears /\ text[2] \notin {Empty, Junk} /\ left = {}
  BY <1>2
<1>7. ASSUME NEW k \in 1..13
      PROVE  field(Wire[k]) = IF k + 2 > Len(text) \/ text[k + 2] = Empty
                              THEN Absent(Wire[k]) ELSE text[k + 2]
  BY <1>3
<1>8. \A e \in 3 .. Len(text) : text[e] # Junk
  BY <1>6
<1> HIDE DEF field
<1> QED BY <1>4, <1>5, <1>6, <1>7, <1>8

\* What a sender writes.
LEMMA Tokens ==
  ASSUME NEW x \in Everyone, NEW r \in Points
  PROVE  /\ \E S : LineOf(x, r) \in Seq(S)
         /\ DOMAIN LineOf(x, r) = 1 .. Senders[x].width + 2 /\ Len(LineOf(x, r)) = Senders[x].width + 2
         /\ Senders[x].width \in 0..13
         /\ LineOf(x, r)[2] = r.rpm
         /\ \A k \in 1 .. Senders[x].width :
              LineOf(x, r)[k + 2] = IF Wire[k] \in Has(x) THEN r[Wire[k]] ELSE Senders[x].blank
<1> DEFINE w == Senders[x].width
           tail == [i \in 1 .. w |-> IF Wire[i] \in Has(x) THEN r[Wire[i]] ELSE Senders[x].blank]
           head == <<"1", r.rpm>>
<1>1. w \in 0..13
  BY SendersAssumption, WireNames DEF Everyone
<1>2. LineOf(x, r) = head \o tail
  BY DEF LineOf
<1> HIDE DEF w
<1>3. DOMAIN tail = 1..w /\ Len(tail) = w /\ Len(head) = 2
  BY <1>1
<1>4. \A k \in 1..w : tail[k] = IF Wire[k] \in Has(x) THEN r[Wire[k]] ELSE Senders[x].blank
  OBVIOUS
<1>5. head[2] = r.rpm
  OBVIOUS
<1> HIDE DEF tail, head
<1>6. /\ Len(head \o tail) = Len(head) + Len(tail) /\ \E S : head \o tail \in Seq(S)
      /\ \A i \in 1 .. Len(head) + Len(tail) : (head \o tail)[i] = IF i <= Len(head) THEN head[i] ELSE tail[i - Len(head)]
      /\ DOMAIN (head \o tail) = 1 .. Len(head \o tail)
  <2> DEFINE All == {head[i] : i \in 1..2} \cup {tail[i] : i \in 1..w}
  <2>1. head \in Seq(All) /\ tail \in Seq(All)
    BY <1>1, <1>3 DEF head, tail
  <2> HIDE DEF All
  <2> QED BY <2>1, ConcatProperties
<1>7. (head \o tail)[2] = r.rpm /\ \A k \in 1..w : (head \o tail)[k + 2] = tail[k]
  BY <1>1, <1>3, <1>5, <1>6
<1>8. DOMAIN (head \o tail) = 1 .. w + 2 /\ Len(head \o tail) = w + 2
  BY <1>1, <1>3, <1>6
<1> QED BY <1>1, <1>2, <1>4, <1>6, <1>7, <1>8 DEF w

LEMMA PointFields ==
  ASSUME NEW r \in Points
  PROVE  /\ r.rpm \in Int /\ \A f \in Fields : r[f] \in Int
         /\ \A f \in Fields \ {"delta"} : r[f] >= 0
BY DEF Points

\* A frame a sender wrote, with one token spoilt or none.
LEMMA FrameTyped ==
  ASSUME NEW x \in Everyone, NEW text, race \in Points, Written(x, text), ParseLine(text) # NoFrame
  PROVE  /\ ParseLine(text) \in Frames /\ DOMAIN ParseLine(text) = DOMAIN Blank
         /\ \A f \in Numbers : ParseLine(text)[f] \in Int
         /\ \A f \in Fields \ {"delta"} : ParseLine(text)[f] >= 0
<1> DEFINE line0 == LineOf(x, race)
           w == Senders[x].width
           t == ParseLine(text)
<1>1. /\ DOMAIN line0 = 1 .. w + 2 /\ Len(line0) = w + 2 /\ w \in 0..13
      /\ line0[2] = race.rpm
      /\ \A k \in 1..w : line0[k + 2] = IF Wire[k] \in Has(x) THEN race[Wire[k]] ELSE Senders[x].blank
  BY Tokens
<1>2. /\ Len(text) = w + 2 /\ DOMAIN text = 1 .. w + 2
      /\ \A i \in 1 .. w + 2 : text[i] = line0[i] \/ text[i] = Junk
  <2>1. CASE text = line0
    BY <2>1, <1>1
  <2>2. CASE \E i \in DOMAIN line0 : text = Spoilt(line0, i)
    <3>1. PICK i \in DOMAIN line0 : text = [line0 EXCEPT ![i] = Junk]
      BY <2>2 DEF Spoilt
    <3>2. DOMAIN text = DOMAIN line0 /\ \A j \in DOMAIN line0 : text[j] = IF j = i THEN Junk ELSE line0[j]
      BY <3>1
    <3>3. Len(text) = Len(line0)
      <4>1. line0 = [j \in 1 .. w + 2 |-> line0[j]]
        <5>1. PICK S : line0 \in Seq(S)
          BY Tokens
        <5> HIDE DEF line0, w
        <5> QED BY <5>1, <1>1
      <4> HIDE DEF line0, w
      <4>2. text = [j \in 1 .. w + 2 |-> text[j]]
        BY <4>1, <3>1, <3>2, <1>1
      <4>3. Len([j \in 1 .. w + 2 |-> text[j]]) = w + 2
        BY <1>1
      <4> QED BY <4>2, <4>3, <1>1
    <3> QED BY <3>2, <3>3, <1>1
  <2> QED BY <2>1, <2>2 DEF Written
<1> HIDE DEF line0, w, t
<1>3. Len(text) \in Nat
  BY <1>1, <1>2
<1>4. /\ DOMAIN t = DOMAIN Blank /\ t.gear \in Gears /\ t.rpm = text[2] /\ text[2] \notin {Empty, Junk}
      /\ \A e \in 3 .. Len(text) : text[e] # Junk
      /\ \A k \in 1..13 :
           t[Wire[k]] = IF k + 2 > Len(text) \/ text[k + 2] = Empty
                        THEN Absent(Wire[k]) ELSE text[k + 2]
  BY <1>3, Parsed DEF t
<1>5. t.rpm \in Int
  <2>1. 2 \in 1 .. w + 2
    BY <1>1
  <2>2. text[2] = race.rpm
    BY <2>1, <1>1, <1>2, <1>4
  <2>3. race.rpm \in Int
    BY PointFields
  <2> QED BY <2>2, <2>3, <1>4
<1>6. ASSUME NEW k \in 1..13
      PROVE  t[Wire[k]] \in Int /\ (Wire[k] # "delta" => t[Wire[k]] >= 0)
  <2>1. CASE k + 2 > Len(text) \/ text[k + 2] = Empty
    <3>1. t[Wire[k]] = Absent(Wire[k])
      BY <2>1, <1>4
    <3> QED BY <3>1 DEF Absent
  <2>2. CASE ~(k + 2 > Len(text) \/ text[k + 2] = Empty)
    <3>1. t[Wire[k]] = text[k + 2]
      BY <2>2, <1>4
    <3>2. k \in 1..w /\ k + 2 \in 3 .. Len(text)
      BY <2>2, <1>2, <1>1
    <3>3. text[k + 2] # Junk /\ text[k + 2] # Empty
      BY <1>4, <2>2, <3>2
    <3>4. text[k + 2] = IF Wire[k] \in Has(x) THEN race[Wire[k]] ELSE Senders[x].blank
      BY <3>2, <3>3, <1>1, <1>2
    <3>5. Wire[k] \in Fields
      BY WireNames
    <3>6. Senders[x].blank \in {0, Empty}
      BY SendersAssumption DEF Everyone
    <3>7. race[Wire[k]] \in Int /\ (Wire[k] # "delta" => race[Wire[k]] >= 0)
      BY <3>5, PointFields
    <3> QED BY <3>1, <3>3, <3>4, <3>6, <3>7
  <2> QED BY <2>1, <2>2
<1>7. ASSUME NEW f \in Fields PROVE t[f] \in Int /\ (f # "delta" => t[f] >= 0)
  BY <1>6, WireNames
<1>8. \A f \in Numbers : t[f] \in Int
  BY <1>5, <1>7, FrameFields
<1>9. t \in Frames
  <2>1. t = [f \in DOMAIN Blank |-> t[f]]
    BY <1>3, Parsed DEF t
  <2>2. \A f \in DOMAIN Blank : t[f] \in Int \cup Gears \cup {""}
    BY <1>4, <1>8, FrameFields
  <2> QED BY <2>1, <2>2 DEF Frames
<1> QED BY <1>4, <1>7, <1>8, <1>9 DEF t

\* What a sender says of the race, if nothing was spoilt.
LEMMA WholeFrame ==
  ASSUME NEW x \in Everyone, race \in Points, ParseLine(LineOf(x, race)) # NoFrame
  PROVE  /\ ParseLine(LineOf(x, race)).last \in {0, race.last}
         /\ "lap" \in Has(x) => ParseLine(LineOf(x, race)).lap = race.lap
<1> DEFINE text == LineOf(x, race)
           w == Senders[x].width
           t == ParseLine(text)
<1>1. /\ DOMAIN text = 1 .. w + 2 /\ Len(text) = w + 2 /\ w \in 0..13
      /\ \A k \in 1..w : text[k + 2] = IF Wire[k] \in Has(x) THEN race[Wire[k]] ELSE Senders[x].blank
  BY Tokens
<1> HIDE DEF text, w, t
<1>2. Len(text) \in Nat
  BY <1>1
<1>3. \A k \in 1..13 :
        t[Wire[k]] = IF k + 2 > Len(text) \/ text[k + 2] = Empty
                     THEN Absent(Wire[k]) ELSE text[k + 2]
  BY <1>2, Parsed DEF t, text
<1>4. \A f \in Fields : race[f] \in Int
  BY PointFields
<1>5. Senders[x].blank \in {0, Empty} /\ \A i \in 1..13 : Wire[i] \in Has(x) => i <= w
  BY SendersAssumption, WireNames DEF Everyone, Has, w
<1>6. ASSUME NEW k \in 1..13, Wire[k] # "wear"
      PROVE t[Wire[k]] \in {0, race[Wire[k]]} /\ (Wire[k] \in Has(x) => t[Wire[k]] = race[Wire[k]])
  <2>1. Wire[k] \in Fields /\ race[Wire[k]] \in Int
    BY <1>4, WireNames
  <2>2. Absent(Wire[k]) = 0
    BY <1>6 DEF Absent
  <2>3. CASE Wire[k] \in Has(x)
    <3>1. k \in 1..w /\ ~(k + 2 > Len(text))
      BY <2>3, <1>5, <1>1
    <3>2. text[k + 2] = race[Wire[k]] /\ text[k + 2] # Empty
      BY <3>1, <2>1, <2>3, <1>1, TokenAssumption
    <3>3. t[Wire[k]] = text[k + 2]
      BY <3>1, <3>2, <1>3
    <3> QED BY <3>2, <3>3
  <2>4. CASE Wire[k] \notin Has(x)
    <3>1. CASE k + 2 > Len(text)
      BY <3>1, <2>2, <2>4, <1>3
    <3>2. CASE ~(k + 2 > Len(text))
      <4>1. k \in 1..w
        BY <3>2, <1>1
      <4>2. text[k + 2] \in {0, Empty}
        BY <4>1, <2>4, <1>1, <1>5
      <4> QED BY <3>2, <4>2, <2>2, <2>4, <1>3
    <3> QED BY <3>1, <3>2
  <2> QED BY <2>3, <2>4
<1>7. t.last \in {0, race.last}
  <2>1. 2 \in 1..13 /\ Wire[2] = "last"
    BY WireNames
  <2> QED BY <2>1, <1>6
<1>8. "lap" \in Has(x) => t.lap = race.lap
  <2>1. 5 \in 1..13 /\ Wire[5] = "lap"
    BY WireNames
  <2> QED BY <2>1, <1>6
<1> QED BY <1>7, <1>8 DEF t, text

-----------------------------------------------------------------------------
(* The cache                                                               *)

LEMMA LeastNat ==
  ASSUME NEW T, T \subseteq Nat, T # {}
  PROVE  \E n \in T : \A x \in T : n <= x
<1> DEFINE Less == {p \in Nat \X Nat : p[1] < p[2]}
<1>1. IsWellFoundedOn(Less, Nat)
  BY NatLessThanWellFounded DEF OpToRel
<1> HIDE DEF Less
<1>2. PICK n \in T : \A y \in T : ~(<<y, n>> \in Less)
  BY <1>1, WFMin
<1>3. \A y \in T : ~(y < n)
  BY <1>2 DEF Less
<1> QED BY <1>3

Typed == {f \in Frames : (\A k \in Numbers : f[k] \in Int) /\ (\A k \in Fields \ {"delta"} : f[k] >= 0)}
Entry == [src : Sources, frame : Typed, prov : SUBSET Computed]
Distinct(e) == \A i, j \in DOMAIN e : e[i].src = e[j].src => i = j

LEMMA EntryAt ==
  ASSUME NEW e \in Seq(Entry)
  PROVE  /\ DOMAIN e = 1..Len(e) /\ Len(e) \in Nat /\ IsFiniteSet(DOMAIN e) /\ Cardinality(DOMAIN e) = Len(e)
         /\ \A i \in DOMAIN e : e[i] \in Entry /\ e[i].src \in Sources /\ e[i].frame \in Typed /\ e[i].prov \in SUBSET Computed
<1>1. DOMAIN e = 1..Len(e) /\ Len(e) \in Nat /\ \A i \in DOMAIN e : e[i] \in Entry
  <2> HIDE DEF Entry
  <2> QED OBVIOUS
<1>2. IsFiniteSet(1..Len(e)) /\ Cardinality(1..Len(e)) = IF 1 > Len(e) THEN 0 ELSE Len(e) - 1 + 1
  <2>1. 1 \in Int /\ Len(e) \in Int
    BY <1>1
  <2> QED BY <2>1, FS_Interval
<1>3. \A y \in Entry : y.src \in Sources /\ y.frame \in Typed /\ y.prov \in SUBSET Computed
  BY DEF Entry
<1> HIDE DEF Entry
<1> QED BY <1>1, <1>2, <1>3

\* Retaining keeps what it keeps, each once.
LEMMA LiveEntries ==
  ASSUME NEW e \in Seq(Entry), Distinct(e), NEW s, NEW silent
  PROVE  LET L == Live(e, s, silent)
         IN  /\ L \in Seq(Entry) /\ Distinct(L)
             /\ \A n \in DOMAIN L : (\E i \in DOMAIN e : L[n] = e[i]) /\ (L[n].src = s \/ L[n].src \notin silent)
             /\ \A i \in DOMAIN e : e[i].src = s \/ e[i].src \notin silent => \E n \in DOMAIN L : L[n] = e[i]
<1> DEFINE P == {i \in DOMAIN e : IsOf(e[i], s) \/ e[i].src \notin silent}
           rank == [i \in P |-> i]
           r == Ranked(rank)
           c == Cardinality(P)
           L == [n \in 1..c |-> e[r[n]]]
<1>1. P \in SUBSET (DOMAIN e) /\ DOMAIN e \in SUBSET Int /\ IsFiniteSet(DOMAIN e)
  BY EntryAt
<1>2. P \in SUBSET Int /\ IsFiniteSet(P)
  <2> HIDE DEF P
  <2> QED BY <1>1, FS_Subset
<1>3. \A i \in P : e[i].src = s \/ e[i].src \notin silent
  BY DEF IsOf
<1>4. \A i \in DOMAIN e : e[i].src = s \/ e[i].src \notin silent => i \in P
  BY DEF IsOf
<1>5. Live(e, s, silent) = Retained(e, P)
  BY DEF Live
<1> HIDE DEF P
<1>6. rank \in [P -> Int]
  BY <1>2
<1>7. /\ c \in Nat /\ r \in [1..c -> P]
      /\ \A i \in P : \E n \in 1..c : r[n] = i
      /\ \A m, n \in 1..c : m < n => Before(rank, r[m], r[n])
  <2> HIDE DEF rank
  <2> QED BY <1>2, <1>6, RankedSorts
<1>8. Live(e, s, silent) = L
  <2>1. DOMAIN r = 1..c
    BY <1>7
  <2> HIDE DEF r, c
  <2>2. Retained(e, P) = [n \in DOMAIN r |-> e[r[n]]]
    BY DEF Retained, r
  <2> QED BY <1>5, <2>1, <2>2
<1>9. \A m, n \in 1..c : r[m] = r[n] => m = n
  <2> SUFFICES ASSUME NEW m \in 1..c, NEW n \in 1..c, r[m] = r[n] PROVE m = n
    OBVIOUS
  <2>0. r[m] = r[n]
    OBVIOUS
  <2> HIDE DEF rank, r, c
  <2>1. ~Before(rank, r[m], r[n]) /\ ~Before(rank, r[n], r[m])
    <3>1. r[m] \in P /\ r[n] \in P
      BY <1>7
    <3>2. ~Before(rank, r[m], r[m])
      BY <3>1, <1>2, <1>6, BeforeTotal
    <3> QED BY <2>0, <3>2
  <2>2. ~(m < n) /\ ~(n < m)
    BY <2>1, <1>7
  <2> QED BY <2>2, <1>7
<1> HIDE DEF rank, r, c
<1>10. DOMAIN L = 1..c /\ \A n \in 1..c : r[n] \in P /\ r[n] \in DOMAIN e /\ L[n] = e[r[n]]
  BY <1>1, <1>7
<1>11. L \in Seq(Entry)
  <2>1. \A n \in 1..c : e[r[n]] \in Entry
    BY <1>10, EntryAt
  <2> HIDE DEF Entry
  <2> QED BY <2>1, <1>7
<1> HIDE DEF L
<1>12. Distinct(L)
  BY <1>9, <1>10 DEF Distinct
<1>13. \A n \in DOMAIN L : (\E i \in DOMAIN e : L[n] = e[i]) /\ (L[n].src = s \/ L[n].src \notin silent)
  BY <1>3, <1>10
<1>14. \A i \in DOMAIN e : e[i].src = s \/ e[i].src \notin silent => \E n \in DOMAIN L : L[n] = e[i]
  BY <1>4, <1>7, <1>10
<1> QED BY <1>8, <1>11, <1>12, <1>13, <1>14

\* The sender's entry is renewed, or added; the others stay as they are.
Renewed(C, e, s, t) ==
  /\ C \in Seq(Entry) /\ Distinct(C)
  /\ \E n \in DOMAIN C : /\ C[n].src = s /\ C[n].frame = t /\ Observe({}, t) \subseteq C[n].prov
                         /\ \A i \in DOMAIN e : e[i].src = s => Observe(e[i].prov, t) \subseteq C[n].prov
  /\ \A n \in DOMAIN C : C[n].src # s => \E i \in DOMAIN e : C[n] = e[i]
  /\ \A i \in DOMAIN e : e[i].src # s => \E n \in DOMAIN C : C[n] = e[i]

LEMMA CachedEntries ==
  ASSUME NEW e \in Seq(Entry), Distinct(e), NEW s \in Sources, NEW t \in Typed
  PROVE  Renewed(Cached(e, s, t), e, s, t)
<1> DEFINE C == Cached(e, s, t)
           new(p) == [src |-> s, frame |-> t, prov |-> Observe(p, t)]
<1>1. \A p \in SUBSET Computed : new(p) \in Entry /\ Observe({}, t) \subseteq Observe(p, t)
  BY DEF Entry, Observe
<1>2. \A p : new(p).src = s /\ new(p).frame = t /\ new(p).prov = Observe(p, t)
  OBVIOUS
<1>3. /\ DOMAIN e = 1..Len(e) /\ Len(e) \in Nat
      /\ \A i \in DOMAIN e : e[i] \in Entry /\ e[i].prov \in SUBSET Computed
  BY EntryAt
<1>4. CASE \E i \in DOMAIN e : e[i].src = s
  <2>1. C = [i \in DOMAIN e |-> IF e[i].src = s THEN new(e[i].prov) ELSE e[i]]
    BY <1>4 DEF Cached, IsOf
  <2> HIDE DEF C, new, Entry
  <2>2. /\ DOMAIN C = DOMAIN e
        /\ \A i \in DOMAIN e : /\ e[i].src = s => C[i] = new(e[i].prov)
                               /\ e[i].src # s => C[i] = e[i]
    BY <2>1
  <2>3. C \in Seq(Entry)
    <3>1. \A i \in 1..Len(e) : C[i] \in Entry
      BY <2>2, <1>1, <1>3
    <3> QED BY <2>1, <3>1, <1>3
  <2>4. \A i \in DOMAIN e : C[i].src = e[i].src
    BY <2>2, <1>2
  <2>5. Distinct(C)
    BY <2>2, <2>4 DEF Distinct
  <2>6. PICK n \in DOMAIN e : e[n].src = s
    BY <1>4
  <2>7. C[n].src = s /\ C[n].frame = t /\ Observe({}, t) \subseteq C[n].prov /\ Observe(e[n].prov, t) \subseteq C[n].prov
    BY <2>2, <2>6, <1>1, <1>2, <1>3
  <2>8. \A i \in DOMAIN e : e[i].src = s => Observe(e[i].prov, t) \subseteq C[n].prov
    BY <2>6, <2>7 DEF Distinct
  <2> QED BY <2>2, <2>3, <2>4, <2>5, <2>7, <2>8 DEF C, Renewed
<1>5. CASE ~\E i \in DOMAIN e : e[i].src = s
  <2>1. C = Append(e, new({}))
    BY <1>5 DEF Cached, IsOf
  <2>2. new({}) \in Entry
    BY <1>1
  <2> HIDE DEF C, new, Entry
  <2>3. /\ C \in Seq(Entry) /\ DOMAIN C = 1..Len(e) + 1
        /\ C[Len(e) + 1] = new({}) /\ \A i \in 1..Len(e) : C[i] = e[i]
    BY <2>1, <2>2, <1>3
  <2>4. Distinct(C)
    <3>1. ASSUME NEW i \in DOMAIN C, NEW j \in DOMAIN C, C[i].src = C[j].src PROVE i = j
      <4>1. i \in 1..Len(e) \/ i = Len(e) + 1
        BY <2>3, <1>3
      <4>2. j \in 1..Len(e) \/ j = Len(e) + 1
        BY <2>3, <1>3
      <4>3. C[Len(e) + 1].src = s
        BY <2>3, <1>2
      <4>4. \A k \in 1..Len(e) : C[k].src = e[k].src /\ e[k].src # s
        BY <2>3, <1>3, <1>5
      <4> QED BY <3>1, <4>1, <4>2, <4>3, <4>4, <1>3 DEF Distinct
    <3> QED BY <3>1 DEF Distinct
  <2>5. C[Len(e) + 1].src = s /\ C[Len(e) + 1].frame = t /\ Observe({}, t) \subseteq C[Len(e) + 1].prov
    BY <2>3, <1>2
  <2>6. Len(e) + 1 \in DOMAIN C
    BY <2>3, <1>3
  <2>7. \A n \in DOMAIN C : C[n].src # s => \E i \in DOMAIN e : C[n] = e[i]
    <3>1. \A n \in DOMAIN C : n \in 1..Len(e) \/ n = Len(e) + 1
      BY <2>3, <1>3
    <3> QED BY <3>1, <2>3, <2>5, <1>3
  <2>8. \A i \in DOMAIN e : \E n \in DOMAIN C : C[n] = e[i]
    BY <2>3, <1>3
  <2> QED BY <2>3, <2>4, <2>5, <2>6, <2>7, <2>8, <1>5 DEF C, Renewed
<1> QED BY <1>4, <1>5

-----------------------------------------------------------------------------
(* The merge                                                               *)

LEMMA OverlayFrame ==
  ASSUME NEW u \in Frames, NEW o \in Frames
  PROVE  /\ Overlay(u, o) \in Frames
         /\ \A f \in Numbers : Overlay(u, o)[f] = IF o[f] # 0 THEN o[f] ELSE u[f]
<1>1. Overlay(u, o) \in Frames
  BY DEF Overlay, Frames
<1>2. \A f \in Numbers : f \in DOMAIN Blank /\ Blank[f] = 0
  BY FrameFields
<1> QED BY <1>1, <1>2 DEF Overlay

LEMMA BlankFrame == Blank \in Frames
<1>1. \A f \in DOMAIN Blank : Blank[f] \in Int \cup Gears \cup {""}
  <2> SUFFICES ASSUME NEW f \in DOMAIN Blank PROVE Blank[f] \in Int \cup Gears \cup {""}
    OBVIOUS
  <2>1. Blank[f] = "" \/ Blank[f] = 0
    BY DEF Blank
  <2>2. 0 \in Int
    OBVIOUS
  <2> QED BY <2>1, <2>2, Zenon
<1>2. Blank = [f \in DOMAIN Blank |-> Blank[f]]
  BY DEF Blank
<1> HIDE DEF Frames
<1> QED BY <1>1, <1>2 DEF Frames

\* The overlays of a list of frames, up to n of them.
Overlaid(g, frames, n) == g[0] = Blank /\ \A m \in 1..n : g[m] = Overlay(g[m - 1], frames[m])

LEMMA OverlaysExist ==
  ASSUME NEW n \in Nat, NEW frames \in [1..n -> Frames]
  PROVE  \E g \in [0..n -> Frames] : Overlaid(g, frames, n)
<1> DEFINE Bad == {k \in 0..n : \A g \in [0..k -> Frames] : ~Overlaid(g, frames, k)}
<1>1. CASE Bad = {}
  BY <1>1
<1>2. CASE Bad # {}
  <2>0. Bad \subseteq Nat
    OBVIOUS
  <2>1. PICK k \in Bad : \A x \in Bad : k <= x
    <3> HIDE DEF Bad
    <3> QED BY <2>0, <1>2, LeastNat
  <2>2. k \in 0..n /\ \A g \in [0..k -> Frames] : ~Overlaid(g, frames, k)
    OBVIOUS
  <2>3. CASE k = 0
    <3>1. [m \in 0..0 |-> Blank] \in [0..0 -> Frames] /\ Overlaid([m \in 0..0 |-> Blank], frames, 0)
      BY BlankFrame DEF Overlaid
    <3> QED BY <3>1, <2>2, <2>3
  <2>4. CASE k > 0
    <3>1. k - 1 \in 0..n /\ k - 1 \notin Bad
      BY <2>1, <2>2, <2>4
    <3>2. PICK g \in [0..k - 1 -> Frames] : Overlaid(g, frames, k - 1)
      BY <3>1
    <3> DEFINE h == [m \in 0..k |-> IF m < k THEN g[m] ELSE Overlay(g[k - 1], frames[k])]
    <3>3. frames[k] \in Frames /\ g[k - 1] \in Frames
      BY <2>2, <2>4
    <3>4. h \in [0..k -> Frames]
      <4>1. Overlay(g[k - 1], frames[k]) \in Frames
        BY <3>3, OverlayFrame
      <4> QED BY <4>1, <2>2
    <3>5. h[0] = Blank
      BY <3>2, <2>2, <2>4 DEF Overlaid
    <3>6. ASSUME NEW m \in 1..k PROVE h[m] = Overlay(h[m - 1], frames[m])
      <4>1. m \in 0..k /\ m - 1 \in 0..k /\ m - 1 < k
        BY <2>2
      <4>2. h[m - 1] = g[m - 1]
        BY <4>1
      <4>3. CASE m = k
        BY <4>1, <4>2, <4>3
      <4>4. CASE m < k
        <5>1. m \in 1..k - 1 /\ h[m] = g[m]
          BY <4>1, <4>4, <2>2
        <5> QED BY <5>1, <4>2, <3>2 DEF Overlaid
      <4> QED BY <4>3, <4>4, <2>2
    <3> HIDE DEF h
    <3>7. Overlaid(h, frames, k)
      BY <3>5, <3>6 DEF Overlaid
    <3> QED BY <3>4, <3>7, <2>2
  <2> QED BY <2>2, <2>3, <2>4
<1> QED BY <1>1, <1>2

\* A field of the overlays is the last frame's that fills it.
Filled(v, frames, n, f) ==
  \/ v[f] = 0 /\ \A m \in 1..n : frames[m][f] = 0
  \/ \E m \in 1..n : /\ frames[m][f] # 0 /\ v[f] = frames[m][f]
                     /\ \A k \in m + 1 .. n : frames[k][f] = 0

LEMMA OverlaysFill ==
  ASSUME NEW n \in Nat, NEW frames \in [1..n -> Frames], NEW g \in [0..n -> Frames], Overlaid(g, frames, n),
         NEW f \in Numbers
  PROVE  Filled(g[n], frames, n, f)
<1> DEFINE Here(j) ==
             \/ g[j][f] = 0 /\ \A m \in 1..j : frames[m][f] = 0
             \/ \E m \in 1..j : /\ frames[m][f] # 0 /\ g[j][f] = frames[m][f]
                                /\ \A k \in m + 1 .. j : frames[k][f] = 0
           Bad == {j \in 0..n : ~Here(j)}
<1>1. Bad = {}
  <2> SUFFICES ASSUME Bad # {} PROVE FALSE
    OBVIOUS
  <2>0. Bad \subseteq Nat
    OBVIOUS
  <2>1. PICK j \in Bad : \A x \in Bad : j <= x
    <3> HIDE DEF Bad
    <3> QED BY <2>0, LeastNat
  <2>2. j \in 0..n /\ ~Here(j)
    OBVIOUS
  <2>3. j # 0
    <3>1. g[0][f] = 0
      BY FrameFields DEF Overlaid
    <3>2. Here(0)
      BY <3>1
    <3> QED BY <3>2, <2>2
  <2>4. j \in 1..n /\ j - 1 \in 0..n /\ j - 1 \notin Bad
    <3>1. j \in 1..n /\ j - 1 \in 0..n /\ ~(j <= j - 1)
      BY <2>2, <2>3
    <3> HIDE DEF Bad
    <3> QED BY <2>1, <3>1
  <2>5. Here(j - 1)
    BY <2>4
  <2>6. g[j][f] = IF frames[j][f] # 0 THEN frames[j][f] ELSE g[j - 1][f]
    <3>1. g[j] = Overlay(g[j - 1], frames[j])
      BY <2>4 DEF Overlaid
    <3>2. g[j - 1] \in Frames /\ frames[j] \in Frames
      BY <2>4
    <3> QED BY <3>1, <3>2, OverlayFrame
  <2> HIDE DEF Bad
  <2>7. CASE frames[j][f] # 0
    <3>1. \A k \in j + 1 .. j : frames[k][f] = 0
      BY <2>4
    <3> QED BY <3>1, <2>6, <2>7, <2>2, <2>4
  <2>8. CASE frames[j][f] = 0
    <3>1. CASE g[j - 1][f] = 0 /\ \A m \in 1..j - 1 : frames[m][f] = 0
      <4>1. \A m \in 1..j : m \in 1..j - 1 \/ m = j
        BY <2>4
      <4> QED BY <3>1, <4>1, <2>6, <2>8, <2>2
    <3>2. CASE \E m \in 1..j - 1 : /\ frames[m][f] # 0 /\ g[j - 1][f] = frames[m][f]
                                   /\ \A k \in m + 1 .. j - 1 : frames[k][f] = 0
      <4>1. PICK m \in 1..j - 1 : /\ frames[m][f] # 0 /\ g[j - 1][f] = frames[m][f]
                                  /\ \A k \in m + 1 .. j - 1 : frames[k][f] = 0
        BY <3>2
      <4>2. \A k \in m + 1 .. j : k \in m + 1 .. j - 1 \/ k = j
        BY <2>4
      <4>3. m \in 1..j
        BY <2>4
      <4> QED BY <4>1, <4>2, <4>3, <2>6, <2>8, <2>2
    <3> QED BY <3>1, <3>2, <2>5
  <2> QED BY <2>7, <2>8
<1>2. n \in 0..n
  OBVIOUS
<1>3. Here(n)
  <2> HIDE DEF Here
  <2> QED BY <1>1, <1>2
<1> QED BY <1>3 DEF Filled

\* Each field of the merged frame is that of the most authoritative source
\* that fills it, or of none.
LEMMA MergedFills ==
  ASSUME NEW e \in Seq(Entry), Distinct(e)
  PROVE  /\ Merged(e) \in Frames
         /\ \A f \in Numbers :
              \/ Merged(e)[f] = 0 /\ \A i \in DOMAIN e : e[i].frame[f] = 0
              \/ \E i \in DOMAIN e : /\ e[i].frame[f] # 0 /\ Merged(e)[f] = e[i].frame[f]
                                     /\ \A k \in DOMAIN e : e[k].frame[f] # 0 => Priority[e[k].src] <= Priority[e[i].src]
<1> DEFINE D == DOMAIN e
           n == Len(e)
           rank == [i \in D |-> Priority[e[i].src]]
           order == Order(e)
           frames == [m \in 1..n |-> e[order[m]].frame]
           F(g) == [m \in 0..n |-> IF m = 0 THEN Blank ELSE Overlay(g[m - 1], e[order[m]].frame)]
           upTo == CHOOSE g : g = F(g)
<1>1. D = 1..n /\ n \in Nat /\ IsFiniteSet(D) /\ Cardinality(D) = n /\ D \in SUBSET Int
  <2>1. 1..Len(e) \in SUBSET Int
    OBVIOUS
  <2> QED BY <2>1, EntryAt
<1>2. \A i \in D : e[i].src \in Sources /\ e[i].frame \in Typed
  BY EntryAt
<1>3. Merged(e) = upTo[n]
  BY DEF Merged
<1> HIDE DEF n, D
<1>4. rank \in [D -> Int]
  BY <1>2, RankAssumption
<1>5. order = Ranked(rank)
  BY DEF Order, D
<1> HIDE DEF order
<1>6. /\ order \in [1..n -> D]
      /\ \A i \in D : \E m \in 1..n : order[m] = i
      /\ \A m, k \in 1..n : m < k => Before(rank, order[m], order[k])
  <2> HIDE DEF rank
  <2>1. /\ Ranked(rank) \in [1..Cardinality(D) -> D]
        /\ \A i \in D : \E m \in 1..Cardinality(D) : Ranked(rank)[m] = i
        /\ \A m, k \in 1..Cardinality(D) : m < k => Before(rank, Ranked(rank)[m], Ranked(rank)[k])
    BY <1>1, <1>4, RankedSorts
  <2>2. Cardinality(D) = n
    BY <1>1
  <2> QED BY <2>1, <2>2, <1>5
<1>7. frames \in [1..n -> Frames]
  BY <1>2, <1>6 DEF Typed
<1>8. PICK g \in [0..n -> Frames] : Overlaid(g, frames, n)
  <2> HIDE DEF frames
  <2> QED BY <1>1, <1>7, OverlaysExist
<1>9. ASSUME NEW h, h = F(h) PROVE h \in [0..n -> Frames] /\ Overlaid(h, frames, n)
  <2>1. DOMAIN h = 0..n /\ h[0] = Blank
    BY <1>1, <1>9
  <2>2. \A m \in 1..n : m \in 0..n /\ m # 0
    BY <1>1
  <2>3. \A m \in 1..n : h[m] = Overlay(h[m - 1], e[order[m]].frame)
    <3>1. \A m \in 1..n : F(h)[m] = Overlay(h[m - 1], e[order[m]].frame)
      BY <2>2
    <3> HIDE DEF F
    <3> QED BY <3>1, <1>9
  <2>4. Overlaid(h, frames, n)
    BY <2>1, <2>3 DEF Overlaid
  <2> DEFINE Bad == {k \in 0..n : h[k] \notin Frames}
  <2>5. Bad = {}
    <3> SUFFICES ASSUME Bad # {} PROVE FALSE
      OBVIOUS
    <3>0. Bad \subseteq Nat
      BY <1>1
    <3>1. PICK k \in Bad : \A x \in Bad : k <= x
      <4> HIDE DEF Bad
      <4> QED BY <3>0, LeastNat
    <3>2. k \in 0..n /\ h[k] \notin Frames
      OBVIOUS
    <3>3. k # 0
      BY <2>1, <3>2, BlankFrame
    <3>4. k \in 1..n /\ k - 1 \in 0..n /\ k - 1 \notin Bad
      BY <1>1, <3>1, <3>2, <3>3
    <3>5. h[k - 1] \in Frames /\ frames[k] \in Frames
      BY <3>4, <1>7
    <3>6. h[k] = Overlay(h[k - 1], frames[k])
      BY <2>4, <3>4 DEF Overlaid
    <3> QED BY <3>2, <3>5, <3>6, OverlayFrame
  <2>6. h = [m \in 0..n |-> h[m]]
    BY <1>9
  <2>7. \A m \in 0..n : h[m] \in Frames
    BY <2>5
  <2> HIDE DEF F, Bad
  <2> QED BY <2>4, <2>6, <2>7
<1>10. g = F(g)
  <2>1. ASSUME NEW m \in 0..n PROVE g[m] = F(g)[m]
    <3>1. CASE m = 0
      BY <3>1, <1>8 DEF Overlaid
    <3>2. CASE m # 0
      <4>1. m \in 1..n
        BY <1>1, <3>2
      <4>2. g[m] = Overlay(g[m - 1], frames[m]) /\ frames[m] = e[order[m]].frame
        BY <4>1, <1>8 DEF Overlaid
      <4> QED BY <3>2, <4>2
    <3> QED BY <3>1, <3>2
  <2> QED BY <2>1
<1>11. upTo \in [0..n -> Frames] /\ Overlaid(upTo, frames, n)
  <2>1. upTo = F(upTo)
    <3> HIDE DEF F
    <3> QED BY <1>10
  <2> HIDE DEF upTo, F, frames
  <2> QED BY <2>1, <1>9
<1> HIDE DEF upTo, F
<1>12. upTo[n] \in Frames
  BY <1>1, <1>11
<1>13. ASSUME NEW f \in Numbers
       PROVE  \/ upTo[n][f] = 0 /\ \A i \in D : e[i].frame[f] = 0
              \/ \E i \in D : /\ e[i].frame[f] # 0 /\ upTo[n][f] = e[i].frame[f]
                              /\ \A k \in D : e[k].frame[f] # 0 => Priority[e[k].src] <= Priority[e[i].src]
  <2>1. \A m \in 1..n : frames[m] = e[order[m]].frame
    OBVIOUS
  <2> HIDE DEF frames
  <2>2. CASE upTo[n][f] = 0 /\ \A m \in 1..n : frames[m][f] = 0
    BY <2>1, <2>2, <1>6
  <2>3. CASE \E m \in 1..n : /\ frames[m][f] # 0 /\ upTo[n][f] = frames[m][f]
                             /\ \A k \in m + 1 .. n : frames[k][f] = 0
    <3>1. PICK m \in 1..n : /\ frames[m][f] # 0 /\ upTo[n][f] = frames[m][f]
                            /\ \A k \in m + 1 .. n : frames[k][f] = 0
      BY <2>3
    <3>2. ASSUME NEW k \in D, e[k].frame[f] # 0 PROVE Priority[e[k].src] <= Priority[e[order[m]].src]
      <4>1. PICK l \in 1..n : order[l] = k
        BY <1>6
      <4>2. frames[l][f] # 0
        BY <2>1, <3>2, <4>1
      <4>3. l \notin m + 1 .. n
        BY <3>1, <4>2
      <4>4. l <= m
        BY <1>1, <4>3
      <4>5. order[m] \in D /\ rank[k] \in Int /\ rank[order[m]] \in Int
        BY <1>4, <1>6
      <4>6. rank[k] <= rank[order[m]]
        <5>1. CASE l = m
          BY <5>1, <4>1, <4>5
        <5>2. CASE l < m
          <6>1. Before(rank, order[l], order[m])
            BY <5>2, <1>6
          <6> HIDE DEF rank
          <6> QED BY <6>1, <4>1, <4>5 DEF Before
        <5> QED BY <5>1, <5>2, <4>4, <1>1
      <4> QED BY <4>5, <4>6
    <3>3. order[m] \in D
      BY <1>6
    <3> QED BY <3>1, <3>2, <3>3, <2>1
  <2>4. Filled(upTo[n], frames, n, f)
    <3>1. n \in Nat
      BY <1>1
    <3> QED BY <3>1, <1>7, <1>11, OverlaysFill
  <2>5. (upTo[n][f] = 0 /\ \A m \in 1..n : frames[m][f] = 0)
        \/ \E m \in 1..n : /\ frames[m][f] # 0 /\ upTo[n][f] = frames[m][f]
                           /\ \A k \in m + 1 .. n : frames[k][f] = 0
    BY <2>4 DEF Filled
  <2> QED BY <2>2, <2>3, <2>5
<1> QED BY <1>3, <1>12, <1>13 DEF D

-----------------------------------------------------------------------------
(* The trackers                                                            *)

\* What one tracker does to a frame: it fills the fields F.
Fills(t, u, F) == DOMAIN u = DOMAIN t /\ \A f \in DOMAIN t \ F : u[f] = t[f]

LEMMA BestLapFills ==
  ASSUME NEW b, NEW t, "best" \in DOMAIN t
  PROVE  /\ Fills(t, BestLap(b, t).t, {"best"})
         /\ t.best # 0 => BestLap(b, t).t.best = t.best
         /\ t.best = 0 => BestLap(b, t).t.best = Fastest({Kept(b, t), 0, t.last})
         /\ t.best = 0 => BestLap(b, t).tr = [ms |-> Fastest({Kept(b, t), 0, t.last}), lap |-> t.lap]
<1> DEFINE ms == Fastest({Kept(b, t), t.best, t.last})
           u == IF t.best = 0 THEN [t EXCEPT !.best = ms] ELSE t
<1>1. BestLap(b, t).t = u /\ BestLap(b, t).tr = [ms |-> ms, lap |-> t.lap]
  BY DEF BestLap, With
<1>2. t.best = 0 => ms = Fastest({Kept(b, t), 0, t.last})
  OBVIOUS
<1> HIDE DEF ms
<1>3. Fills(t, u, {"best"})
  BY DEF Fills
<1>4. t.best # 0 => u.best = t.best
  OBVIOUS
<1>5. t.best = 0 => u.best = ms
  OBVIOUS
<1> HIDE DEF u
<1> QED BY <1>1, <1>2, <1>3, <1>4, <1>5

LEMMA FuelFills ==
  ASSUME NEW k, NEW t, NEW p, {"fpl", "fuelLaps"} \subseteq DOMAIN t, t.fpl \in Nat
  PROVE  /\ Fills(t, Fuel(k, t, p).t, {"fpl", "fuelLaps"})
         /\ t.fpl # 0 => Fuel(k, t, p).t.fpl = t.fpl
         /\ t.fpl = 0 => Fuel(k, t, p).t.fpl \in {0, Fuel(k, t, p).tr.per}
         /\ t.fuelLaps # 0 => Fuel(k, t, p).t.fuelLaps = t.fuelLaps
<1> DEFINE n == FuelTracker(k, t, p)
           a == IF t.fpl <= 0 /\ n.per > 0 THEN [t EXCEPT !.fpl = n.per] ELSE t
           u == IF t.fuelLaps = 0 /\ n.per > 0 /\ t.fuel > 0 THEN [a EXCEPT !.fuelLaps = (t.fuel * 10) \div n.per] ELSE a
<1>1. Fuel(k, t, p).t = u /\ Fuel(k, t, p).tr = n
  BY DEF Fuel, With
<1> HIDE DEF n
<1>2. Fills(t, a, {"fpl"})
  BY DEF Fills
<1>3. t.fpl # 0 => a.fpl = t.fpl
  OBVIOUS
<1>4. t.fpl = 0 => a.fpl \in {0, n.per}
  OBVIOUS
<1> HIDE DEF a
<1>5. DOMAIN u = DOMAIN a /\ \A f \in DOMAIN a \ {"fuelLaps"} : u[f] = a[f]
  BY <1>2 DEF Fills
<1>6. t.fuelLaps # 0 => u = a
  OBVIOUS
<1> HIDE DEF u
<1>7. Fills(t, u, {"fpl", "fuelLaps"})
  BY <1>2, <1>5 DEF Fills
<1>8. u.fpl = a.fpl /\ (t.fuelLaps # 0 => u.fuelLaps = t.fuelLaps)
  BY <1>2, <1>5, <1>6 DEF Fills
<1> QED BY <1>1, <1>3, <1>4, <1>7, <1>8

LEMMA VeFills ==
  ASSUME NEW k, NEW t, "vpl" \in DOMAIN t
  PROVE  Fills(t, Ve(k, t).t, {"vpl"})
<1> DEFINE n == Burned(k, t.lap, t.ve)
<1>1. Ve(k, t).t = t \/ Ve(k, t).t = [t EXCEPT !.vpl = n.per]
  BY DEF Ve, With
<1> HIDE DEF n
<1>2. Fills(t, [t EXCEPT !.vpl = n.per], {"vpl"}) /\ Fills(t, t, {"vpl"})
  BY DEF Fills
<1> QED BY <1>1, <1>2

LEMMA DeltaFills ==
  ASSUME NEW d, NEW t, "delta" \in DOMAIN t
  PROVE  /\ Fills(t, Delta(d, t).t, {"delta"})
         /\ t.delta # 0 => Delta(d, t).t.delta = t.delta
<1> DEFINE b == IF t.pct > Buckets THEN Buckets ELSE t.pct
           n == Recorded(Crossed(d, t), b, t.cur)
           v == (t.cur - n.refT[b]) * 10
<1>1. Delta(d, t) = IF t.delta # 0 THEN With(d, t)
                    ELSE IF t.cur <= 0 THEN With(Crossed(d, t), t)
                    ELSE With(n, IF n.ref /\ n.refT[b] >= 0 THEN [t EXCEPT !.delta = v] ELSE t)
  BY DEF Delta
<1> HIDE DEF b, n, v
<1>2. /\ Delta(d, t).t = t \/ Delta(d, t).t = [t EXCEPT !.delta = v]
      /\ t.delta # 0 => Delta(d, t).t = t
  BY <1>1 DEF With
<1>3. Fills(t, [t EXCEPT !.delta = v], {"delta"}) /\ Fills(t, t, {"delta"})
  BY DEF Fills
<1> QED BY <1>2, <1>3

\* What the trackers do to a frame: what is sent is kept, what is computed is
\* what nobody sent.
Updated(d, t, p, u, w) ==
  /\ \A f \in Numbers \ {"best", "delta", "fpl", "fuelLaps", "vpl"} : u[f] = t[f]
  /\ "best" \in p \/ t.best # 0 => u.best = t.best
  /\ "best" \notin p /\ t.best = 0 =>
       /\ u.best = Fastest({Kept(d.best, t), 0, t.last})
       /\ w.best = [ms |-> Fastest({Kept(d.best, t), 0, t.last}), lap |-> t.lap]
  /\ "delta" \in p \/ t.delta # 0 => u.delta = t.delta
  /\ t.fpl # 0 => u.fpl = t.fpl
  /\ t.fpl = 0 => u.fpl \in {0, w.fuel.per}
  /\ t.fuelLaps # 0 => u.fuelLaps = t.fuelLaps

LEMMA UpdateFields ==
  ASSUME NEW d, NEW t \in Typed, NEW p
  PROVE  Updated(d, t, p, Update(d, t, p).t, Update(d, t, p).d)
<1> DEFINE b == IF "best" \in p THEN With(d.best, t) ELSE BestLap(d.best, t)
           f == Fuel(d.fuel, b.t, "fpl" \in p)
           v == Ve(d.ve, f.t)
           l == IF "delta" \in p THEN With(d.delta, v.t) ELSE Delta(d.delta, v.t)
<1>0. /\ DOMAIN t = DOMAIN Blank /\ {"best", "delta", "fpl", "fuelLaps", "vpl"} \subseteq DOMAIN t
      /\ Numbers \subseteq DOMAIN t /\ t.fpl \in Nat
  <2>1. DOMAIN t = DOMAIN Blank
    BY DEF Typed, Frames
  <2>2. t.fpl \in Int /\ t.fpl >= 0
    BY FrameFields DEF Typed
  <2> QED BY <2>1, <2>2, FrameFields
<1>1. Update(d, t, p).t = l.t /\ Update(d, t, p).d.best = b.tr /\ Update(d, t, p).d.fuel = f.tr
  BY DEF Update
<1>2. /\ Fills(t, b.t, {"best"})
      /\ "best" \in p \/ t.best # 0 => b.t.best = t.best
      /\ "best" \notin p /\ t.best = 0 =>
           /\ b.t.best = Fastest({Kept(d.best, t), 0, t.last})
           /\ b.tr = [ms |-> Fastest({Kept(d.best, t), 0, t.last}), lap |-> t.lap]
  <2>1. CASE "best" \in p
    <3>1. b.t = t
      BY <2>1 DEF With
    <3>2. Fills(t, t, {"best"})
      BY DEF Fills
    <3> QED BY <2>1, <3>1, <3>2
  <2>2. CASE "best" \notin p
    <3>1. b = BestLap(d.best, t)
      BY <2>2
    <3> HIDE DEF b
    <3> QED BY <2>2, <3>1, <1>0, BestLapFills
  <2> QED BY <2>1, <2>2
<1> HIDE DEF b
<1>3. /\ {"best", "delta", "fpl", "fuelLaps", "vpl"} \subseteq DOMAIN b.t
      /\ b.t.fpl = t.fpl /\ b.t.fuelLaps = t.fuelLaps /\ b.t.delta = t.delta
  BY <1>0, <1>2 DEF Fills
<1>4. /\ Fills(b.t, f.t, {"fpl", "fuelLaps"})
      /\ b.t.fpl # 0 => f.t.fpl = b.t.fpl
      /\ b.t.fpl = 0 => f.t.fpl \in {0, f.tr.per}
      /\ b.t.fuelLaps # 0 => f.t.fuelLaps = b.t.fuelLaps
  BY <1>0, <1>3, FuelFills
<1> HIDE DEF f
<1>5. "vpl" \in DOMAIN f.t
  BY <1>3, <1>4 DEF Fills
<1>6. Fills(f.t, v.t, {"vpl"})
  BY <1>5, VeFills
<1> HIDE DEF v
<1>7. "delta" \in DOMAIN v.t /\ v.t.delta = t.delta
  BY <1>3, <1>4, <1>6 DEF Fills
<1>8. Fills(v.t, l.t, {"delta"}) /\ ("delta" \in p \/ v.t.delta # 0 => l.t.delta = v.t.delta)
  <2>1. CASE "delta" \in p
    <3>1. l.t = v.t
      BY <2>1 DEF With
    <3>2. Fills(v.t, v.t, {"delta"})
      BY DEF Fills
    <3> QED BY <3>1, <3>2
  <2>2. CASE "delta" \notin p
    <3>1. l = Delta(d.delta, v.t)
      BY <2>2
    <3> HIDE DEF l
    <3> QED BY <2>2, <3>1, <1>7, DeltaFills
  <2> QED BY <2>1, <2>2
<1> HIDE DEF l
<1>9. l.t.best = b.t.best /\ l.t.fpl = f.t.fpl /\ l.t.fuelLaps = f.t.fuelLaps
  BY <1>3, <1>4, <1>6, <1>8 DEF Fills
<1>10. \A k \in Numbers \ {"best", "delta", "fpl", "fuelLaps", "vpl"} : l.t[k] = t[k]
  BY <1>0, <1>2, <1>4, <1>6, <1>8 DEF Fills
<1> DEFINE u == Update(d, t, p).t
           w == Update(d, t, p).d
<1>11. u = l.t /\ w.best = b.tr /\ w.fuel = f.tr
  BY <1>1
<1> HIDE DEF u, w
<1>12. Updated(d, t, p, u, w)
  BY <1>2, <1>3, <1>4, <1>7, <1>8, <1>9, <1>10, <1>11 DEF Updated
<1> QED BY <1>12 DEF u, w

-----------------------------------------------------------------------------
(* What the cache holds of the senders                                     *)

\* The race goes on along its script.
RaceInv ==
  /\ cast.script \in Seq(Points) /\ GoesOn(cast.script)
  /\ at \in 1 .. Len(cast.script)

\* What the cache holds of the senders.
CacheInv ==
  /\ srcs \in Seq(Entry) /\ Distinct(srcs)
  /\ tag \in Sources \cup {Nil}
  /\ DOMAIN sent = DOMAIN Senders /\ DOMAIN origin = Sources
  /\ \A l \in Sources : origin[l] \subseteq DOMAIN Senders
  /\ \A x \in DOMAIN Senders : sent[x] # Nil => sent[x].gave \in SUBSET Computed

\* A label is silent iff nobody has been heard under it; one that is not is
\* in the cache.
QuietInv ==
  \A l \in Sources : /\ l \in quiet => origin[l] = {}
                     /\ l \notin quiet => origin[l] # {} /\ \E i \in DOMAIN srcs : srcs[i].src = l

\* A sender was heard under the label it has, and under another one only if
\* that label is another sender's too.
OriginInv ==
  /\ \A x \in DOMAIN Senders : sent[x] # Nil => sent[x].label \in Sources /\ x \in origin[sent[x].label]
  /\ \A l \in Sources : \A x \in origin[l] : sent[x] = Nil => \E y \in origin[l] : y # x

\* Where one sender has a label, the cache has what it sent.
InCache(l, x) ==
  origin[l] = {x} /\ sent[x] # Nil /\ sent[x].label = l =>
    \E i \in DOMAIN srcs : srcs[i].src = l /\ srcs[i].frame = sent[x].frame /\ sent[x].gave \subseteq srcs[i].prov
EntryInv == \A l \in Sources : \A x \in DOMAIN Senders : InCache(l, x)

FeedInv == RaceInv /\ CacheInv /\ QuietInv /\ OriginInv /\ EntryInv

LEMMA RaceIs == RaceInv => race \in Points
<1> SUFFICES ASSUME RaceInv PROVE cast.script[at] \in Points
  BY DEF race
<1> HIDE DEF Points
<1> QED BY DEF RaceInv

LEMMA FeedInit == Init => FeedInv
<1> SUFFICES ASSUME Init PROVE FeedInv
  OBVIOUS
<1>1. PICK s \in Scenarios : cast = [k \in {"script", "grids", "asks", "two", "clock", "named"} |-> s[k]]
  BY DEF Init
<1>2. cast.script = s.script /\ at = 1
  BY <1>1 DEF Init
<1>3. RaceInv
  <2>1. s.script \in Seq(Points) /\ s.script # <<>> /\ GoesOn(s.script)
    BY RaceAssumption
  <2>2. Len(s.script) \in Nat /\ Len(s.script) # 0
    BY <2>1
  <2> QED BY <1>2, <2>1, <2>2 DEF RaceInv
<1>4. /\ srcs = <<>> /\ quiet = Sources /\ tag = Nil
      /\ sent = [x \in DOMAIN Senders |-> Nil] /\ origin = [l \in Sources |-> {}]
  BY DEF Init, InitMerge
<1>5. CacheInv
  BY <1>4 DEF CacheInv, Distinct
<1> QED BY <1>3, <1>4, <1>5 DEF FeedInv, QuietInv, OriginInv, EntryInv, InCache

LEMMA Labelled ==
  ASSUME CacheInv, NEW x \in Everyone
  PROVE  LabelOf(x) \in Sources
BY SendersAssumption DEF CacheInv, LabelOf, Everyone

\* A datagram that is heard.
LEMMA Received ==
  ASSUME FeedInv, NEW x \in Everyone, NEW text, Written(x, text), Receives(x, text),
         ~(otaFlag \/ ParseLine(text) = NoFrame)
  PROVE  /\ ParseLine(text) \in Typed /\ LabelOf(x) \in Sources
         /\ srcs' = Cached(Live(srcs, LabelOf(x), quiet), LabelOf(x), ParseLine(text))
         /\ quiet' = quiet \ {LabelOf(x)}
         /\ Heard(x, ParseLine(text))
         /\ UNCHANGED <<cast, at, tag>>
<1>1. race \in Points
  BY RaceIs DEF FeedInv
<1>2. ParseLine(text) \in Typed
  BY <1>1, FrameTyped DEF Typed
<1>3. LabelOf(x) \in Sources
  BY Labelled DEF FeedInv
<1>4. srcs' = Cached(Live(srcs, LabelOf(x), quiet), LabelOf(x), ParseLine(text)) /\ quiet' = quiet \ {LabelOf(x)}
  BY DEF Receives, PushFrame
<1>5. Heard(x, ParseLine(text)) /\ UNCHANGED <<cast, at, tag>>
  BY DEF Receives, world
<1> QED BY <1>2, <1>3, <1>4, <1>5

LEMMA ReceivedEntries ==
  ASSUME FeedInv, NEW x \in Everyone, NEW text, Written(x, text), Receives(x, text),
         ~(otaFlag \/ ParseLine(text) = NoFrame)
  PROVE  /\ srcs' \in Seq(Entry) /\ Distinct(srcs)'
         /\ \E n \in DOMAIN srcs' : /\ srcs'[n].src = LabelOf(x) /\ srcs'[n].frame = ParseLine(text)
                                    /\ Observe({}, ParseLine(text)) \subseteq srcs'[n].prov
                                    /\ \A i \in DOMAIN srcs : srcs[i].src = LabelOf(x) =>
                                         Observe(srcs[i].prov, ParseLine(text)) \subseteq srcs'[n].prov
         /\ \A i \in DOMAIN srcs : srcs[i].src # LabelOf(x) /\ srcs[i].src \notin quiet =>
              \E n \in DOMAIN srcs' : srcs'[n] = srcs[i]
         /\ \A n \in DOMAIN srcs' : srcs'[n].src # LabelOf(x) => srcs'[n].src \notin quiet
<1> DEFINE s == LabelOf(x)
           t == ParseLine(text)
           L == Live(srcs, s, quiet)
<1>1. srcs \in Seq(Entry) /\ Distinct(srcs)
  BY DEF FeedInv, CacheInv
<1>2. /\ L \in Seq(Entry) /\ Distinct(L)
      /\ \A n \in DOMAIN L : (\E i \in DOMAIN srcs : L[n] = srcs[i]) /\ (L[n].src = s \/ L[n].src \notin quiet)
      /\ \A i \in DOMAIN srcs : srcs[i].src = s \/ srcs[i].src \notin quiet => \E n \in DOMAIN L : L[n] = srcs[i]
  BY <1>1, LiveEntries
<1>3. t \in Typed /\ s \in Sources /\ srcs' = Cached(L, s, t)
  BY Received
<1> HIDE DEF s, t, L
<1>4. /\ srcs' \in Seq(Entry) /\ Distinct(srcs')
      /\ \E n \in DOMAIN srcs' : /\ srcs'[n].src = s /\ srcs'[n].frame = t /\ Observe({}, t) \subseteq srcs'[n].prov
                                 /\ \A i \in DOMAIN L : L[i].src = s => Observe(L[i].prov, t) \subseteq srcs'[n].prov
      /\ \A n \in DOMAIN srcs' : srcs'[n].src # s => \E i \in DOMAIN L : srcs'[n] = L[i]
      /\ \A i \in DOMAIN L : L[i].src # s => \E n \in DOMAIN srcs' : srcs'[n] = L[i]
  <2>1. Renewed(srcs', L, s, t)
    <3>1. L \in Seq(Entry) /\ Distinct(L) /\ s \in Sources /\ t \in Typed
      BY <1>2, <1>3
    <3> QED BY <3>1, <1>3, CachedEntries
  <2> QED BY <2>1 DEF Renewed
<1>5. Distinct(srcs)'
  BY <1>4 DEF Distinct
<1>6. PICK n \in DOMAIN srcs' : /\ srcs'[n].src = s /\ srcs'[n].frame = t /\ Observe({}, t) \subseteq srcs'[n].prov
                                /\ \A i \in DOMAIN L : L[i].src = s => Observe(L[i].prov, t) \subseteq srcs'[n].prov
  BY <1>4
<1>7. ASSUME NEW i \in DOMAIN srcs, srcs[i].src = s PROVE Observe(srcs[i].prov, t) \subseteq srcs'[n].prov
  <2>1. PICK m \in DOMAIN L : L[m] = srcs[i]
    BY <1>2, <1>7
  <2> QED BY <2>1, <1>6, <1>7
<1>8. \A i \in DOMAIN srcs : srcs[i].src # s /\ srcs[i].src \notin quiet => \E m \in DOMAIN srcs' : srcs'[m] = srcs[i]
  BY <1>2, <1>4
<1>9. \A m \in DOMAIN srcs' : srcs'[m].src # s => srcs'[m].src \notin quiet
  BY <1>2, <1>4
<1> QED BY <1>4, <1>5, <1>6, <1>7, <1>8, <1>9 DEF s, t

LEMMA HeardFields ==
  ASSUME CacheInv, NEW x \in Everyone, NEW t, Heard(x, t)
  PROVE  LET l == LabelOf(x)
             g == IF sent[x] # Nil /\ sent[x].label = l THEN sent[x].gave ELSE {}
         IN  /\ DOMAIN sent' = DOMAIN Senders /\ DOMAIN origin' = Sources
             /\ sent'[x] = [label |-> l, frame |-> t, gave |-> Observe(g, t)]
             /\ \A y \in DOMAIN Senders : y # x => sent'[y] = sent[y]
             /\ \A m \in Sources : origin'[m] = IF m = l THEN origin[m] \cup {x} ELSE origin[m]
BY Labelled DEF Heard, CacheInv, Everyone

LEMMA FeedReceives ==
  ASSUME FeedInv, NEW x \in Everyone, NEW text, Written(x, text), Receives(x, text)
  PROVE  FeedInv'
<1>1. CASE otaFlag \/ ParseLine(text) = NoFrame
  <2>1. UNCHANGED <<srcs, quiet, sent, origin, cast, at, tag>>
    BY <1>1 DEF Receives, PushFrame, merge, past, world
  <2> QED BY <2>1 DEF FeedInv, RaceInv, CacheInv, QuietInv, OriginInv, EntryInv, InCache, Distinct
<1>2. CASE ~(otaFlag \/ ParseLine(text) = NoFrame)
  <2> DEFINE s == LabelOf(x)
             t == ParseLine(text)
             g == IF sent[x] # Nil /\ sent[x].label = s THEN sent[x].gave ELSE {}
  <2>1. /\ t \in Typed /\ s \in Sources /\ quiet' = quiet \ {s} /\ Heard(x, t) /\ UNCHANGED <<cast, at, tag>>
    BY <1>2, Received
  <2>2. /\ srcs' \in Seq(Entry) /\ Distinct(srcs)'
        /\ \E n \in DOMAIN srcs' : /\ srcs'[n].src = s /\ srcs'[n].frame = t /\ Observe({}, t) \subseteq srcs'[n].prov
                                   /\ \A i \in DOMAIN srcs : srcs[i].src = s => Observe(srcs[i].prov, t) \subseteq srcs'[n].prov
        /\ \A i \in DOMAIN srcs : srcs[i].src # s /\ srcs[i].src \notin quiet => \E n \in DOMAIN srcs' : srcs'[n] = srcs[i]
    BY <1>2, ReceivedEntries
  <2>3. x \in DOMAIN Senders
    BY DEF Everyone
  <2>4. /\ DOMAIN sent' = DOMAIN Senders /\ DOMAIN origin' = Sources
        /\ sent'[x] = [label |-> s, frame |-> t, gave |-> Observe(g, t)]
        /\ \A y \in DOMAIN Senders : y # x => sent'[y] = sent[y]
        /\ \A m \in Sources : origin'[m] = IF m = s THEN origin[m] \cup {x} ELSE origin[m]
    BY <2>1, HeardFields DEF FeedInv
  <2> HIDE DEF s, t, g
  <2>5. PICK n \in DOMAIN srcs' : /\ srcs'[n].src = s /\ srcs'[n].frame = t /\ Observe({}, t) \subseteq srcs'[n].prov
                                  /\ \A i \in DOMAIN srcs : srcs[i].src = s => Observe(srcs[i].prov, t) \subseteq srcs'[n].prov
    BY <2>2
  <2>6. sent'[x].label = s /\ sent'[x].frame = t /\ sent'[x].gave = Observe(g, t) /\ sent'[x] # Nil
        /\ Observe(g, t) \in SUBSET Computed
    <3>1. sent'[x].label = s /\ sent'[x].frame = t /\ sent'[x].gave = Observe(g, t)
      BY <2>4
    <3>2. Observe(g, t) \in SUBSET Computed
      <4>1. g \in SUBSET Computed
        BY <2>3 DEF g, FeedInv, CacheInv
      <4> HIDE DEF g
      <4> QED BY <4>1 DEF Observe
    <3>3. sent'[x] # Nil
      <4>1. t \in Frames
        BY <2>1 DEF Typed
      <4> HIDE DEF Frames, Computed
      <4>2. sent'[x] \in [label : Sources, frame : Frames, gave : SUBSET Computed]
        BY <3>2, <4>1, <2>1, <2>4
      <4> QED BY <4>2, NilAssumption
    <3> QED BY <3>1, <3>2, <3>3
  <2>7. RaceInv'
    BY <2>1 DEF FeedInv, RaceInv
  <2>8. CacheInv'
    <3>1. \A y \in DOMAIN Senders : sent'[y] # Nil => sent'[y].gave \in SUBSET Computed
      BY <2>3, <2>4, <2>6 DEF FeedInv, CacheInv
    <3>2. \A l \in Sources : origin'[l] \subseteq DOMAIN Senders
      BY <2>3, <2>4 DEF FeedInv, CacheInv
    <3> QED BY <3>1, <3>2, <2>1, <2>2, <2>4 DEF FeedInv, CacheInv
  <2>9. QuietInv'
    <3> SUFFICES ASSUME NEW l \in Sources
                 PROVE  /\ l \in quiet' => origin'[l] = {}
                        /\ l \notin quiet' => origin'[l] # {} /\ \E i \in DOMAIN srcs' : srcs'[i].src = l
      BY DEF QuietInv
    <3>1. CASE l = s
      BY <3>1, <2>1, <2>4, <2>5
    <3>2. CASE l # s
      <4>1. (l \in quiet' <=> l \in quiet) /\ origin'[l] = origin[l]
        BY <3>2, <2>1, <2>4
      <4>2. l \notin quiet => \E i \in DOMAIN srcs' : srcs'[i].src = l
        BY <3>2, <2>2 DEF FeedInv, QuietInv
      <4> QED BY <4>1, <4>2 DEF FeedInv, QuietInv
    <3> QED BY <3>1, <3>2
  <2>10. OriginInv'
    <3>1. ASSUME NEW y \in DOMAIN Senders, sent'[y] # Nil PROVE sent'[y].label \in Sources /\ y \in origin'[sent'[y].label]
      <4>1. CASE y = x
        BY <4>1, <2>1, <2>4, <2>6
      <4>2. CASE y # x
        BY <4>2, <3>1, <2>4 DEF FeedInv, OriginInv
      <4> QED BY <4>1, <4>2
    <3>2. ASSUME NEW l \in Sources, NEW y \in origin'[l], sent'[y] = Nil PROVE \E z \in origin'[l] : z # y
      <4>1. y # x
        BY <3>2, <2>6
      <4>2. y \in origin[l] /\ y \in DOMAIN Senders /\ sent[y] = Nil
        BY <4>1, <3>2, <2>4 DEF FeedInv, CacheInv
      <4>3. PICK z \in origin[l] : z # y
        BY <4>2 DEF FeedInv, OriginInv
      <4> QED BY <4>3, <2>4
    <3> QED BY <3>1, <3>2 DEF OriginInv
  <2>11. EntryInv'
    <3> SUFFICES ASSUME NEW l \in Sources, NEW y \in DOMAIN Senders,
                        origin'[l] = {y}, sent'[y] # Nil, sent'[y].label = l
                 PROVE  \E i \in DOMAIN srcs' : /\ srcs'[i].src = l /\ srcs'[i].frame = sent'[y].frame
                                                /\ sent'[y].gave \subseteq srcs'[i].prov
      BY DEF EntryInv, InCache
    <3>1. CASE l = s
      <4>1. y = x
        BY <3>1, <2>4
      <4>2. Observe(g, t) \subseteq srcs'[n].prov
        <5>1. CASE g = {}
          BY <5>1, <2>5
        <5>2. CASE g # {}
          <6>1. sent[x] # Nil /\ sent[x].label = s /\ g = sent[x].gave
            BY <5>2 DEF g
          <6>2. origin[s] = {x}
            <7>1. x \in origin[s]
              BY <6>1, <2>3 DEF FeedInv, OriginInv
            <7> QED BY <7>1, <2>1, <2>4, <3>1, <4>1
          <6>3. PICK i \in DOMAIN srcs : srcs[i].src = s /\ sent[x].gave \subseteq srcs[i].prov
            BY <6>1, <6>2, <2>1, <2>3 DEF FeedInv, EntryInv, InCache
          <6>4. Observe(srcs[i].prov, t) \subseteq srcs'[n].prov
            BY <2>5, <6>3
          <6> QED BY <6>1, <6>3, <6>4 DEF Observe
        <5> QED BY <5>1, <5>2
      <4> QED BY <3>1, <4>1, <4>2, <2>5, <2>6
    <3>2. CASE l # s
      <4>1. y # x
        BY <3>2, <2>6
      <4>2. origin[l] = {y} /\ sent'[y] = sent[y]
        BY <3>2, <4>1, <2>4
      <4>3. PICK i \in DOMAIN srcs : srcs[i].src = l /\ srcs[i].frame = sent[y].frame /\ sent[y].gave \subseteq srcs[i].prov
        BY <4>2 DEF FeedInv, EntryInv, InCache
      <4>4. l \notin quiet
        BY <4>2 DEF FeedInv, QuietInv
      <4>5. PICK m \in DOMAIN srcs' : srcs'[m] = srcs[i]
        BY <4>3, <4>4, <3>2, <2>2
      <4> QED BY <4>2, <4>3, <4>5
    <3> QED BY <3>1, <3>2
  <2> QED BY <2>7, <2>8, <2>9, <2>10, <2>11 DEF FeedInv
<1> QED BY <1>1, <1>2

LEMMA FeedSilent ==
  ASSUME FeedInv, NEW l \in Sources, Silent(l)
  PROVE  FeedInv'
<1>1. /\ \A x \in DOMAIN Senders : sent[x] # Nil /\ sent[x].label = l => Left(x, l)
      /\ l \notin quiet /\ quiet' = quiet \cup {l} /\ UNCHANGED <<srcs, cast, at, tag>>
      /\ sent' = [x \in DOMAIN Senders |-> IF sent[x] # Nil /\ sent[x].label = l THEN Nil ELSE sent[x]]
      /\ origin' = [origin EXCEPT ![l] = {}]
  BY DEF Silent, FallsQuiet, world
<1>2. /\ DOMAIN sent' = DOMAIN Senders /\ DOMAIN origin' = Sources /\ origin'[l] = {}
      /\ \A m \in Sources \ {l} : origin'[m] = origin[m]
      /\ \A x \in DOMAIN Senders : sent'[x] # Nil => sent'[x] = sent[x] /\ sent[x].label # l
      /\ \A x \in DOMAIN Senders : sent[x] # Nil /\ sent[x].label # l => sent'[x] = sent[x]
      /\ \A x \in DOMAIN Senders : sent[x] # Nil /\ sent'[x] = Nil => sent[x].label = l
  BY <1>1 DEF FeedInv, CacheInv
<1>3. RaceInv'
  BY <1>1 DEF FeedInv, RaceInv
<1>4. CacheInv'
  <2>1. /\ \A m \in Sources : origin'[m] \subseteq DOMAIN Senders
        /\ \A x \in DOMAIN Senders : sent'[x] # Nil => sent'[x].gave \in SUBSET Computed
    BY <1>2 DEF FeedInv, CacheInv
  <2> QED BY <1>1, <1>2, <2>1 DEF FeedInv, CacheInv, Distinct
<1>5. QuietInv'
  <2> SUFFICES ASSUME NEW m \in Sources
               PROVE  /\ m \in quiet' => origin'[m] = {}
                      /\ m \notin quiet' => origin'[m] # {} /\ \E i \in DOMAIN srcs' : srcs'[i].src = m
    BY DEF QuietInv
  <2>1. CASE m = l
    BY <2>1, <1>1, <1>2
  <2>2. CASE m # l
    BY <2>2, <1>1, <1>2 DEF FeedInv, QuietInv
  <2> QED BY <2>1, <2>2
<1>6. OriginInv'
  <2>1. ASSUME NEW y \in DOMAIN Senders, sent'[y] # Nil PROVE sent'[y].label \in Sources /\ y \in origin'[sent'[y].label]
    BY <2>1, <1>2 DEF FeedInv, OriginInv
  <2>2. ASSUME NEW m \in Sources, NEW y \in origin'[m], sent'[y] = Nil PROVE \E z \in origin'[m] : z # y
    <3>1. m # l /\ origin'[m] = origin[m] /\ y \in origin[m] /\ y \in DOMAIN Senders
      BY <2>2, <1>2 DEF FeedInv, CacheInv
    <3>2. CASE sent[y] = Nil
      BY <3>1, <3>2 DEF FeedInv, OriginInv
    <3>3. CASE sent[y] # Nil
      <4>1. sent[y].label = l /\ Left(y, l)
        BY <3>1, <3>3, <2>2, <1>1, <1>2
      <4>2. PICK z \in DOMAIN Senders \ {y} : sent[z] # Nil /\ sent[z].label = m
        BY <4>1, <3>1 DEF Left
      <4>3. z \in origin[m]
        BY <4>2 DEF FeedInv, OriginInv
      <4> QED BY <3>1, <4>2, <4>3
    <3> QED BY <3>2, <3>3
  <2> QED BY <2>1, <2>2 DEF OriginInv
<1>7. EntryInv'
  <2> SUFFICES ASSUME NEW m \in Sources, NEW y \in DOMAIN Senders,
                      origin'[m] = {y}, sent'[y] # Nil, sent'[y].label = m
               PROVE  \E i \in DOMAIN srcs' : /\ srcs'[i].src = m /\ srcs'[i].frame = sent'[y].frame
                                              /\ sent'[y].gave \subseteq srcs'[i].prov
    BY DEF EntryInv, InCache
  <2>1. m # l /\ origin[m] = {y} /\ sent'[y] = sent[y]
    BY <1>2
  <2> QED BY <2>1, <1>1 DEF FeedInv, EntryInv, InCache
<1> QED BY <1>3, <1>4, <1>5, <1>6, <1>7 DEF FeedInv

LEMMA FeedStays ==
  ASSUME FeedInv, UNCHANGED <<srcs, quiet, sent, origin, cast>>, tag' \in Sources \cup {Nil}, at' \in 1 .. Len(cast.script)
  PROVE  FeedInv'
<1>1. RaceInv'
  BY DEF FeedInv, RaceInv
<1>2. CacheInv'
  BY DEF FeedInv, CacheInv, Distinct
<1>3. QuietInv' /\ OriginInv'
  BY DEF FeedInv, QuietInv, OriginInv
<1>4. EntryInv'
  BY DEF FeedInv, EntryInv, InCache
<1> QED BY <1>1, <1>2, <1>3, <1>4 DEF FeedInv

LEMMA FeedStep == FeedInv /\ CastInv /\ [Next]_vars => FeedInv'
<1> SUFFICES ASSUME FeedInv, CastInv, [Next]_vars PROVE FeedInv'
  OBVIOUS
<1>0. at \in 1 .. Len(cast.script) /\ tag \in Sources \cup {Nil} /\ Len(cast.script) \in Nat
  BY DEF FeedInv, RaceInv, CacheInv
<1>1. CASE Elsewhere
  <2>1. tag' \in Sources \cup {Nil}
    BY <1>0, <1>1, SendersAssumption DEF Elsewhere, Labels
  <2> QED BY <1>0, <1>1, <2>1, FeedStays DEF Elsewhere, merge, past
<1>2. ASSUME NEW x \in Everyone, NEW text, Written(x, text), Receives(x, text) PROVE FeedInv'
  BY <1>2, FeedReceives
<1>3. ASSUME NEW t \in Threads, Hands(t) PROVE FeedInv'
  BY <1>0, <1>3, FeedStays DEF Hands, HandsOn, past, world
<1>4. ASSUME NEW t \in Threads, NEW c \in Consumers, Tick(t, c) PROVE FeedInv'
  BY <1>0, <1>4, FeedStays DEF Tick, ComesDue, past, world
<1>5. ASSUME NEW l \in Sources, Silent(l) PROVE FeedInv'
  BY <1>5, FeedSilent
<1>6. ASSUME NEW x \in Everyone, List(x) PROVE FeedInv'
  BY <1>0, <1>6, FeedStays DEF List, merge, past, world
<1>7. CASE Writes \/ Sends
  BY <1>0, <1>7, FeedStays DEF Writes, Sends, merge, past, world
<1>8. CASE Unplug
  BY <1>0, <1>8, FeedStays DEF Unplug, AroundCar, merge, past, world
<1>9. CASE Advance
  <2>1. at' \in 1 .. Len(cast.script)
    BY <1>0, <1>9 DEF Advance
  <2> QED BY <1>0, <1>9, <2>1, FeedStays DEF Advance, World, merge
<1> QED BY <1>1, <1>2, <1>3, <1>4, <1>5, <1>6, <1>7, <1>8, <1>9, Effects DEF CastInv

-----------------------------------------------------------------------------
(* The frame is what the senders say                                       *)

\* No entry is of a sender that fell silent.
Fresh == \A n \in DOMAIN srcs : srcs[n].src \notin quiet

\* The merged frame is what the senders said.
Match ==
  \A f \in Numbers :
    /\ Says(LastSent, SentRank, f) = {} => Merged(srcs)[f] = 0
    /\ Says(LastSent, SentRank, f) # {} => Merged(srcs)[f] \in Says(LastSent, SentRank, f) /\ Merged(srcs)[f] # 0
    /\ Gave(f) => f \in Provided(srcs)

\* The frame was built from the cache.
Built ==
  \E d : /\ derived = Update(d, Merged(srcs), Provided(srcs)).d
         /\ line = Update(d, Merged(srcs), Provided(srcs)).t

LEMMA OneSender ==
  ASSUME FeedInv, Attributed, NEW l \in Sources, NEW x \in origin[l]
  PROVE  origin[l] = {x} /\ sent[x] # Nil /\ sent[x].label = l /\ x \in DOMAIN Senders
<1>1. origin[l] \subseteq DOMAIN Senders /\ x \in DOMAIN Senders
  BY DEF FeedInv, CacheInv
<1>2. origin[l] = {x}
  <2>1. IsFiniteSet(origin[l]) /\ Cardinality(origin[l]) \in Nat
    <3>1. IsFiniteSet(DOMAIN Senders) /\ origin[l] \in SUBSET (DOMAIN Senders)
      BY <1>1, SendersAssumption
    <3>2. IsFiniteSet(origin[l])
      BY <3>1, FS_Subset
    <3> QED BY <3>2, FS_CardinalityType
  <2>2. Cardinality(origin[l]) # 0
    BY <2>1, FS_EmptySet
  <2>3. Cardinality(origin[l]) = 1
    BY <2>1, <2>2 DEF Attributed
  <2>4. \E y : origin[l] = {y}
    BY <2>1, <2>3, FS_Singleton
  <2> QED BY <2>4
<1>3. sent[x] # Nil
  BY <1>2 DEF FeedInv, OriginInv
<1>4. sent[x].label = l
  <2>1. sent[x].label \in Sources /\ x \in origin[sent[x].label]
    BY <1>1, <1>3 DEF FeedInv, OriginInv
  <2> QED BY <2>1 DEF Attributed
<1> QED BY <1>1, <1>2, <1>3, <1>4

LEMMA SenderHasEntry ==
  ASSUME FeedInv, Attributed, NEW x \in Streaming
  PROVE  /\ sent[x].label \in Sources
         /\ \E i \in DOMAIN srcs : /\ srcs[i].src = sent[x].label /\ srcs[i].frame = sent[x].frame
                                   /\ sent[x].gave \subseteq srcs[i].prov
<1>1. x \in DOMAIN Senders /\ sent[x] # Nil
  BY DEF Streaming, Everyone
<1>2. sent[x].label \in Sources /\ x \in origin[sent[x].label]
  BY <1>1 DEF FeedInv, OriginInv
<1>3. origin[sent[x].label] = {x}
  BY <1>2, OneSender
<1> QED BY <1>1, <1>2, <1>3 DEF FeedInv, EntryInv, InCache

LEMMA EntryHasSender ==
  ASSUME FeedInv, Attributed, Fresh, NEW n \in DOMAIN srcs
  PROVE  \E x \in Streaming : sent[x].label = srcs[n].src /\ sent[x].frame = srcs[n].frame
<1> DEFINE l == srcs[n].src
<1>1. l \in Sources /\ l \notin quiet
  BY EntryAt DEF FeedInv, CacheInv, Fresh
<1>2. PICK x \in origin[l] : TRUE
  BY <1>1 DEF FeedInv, QuietInv
<1>3. sent[x] # Nil /\ sent[x].label = l /\ x \in DOMAIN Senders
  BY <1>1, <1>2, OneSender
<1>4. x \in Streaming
  BY <1>3 DEF Streaming, Everyone
<1>5. PICK i \in DOMAIN srcs : srcs[i].src = l /\ srcs[i].frame = sent[x].frame
  BY <1>3, <1>4, SenderHasEntry
<1>6. i = n
  BY <1>5 DEF FeedInv, CacheInv, Distinct
<1> QED BY <1>3, <1>4, <1>5, <1>6

LEMMA GivenIsProvided ==
  ASSUME FeedInv, Attributed, NEW f, Gave(f)
  PROVE  f \in Provided(srcs)
<1>1. PICK x \in Streaming : f \in sent[x].gave
  BY DEF Gave
<1>2. PICK i \in DOMAIN srcs : sent[x].gave \subseteq srcs[i].prov
  BY SenderHasEntry
<1> QED BY <1>1, <1>2 DEF Provided

LEMMA MergeMatches ==
  ASSUME FeedInv, Attributed, Fresh
  PROVE  Match
<1> SUFFICES ASSUME NEW f \in Numbers
             PROVE  /\ Says(LastSent, SentRank, f) = {} => Merged(srcs)[f] = 0
                    /\ Says(LastSent, SentRank, f) # {} =>
                         Merged(srcs)[f] \in Says(LastSent, SentRank, f) /\ Merged(srcs)[f] # 0
  BY GivenIsProvided DEF Match
<1> DEFINE fill == {x \in Streaming : sent[x].frame[f] # 0}
           best == {x \in fill : \A z \in fill : Priority[sent[z].label] <= Priority[sent[x].label]}
           V == {sent[x].frame[f] : x \in best}
<1>1. Says(LastSent, SentRank, f) = V
  <2>1. DOMAIN LastSent = Streaming /\ \A x \in Streaming : LastSent[x] = sent[x].frame /\ SentRank[x] = Priority[sent[x].label]
    BY DEF LastSent, SentRank
  <2>2. {x \in DOMAIN LastSent : LastSent[x][f] # 0} = fill
    BY <2>1
  <2>3. \A x \in fill : x \in Streaming
    OBVIOUS
  <2> HIDE DEF fill
  <2>4. {y \in fill : \A z \in fill : SentRank[z] <= SentRank[y]} = best
    BY <2>1, <2>3
  <2>5. \A x \in best : LastSent[x][f] = sent[x].frame[f]
    BY <2>1, <2>3
  <2> HIDE DEF best
  <2> QED BY <2>2, <2>4, <2>5 DEF Says
<1>2. srcs \in Seq(Entry) /\ Distinct(srcs)
  BY DEF FeedInv, CacheInv
<1>3. CASE Merged(srcs)[f] = 0 /\ \A i \in DOMAIN srcs : srcs[i].frame[f] = 0
  <2>1. V = {}
    <3> SUFFICES ASSUME NEW x \in Streaming PROVE sent[x].frame[f] = 0
      OBVIOUS
    <3>1. PICK i \in DOMAIN srcs : srcs[i].frame = sent[x].frame
      BY SenderHasEntry
    <3> QED BY <3>1, <1>3
  <2> HIDE DEF V
  <2> QED BY <2>1, <1>1, <1>3
<1>4. CASE \E i \in DOMAIN srcs : /\ srcs[i].frame[f] # 0 /\ Merged(srcs)[f] = srcs[i].frame[f]
                                  /\ \A k \in DOMAIN srcs : srcs[k].frame[f] # 0 => Priority[srcs[k].src] <= Priority[srcs[i].src]
  <2>1. PICK i \in DOMAIN srcs : /\ srcs[i].frame[f] # 0 /\ Merged(srcs)[f] = srcs[i].frame[f]
                                 /\ \A k \in DOMAIN srcs : srcs[k].frame[f] # 0 => Priority[srcs[k].src] <= Priority[srcs[i].src]
    BY <1>4
  <2>2. PICK x \in Streaming : sent[x].label = srcs[i].src /\ sent[x].frame = srcs[i].frame
    BY EntryHasSender
  <2>3. x \in fill
    BY <2>1, <2>2
  <2>4. ASSUME NEW z \in fill PROVE Priority[sent[z].label] <= Priority[sent[x].label]
    <3>1. PICK k \in DOMAIN srcs : srcs[k].src = sent[z].label /\ srcs[k].frame = sent[z].frame
      BY SenderHasEntry
    <3> QED BY <3>1, <2>1, <2>2
  <2>5. Merged(srcs)[f] \in V /\ Merged(srcs)[f] # 0
    BY <2>1, <2>2, <2>3, <2>4
  <2> HIDE DEF V
  <2> QED BY <2>5, <1>1
<1>5. \/ Merged(srcs)[f] = 0 /\ \A i \in DOMAIN srcs : srcs[i].frame[f] = 0
      \/ \E i \in DOMAIN srcs : /\ srcs[i].frame[f] # 0 /\ Merged(srcs)[f] = srcs[i].frame[f]
                                /\ \A k \in DOMAIN srcs : srcs[k].frame[f] # 0 => Priority[srcs[k].src] <= Priority[srcs[i].src]
  BY <1>2, MergedFills
<1> QED BY <1>3, <1>4, <1>5

LEMMA MergedTyped ==
  ASSUME NEW e \in Seq(Entry), Distinct(e)
  PROVE  Merged(e) \in Typed
<1>1. Merged(e) \in Frames
  BY MergedFills
<1>2. ASSUME NEW f \in Numbers PROVE Merged(e)[f] = 0 \/ \E i \in DOMAIN e : Merged(e)[f] = e[i].frame[f]
  BY MergedFills
<1>3. \A i \in DOMAIN e : /\ \A f \in Numbers : e[i].frame[f] \in Int
                          /\ \A f \in Fields \ {"delta"} : e[i].frame[f] >= 0
  BY EntryAt DEF Typed
<1>4. \A f \in Numbers : Merged(e)[f] \in Int
  BY <1>2, <1>3
<1>5. \A f \in Fields \ {"delta"} : Merged(e)[f] >= 0
  <2>1. Fields \subseteq Numbers
    BY FrameFields
  <2> QED BY <2>1, <1>2, <1>3
<1> QED BY <1>1, <1>4, <1>5 DEF Typed

LEMMA BuiltIsTheirs ==
  ASSUME FeedInv, Match, Built
  PROVE  \A f \in Numbers : IsTheirs(f, line[f])
<1> SUFFICES ASSUME NEW f \in Numbers PROVE IsTheirs(f, line[f])
  OBVIOUS
<1> DEFINE t == Merged(srcs)
           p == Provided(srcs)
           S == Says(LastSent, SentRank, f)
<1>1. PICK d : derived = Update(d, t, p).d /\ line = Update(d, t, p).t
  BY DEF Built
<1>2. t \in Typed
  BY MergedTyped DEF FeedInv, CacheInv
<1>3. /\ S = {} => t[f] = 0
      /\ S # {} => t[f] \in S /\ t[f] # 0
      /\ Gave(f) => f \in p
  BY DEF Match
<1> HIDE DEF t, p
<1>4. Updated(d, t, p, line, derived)
  BY <1>1, <1>2, UpdateFields
<1>5. IsTheirs(f, line[f]) <=>
        IF S # {} THEN line[f] \in S \/ f = "vpl"
        ELSE \/ line[f] = 0 \/ f \in {"fuelLaps", "vpl"}
             \/ f \in {"best", "delta", "fpl"} /\ ~Gave(f)
             \/ f = "fpl" /\ line[f] = derived.fuel.per
  BY DEF IsTheirs, Computed
<1> HIDE DEF S
<1>6. CASE f \notin {"best", "delta", "fpl", "fuelLaps", "vpl"}
  BY <1>3, <1>4, <1>5, <1>6 DEF Updated
<1>7. CASE f = "best"
  BY <1>3, <1>4, <1>5, <1>7 DEF Updated
<1>8. CASE f = "delta"
  BY <1>3, <1>4, <1>5, <1>8 DEF Updated
<1>9. CASE f = "fpl"
  BY <1>3, <1>4, <1>5, <1>9 DEF Updated
<1>10. CASE f \in {"fuelLaps", "vpl"}
  BY <1>3, <1>4, <1>5, <1>10 DEF Updated
<1> QED BY <1>6, <1>7, <1>8, <1>9, <1>10

\* A frame is handed on only when it has just been built, from what has been
\* heard.
LEMMA HandedOver ==
  ASSUME FeedInv, FeedInv', CastInv, [Next]_vars, NEW t \in Threads, Idle(t), ~Idle(t)'
  PROVE  Built' /\ Fresh'
<1>0. pend[t] = Nil /\ pend'[t] # Nil
  BY DEF Idle
<1>1. ASSUME NEW x \in Everyone, NEW text, Written(x, text), Receives(x, text) PROVE Built' /\ Fresh'
  <2>1. ~(otaFlag \/ ParseLine(text) = NoFrame)
    BY <1>0, <1>1 DEF Receives, PushFrame, merge
  <2>2. due[LoopOf[LabelOf(x)]] # {}
    BY <1>0, <1>1, <2>1 DEF Receives, PushFrame
  <2>3. /\ derived' = Update(derived, Merged(srcs'), Provided(srcs')).d
        /\ line' = Update(derived, Merged(srcs'), Provided(srcs')).t
    BY <1>1, <2>1, <2>2 DEF Receives, PushFrame
  <2>4. Built'
    BY <2>3 DEF Built
  <2>5. Fresh'
    <3>1. quiet' = quiet \ {LabelOf(x)}
      BY <1>1, <2>1, Received
    <3>2. \A n \in DOMAIN srcs' : srcs'[n].src # LabelOf(x) => srcs'[n].src \notin quiet
      BY <1>1, <2>1, ReceivedEntries
    <3> QED BY <3>1, <3>2 DEF Fresh
  <2> QED BY <2>4, <2>5
<1>2. CASE Elsewhere
  BY <1>0, <1>2 DEF Elsewhere, merge
<1>3. ASSUME NEW u \in Threads, Hands(u) PROVE FALSE
  <2>1. pend' = [pend EXCEPT ![u] = Nil]
    BY <1>3 DEF Hands, HandsOn
  <2> QED BY <1>0, <2>1
<1>4. ASSUME NEW u \in Threads, NEW c \in Consumers, Tick(u, c) PROVE FALSE
  BY <1>0, <1>4 DEF Tick, ComesDue
<1>5. ASSUME NEW l \in Sources, Silent(l) PROVE FALSE
  BY <1>0, <1>5 DEF Silent, FallsQuiet
<1>6. ASSUME NEW x \in Everyone, List(x) PROVE FALSE
  BY <1>0, <1>6 DEF List, merge
<1>7. CASE Writes \/ Sends \/ Unplug \/ Advance
  BY <1>0, <1>7 DEF Writes, Sends, Unplug, Advance, AroundCar, World, merge
<1> QED BY <1>1, <1>2, <1>3, <1>4, <1>5, <1>6, <1>7, Effects DEF CastInv

LEMMA TheirsNow ==
  FeedInv /\ Attributed /\ Fresh /\ Built => \A f \in Numbers : IsTheirs(f, line[f])
BY MergeMatches, BuiltIsTheirs

\* "The winner is stable": when every label is one sender's, a frame that is
\* handed on has of each field what the most authoritative of the senders that
\* fill it said last, and computes only what nobody gives (loops.rs,
\* push_sim_frame; derive.rs, Provided and Derived::update).
THEOREM FrameOfSenders == Spec => Authoritative
<1> DEFINE P == \A f \in Numbers : IsTheirs(f, line[f])
           A == \A t \in Threads : Idle(t) /\ ~Idle(t)' /\ Attributed' => P'
<1>1. Init => FeedInv /\ CastInv
  BY FeedInit, ListInit
<1>2. ListInv /\ CastInv /\ FeedInv /\ [Next]_vars => (ListInv /\ CastInv /\ FeedInv)'
  BY FeedStep, ListStep
<1>3. ASSUME FeedInv, CastInv, [Next]_vars PROVE [A]_vars
  <2> SUFFICES ASSUME NEW t \in Threads, Idle(t), ~Idle(t)', Attributed' PROVE P'
    OBVIOUS
  <2>1. FeedInv'
    BY <1>3, FeedStep
  <2>2. Built' /\ Fresh'
    BY <1>3, <2>1, HandedOver
  <2>3. (FeedInv /\ Attributed /\ Fresh /\ Built => P)'
    BY TheirsNow, PTL
  <2> HIDE DEF P
  <2> QED BY <2>1, <2>2, <2>3
<1>4. Spec => [](ListInv /\ CastInv /\ FeedInv)
  BY <1>1, <1>2, ListInit, PTL DEF Spec
<1>5. Authoritative <=> [][A]_vars
  BY DEF Authoritative
<1> HIDE DEF A
<1> QED BY <1>3, <1>4, <1>5, PTL DEF Spec

-----------------------------------------------------------------------------
(* The best lap                                                            *)

LEMMA FastestOf ==
  ASSUME NEW T, T \subseteq Nat
  PROVE  /\ Fastest(T) \in Nat
         /\ (\A v \in T : v = 0) => Fastest(T) = 0
         /\ (\E v \in T : v > 0) => Fastest(T) \in T /\ Fastest(T) > 0 /\ \A v \in T : v > 0 => Fastest(T) <= v
<1>1. CASE \A v \in T : v = 0
  <2>1. ~\E v \in T : v > 0
    BY <1>1
  <2>2. Fastest(T) = 0
    BY <2>1 DEF Fastest
  <2> QED BY <2>1, <2>2
<1>2. CASE ~\A v \in T : v = 0
  <2> DEFINE Up == {v \in T : v > 0}
  <2>1. Up \subseteq Nat /\ Up # {}
    <3>1. PICK v \in T : v # 0
      BY <1>2
    <3>2. v \in Nat /\ v > 0
      BY <3>1
    <3> QED BY <3>2
  <2>2. PICK n \in Up : \A v \in Up : n <= v
    <3> HIDE DEF Up
    <3> QED BY <2>1, LeastNat
  <2>3. n \in T /\ n > 0 /\ \A v \in T : v > 0 => n <= v
    BY <2>2
  <2>4. Fastest(T) = CHOOSE v \in T : v > 0 /\ \A w \in T : w > 0 => v <= w
    BY <2>3 DEF Fastest
  <2>5. Fastest(T) \in T /\ Fastest(T) > 0 /\ \A w \in T : w > 0 => Fastest(T) <= w
    BY <2>3, <2>4
  <2> QED BY <1>2, <2>5
<1> QED BY <1>1, <1>2

\* A lap time is added to those whose fastest is known.
LEMMA FastestGrows ==
  ASSUME NEW T, T \subseteq Nat, NEW last \in Nat
  PROVE  Fastest({Fastest(T), 0, last}) = Fastest(IF last > 0 THEN T \cup {last} ELSE T)
<1> DEFINE a == Fastest(T)
           M == {a, 0, last}
           U == IF last > 0 THEN T \cup {last} ELSE T
           m == Fastest(M)
           u == Fastest(U)
<1>1. /\ a \in Nat /\ ((\A v \in T : v = 0) => a = 0)
      /\ (\E v \in T : v > 0) => a \in T /\ a > 0 /\ \A v \in T : v > 0 => a <= v
  BY FastestOf
<1> HIDE DEF a
<1>2. M \subseteq Nat /\ U \subseteq Nat
  BY <1>1
<1>3. /\ m \in Nat /\ ((\A v \in M : v = 0) => m = 0)
      /\ (\E v \in M : v > 0) => m \in M /\ m > 0 /\ \A v \in M : v > 0 => m <= v
  <2> HIDE DEF M
  <2> QED BY <1>2, FastestOf
<1>4. /\ u \in Nat /\ ((\A v \in U : v = 0) => u = 0)
      /\ (\E v \in U : v > 0) => u \in U /\ u > 0 /\ \A v \in U : v > 0 => u <= v
  <2> HIDE DEF U
  <2> QED BY <1>2, FastestOf
<1> HIDE DEF m, u
<1>5. m = u
  <2>1. CASE \A v \in T : v = 0
    <3>1. a = 0
      BY <2>1, <1>1
    <3>2. CASE last = 0
      BY <2>1, <3>1, <3>2, <1>3, <1>4
    <3>3. CASE last > 0
      <4>1. m = last
        BY <3>1, <3>3, <1>3
      <4>2. u = last
        BY <2>1, <3>3, <1>4
      <4> QED BY <4>1, <4>2
    <3> QED BY <3>2, <3>3
  <2>2. CASE \E v \in T : v > 0
    <3>1. a \in T /\ a > 0 /\ \A v \in T : v > 0 => a <= v
      BY <2>2, <1>1
    <3>2. a \in U /\ a \in M /\ (last > 0 => last \in U /\ last \in M)
      BY <3>1
    <3>3. m \in M /\ m > 0 /\ m <= a /\ (last > 0 => m <= last)
      BY <3>1, <3>2, <1>3
    <3>4. u \in U /\ u > 0 /\ u <= a /\ (last > 0 => u <= last)
      BY <3>1, <3>2, <1>4
    <3>5. m = a \/ (last > 0 /\ m = last)
      BY <3>3
    <3>6. a <= u \/ (last > 0 /\ u = last)
      BY <3>1, <3>4, <1>2
    <3> QED BY <1>1, <1>3, <1>4, <3>3, <3>4, <3>5, <3>6
  <2> QED BY <2>1, <2>2, <1>2
<1> QED BY <1>5 DEF m, u, a

\* While the laps can be counted, the tracker's best is the fastest of this
\* session, and if it is not yet, its lap count says so.
BestInv ==
  laps.sure =>
    /\ laps.times \subseteq Nat
    /\ \A v \in laps.times : v > 0 /\ \E k \in 1 .. at : cast.script[k].session = race.session /\ cast.script[k].last = v
    /\ Kept(derived.best, race) = Fastest(laps.times)
    /\ seen => derived.best.lap = race.lap /\ line.best = Fastest(laps.times)

LEMMA BestInit == Init => BestInv
<1> SUFFICES ASSUME Init PROVE BestInv
  OBVIOUS
<1>1. laps = [times |-> {}, sure |-> TRUE] /\ seen = FALSE /\ derived = NoDerived
  BY DEF Init, InitMerge
<1>2. derived.best.ms = 0
  BY <1>1 DEF NoDerived, NoBest
<1>3. Kept(derived.best, race) = 0
  BY <1>2 DEF Kept
<1>4. Fastest({}) = 0
  BY FastestOf
<1> QED BY <1>1, <1>3, <1>4 DEF BestInv

\* A frame of the one sender that counts its laps.
LEMMA WholeMerged ==
  ASSUME NEW e \in Seq(Entry), Distinct(e), Len(e) = 1, NEW n \in DOMAIN e, NEW f \in Numbers
  PROVE  Merged(e)[f] = e[n].frame[f]
<1>1. \A i \in DOMAIN e : i = n
  BY EntryAt
<1>2. \/ Merged(e)[f] = 0 /\ \A i \in DOMAIN e : e[i].frame[f] = 0
      \/ \E i \in DOMAIN e : Merged(e)[f] = e[i].frame[f]
  BY MergedFills
<1> QED BY <1>1, <1>2

LEMMA BestReceives ==
  ASSUME FeedInv, FeedInv', BestInv, NEW x \in Everyone, NEW text, Written(x, text), Receives(x, text)
  PROVE  BestInv'
<1>1. CASE otaFlag \/ ParseLine(text) = NoFrame
  <2>1. UNCHANGED <<cast, at, derived, line, laps, seen>>
    BY <1>1 DEF Receives, PushFrame, merge, past, world
  <2> QED BY <2>1 DEF BestInv, race
<1>2. CASE ~(otaFlag \/ ParseLine(text) = NoFrame) /\ due[ThreadOf(x)] = {}
  <2>1. UNCHANGED <<cast, at, derived, line, laps, seen>>
    BY <1>2 DEF Receives, PushFrame, ThreadOf, world
  <2> QED BY <2>1 DEF BestInv, race
<1>3. CASE ~(otaFlag \/ ParseLine(text) = NoFrame) /\ due[ThreadOf(x)] # {}
  <2>1. /\ UNCHANGED <<cast, at>> /\ Noted(x, text = LineOf(x, race))
        /\ derived' = Update(derived, Merged(srcs'), Provided(srcs')).d
        /\ line' = Update(derived, Merged(srcs'), Provided(srcs')).t
    BY <1>3 DEF Receives, PushFrame, ThreadOf, world
  <2> SUFFICES ASSUME laps'.sure PROVE BestInv'
    BY DEF BestInv
  <2>2. /\ laps.sure /\ text = LineOf(x, race) /\ "lap" \in Has(x) /\ Len(srcs') = 1 /\ "best" \notin Provided(srcs')
        /\ laps'.times = IF line'.last > 0 THEN laps.times \cup {line'.last} ELSE laps.times
        /\ seen' = TRUE
    BY <2>1 DEF Noted, Counts
  <2> DEFINE t == ParseLine(text)
             m == Merged(srcs')
             p == Provided(srcs')
  <2>3. PICK n \in DOMAIN srcs' : srcs'[n].frame = t /\ Observe({}, t) \subseteq srcs'[n].prov
    BY <1>3, ReceivedEntries
  <2>4. race \in Points /\ race' = race /\ race.lap \in Nat /\ race.last \in Nat
    <3>1. race \in Points
      BY RaceIs DEF FeedInv
    <3>2. race.lap \in Int /\ race.lap >= 0 /\ race.last \in Int /\ race.last >= 0
      BY <3>1, PointFields, FrameFields
    <3> QED BY <2>1, <3>1, <3>2 DEF race
  <2>5. t.last \in {0, race.last} /\ t.lap = race.lap
    BY <1>3, <2>2, <2>4, WholeFrame
  <2>6. t.best = 0
    <3>1. "best" \notin srcs'[n].prov
      BY <2>2 DEF Provided
    <3> QED BY <2>3, <3>1 DEF Observe, Computed
  <2>7. srcs' \in Seq(Entry) /\ Distinct(srcs')
    BY DEF FeedInv, CacheInv, Distinct
  <2>8. m.lap = race.lap /\ m.last = t.last /\ m.best = 0
    <3>1. \A f \in Numbers : m[f] = t[f]
      BY <2>2, <2>3, <2>7, WholeMerged
    <3> HIDE DEF m, t
    <3> QED BY <3>1, <2>5, <2>6, FrameFields
  <2>9. m \in Typed
    BY <2>7, MergedTyped
  <2> HIDE DEF m, p, t
  <2>10. Updated(derived, m, p, line', derived')
    <3>1. line' = Update(derived, m, p).t /\ derived' = Update(derived, m, p).d
      BY <2>1 DEF m, p
    <3>2. Updated(derived, m, p, Update(derived, m, p).t, Update(derived, m, p).d)
      BY <2>9, UpdateFields
    <3> QED BY <3>1, <3>2
  <2>11. Kept(derived.best, m) = Fastest(laps.times)
    <3>1. Kept(derived.best, m) = Kept(derived.best, race)
      BY <2>8 DEF Kept
    <3> QED BY <2>2, <3>1 DEF BestInv
  <2>12. line'.last = t.last
    <3>1. "last" \in Numbers \ {"best", "delta", "fpl", "fuelLaps", "vpl"}
      BY FrameFields
    <3> QED BY <2>8, <2>10, <3>1 DEF Updated
  <2>13. Fastest({Fastest(laps.times), 0, t.last}) = Fastest(laps'.times)
    <3>1. laps.times \subseteq Nat /\ t.last \in Nat
      BY <2>2, <2>4, <2>5 DEF BestInv
    <3>2. laps'.times = IF t.last > 0 THEN laps.times \cup {t.last} ELSE laps.times
      BY <2>2, <2>12
    <3>3. Fastest({Fastest(laps.times), 0, t.last}) = Fastest(IF t.last > 0 THEN laps.times \cup {t.last} ELSE laps.times)
      BY <3>1, FastestGrows
    <3> QED BY <3>2, <3>3
  <2>14. line'.best = Fastest(laps'.times) /\ derived'.best = [ms |-> Fastest(laps'.times), lap |-> race.lap]
    BY <2>2, <2>8, <2>10, <2>11, <2>13 DEF Updated, p
  <2>15. Kept(derived'.best, race') = Fastest(laps'.times)
    BY <2>4, <2>14 DEF Kept
  <2>16. laps'.times \subseteq Nat
    BY <2>2, <2>4, <2>5, <2>12 DEF BestInv
  <2>17. ASSUME NEW v \in laps'.times
         PROVE  v > 0 /\ \E k \in 1 .. at' : cast'.script[k].session = race'.session /\ cast'.script[k].last = v
    <3>1. CASE v \in laps.times
      BY <2>1, <2>2, <2>4, <3>1 DEF BestInv
    <3>2. CASE v \notin laps.times
      <4>1. v > 0 /\ v = race.last
        BY <2>2, <2>4, <2>5, <2>12, <3>2
      <4>2. at \in 1 .. at
        BY DEF FeedInv, RaceInv
      <4> QED BY <2>1, <2>4, <4>1, <4>2 DEF race
    <3> QED BY <3>1, <3>2
  <2> QED BY <2>4, <2>14, <2>15, <2>16, <2>17 DEF BestInv
<1> QED BY <1>1, <1>2, <1>3

LEMMA BestAdvances ==
  ASSUME FeedInv, BestInv, Advance
  PROVE  BestInv'
<1> SUFFICES ASSUME laps'.sure PROVE BestInv'
  BY DEF BestInv
<1> DEFINE now  == cast.script[at]
           next == cast.script[at + 1]
<1>1. /\ at < Len(cast.script) /\ at' = at + 1 /\ seen' = FALSE /\ laps.sure /\ seen
      /\ laps'.times = (IF next.session # now.session THEN {} ELSE laps.times)
      /\ UNCHANGED <<cast, derived>>
  BY DEF Advance, World, merge, race
<1>2. race = now /\ race' = next
  BY <1>1 DEF race
<1>3. /\ laps.times \subseteq Nat
      /\ \A v \in laps.times : v > 0 /\ \E k \in 1 .. at : cast.script[k].session = now.session /\ cast.script[k].last = v
      /\ Kept(derived.best, now) = Fastest(laps.times) /\ derived.best.lap = now.lap
  BY <1>1, <1>2 DEF BestInv
<1>4. /\ at \in 1 .. Len(cast.script) - 1 /\ at \in Nat /\ now.lap \in Int /\ next.lap \in Int
      /\ IF next.session = now.session THEN now.lap <= next.lap
         ELSE next.lap < now.lap \/ \A k \in 1 .. at : cast.script[k].session = now.session => cast.script[k].last = 0
  <2>1. cast.script \in Seq(Points) /\ GoesOn(cast.script) /\ at \in 1 .. Len(cast.script) /\ Len(cast.script) \in Nat
    BY DEF FeedInv, RaceInv
  <2>2. at \in 1 .. Len(cast.script) - 1 /\ at \in Nat
    BY <1>1, <2>1
  <2>3. now \in Points /\ next \in Points
    <3> HIDE DEF Points
    <3>1. at \in 1 .. Len(cast.script) /\ at + 1 \in 1 .. Len(cast.script)
      BY <2>1, <2>2
    <3> QED BY <2>1, <3>1
  <2>4. now.lap \in Int /\ next.lap \in Int
    BY <2>3, PointFields, FrameFields
  <2> HIDE DEF Points
  <2> QED BY <2>1, <2>2, <2>4 DEF GoesOn
<1>5. derived.best.ms = Fastest(laps.times)
  BY <1>3, <1>4 DEF Kept
<1> HIDE DEF now, next
<1>6. CASE next.session = now.session
  <2>1. Kept(derived.best, next) = Fastest(laps.times)
    BY <1>3, <1>4, <1>5, <1>6 DEF Kept
  <2>2. \A v \in laps.times : \E k \in 1 .. at + 1 : cast.script[k].session = next.session /\ cast.script[k].last = v
    BY <1>3, <1>4, <1>6
  <2> QED BY <1>1, <1>2, <1>3, <1>6, <2>1, <2>2 DEF BestInv
<1>7. CASE next.session # now.session
  <2>1. laps'.times = {} /\ Fastest({}) = 0
    BY <1>1, <1>7, FastestOf
  <2>2. Kept(derived.best, next) = 0
    <3>1. CASE next.lap < now.lap
      BY <1>3, <3>1 DEF Kept
    <3>2. CASE \A k \in 1 .. at : cast.script[k].session = now.session => cast.script[k].last = 0
      <4>1. laps.times = {}
        BY <1>3, <3>2
      <4> QED BY <1>5, <2>1, <4>1 DEF Kept
    <3> QED BY <1>4, <1>7, <3>1, <3>2
  <2> QED BY <1>1, <1>2, <2>1, <2>2 DEF BestInv
<1> QED BY <1>6, <1>7

LEMMA BestStays ==
  ASSUME BestInv, UNCHANGED <<cast, at, derived, line, laps, seen>>
  PROVE  BestInv'
BY DEF BestInv, race

LEMMA BestStep == FeedInv /\ CastInv /\ BestInv /\ [Next]_vars => BestInv'
<1> SUFFICES ASSUME FeedInv, CastInv, BestInv, [Next]_vars PROVE BestInv'
  OBVIOUS
<1>1. CASE Elsewhere
  BY <1>1, BestStays DEF Elsewhere, merge, past
<1>2. ASSUME NEW x \in Everyone, NEW text, Written(x, text), Receives(x, text) PROVE BestInv'
  BY <1>2, FeedStep, BestReceives
<1>3. ASSUME NEW t \in Threads, Hands(t) PROVE BestInv'
  BY <1>3, BestStays DEF Hands, HandsOn, past, world
<1>4. ASSUME NEW t \in Threads, NEW c \in Consumers, Tick(t, c) PROVE BestInv'
  BY <1>4, BestStays DEF Tick, ComesDue, past, world
<1>5. ASSUME NEW l \in Sources, Silent(l) PROVE BestInv'
  BY <1>5, BestStays DEF Silent, FallsQuiet, world
<1>6. ASSUME NEW x \in Everyone, List(x) PROVE BestInv'
  BY <1>6, BestStays DEF List, merge, past, world
<1>7. CASE Writes \/ Sends
  BY <1>7, BestStays DEF Writes, Sends, merge, past, world
<1>8. CASE Unplug
  BY <1>8, BestStays DEF Unplug, AroundCar, merge, past, world
<1>9. CASE Advance
  BY <1>9, BestAdvances
<1> QED BY <1>1, <1>2, <1>3, <1>4, <1>5, <1>6, <1>7, <1>8, <1>9, Effects DEF CastInv

\* With one sender that counts its laps and gives no best lap, the best lap
\* shown is the fastest of this session: a session that begins is noticed by
\* its lap count (derive.rs, Derived::update).
THEOREM BestIsSessions == Spec => []BestOfSession
<1>1. Init => FeedInv /\ CastInv /\ ListInv /\ BestInv
  BY FeedInit, ListInit, BestInit
<1>2. FeedInv /\ CastInv /\ ListInv /\ BestInv /\ [Next]_vars => (FeedInv /\ CastInv /\ ListInv /\ BestInv)'
  BY FeedStep, ListStep, BestStep
<1>3. BestInv => BestOfSession
  BY DEF BestInv, BestOfSession
<1> QED BY <1>1, <1>2, <1>3, PTL DEF Spec
=============================================================================
