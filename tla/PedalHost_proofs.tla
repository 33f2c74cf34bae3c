-------------------------- MODULE PedalHost_proofs --------------------------
(***************************************************************************)
(* Proofs about the pedal screen: the edits of a curve keep it one, and    *)
(* every configuration in the system belongs to one pedal as a whole.      *)
(***************************************************************************)
EXTENDS PedalHost, SequenceTheorems, WellFoundedInduction, TLAPS

\* The curves the editor holds, and the lists of rounded points that show one.
Curves ==
  {c \in Seq(Nat \X Nat) : Len(c) \in 2..MaxPoints /\ Ordered(c)}

PackedCurves ==
  {q \in Seq(Nat \X Nat) : Len(q) <= MaxPoints /\ Ordered(Unpacked(q))}

------------------------------------------------------------------------------
(***************************************************************************)
(* Numbers.                                                                *)
(***************************************************************************)
LEMMA NatHasMin ==
  ASSUME NEW T, T \subseteq Nat, T # {}
  PROVE  \E m \in T : \A x \in T : m <= x
<1> DEFINE Less == {p \in Nat \X Nat : p[1] < p[2]}
<1>1. IsWellFoundedOn(Less, Nat)
  BY NatLessThanWellFounded DEF OpToRel
<1> HIDE DEF Less
<1>2. PICK m \in T : \A y \in T : ~(<<y, m>> \in Less)
  BY <1>1, WFMin
<1>3. \A y \in T : ~(y < m)
  BY <1>2 DEF Less
<1> QED BY <1>3

LEMMA CurveConstants ==
  /\ Width \in Nat /\ Width > 0 /\ Height \in Nat /\ Height > 0 /\ Gap \in Nat /\ Gap > 0
  /\ Coarse \in Nat /\ Coarse > 0 /\ MaxPoints \in Nat /\ MaxPoints >= 3
BY CurveAssumption

LEMMA DivMonotone ==
  ASSUME NEW a \in Int, NEW b \in Int, NEW d \in Nat \ {0}, a <= b
  PROVE  a \div d \in Int /\ b \div d \in Int /\ a \div d <= b \div d
OBVIOUS

\* Rounding keeps the order and is exact for whole units.
LEMMA RoundedMonotone ==
  ASSUME NEW x \in Int, NEW y \in Int, x <= y
  PROVE  Rounded(x) \in Int /\ Rounded(y) \in Int /\ Rounded(x) <= Rounded(y)
<1>1. 2 * Coarse \in Nat \ {0} /\ 2 * x + Coarse \in Int /\ 2 * y + Coarse \in Int
      /\ 2 * x + Coarse <= 2 * y + Coarse
  BY CurveConstants
<1> QED BY <1>1, DivMonotone DEF Rounded

LEMMA RoundedExact ==
  ASSUME NEW k \in Int
  PROVE  Rounded(Coarse * k) = k
<1>1. Coarse \in Nat \ {0}
  BY CurveConstants
<1>2. 2 * (Coarse * k) + Coarse = (2 * Coarse) * k + Coarse
  BY <1>1
<1>3. ((2 * Coarse) * k + Coarse) \div (2 * Coarse) = k
  BY <1>1
<1> QED BY <1>2, <1>3 DEF Rounded

LEMMA EndsExact == Rounded(0) = 0 /\ Coarse * Rounded(Width) = Width
<1>1. PICK k \in Int : Width = Coarse * k
  <2>1. Width = Coarse * (Width \div Coarse)
    BY CurveAssumption, CurveConstants
  <2>2. Width \div Coarse \in Int
    BY CurveConstants
  <2> QED BY <2>1, <2>2
<1>2. Rounded(Coarse * k) = k /\ Rounded(Coarse * 0) = 0
  BY RoundedExact
<1>3. Coarse * 0 = 0
  BY CurveConstants
<1> QED BY <1>1, <1>2, <1>3

------------------------------------------------------------------------------
(***************************************************************************)
(* Curves.                                                                 *)
(***************************************************************************)
LEMMA CurvePoints ==
  ASSUME NEW c \in Curves
  PROVE  /\ c \in Seq(Nat \X Nat) /\ Len(c) \in Nat /\ 2 <= Len(c) /\ Len(c) <= MaxPoints
         /\ DOMAIN c = 1..Len(c)
         /\ \A i \in 1..Len(c) : c[i] \in Nat \X Nat /\ c[i][1] \in Nat /\ c[i][2] \in Nat /\ c[i][1] <= Width
         /\ c[1][1] = 0 /\ c[Len(c)][1] = Width
         /\ \A i, j \in 1..Len(c) : i <= j => c[i][1] <= c[j][1]
<1>1. /\ c \in Seq(Nat \X Nat) /\ Len(c) \in Nat /\ 2 <= Len(c) /\ Len(c) <= MaxPoints
  BY CurveConstants DEF Curves
<1>2. DOMAIN c = 1..Len(c) /\ \A i \in 1..Len(c) : c[i] \in Nat \X Nat
  BY <1>1
<1>3. \A i \in 1..Len(c) : c[i][1] \in Nat /\ c[i][2] \in Nat
  BY <1>2
<1>4. /\ c[1][1] = 0 /\ c[Len(c)][1] = Width
      /\ \A i, j \in 1..Len(c) : i <= j => c[i][1] <= c[j][1]
  BY <1>2 DEF Curves, Ordered
<1> QED BY <1>1, <1>2, <1>3, <1>4

\* What makes a sequence of points a curve.
LEMMA IsCurve ==
  ASSUME NEW c \in Seq(Nat \X Nat), Len(c) \in 2..MaxPoints,
         c[1][1] = 0, c[Len(c)][1] = Width,
         \A i, j \in 1..Len(c) : i <= j => c[i][1] <= c[j][1]
  PROVE  c \in Curves
<1>1. DOMAIN c = 1..Len(c)
  OBVIOUS
<1> QED BY <1>1 DEF Curves, Ordered

LEMMA LinearIsCurve == Linear \in Curves
<1> DEFINE c == Linear
<1>1. c \in Seq(Nat \X Nat) /\ Len(c) = 2 /\ c[1] = <<0, 0>> /\ c[2] = <<Width, Height>>
  BY CurveConstants DEF Linear
<1> HIDE DEF c
<1>2. Len(c) \in 2..MaxPoints /\ c[1][1] = 0 /\ c[Len(c)][1] = Width
  BY <1>1, CurveConstants
<1>3. \A i, j \in 1..Len(c) : i <= j => c[i][1] <= c[j][1]
  BY <1>1, CurveConstants
<1>4. c \in Curves
  BY <1>1, <1>2, <1>3, IsCurve
<1> QED BY <1>4 DEF c

LEMMA PresetsAreCurves == Presets \subseteq Curves
<1> DEFINE h == Width \div 2
           c == <<<<0, 0>>, <<h, Height>>, <<Width, Height>>>>
<1>1. h \in Nat /\ h <= Width
  BY CurveConstants
<1> HIDE DEF h
<1>2. /\ c \in Seq(Nat \X Nat) /\ Len(c) = 3
      /\ c[1] = <<0, 0>> /\ c[2] = <<h, Height>> /\ c[3] = <<Width, Height>>
  BY <1>1, CurveConstants
<1> HIDE DEF c
<1>3. Len(c) \in 2..MaxPoints /\ c[1][1] = 0 /\ c[Len(c)][1] = Width
  BY <1>2, CurveConstants
<1>4. \A i, j \in 1..Len(c) : i <= j => c[i][1] <= c[j][1]
  BY <1>1, <1>2, CurveConstants
<1>5. c \in Curves
  BY <1>2, <1>3, <1>4, IsCurve
<1> QED BY <1>5, LinearIsCurve DEF Presets, h, c

\* Rounding into a configuration and back keeps a curve a curve.
LEMMA PackedIsCurve ==
  ASSUME NEW c \in Curves
  PROVE  Packed(c) \in PackedCurves
<1> DEFINE n == Len(c)
           q == Packed(c)
           u == [i \in 1..n |-> <<Coarse * q[i][1], Coarse * q[i][2]>>]
<1>0. n \in Nat /\ 2 <= n /\ n <= MaxPoints /\ DOMAIN c = 1..n
  BY CurvePoints
<1>1. \A i \in 1..n : q[i] = <<Rounded(c[i][1]), Rounded(c[i][2])>>
  BY <1>0 DEF Packed
<1>2. \A x \in Nat : Rounded(x) \in Nat
  <2>1. \A x \in Nat : Rounded(0) <= Rounded(x) /\ Rounded(x) \in Int
    BY RoundedMonotone
  <2> QED BY <2>1, EndsExact
<1>3. \A i \in 1..n : q[i] \in Nat \X Nat
  <2> SUFFICES ASSUME NEW i \in 1..n PROVE q[i] \in Nat \X Nat
    OBVIOUS
  <2>1. c[i][1] \in Nat /\ c[i][2] \in Nat
    BY CurvePoints
  <2>2. Rounded(c[i][1]) \in Nat /\ Rounded(c[i][2]) \in Nat
    BY <1>2, <2>1
  <2>3. q[i] = <<Rounded(c[i][1]), Rounded(c[i][2])>>
    BY <1>1
  <2> HIDE DEF q
  <2> QED BY <2>2, <2>3
<1>4. q \in Seq(Nat \X Nat) /\ Len(q) = n /\ DOMAIN q = 1..n
  <2>1. q \in [1..n -> Nat \X Nat]
    BY <1>0, <1>3 DEF Packed
  <2> QED BY <1>0, <2>1
<1> HIDE DEF q
<1>5. Unpacked(q) = u
  <2>1. ~(Len(q) < 2)
    BY <1>0, <1>4
  <2> QED BY <1>4, <2>1 DEF Unpacked
<1>6. \A i \in 1..n : u[i][1] = Coarse * Rounded(c[i][1])
  BY <1>1
<1>7. u[1][1] = 0 /\ u[n][1] = Width
  <2>1. c[1][1] = 0 /\ c[n][1] = Width /\ 1 \in 1..n /\ n \in 1..n
    BY <1>0, CurvePoints
  <2>2. Coarse * 0 = 0
    BY CurveConstants
  <2> QED BY <1>6, <2>1, <2>2, EndsExact
<1>8. \A i, j \in 1..n : i <= j => u[i][1] <= u[j][1]
  <2> SUFFICES ASSUME NEW i \in 1..n, NEW j \in 1..n, i <= j
               PROVE  u[i][1] <= u[j][1]
    OBVIOUS
  <2>1. c[i][1] \in Int /\ c[j][1] \in Int /\ c[i][1] <= c[j][1]
    BY CurvePoints
  <2>2. Rounded(c[i][1]) \in Int /\ Rounded(c[j][1]) \in Int /\ Rounded(c[i][1]) <= Rounded(c[j][1])
    BY <2>1, RoundedMonotone
  <2>3. \A a, b \in Int : a <= b => Coarse * a <= Coarse * b
    BY CurveConstants
  <2> QED BY <1>6, <2>2, <2>3
<1>9. Ordered(u)
  <2>1. DOMAIN u = 1..n /\ Len(u) = n
    BY <1>0
  <2> HIDE DEF u
  <2> QED BY <1>7, <1>8, <2>1 DEF Ordered
<1>10. q \in PackedCurves
  BY <1>0, <1>4, <1>5, <1>9 DEF PackedCurves
<1> QED BY <1>10 DEF q

LEMMA UnpackedIsCurve ==
  ASSUME NEW q \in PackedCurves
  PROVE  Unpacked(q) \in Curves
<1>0. Len(q) \in Nat /\ Len(q) <= MaxPoints /\ DOMAIN q = 1..Len(q) /\ Ordered(Unpacked(q))
      /\ \A i \in 1..Len(q) : q[i] \in Nat \X Nat
  BY DEF PackedCurves
<1>1. CASE Len(q) < 2
  BY <1>1, LinearIsCurve DEF Unpacked
<1>2. CASE ~(Len(q) < 2)
  <2> DEFINE n == Len(q)
             u == [i \in DOMAIN q |-> <<Coarse * q[i][1], Coarse * q[i][2]>>]
  <2>0. Unpacked(q) = u
    BY <1>2 DEF Unpacked
  <2>1. n \in Nat /\ 2 <= n /\ n <= MaxPoints /\ DOMAIN q = 1..n /\ Ordered(u)
    BY <1>0, <1>2, <2>0
  <2>2. \A i \in 1..Len(q) : q[i] \in Nat \X Nat
    BY <1>0
  <2>3. \A i \in 1..n : u[i] \in Nat \X Nat
    <3>1. \A a \in Nat : Coarse * a \in Nat
      BY CurveConstants
    <3> QED BY <2>1, <2>2, <3>1
  <2>4. u \in [1..n -> Nat \X Nat]
    BY <2>1, <2>3
  <2>5. u \in Seq(Nat \X Nat) /\ Len(u) = n
    BY <2>1, <2>4
  <2> HIDE DEF u
  <2> QED BY <2>0, <2>1, <2>5, CurveConstants DEF Curves
<1> QED BY <1>1, <1>2

------------------------------------------------------------------------------
(***************************************************************************)
(* Lists: an element put in, taken out, replaced.                          *)
(***************************************************************************)
LEMMA Removed ==
  ASSUME NEW S, NEW s \in Seq(S), NEW n \in Nat, Len(s) = n, NEW k \in 1..n
  PROVE  /\ RemoveAt(s, k) \in Seq(S) /\ Len(RemoveAt(s, k)) = n - 1
         /\ \A j \in 1..n-1 : RemoveAt(s, k)[j] = IF j < k THEN s[j] ELSE s[j+1]
<1> DEFINE a == SubSeq(s, 1, k - 1)
           b == SubSeq(s, k + 1, n)
<1>1. a \in Seq(S) /\ Len(a) = k - 1 /\ \A j \in 1..k-1 : a[j] = s[j]
  OBVIOUS
<1>2. b \in Seq(S) /\ Len(b) = n - k /\ \A j \in 1..n-k : b[j] = s[k + j]
  OBVIOUS
<1>3. RemoveAt(s, k) = a \o b
  BY DEF RemoveAt
<1> HIDE DEF a, b
<1>4. a \o b \in Seq(S) /\ Len(a \o b) = n - 1
  <2>1. a \o b \in Seq(S) /\ Len(a \o b) = Len(a) + Len(b)
    BY <1>1, <1>2, ConcatProperties
  <2> QED BY <1>1, <1>2, <2>1
<1>5. ASSUME NEW j \in 1..n-1
      PROVE  (a \o b)[j] = IF j < k THEN s[j] ELSE s[j+1]
  <2>1. (a \o b)[j] = IF j <= k - 1 THEN a[j] ELSE b[j - (k - 1)]
    BY <1>1, <1>2
  <2>2. CASE j < k
    BY <1>1, <2>1, <2>2
  <2>3. CASE ~(j < k)
    <3>1. j - (k - 1) \in 1..n-k /\ k + (j - (k - 1)) = j + 1
      BY <2>3
    <3>2. b[j - (k - 1)] = s[j + 1]
      BY <1>2, <3>1
    <3> QED BY <2>1, <2>3, <3>2
  <2> QED BY <2>2, <2>3
<1> QED BY <1>3, <1>4, <1>5

LEMMA Replaced ==
  ASSUME NEW S, NEW s \in Seq(S), NEW n \in Nat, Len(s) = n, NEW k \in 1..n, NEW e \in S
  PROVE  /\ [s EXCEPT ![k] = e] \in Seq(S) /\ Len([s EXCEPT ![k] = e]) = n
         /\ \A j \in 1..n : [s EXCEPT ![k] = e][j] = IF j = k THEN e ELSE s[j]
OBVIOUS

------------------------------------------------------------------------------
(***************************************************************************)
(* The three edits.                                                        *)
(***************************************************************************)
LEMMA WithinBounds ==
  ASSUME NEW x \in Int, NEW lo \in Int, NEW hi \in Int, lo <= hi
  PROVE  Within(x, lo, hi) \in Int /\ lo <= Within(x, lo, hi) /\ Within(x, lo, hi) <= hi
BY DEF Within

LEMMA HeightKept ==
  ASSUME NEW y \in Int
  PROVE  Within(y, 0, Height) \in Nat
<1>1. Height \in Int /\ 0 \in Int /\ 0 <= Height
  BY CurveConstants
<1>2. Within(y, 0, Height) \in Int /\ 0 <= Within(y, 0, Height)
  BY <1>1, WithinBounds
<1> QED BY <1>2

\* A point that lands between its neighbours leaves the points in order.
LEMMA BetweenIsCurve ==
  ASSUME NEW c \in Curves, NEW n \in Nat, n = Len(c), NEW i \in 1..n, NEW x \in Nat, NEW y \in Nat,
         i = 1 => x = 0, i = n => x = Width,
         \A j \in 1..n : (j < i => c[j][1] <= x) /\ (i < j => x <= c[j][1])
  PROVE  [c EXCEPT ![i] = <<x, y>>] \in Curves
<1> DEFINE d == [c EXCEPT ![i] = <<x, y>>]
           p == <<x, y>>
<1>1. /\ 2 <= n /\ n <= MaxPoints /\ c \in Seq(Nat \X Nat)
      /\ c[1][1] = 0 /\ c[n][1] = Width
      /\ \A j \in 1..n : c[j][1] \in Nat
      /\ \A j, k \in 1..n : j <= k => c[j][1] <= c[k][1]
  BY CurvePoints
<1>2. p \in Nat \X Nat /\ p[1] = x
  OBVIOUS
<1> HIDE DEF p
<1>3. /\ d \in Seq(Nat \X Nat) /\ Len(d) = n
      /\ \A j \in 1..n : d[j] = IF j = i THEN p ELSE c[j]
  <2> DEFINE T == Nat \X Nat
  <2>1. c \in Seq(T) /\ p \in T /\ Len(c) = n
    BY <1>1, <1>2
  <2>2. d = [c EXCEPT ![i] = p]
    BY DEF p
  <2> HIDE DEF T, d
  <2>3. /\ [c EXCEPT ![i] = p] \in Seq(T) /\ Len([c EXCEPT ![i] = p]) = n
        /\ \A j \in 1..n : [c EXCEPT ![i] = p][j] = IF j = i THEN p ELSE c[j]
    BY <2>1, Replaced
  <2> QED BY <2>2, <2>3 DEF T
<1> HIDE DEF d
<1>4. \A j \in 1..n : d[j][1] = IF j = i THEN x ELSE c[j][1]
  BY <1>2, <1>3
<1>5. d[1][1] = 0 /\ d[n][1] = Width
  <2>1. 1 \in 1..n /\ n \in 1..n
    BY <1>1
  <2> QED BY <1>1, <1>4, <2>1
<1>6. \A j, k \in 1..n : j <= k => d[j][1] <= d[k][1]
  <2> SUFFICES ASSUME NEW j \in 1..n, NEW k \in 1..n, j <= k
               PROVE  d[j][1] <= d[k][1]
    OBVIOUS
  <2>1. CASE j = i /\ k = i
    BY <1>4, <2>1
  <2>2. CASE j = i /\ k # i
    <3>1. i < k
      BY <2>2
    <3> QED BY <1>4, <2>2, <3>1
  <2>3. CASE j # i /\ k = i
    <3>1. j < i
      BY <2>3
    <3> QED BY <1>4, <2>3, <3>1
  <2>4. CASE j # i /\ k # i
    BY <1>1, <1>4, <2>4
  <2> QED BY <2>1, <2>2, <2>3, <2>4
<1>7. Len(d) \in 2..MaxPoints
  BY <1>1, <1>3, CurveConstants
<1>8. d \in Curves
  BY <1>3, <1>5, <1>6, <1>7, IsCurve
<1> QED BY <1>8 DEF d

LEMMA MovedIsCurve ==
  ASSUME NEW c \in Curves, NEW n \in Nat, n = Len(c), NEW i \in 1..n, NEW x \in Int, NEW y \in Int,
         ~NoRoom(c, i)
  PROVE  Moved(c, i, x, y) \in Curves
<1> DEFINE nx == IF i = 1 THEN 0 ELSE IF i = Len(c) THEN Width ELSE Within(x, Room(c, i).lo, Room(c, i).hi)
           ny == Within(y, 0, Height)
<1>1. /\ 2 <= n /\ c[1][1] = 0 /\ c[n][1] = Width
      /\ \A j \in 1..n : c[j][1] \in Nat /\ c[j][1] <= Width
      /\ \A j, k \in 1..n : j <= k => c[j][1] <= c[k][1]
  BY CurvePoints
<1>2. ny \in Nat
  BY HeightKept
<1>3. /\ nx \in Nat
      /\ i = 1 => nx = 0
      /\ i = n => nx = Width
      /\ \A j \in 1..n : (j < i => c[j][1] <= nx) /\ (i < j => nx <= c[j][1])
  <2>1. CASE i = 1
    <3>1. nx = 0
      BY <2>1
    <3> HIDE DEF nx
    <3> QED BY <1>1, <2>1, <3>1
  <2>2. CASE i # 1 /\ i = n
    <3>1. nx = Width
      BY <2>2
    <3> HIDE DEF nx
    <3> QED BY <1>1, <2>2, <3>1, CurveConstants
  <2>3. CASE i # 1 /\ i # n
    <3>1. i - 1 \in 1..n /\ i + 1 \in 1..n /\ i \in 2..n-1
      BY <1>1, <2>3
    <3> DEFINE lo == c[i-1][1] + Gap
               hi == c[i+1][1] - Gap
    <3>2. lo \in Int /\ hi \in Int /\ c[i-1][1] <= lo /\ hi <= c[i+1][1]
      <4>1. c[i-1][1] \in Nat /\ c[i+1][1] \in Nat
        BY <1>1, <3>1
      <4> QED BY <4>1, CurveConstants
    <3>3. Room(c, i).lo = lo /\ Room(c, i).hi = hi
      BY DEF Room
    <3> HIDE DEF lo, hi
    <3>4. lo <= hi
      BY <3>1, <3>2, <3>3 DEF NoRoom
    <3>5. nx = Within(x, lo, hi)
      BY <2>3, <3>3
    <3> HIDE DEF nx
    <3>6. nx \in Int /\ lo <= nx /\ nx <= hi
      BY <3>2, <3>4, <3>5, WithinBounds
    <3>7. c[i-1][1] \in Nat /\ c[i+1][1] \in Nat /\ c[i-1][1] <= nx /\ nx <= c[i+1][1]
      BY <1>1, <3>1, <3>2, <3>6
    <3>8. ASSUME NEW j \in 1..n PROVE (j < i => c[j][1] <= nx) /\ (i < j => nx <= c[j][1])
      <4>1. c[j][1] \in Nat /\ (j < i => j <= i - 1) /\ (i < j => i + 1 <= j)
        BY <1>1
      <4>2. j < i => c[j][1] <= c[i-1][1]
        BY <1>1, <3>1, <4>1
      <4>3. i < j => c[i+1][1] <= c[j][1]
        BY <1>1, <3>1, <4>1
      <4> QED BY <3>6, <3>7, <4>1, <4>2, <4>3
    <3>9. nx \in Nat
      BY <3>6, <3>7
    <3> QED BY <2>3, <3>8, <3>9
  <2> QED BY <2>1, <2>2, <2>3
<1> HIDE DEF nx, ny
<1>4. [c EXCEPT ![i] = <<nx, ny>>] \in Curves
  BY <1>2, <1>3, BetweenIsCurve
<1> QED BY <1>4 DEF Moved, nx, ny

\* A point put in front of the first one beyond it leaves the points in order.
LEMMA InsertedIsCurve ==
  ASSUME NEW c \in Curves, NEW n \in Nat, n = Len(c), n < MaxPoints,
         NEW k \in 1..n, k # 1, NEW x \in Nat, NEW y \in Nat,
         x <= c[k][1], \A j \in 1..n : j < k => c[j][1] <= x
  PROVE  InsertAt(c, k, <<x, y>>) \in Curves
<1> DEFINE d == InsertAt(c, k, <<x, y>>)
           p == <<x, y>>
<1>1. /\ 2 <= n /\ n + 1 <= MaxPoints /\ c \in Seq(Nat \X Nat)
      /\ c[1][1] = 0 /\ c[n][1] = Width
      /\ \A j \in 1..n : c[j][1] \in Nat
      /\ \A j, m \in 1..n : j <= m => c[j][1] <= c[m][1]
  <2>1. /\ 2 <= n /\ c \in Seq(Nat \X Nat)
        /\ c[1][1] = 0 /\ c[n][1] = Width
        /\ \A j \in 1..n : c[j][1] \in Nat
        /\ \A j, m \in 1..n : j <= m => c[j][1] <= c[m][1]
    BY CurvePoints
  <2> QED BY <2>1, CurveConstants
<1>2. p \in Nat \X Nat /\ p[1] = x
  OBVIOUS
<1> HIDE DEF p
<1>3. d = InsertAt(c, k, p)
  BY DEF p
<1> HIDE DEF d
<1>4. /\ d \in Seq(Nat \X Nat) /\ Len(d) = n + 1 /\ d[k][1] = x
      /\ \A j \in 1..n+1 : j < k => d[j][1] = c[j][1]
      /\ \A j \in 1..n+1 : j > k => d[j][1] = c[j-1][1]
  <2> DEFINE T == Nat \X Nat
             a == SubSeq(c, 1, k - 1)
             b == SubSeq(c, k, n)
             m == Append(a, p)
  <2>0. c \in Seq(T) /\ p \in T /\ Len(c) = n
    BY <1>1, <1>2
  <2> HIDE DEF T
  <2>1. a \in Seq(T) /\ Len(a) = k - 1 /\ \A j \in 1..k-1 : a[j] = c[j]
    BY <2>0
  <2>2. b \in Seq(T) /\ Len(b) = n - k + 1 /\ \A j \in 1..n-k+1 : b[j] = c[k + j - 1]
    BY <2>0
  <2>3. InsertAt(c, k, p) = (a \o <<p>>) \o b
    BY <2>0 DEF InsertAt
  <2> HIDE DEF a, b
  <2>4. a \o <<p>> = m
    BY <2>0, <2>1
  <2>5. m \in Seq(T) /\ Len(m) = k /\ \A j \in 1..k : m[j] = IF j < k THEN c[j] ELSE p
    BY <2>0, <2>1
  <2> HIDE DEF m
  <2>6. m \o b \in Seq(T) /\ Len(m \o b) = n + 1
    <3>1. m \o b \in Seq(T) /\ Len(m \o b) = Len(m) + Len(b)
      BY <2>2, <2>5, ConcatProperties
    <3> QED BY <2>2, <2>5, <3>1
  <2>7. d = m \o b
    BY <1>3, <2>3, <2>4
  <2> HIDE DEF m
  <2>8. \A j \in 1..n+1 : d[j] = IF j <= k THEN m[j] ELSE b[j - k]
    <3>1. Len(m) + Len(b) = n + 1
      BY <2>2, <2>5
    <3>2. \A j \in 1..Len(m) + Len(b) : (m \o b)[j] = IF j <= Len(m) THEN m[j] ELSE b[j - Len(m)]
      BY <2>2, <2>5, ConcatProperties
    <3> QED BY <2>5, <2>7, <3>1, <3>2
  <2>9. d \in Seq(T) /\ Len(d) = n + 1
    BY <2>6, <2>7
  <2>10. d[k] = p
    <3>1. d[k] = m[k]
      BY <2>8
    <3> QED BY <2>5, <3>1
  <2>11. ASSUME NEW j \in 1..k-1 PROVE d[j] = c[j]
    <3>1. d[j] = m[j]
      BY <2>8
    <3> QED BY <2>5, <3>1
  <2>12. ASSUME NEW j \in k+1..n+1 PROVE d[j] = c[j-1]
    <3>1. d[j] = b[j - k]
      BY <2>8
    <3>2. j - k \in 1..n-k+1 /\ k + (j - k) - 1 = j - 1
      OBVIOUS
    <3>3. b[j - k] = c[k + (j - k) - 1]
      BY <2>2, <3>2
    <3> QED BY <3>1, <3>2, <3>3
  <2>13. ASSUME NEW j \in 1..n+1, j < k PROVE d[j][1] = c[j][1]
    BY <2>11, <2>13
  <2>14. ASSUME NEW j \in 1..n+1, j > k PROVE d[j][1] = c[j-1][1]
    <3>1. j \in k+1..n+1
      BY <2>14
    <3> QED BY <2>12, <3>1
  <2> QED BY <1>2, <2>9, <2>10, <2>13, <2>14 DEF T
<1>5. d[1][1] = 0 /\ d[n + 1][1] = Width
  <2>1. 1 \in 1..n+1 /\ 1 < k /\ n + 1 \in 1..n+1 /\ n + 1 > k /\ (n + 1) - 1 = n
    BY <1>1
  <2> QED BY <1>1, <1>4, <2>1
<1>6. \A j \in 1..n : k <= j => x <= c[j][1]
  <2> SUFFICES ASSUME NEW j \in 1..n, k <= j PROVE x <= c[j][1]
    OBVIOUS
  <2>1. c[k][1] <= c[j][1] /\ c[k][1] \in Nat /\ c[j][1] \in Nat
    BY <1>1
  <2> QED BY <2>1
<1>7. \A j, m \in 1..n+1 : j <= m => d[j][1] <= d[m][1]
  <2> SUFFICES ASSUME NEW j \in 1..n+1, NEW m \in 1..n+1, j <= m
               PROVE  d[j][1] <= d[m][1]
    OBVIOUS
  <2>1. CASE m < k
    <3>1. j \in 1..n /\ m \in 1..n /\ j < k
      BY <2>1
    <3> QED BY <1>1, <1>4, <2>1, <3>1
  <2>2. CASE m = k /\ j < k
    <3>1. j \in 1..n
      BY <2>2
    <3> QED BY <1>4, <2>2, <3>1
  <2>3. CASE m = k /\ j = k
    BY <1>4, <2>3
  <2>4. CASE m > k /\ j < k
    <3>1. j \in 1..n /\ m - 1 \in 1..n /\ j <= m - 1
      BY <2>4
    <3> QED BY <1>1, <1>4, <2>4, <3>1
  <2>5. CASE m > k /\ j = k
    <3>1. m - 1 \in 1..n /\ k <= m - 1
      BY <2>5
    <3> QED BY <1>4, <1>6, <2>5, <3>1
  <2>6. CASE m > k /\ j > k
    <3>1. j - 1 \in 1..n /\ m - 1 \in 1..n /\ j - 1 <= m - 1
      BY <2>6
    <3> QED BY <1>1, <1>4, <2>6, <3>1
  <2> QED BY <2>1, <2>2, <2>3, <2>4, <2>5, <2>6
<1>8. Len(d) \in 2..MaxPoints
  BY <1>1, <1>4, CurveConstants
<1>9. d[Len(d)][1] = Width /\ \A j, m \in 1..Len(d) : j <= m => d[j][1] <= d[m][1]
  BY <1>4, <1>5, <1>7
<1>10. d \in Curves
  BY <1>4, <1>5, <1>8, <1>9, IsCurve
<1> QED BY <1>10 DEF d

LEMMA AddedIsCurve ==
  ASSUME NEW c \in Curves, Len(c) < MaxPoints, NEW x \in Int, NEW y \in Int, 0 < x, x < Width
  PROVE  Added(c, x, y) \in Curves
<1> DEFINE later == {i \in DOMAIN c : c[i][1] > x}
           spot    == IF later = {} THEN Len(c) + 1 ELSE CHOOSE i \in later : \A j \in later : i <= j
<1>1. PICK n \in Nat : n = Len(c)
  BY CurvePoints
<1>2. /\ 2 <= n /\ DOMAIN c = 1..n /\ c[1][1] = 0 /\ c[n][1] = Width
      /\ \A j \in 1..n : c[j][1] \in Nat
  BY <1>1, CurvePoints
<1>3. later \subseteq 1..n /\ n \in later
  BY <1>2
<1>4. \E i \in later : \A j \in later : i <= j
  <2>1. later \subseteq Nat /\ later # {}
    BY <1>3
  <2> HIDE DEF later
  <2> QED BY <2>1, NatHasMin
<1>5. spot \in later /\ \A j \in later : spot <= j
  BY <1>3, <1>4
<1> HIDE DEF spot
<1>6. spot \in 1..n /\ c[spot][1] > x /\ c[spot][1] \in Nat
  BY <1>2, <1>5
<1>7. spot # 1
  BY <1>2, <1>6
<1>8. \A j \in 1..n : j < spot => c[j][1] <= x
  <2> SUFFICES ASSUME NEW j \in 1..n, j < spot PROVE c[j][1] <= x
    OBVIOUS
  <2>1. ~(spot <= j)
    BY <1>6
  <2>2. ~(c[j][1] > x)
    BY <1>2, <1>5, <2>1
  <2> QED BY <1>2, <2>2
<1>9. x \in Nat /\ x <= c[spot][1]
  BY <1>6
<1>10. InsertAt(c, spot, <<x, Within(y, 0, Height)>>) \in Curves
  BY <1>1, <1>6, <1>7, <1>8, <1>9, HeightKept, InsertedIsCurve
<1> QED BY <1>10 DEF spot, later, Added

LEMMA RemovedIsCurve ==
  ASSUME NEW c \in Curves, NEW n \in Nat, n = Len(c), NEW i \in 1..n, i # 1, i # n
  PROVE  RemoveAt(c, i) \in Curves
<1> DEFINE d == RemoveAt(c, i)
<1>1. /\ 2 <= n /\ n <= MaxPoints /\ c \in Seq(Nat \X Nat)
      /\ c[1][1] = 0 /\ c[n][1] = Width
      /\ \A j \in 1..n : c[j][1] \in Nat
      /\ \A j, k \in 1..n : j <= k => c[j][1] <= c[k][1]
  BY CurvePoints
<1>2. i \in 2..n-1 /\ n >= 3
  BY <1>1
<1>3. /\ d \in Seq(Nat \X Nat) /\ Len(d) = n - 1
      /\ \A j \in 1..n-1 : d[j] = IF j < i THEN c[j] ELSE c[j+1]
  <2> DEFINE T == Nat \X Nat
  <2>1. c \in Seq(T) /\ Len(c) = n
    BY <1>1
  <2> HIDE DEF T, d
  <2>2. /\ RemoveAt(c, i) \in Seq(T) /\ Len(RemoveAt(c, i)) = n - 1
        /\ \A j \in 1..n-1 : RemoveAt(c, i)[j] = IF j < i THEN c[j] ELSE c[j+1]
    BY <2>1, Removed
  <2> QED BY <2>2 DEF T, d
<1> HIDE DEF d
<1>4. d[1][1] = 0 /\ d[n - 1][1] = Width
  <2>1. 1 \in 1..n-1 /\ 1 < i /\ n - 1 \in 1..n-1 /\ ~(n - 1 < i) /\ (n - 1) + 1 = n
    BY <1>2
  <2> QED BY <1>1, <1>3, <2>1
<1> DEFINE Shifted == \A j \in 1..n-1 : d[j] = IF j < i THEN c[j] ELSE c[j+1]
<1>a. Shifted
  BY <1>3
<1>b. \A j, k \in 1..n : j <= k => c[j][1] <= c[k][1]
  BY <1>1
<1>5. \A j, k \in 1..n-1 : j <= k => d[j][1] <= d[k][1]
  <2> SUFFICES ASSUME NEW j \in 1..n-1, NEW k \in 1..n-1, j <= k
               PROVE  d[j][1] <= d[k][1]
    OBVIOUS
  <2>1. j \in 1..n /\ k \in 1..n /\ j + 1 \in 1..n /\ k + 1 \in 1..n
    OBVIOUS
  <2>2. CASE k < i
    <3>1. j < i
      BY <2>2
    <3>2. d[j] = c[j] /\ d[k] = c[k]
      BY <1>a, <2>2, <3>1
    <3> QED BY <1>b, <2>1, <3>2
  <2>3. CASE j < i /\ ~(k < i)
    <3>1. d[j] = c[j] /\ d[k] = c[k+1] /\ j <= k + 1
      BY <1>a, <2>3
    <3> QED BY <1>b, <2>1, <3>1
  <2>4. CASE ~(j < i)
    <3>1. d[j] = c[j+1] /\ d[k] = c[k+1] /\ j + 1 <= k + 1
      BY <1>a, <2>4
    <3> QED BY <1>b, <2>1, <3>1
  <2> QED BY <2>2, <2>3, <2>4
<1>6. Len(d) \in 2..MaxPoints
  BY <1>1, <1>2, <1>3, CurveConstants
<1>7. d[Len(d)][1] = Width /\ \A j, k \in 1..Len(d) : j <= k => d[j][1] <= d[k][1]
  BY <1>3, <1>4, <1>5
<1>8. d \in Curves
  BY <1>3, <1>4, <1>6, <1>7, IsCurve
<1> QED BY <1>8 DEF d

------------------------------------------------------------------------------
(***************************************************************************)
(* A click.                                                                *)
(***************************************************************************)
LEMMA SquareIsNat ==
  ASSUME NEW a \in Int
  PROVE  a * a \in Nat
<1>1. CASE a >= 0
  BY <1>1
<1>2. CASE ~(a >= 0)
  BY <1>2
<1> QED BY <1>1, <1>2

LEMMA ApartIsNat ==
  ASSUME NEW p \in Nat \X Nat, NEW x \in Int, NEW y \in Int
  PROVE  Apart(p, x, y) \in Nat
<1> DEFINE a == p[1] - x
           b == p[2] - y
<1>1. a \in Int /\ b \in Int
  OBVIOUS
<1> HIDE DEF a, b
<1>2. a * a \in Nat /\ b * b \in Nat
  BY <1>1, SquareIsNat
<1>3. a * a + b * b \in Nat
  BY <1>2
<1> QED BY <1>3 DEF Apart, a, b

\* The nearest point, the first of those as near, is one of the curve's.
LEMMA NearestIsPoint ==
  ASSUME NEW c \in Curves, NEW x \in Int, NEW y \in Int
  PROVE  Nearest(c, x, y) \in 1..Len(c)
<1> DEFINE N    == 1..Len(c)
           far  == [i \in N |-> Apart(c[i], x, y)]
           D    == {far[i] : i \in N}
<1>1. /\ Len(c) \in Nat /\ 1 \in N /\ N \subseteq Nat /\ DOMAIN c = N
      /\ \A i \in N : c[i] \in Nat \X Nat
  BY CurvePoints
<1>2. \A i \in N : far[i] \in Nat /\ far[i] = Apart(c[i], x, y)
  BY <1>1, ApartIsNat
<1> HIDE DEF N, far
<1>3. PICK m \in D : \A d \in D : m <= d
  <2>1. D \subseteq Nat /\ D # {}
    BY <1>1, <1>2
  <2> HIDE DEF D
  <2> QED BY <2>1, NatHasMin
<1>4. m \in Nat /\ \A i \in N : m <= far[i]
  BY <1>2, <1>3
<1> DEFINE F == {i \in N : far[i] = m}
<1>5. PICK k \in F : \A i \in F : k <= i
  <2>1. F \subseteq Nat /\ F # {}
    BY <1>1, <1>3
  <2> HIDE DEF F
  <2> QED BY <2>1, NatHasMin
<1>6. ASSUME NEW j \in N PROVE far[k] < far[j] \/ (far[k] = far[j] /\ k <= j)
  <2>1. k \in N /\ far[k] = m /\ m <= far[j] /\ far[j] \in Nat
    BY <1>2, <1>4, <1>5
  <2>2. CASE far[j] = m
    BY <1>5, <2>1, <2>2
  <2>3. CASE far[j] # m
    BY <1>4, <2>1, <2>3
  <2> QED BY <2>2, <2>3
<1>7. \E i \in N : \A j \in N : far[i] < far[j] \/ (far[i] = far[j] /\ i <= j)
  BY <1>5, <1>6
<1>8. \E i \in N : \A j \in N : Apart(c[i], x, y) < Apart(c[j], x, y)
                                \/ (Apart(c[i], x, y) = Apart(c[j], x, y) /\ i <= j)
  BY <1>2, <1>7
<1>9. Nearest(c, x, y) \in N
  BY <1>1, <1>8 DEF Nearest
<1> QED BY <1>9 DEF N

LEMMA RightClickedIsCurve ==
  ASSUME NEW c \in Curves, NEW x \in Int, NEW y \in Int
  PROVE  RightClicked(c, x, y) \in Curves
<1> DEFINE k == Nearest(c, x, y)
<1>1. PICK n \in Nat : n = Len(c)
  BY CurvePoints
<1>2. k \in 1..n
  BY <1>1, NearestIsPoint
<1> HIDE DEF k
<1>3. CASE Apart(c[k], x, y) < Close /\ k \notin {1, Len(c)} /\ Len(c) > 2
  <2>1. k # 1 /\ k # n
    BY <1>1, <1>3
  <2>2. RemoveAt(c, k) \in Curves
    BY <1>1, <1>2, <2>1, RemovedIsCurve
  <2> QED BY <1>3, <2>2 DEF RightClicked, k
<1>4. CASE /\ ~(Apart(c[k], x, y) < Close /\ k \notin {1, Len(c)} /\ Len(c) > 2)
           /\ Len(c) < MaxPoints /\ x > 0 /\ x < Width
  <2>1. Added(c, x, y) \in Curves
    BY <1>4, AddedIsCurve
  <2> QED BY <1>4, <2>1 DEF RightClicked, k
<1>5. CASE /\ ~(Apart(c[k], x, y) < Close /\ k \notin {1, Len(c)} /\ Len(c) > 2)
           /\ ~(Len(c) < MaxPoints /\ x > 0 /\ x < Width)
  BY <1>5 DEF RightClicked, k
<1> QED BY <1>3, <1>4, <1>5

------------------------------------------------------------------------------
(***************************************************************************)
(* The invariant.                                                          *)
(***************************************************************************)
\* The configurations that belong to one pedal as a whole, and what carries them.
Whole ==
  {c \in [role : Roles, n : Nat, curve : PackedCurves, rest : Roles \X Hidden] : c.rest[1] = c.role}
Messages ==
  {"Connect failed", "Pushed", "Push failed", "Pushed over WiFi", "Refresh failed", "Auto-switched",
   "Auto-switch failed", "Installed", "Download failed", "Update failed", "Sent over WiFi"}
Closures ==
  [do : {"fill"}, cfg : Whole] \cup [do : {"note", "flash"}, msg : Messages]
  \cup [do : {"online"}, on : BOOLEAN] \cup [do : {"marks"}, roles : SUBSET Roles]
  \cup [do : {"adopted"}, role : Roles]
Requests == [op : {"push"}, cfg : Whole] \cup [op : {"none", "refresh", "wifi", "ota"}]
Lines    == [op : {"cfg"}, cfg : Whole, air : BOOLEAN] \cup [op : {"cap", "get", "wifi", "act", "?"}, air : {FALSE}]
Answers  == [op : {"get"}, cfg : Whole] \cup [op : {"cfg", "cap", "wifi", "act", "?"}]

\* The inductive invariant, one part per group of variables.
ScreenInv ==
  /\ sel \in Roles /\ marks \subseteq Roles /\ online \in BOOLEAN /\ crashed \in BOOLEAN
  /\ flashing \in {"no", "downloading", "sent", "failed"} /\ profile \in Names \cup {0}
EditorInv == editor \in [n : Nat, curve : Curves]
FilesInv ==
  /\ DOMAIN profiles \subseteq Names /\ DOMAIN bindings \subseteq Names
  /\ \A p \in DOMAIN profiles : profiles[p] \in Whole
SlotsInv  == slots \in [Roles -> Whole] /\ \A r \in Roles : slots[r].role = r
QueueInv  == uiq \in Seq(Closures) /\ outbox \in Requests
LinkInv   == up \in Seq(Lines) /\ down \in Seq(Answers) /\ device \in Whole
ThreadInv == at \in {"adopt", "fill", "switch"} => job.cfg \in Whole
FlagsInv  == open \in BOOLEAN /\ present \in BOOLEAN /\ wireless \in BOOLEAN /\ auto \in BOOLEAN /\ touched \subseteq Touches

IInv ==
  /\ ScreenInv /\ EditorInv /\ FilesInv /\ SlotsInv /\ QueueInv /\ LinkInv /\ ThreadInv /\ FlagsInv

LEMMA SoundIsWhole ==
  ASSUME NEW c, Sound(c)
  PROVE  c \in Whole
<1>1. /\ c \in [role : Roles, n : Nat, curve : Seq(Nat \X Nat), rest : Roles \X Hidden]
      /\ c.rest[1] = c.role /\ Len(c.curve) <= MaxPoints /\ Ordered(Unpacked(c.curve))
  BY DEF Sound
<1>2. c.curve \in PackedCurves
  BY <1>1 DEF PackedCurves
<1>3. c \in [role : Roles, n : Nat, curve : PackedCurves, rest : Roles \X Hidden]
  BY <1>1, <1>2
<1> QED BY <1>1, <1>3 DEF Whole

LEMMA WholeParts ==
  ASSUME NEW c \in Whole
  PROVE  /\ c.role \in Roles /\ c.n \in Nat /\ c.curve \in PackedCurves
         /\ c.rest[1] = c.role
BY DEF Whole

LEMMA DefaultIsWhole ==
  ASSUME NEW r \in Roles
  PROVE  Default(r) \in Whole /\ Default(r).role = r
<1>1. Packed(Linear) \in PackedCurves
  BY LinearIsCurve, PackedIsCurve
<1>2. <<r, "default">> \in Roles \X Hidden /\ <<r, "default">>[1] = r
  BY HostAssumption
<1> QED BY <1>1, <1>2 DEF Default, Whole

LEMMA FromUiIsWhole ==
  ASSUME EditorInv, SlotsInv, sel \in Roles
  PROVE  FromUi \in Whole /\ FromUi.role = sel
<1>1. Packed(editor.curve) \in PackedCurves /\ Stored(editor.n) \in Nat
  BY PackedIsCurve DEF EditorInv, Stored
<1>2. slots[sel] \in Whole /\ slots[sel].role = sel
  BY DEF SlotsInv
<1> QED BY <1>1, <1>2 DEF FromUi, Whole

LEMMA FilledIsEditor ==
  ASSUME NEW c \in Whole
  PROVE  Filled(c) \in [n : Nat, curve : Curves]
<1>1. c.n \in Nat /\ Unpacked(c.curve) \in Curves
  BY WholeParts, UnpackedIsCurve
<1>2. Shown(c.n) \in Nat
  BY <1>1 DEF Shown
<1> QED BY <1>1, <1>2 DEF Filled

LEMMA ClosuresFit ==
  /\ \A c \in Whole : Fill(c) \in Closures /\ Adopted(c) \in Closures
  /\ \A m \in Messages : Note(m) \in Closures /\ Flash(m) \in Closures
  /\ \A b \in BOOLEAN : Online(b) \in Closures
  /\ Marks({}) \in Closures
  /\ Offline \in Seq(Closures)
<1>1. \A c \in Whole : Fill(c) \in Closures /\ Adopted(c) \in Closures
  BY WholeParts DEF Fill, Adopted, Closures
<1>2. \A m \in Messages : Note(m) \in Closures /\ Flash(m) \in Closures
  BY DEF Note, Flash, Closures
<1>3. \A b \in BOOLEAN : Online(b) \in Closures
  BY DEF Online, Closures
<1>4. Marks({}) \in Closures
  BY DEF Marks, Closures
<1>5. Offline \in Seq(Closures)
  <2>1. \A S : \A a, b \in S : <<a, b>> \in Seq(S)
    OBVIOUS
  <2>2. Online(FALSE) \in Closures
    BY <1>3
  <2> QED BY <1>4, <2>1, <2>2 DEF Offline
<1> QED BY <1>1, <1>2, <1>3, <1>4, <1>5

LEMMA LinesFit ==
  /\ \A op \in {"cap", "get", "wifi", "act", "?"} : Line(op) \in Lines
  /\ \A c \in Whole, b \in BOOLEAN : [op |-> "cfg", cfg |-> c, air |-> b] \in Lines
BY DEF Line, Lines

\* What a queue delivers and what is left of it.
LEMMA QueueTaken ==
  ASSUME NEW S, NEW q \in Seq(S), q # <<>>
  PROVE  Head(q) \in S /\ Tail(q) \in Seq(S)
OBVIOUS

LEMMA QueueGrown ==
  ASSUME NEW S, NEW q \in Seq(S), NEW e \in S
  PROVE  Append(q, e) \in Seq(S) /\ <<e>> \in Seq(S)
OBVIOUS

LEMMA SmallQueues ==
  ASSUME NEW S
  PROVE  <<>> \in Seq(S) /\ \A a, b \in S : <<a, b>> \in Seq(S)
OBVIOUS

LEMMA QueuesJoined ==
  ASSUME NEW S, NEW q \in Seq(S), NEW r \in Seq(S)
  PROVE  q \o r \in Seq(S)
OBVIOUS

------------------------------------------------------------------------------
(***************************************************************************)
(* The steps of the user interface and of the user.                        *)
(***************************************************************************)
LEMMA InitInv ==
  ASSUME Init
  PROVE  IInv
<1> PICK s \in Scenarios :
      /\ sel = Brake /\ editor = [n |-> 0, curve |-> Linear] /\ marks = {} /\ online = FALSE
      /\ flashing = "no" /\ crashed = FALSE
      /\ profile = IF DOMAIN s.profiles = {} THEN 0 ELSE Least(DOMAIN s.profiles)
      /\ uiq = <<>> /\ slots = [r \in Roles |-> Default(r)]
      /\ profiles = s.profiles /\ bindings = s.bindings /\ auto = s.auto
      /\ outbox = None /\ at = "scan" /\ open = FALSE
      /\ present = s.present /\ wireless = FALSE /\ device = Device
      /\ up = <<>> /\ down = <<>> /\ touched = {}
  BY DEF Init
<1>0. /\ s.present \in BOOLEAN /\ s.auto \in BOOLEAN
      /\ DOMAIN s.profiles \subseteq Names /\ DOMAIN s.bindings \subseteq Names
      /\ \A p \in DOMAIN s.profiles : Sound(s.profiles[p])
  BY FilesAssumption
<1>1. ScreenInv
  <2> DEFINE P == DOMAIN s.profiles
  <2>1. P \subseteq Nat /\ P \subseteq Names
    BY <1>0, HostAssumption
  <2> HIDE DEF P
  <2>2. P # {} => Least(P) \in P
    BY <2>1, NatHasMin DEF Least
  <2>3. profile \in Names \cup {0}
    BY <2>1, <2>2 DEF P
  <2> QED BY <2>3, HostAssumption DEF ScreenInv
<1>2. EditorInv
  BY LinearIsCurve DEF EditorInv
<1>3. FilesInv
  BY <1>0, SoundIsWhole DEF FilesInv
<1>4. SlotsInv
  BY DefaultIsWhole DEF SlotsInv
<1>5. QueueInv
  BY DEF QueueInv, Requests, None
<1>6. LinkInv
  BY DeviceAssumption, SoundIsWhole DEF LinkInv
<1>7. ThreadInv
  BY DEF ThreadInv
<1>8. FlagsInv
  BY <1>0 DEF FlagsInv
<1> QED BY <1>1, <1>2, <1>3, <1>4, <1>5, <1>6, <1>7, <1>8 DEF IInv

LEMMA UiRunStep ==
  ASSUME IInv, UiRun
  PROVE  IInv'
<1> DEFINE f == Head(uiq)
<1>1. uiq \in Seq(Closures) /\ uiq # <<>> /\ uiq' = Tail(uiq)
  BY DEF IInv, QueueInv, UiRun
<1>2. f \in Closures /\ uiq' \in Seq(Closures)
  BY <1>1, QueueTaken
<1>3. /\ sel'      = IF f.do = "adopted" THEN f.role ELSE sel
      /\ marks'    = IF f.do = "adopted" THEN {f.role} ELSE IF f.do = "marks" THEN f.roles ELSE marks
      /\ editor'   = IF f.do = "fill" THEN Filled(f.cfg) ELSE editor
      /\ online'   = IF f.do = "online" THEN f.on ELSE online
      /\ flashing' = IF f.do = "flash" THEN "no" ELSE flashing
      /\ UNCHANGED <<profile, crashed, slots, store, game, outbox, thread, link, touched>>
  BY DEF UiRun
<1> HIDE DEF f
<1>4. /\ f.do = "adopted" => f.role \in Roles
      /\ f.do = "marks" => f.roles \subseteq Roles
      /\ f.do = "fill" => f.cfg \in Whole
      /\ f.do = "online" => f.on \in BOOLEAN
  BY <1>2 DEF Closures
<1>5. ScreenInv'
  <2>1. sel' \in Roles /\ marks' \subseteq Roles
    BY <1>3, <1>4 DEF IInv, ScreenInv
  <2>2. online' \in BOOLEAN
    BY <1>3, <1>4 DEF IInv, ScreenInv
  <2>3. flashing' \in {"no", "downloading", "sent", "failed"} /\ profile' \in Names \cup {0} /\ crashed' \in BOOLEAN
    BY <1>3 DEF IInv, ScreenInv
  <2> QED BY <2>1, <2>2, <2>3 DEF ScreenInv
<1>6. EditorInv'
  BY <1>3, <1>4, FilledIsEditor DEF IInv, EditorInv
<1>7. QueueInv'
  BY <1>2, <1>3 DEF IInv, QueueInv
<1>8. FilesInv' /\ SlotsInv' /\ LinkInv' /\ ThreadInv' /\ FlagsInv'
  BY <1>3 DEF IInv, FilesInv, SlotsInv, LinkInv, ThreadInv, FlagsInv, store, game, thread, link
<1> QED BY <1>5, <1>6, <1>7, <1>8 DEF IInv

LEMMA TypeStep ==
  ASSUME IInv, Type
  PROVE  IInv'
<1>1. PICK n \in Numbers : editor' = [editor EXCEPT !.n = n]
  BY DEF Type
<1>2. n \in Nat
  BY HostAssumption
<1>3. EditorInv'
  BY <1>1, <1>2 DEF IInv, EditorInv
<1>4. (ScreenInv /\ FilesInv /\ SlotsInv /\ QueueInv /\ LinkInv /\ ThreadInv /\ FlagsInv)'
  BY DEF IInv, Type, ScreenInv, FilesInv, SlotsInv, QueueInv, LinkInv, ThreadInv, FlagsInv, store, game, thread, link
<1> QED BY <1>3, <1>4 DEF IInv

LEMMA EditCurveStep ==
  ASSUME IInv, EditCurve
  PROVE  IInv'
<1>0. editor \in [n : Nat, curve : Curves] /\ editor.curve \in Curves
  BY DEF IInv, EditorInv
<1>1. PICK x \in {p[1] : p \in Spots}, y \in {p[2] : p \in Spots} :
       \/ editor' = [editor EXCEPT !.curve = RightClicked(@, x, y)] /\ UNCHANGED crashed
       \/ \E i \in DOMAIN editor.curve :
            IF NoRoom(editor.curve, i) THEN crashed' = TRUE /\ UNCHANGED editor
            ELSE editor' = [editor EXCEPT !.curve = Moved(@, i, x, y)] /\ UNCHANGED crashed
       \/ \E p \in Presets : editor' = [editor EXCEPT !.curve = p] /\ UNCHANGED crashed
  BY DEF EditCurve
<1>2. x \in Int /\ y \in Int
  BY HostAssumption
<1>3. EditorInv' /\ crashed' \in BOOLEAN
  <2>1. CASE editor' = [editor EXCEPT !.curve = RightClicked(@, x, y)] /\ UNCHANGED crashed
    <3>1. RightClicked(editor.curve, x, y) \in Curves
      BY <1>0, <1>2, RightClickedIsCurve
    <3> QED BY <1>0, <2>1, <3>1 DEF IInv, EditorInv, ScreenInv
  <2>2. ASSUME NEW i \in DOMAIN editor.curve, NoRoom(editor.curve, i), crashed' = TRUE, UNCHANGED editor
        PROVE  EditorInv' /\ crashed' \in BOOLEAN
    BY <1>0, <2>2 DEF EditorInv
  <2>3. ASSUME NEW i \in DOMAIN editor.curve, ~NoRoom(editor.curve, i),
               editor' = [editor EXCEPT !.curve = Moved(@, i, x, y)], UNCHANGED crashed
        PROVE  EditorInv' /\ crashed' \in BOOLEAN
    <3>1. PICK n \in Nat : n = Len(editor.curve) /\ DOMAIN editor.curve = 1..n
      BY <1>0, CurvePoints
    <3>2. i \in 1..n
      BY <3>1
    <3>3. Moved(editor.curve, i, x, y) \in Curves
      BY <1>0, <1>2, <2>3, <3>1, <3>2, MovedIsCurve
    <3> QED BY <1>0, <2>3, <3>3 DEF IInv, EditorInv, ScreenInv
  <2>4. ASSUME NEW p \in Presets, editor' = [editor EXCEPT !.curve = p], UNCHANGED crashed
        PROVE  EditorInv' /\ crashed' \in BOOLEAN
    <3>1. p \in Curves
      BY PresetsAreCurves
    <3> QED BY <1>0, <2>4, <3>1 DEF IInv, EditorInv, ScreenInv
  <2> QED BY <1>1, <2>1, <2>2, <2>3, <2>4
<1>4. ScreenInv'
  BY <1>3 DEF IInv, EditCurve, ScreenInv
<1>5. (FilesInv /\ SlotsInv /\ QueueInv /\ LinkInv /\ ThreadInv /\ FlagsInv)'
  BY DEF IInv, EditCurve, FilesInv, SlotsInv, QueueInv, LinkInv, ThreadInv, FlagsInv, store, game, thread, link
<1> QED BY <1>3, <1>4, <1>5 DEF IInv

\* The slot of the selected pedal takes what the editor shows.
LEMMA KeepStep ==
  ASSUME IInv, Keep
  PROVE  SlotsInv' /\ FromUi \in Whole
<1>1. FromUi \in Whole /\ FromUi.role = sel /\ sel \in Roles
  BY FromUiIsWhole DEF IInv, ScreenInv
<1>2. slots' = [slots EXCEPT ![sel] = FromUi]
  BY DEF Keep
<1> QED BY <1>1, <1>2 DEF IInv, SlotsInv

LEMMA SelectStep ==
  ASSUME IInv, Select
  PROVE  IInv'
<1>1. PICK r \in Roles \ {sel} : sel' = r /\ uiq' = Append(uiq, Fill(slots[r]))
  BY DEF Select
<1>2. SlotsInv'
  BY KeepStep DEF Select
<1>3. QueueInv'
  <2>1. Fill(slots[r]) \in Closures
    BY ClosuresFit DEF IInv, SlotsInv
  <2> QED BY <1>1, <2>1, QueueGrown DEF IInv, QueueInv, Select
<1>4. ScreenInv'
  BY <1>1 DEF IInv, Select, ScreenInv
<1>5. (EditorInv /\ FilesInv /\ LinkInv /\ ThreadInv /\ FlagsInv)'
  BY DEF IInv, Select, EditorInv, FilesInv, LinkInv, ThreadInv, FlagsInv, store, game, thread, link
<1> QED BY <1>2, <1>3, <1>4, <1>5 DEF IInv

LEMMA PushStep ==
  ASSUME IInv, Push
  PROVE  IInv'
<1>1. SlotsInv' /\ FromUi \in Whole
  BY KeepStep DEF Push
<1>2. QueueInv'
  BY <1>1 DEF IInv, QueueInv, Push, Request, Requests
<1>3. FlagsInv'
  BY DEF IInv, FlagsInv, Touches, Push, thread, link, game
<1>4. (ScreenInv /\ EditorInv /\ FilesInv /\ LinkInv /\ ThreadInv)'
  BY DEF IInv, Push, ScreenInv, EditorInv, FilesInv, LinkInv, ThreadInv, screen, store, thread, link
<1> QED BY <1>1, <1>2, <1>3, <1>4 DEF IInv

LEMMA AskStep ==
  ASSUME IInv, Ask
  PROVE  IInv'
<1>1. QueueInv'
  BY DEF IInv, QueueInv, Ask, Request, Requests
<1>2. (ScreenInv /\ EditorInv /\ FilesInv /\ SlotsInv)'
  BY DEF IInv, Ask, ScreenInv, EditorInv, FilesInv, SlotsInv, screen, store
<1>3. (LinkInv /\ ThreadInv /\ FlagsInv)'
  BY DEF IInv, Ask, LinkInv, ThreadInv, FlagsInv, game, thread, link
<1> QED BY <1>1, <1>2, <1>3 DEF IInv

LEMMA InstallStep ==
  ASSUME IInv, Install \/ Downloaded
  PROVE  IInv'
<1>1. ScreenInv'
  BY DEF IInv, Install, Downloaded, ScreenInv
<1>2. QueueInv'
  <2>1. Flash("Download failed") \in Closures
    BY ClosuresFit DEF Messages
  <2>2. Append(uiq, Flash("Download failed")) \in Seq(Closures)
    BY <2>1, QueueGrown DEF IInv, QueueInv
  <2>3. CASE Install
    BY <2>3 DEF IInv, QueueInv, Install
  <2>4. CASE Downloaded
    <3>1. \/ outbox' = [op |-> "ota"] /\ UNCHANGED uiq
          \/ uiq' = Append(uiq, Flash("Download failed")) /\ UNCHANGED outbox
      BY <2>4 DEF Downloaded, Request
    <3>2. [op |-> "ota"] \in Requests
      BY DEF Requests
    <3> QED BY <2>2, <3>1, <3>2 DEF IInv, QueueInv
  <2> QED BY <2>3, <2>4
<1>3. (EditorInv /\ FilesInv /\ SlotsInv)'
  BY DEF IInv, Install, Downloaded, EditorInv, FilesInv, SlotsInv, store
<1>4. (LinkInv /\ ThreadInv /\ FlagsInv)'
  BY DEF IInv, Install, Downloaded, LinkInv, ThreadInv, FlagsInv, game, thread, link
<1> QED BY <1>1, <1>2, <1>3, <1>4 DEF IInv

LEMMA LoadStep ==
  ASSUME IInv, Load
  PROVE  IInv'
<1>1. PICK p \in DOMAIN profiles : uiq' = Append(uiq, Fill(profiles[p]))
  BY DEF Load
<1>2. QueueInv'
  <2>1. Fill(profiles[p]) \in Closures
    BY ClosuresFit DEF IInv, FilesInv
  <2> QED BY <1>1, <2>1, QueueGrown DEF IInv, QueueInv, Load
<1>3. (ScreenInv /\ EditorInv /\ FilesInv /\ SlotsInv)'
  BY DEF IInv, Load, ScreenInv, EditorInv, FilesInv, SlotsInv, store
<1>4. (LinkInv /\ ThreadInv /\ FlagsInv)'
  BY DEF IInv, Load, LinkInv, ThreadInv, FlagsInv, game, thread, link
<1> QED BY <1>2, <1>3, <1>4 DEF IInv

LEMMA SaveStep ==
  ASSUME IInv, Save
  PROVE  IInv'
<1>1. PICK p \in Names :
        /\ profiles' = [q \in DOMAIN profiles \cup {p} |-> IF q = p THEN FromUi ELSE profiles[q]]
        /\ profile' = p
  BY DEF Save
<1>2. SlotsInv' /\ FromUi \in Whole
  BY KeepStep DEF Save
<1>3. FilesInv'
  <2>1. DOMAIN profiles' = DOMAIN profiles \cup {p}
    BY <1>1
  <2>2. \A q \in DOMAIN profiles' : profiles'[q] \in Whole
    BY <1>1, <1>2, <2>1 DEF IInv, FilesInv
  <2>3. UNCHANGED bindings
    BY DEF Save
  <2> QED BY <2>1, <2>2, <2>3 DEF IInv, FilesInv
<1>4. ScreenInv'
  BY <1>1 DEF IInv, Save, ScreenInv
<1>5. (EditorInv /\ QueueInv)'
  BY DEF IInv, Save, EditorInv, QueueInv
<1>6. (LinkInv /\ ThreadInv /\ FlagsInv)'
  BY DEF IInv, Save, LinkInv, ThreadInv, FlagsInv, Touches, game, thread, link
<1> QED BY <1>2, <1>3, <1>4, <1>5, <1>6 DEF IInv

LEMMA DeleteStep ==
  ASSUME IInv, Delete
  PROVE  IInv'
<1>1. PICK p \in DOMAIN profiles :
        /\ profiles' = Without(profiles, p) /\ bindings' = Without(bindings, p)
        /\ profile' = IF profile = p THEN 0 ELSE profile
  BY DEF Delete
<1>2. FilesInv'
  <2>1. /\ DOMAIN profiles' = DOMAIN profiles \ {p} /\ DOMAIN bindings' = DOMAIN bindings \ {p}
        /\ \A q \in DOMAIN profiles' : profiles'[q] = profiles[q]
    BY <1>1 DEF Without
  <2> QED BY <2>1 DEF IInv, FilesInv
<1>3. ScreenInv'
  BY <1>1 DEF IInv, Delete, ScreenInv
<1>4. (EditorInv /\ SlotsInv /\ QueueInv)'
  BY DEF IInv, Delete, EditorInv, SlotsInv, QueueInv
<1>5. (LinkInv /\ ThreadInv /\ FlagsInv)'
  BY DEF IInv, Delete, LinkInv, ThreadInv, FlagsInv, Touches, game, thread, link
<1> QED BY <1>2, <1>3, <1>4, <1>5 DEF IInv

LEMMA BindStep ==
  ASSUME IInv, Bind
  PROVE  IInv'
<1>1. profile # 0 /\ UNCHANGED profiles
  BY DEF Bind
<1>2. \/ bindings' = Without(bindings, profile)
      \/ \E keys : bindings' = [q \in DOMAIN bindings \cup {profile} |-> IF q = profile THEN keys ELSE bindings[q]]
  BY DEF Bind
<1>3. DOMAIN bindings' \subseteq DOMAIN bindings \cup {profile}
  BY <1>2 DEF Without
<1>4. FilesInv'
  BY <1>1, <1>3 DEF IInv, FilesInv, ScreenInv
<1>5. (ScreenInv /\ EditorInv /\ SlotsInv /\ QueueInv)'
  BY DEF IInv, Bind, ScreenInv, EditorInv, SlotsInv, QueueInv, screen
<1>6. (LinkInv /\ ThreadInv /\ FlagsInv)'
  BY DEF IInv, Bind, LinkInv, ThreadInv, FlagsInv, Touches, game, thread, link
<1> QED BY <1>4, <1>5, <1>6 DEF IInv

LEMMA SetAutoStep ==
  ASSUME IInv, SetAuto
  PROVE  IInv'
<1>1. FlagsInv'
  BY DEF IInv, SetAuto, FlagsInv, thread, link
<1>2. (ScreenInv /\ EditorInv /\ FilesInv /\ SlotsInv)'
  BY DEF IInv, SetAuto, ScreenInv, EditorInv, FilesInv, SlotsInv, screen, store
<1>3. (QueueInv /\ LinkInv /\ ThreadInv)'
  BY DEF IInv, SetAuto, QueueInv, LinkInv, ThreadInv, thread, link
<1> QED BY <1>1, <1>2, <1>3 DEF IInv

------------------------------------------------------------------------------
(***************************************************************************)
(* The steps of the device thread.                                         *)
(***************************************************************************)
LEMMA TellKeepsLines ==
  ASSUME LinkInv, NEW l \in Lines, Tell(l)
  PROVE  up' \in Seq(Lines)
<1>1. Append(up, l) \in Seq(Lines) /\ up \in Seq(Lines)
  BY QueueGrown DEF LinkInv
<1> QED BY <1>1 DEF Tell

LEMMA PostKeepsQueue ==
  ASSUME QueueInv, NEW fs \in Seq(Closures), Post(fs)
  PROVE  uiq' \in Seq(Closures)
<1>1. uiq \o fs \in Seq(Closures)
  BY QueuesJoined DEF QueueInv
<1> QED BY <1>1 DEF Post

LEMMA PostOne ==
  ASSUME QueueInv, NEW f \in Closures, Post(<<f>>)
  PROVE  uiq' \in Seq(Closures)
<1>1. <<f>> \in Seq(Closures)
  OBVIOUS
<1> QED BY <1>1, PostKeepsQueue

LEMMA DownTaken ==
  ASSUME LinkInv, down # <<>>, down' = Tail(down), UNCHANGED device
  PROVE  /\ down' \in Seq(Answers) /\ device' \in Whole
         /\ Head(down) \in Answers
         /\ Head(down).op = "get" => Head(down).cfg \in Whole
<1>1. down' \in Seq(Answers) /\ Head(down) \in Answers /\ device' \in Whole
  BY QueueTaken DEF LinkInv
<1>2. \A a \in Answers : a.op = "get" => a.cfg \in Whole
  BY DEF Answers
<1> QED BY <1>1, <1>2

\* Steps of the thread leave the screen, the editor and the files alone.
LEMMA Untouched ==
  ASSUME IInv, UNCHANGED <<screen, store>>
  PROVE  (ScreenInv /\ EditorInv /\ FilesInv)'
BY DEF IInv, ScreenInv, EditorInv, FilesInv, screen, store

LEMMA ScanStep ==
  ASSUME IInv, Scan
  PROVE  IInv'
<1>1. (ScreenInv /\ EditorInv /\ FilesInv)'
  BY Untouched DEF Scan
<1>2. LinkInv'
  <2>1. Line("cap") \in Lines
    BY LinesFit
  <2>2. Append(up, Line("cap")) \in Seq(Lines)
    BY <2>1, QueueGrown DEF IInv, LinkInv
  <2>3. up' = up \/ up' = Append(up, Line("cap"))
    BY DEF Scan
  <2>4. (down' = down \/ down' = <<>>) /\ UNCHANGED device
    BY DEF Scan
  <2>5. up' \in Seq(Lines)
    BY <2>2, <2>3 DEF IInv, LinkInv
  <2>6. down' \in Seq(Answers)
    BY <2>4, SmallQueues DEF IInv, LinkInv
  <2> QED BY <2>4, <2>5, <2>6 DEF IInv, LinkInv
<1>3. FlagsInv'
  BY DEF IInv, Scan, FlagsInv, game
<1>4. ThreadInv'
  BY DEF IInv, Scan, ThreadInv, Step
<1>5. (SlotsInv /\ QueueInv)'
  BY DEF IInv, Scan, SlotsInv, QueueInv
<1> QED BY <1>1, <1>2, <1>3, <1>4, <1>5 DEF IInv

LEMMA ConnectedStep ==
  ASSUME IInv, Connected
  PROVE  IInv'
<1>1. (ScreenInv /\ EditorInv /\ FilesInv)'
  BY Untouched DEF Connected
<1>2. LinkInv'
  <2>1. Tell(Line("get")) /\ Line("get") \in Lines
    BY LinesFit DEF Connected, Command
  <2>2. up' \in Seq(Lines)
    BY <2>1, TellKeepsLines DEF IInv
  <2>3. down # <<>> /\ down' = Tail(down) /\ UNCHANGED device
    BY DEF Connected
  <2>4. down' \in Seq(Answers) /\ device' \in Whole
    BY <2>3, DownTaken DEF IInv
  <2> QED BY <2>2, <2>4 DEF LinkInv
<1>3. QueueInv'
  <2>1. Online(TRUE) \in Closures /\ Post(<<Online(TRUE)>>)
    BY ClosuresFit DEF Connected
  <2>2. uiq' \in Seq(Closures)
    BY <2>1, PostOne DEF IInv
  <2> QED BY <2>2 DEF IInv, QueueInv, Connected
<1>4. (SlotsInv /\ ThreadInv /\ FlagsInv)'
  BY DEF IInv, Connected, Command, Step, SlotsInv, ThreadInv, FlagsInv, game
<1> QED BY <1>1, <1>2, <1>3, <1>4 DEF IInv

\* A configuration that is taken in becomes the slot of its own role.
LEMMA TakenIn ==
  ASSUME SlotsInv, NEW c \in Whole, TakeIn(c)
  PROVE  SlotsInv' /\ ThreadInv'
<1>1. c.role \in Roles
  BY WholeParts
<1>2. slots' = [slots EXCEPT ![c.role] = c] /\ job' = [op |-> "adopt", cfg |-> c, air |-> at = "request"]
  BY DEF TakeIn, Step
<1>3. SlotsInv'
  BY <1>1, <1>2 DEF SlotsInv
<1>4. job'.cfg = c
  BY <1>2
<1> QED BY <1>3, <1>4 DEF ThreadInv

LEMMA GotConfigStep ==
  ASSUME IInv, GotConfig
  PROVE  IInv'
<1>1. (ScreenInv /\ EditorInv /\ FilesInv)'
  BY DEF IInv, GotConfig, ScreenInv, EditorInv, FilesInv, store
<1>2. down # <<>> /\ down' = Tail(down) /\ UNCHANGED <<device, up>>
  BY DEF GotConfig
<1>3. LinkInv' /\ (Head(down).op = "get" => Head(down).cfg \in Whole)
  <2>1. down' \in Seq(Answers) /\ device' \in Whole /\ (Head(down).op = "get" => Head(down).cfg \in Whole)
    BY <1>2, DownTaken DEF IInv
  <2> QED BY <1>2, <2>1 DEF IInv, LinkInv
<1>4. SlotsInv' /\ ThreadInv'
  <2>1. CASE Head(down).op = "get"
    BY <1>3, <2>1, TakenIn DEF IInv, GotConfig
  <2>2. CASE Head(down).op # "get"
    BY <2>2 DEF IInv, GotConfig, SlotsInv, ThreadInv, Step
  <2> QED BY <2>1, <2>2
<1>5. (QueueInv /\ FlagsInv)'
  BY DEF IInv, GotConfig, QueueInv, FlagsInv, game
<1> QED BY <1>1, <1>3, <1>4, <1>5 DEF IInv

LEMMA AdoptStep ==
  ASSUME IInv, Adopt
  PROVE  IInv'
<1>1. (ScreenInv /\ EditorInv /\ FilesInv)'
  BY Untouched DEF Adopt
<1>2. job.cfg \in Whole /\ job' = job
  BY DEF IInv, ThreadInv, Adopt, Step
<1>3. QueueInv'
  <2>1. Adopted(job.cfg) \in Closures /\ Post(<<Adopted(job.cfg)>>)
    BY <1>2, ClosuresFit DEF Adopt
  <2>2. uiq' \in Seq(Closures)
    BY <2>1, PostOne DEF IInv
  <2> QED BY <2>2 DEF IInv, QueueInv, Adopt
<1>4. ThreadInv'
  BY <1>2 DEF ThreadInv
<1>5. (SlotsInv /\ LinkInv /\ FlagsInv)'
  BY DEF IInv, Adopt, SlotsInv, LinkInv, FlagsInv, game, link
<1> QED BY <1>1, <1>3, <1>4, <1>5 DEF IInv

LEMMA FillInStep ==
  ASSUME IInv, FillIn
  PROVE  IInv'
<1>1. (ScreenInv /\ EditorInv /\ FilesInv)'
  BY Untouched DEF FillIn
<1>2. job.cfg \in Whole
  BY DEF IInv, ThreadInv, FillIn
<1>3. QueueInv'
  <2>1. Fill(job.cfg) \in Closures /\ Post(<<Fill(job.cfg)>>)
    BY <1>2, ClosuresFit DEF FillIn
  <2>2. uiq' \in Seq(Closures)
    BY <2>1, PostOne DEF IInv
  <2> QED BY <2>2 DEF IInv, QueueInv, FillIn
<1>4. ThreadInv'
  BY DEF FillIn, Step, ThreadInv
<1>5. (SlotsInv /\ LinkInv /\ FlagsInv)'
  BY DEF IInv, FillIn, SlotsInv, LinkInv, FlagsInv, game, link
<1> QED BY <1>1, <1>3, <1>4, <1>5 DEF IInv

LEMMA TakeOutboxStep ==
  ASSUME IInv, TakeOutbox
  PROVE  IInv'
<1>1. (ScreenInv /\ EditorInv /\ FilesInv)'
  BY Untouched DEF TakeOutbox
<1>2. LinkInv'
  <2>1. up' \in Seq(Lines)
    <3>1. CASE outbox.op = "push"
      <4>1. outbox.cfg \in Whole
        BY <3>1 DEF IInv, QueueInv, Requests
      <4> DEFINE l == [op |-> "cfg", cfg |-> outbox.cfg, air |-> FALSE]
      <4>2. l \in Lines
        BY <4>1, LinesFit
      <4>3. Tell(l)
        BY <3>1 DEF TakeOutbox
      <4> HIDE DEF l
      <4> QED BY <4>2, <4>3, TellKeepsLines DEF IInv
    <3>2. CASE outbox.op = "refresh"
      <4>1. Line("get") \in Lines /\ Tell(Line("get"))
        BY <3>2, LinesFit DEF TakeOutbox, Command
      <4> QED BY <4>1, TellKeepsLines DEF IInv
    <3>3. CASE outbox.op = "wifi"
      <4>1. Line("wifi") \in Lines /\ Tell(Line("wifi"))
        BY <3>3, LinesFit DEF TakeOutbox, Command
      <4> QED BY <4>1, TellKeepsLines DEF IInv
    <3>4. CASE outbox.op \notin {"push", "refresh", "wifi"}
      <4>1. UNCHANGED up
        BY <3>4 DEF TakeOutbox
      <4> QED BY <4>1 DEF IInv, LinkInv
    <3> QED BY <3>1, <3>2, <3>3, <3>4
  <2>2. UNCHANGED <<down, device>>
    BY DEF TakeOutbox
  <2> QED BY <2>1, <2>2 DEF IInv, LinkInv
<1>3. UNCHANGED uiq /\ outbox' = None /\ at' \notin {"adopt", "fill", "switch"}
  BY DEF TakeOutbox, Command, Step, Tell
<1>4. QueueInv' /\ ThreadInv'
  BY <1>3 DEF IInv, QueueInv, ThreadInv, None, Requests
<1>5. (SlotsInv /\ FlagsInv)'
  BY DEF IInv, TakeOutbox, SlotsInv, FlagsInv, game
<1> QED BY <1>1, <1>2, <1>4, <1>5 DEF IInv

LEMMA PushedStep ==
  ASSUME IInv, Pushed
  PROVE  IInv'
<1>1. (ScreenInv /\ EditorInv /\ FilesInv)'
  BY Untouched DEF Pushed
<1>2. LinkInv'
  <2>1. down # <<>> /\ down' = Tail(down) /\ UNCHANGED <<device, up>>
    BY DEF Pushed
  <2>2. down' \in Seq(Answers) /\ device' \in Whole
    BY <2>1, DownTaken DEF IInv
  <2> QED BY <2>1, <2>2 DEF IInv, LinkInv
<1>3. QueueInv'
  <2>1. Note("Pushed") \in Closures /\ Post(<<Note("Pushed")>>)
    BY ClosuresFit DEF Pushed, Messages
  <2>2. uiq' \in Seq(Closures)
    BY <2>1, PostOne DEF IInv
  <2> QED BY <2>2 DEF IInv, QueueInv, Pushed
<1>4. (SlotsInv /\ ThreadInv /\ FlagsInv)'
  BY DEF IInv, Pushed, Step, SlotsInv, ThreadInv, FlagsInv, game
<1> QED BY <1>1, <1>2, <1>3, <1>4 DEF IInv

\* The effects of the game and the questions about the state of the pedal.
LEMMA AskedStep ==
  ASSUME IInv, SendAction \/ AskStatus
  PROVE  IInv'
<1>1. (ScreenInv /\ EditorInv /\ FilesInv)'
  BY Untouched DEF SendAction, AskStatus
<1>2. LinkInv'
  <2>1. Line("act") \in Lines /\ Line("?") \in Lines
    BY LinesFit
  <2>2. UNCHANGED up \/ Tell(Line("act")) \/ Tell(Line("?"))
    BY DEF SendAction, AskStatus, Command
  <2>3. up' \in Seq(Lines)
    BY <2>1, <2>2, TellKeepsLines DEF IInv, LinkInv
  <2>4. UNCHANGED <<down, device>>
    BY DEF SendAction, AskStatus
  <2> QED BY <2>3, <2>4 DEF IInv, LinkInv
<1>3. (SlotsInv /\ QueueInv)'
  BY DEF IInv, SendAction, AskStatus, SlotsInv, QueueInv
<1>4. (ThreadInv /\ FlagsInv)'
  BY DEF IInv, SendAction, AskStatus, Command, Step, ThreadInv, FlagsInv, game
<1> QED BY <1>1, <1>2, <1>3, <1>4 DEF IInv

LEMMA AnsweredStep ==
  ASSUME IInv, Acted \/ GotStatus
  PROVE  IInv'
<1>1. (ScreenInv /\ EditorInv /\ FilesInv)'
  BY Untouched DEF Acted, GotStatus
<1>2. LinkInv'
  <2>1. down # <<>> /\ down' = Tail(down) /\ UNCHANGED <<device, up>>
    BY DEF Acted, GotStatus
  <2>2. down' \in Seq(Answers) /\ device' \in Whole
    BY <2>1, DownTaken DEF IInv
  <2> QED BY <2>1, <2>2 DEF IInv, LinkInv
<1>3. (SlotsInv /\ QueueInv)'
  BY DEF IInv, Acted, GotStatus, SlotsInv, QueueInv
<1>4. (ThreadInv /\ FlagsInv)'
  BY DEF IInv, Acted, GotStatus, Step, ThreadInv, FlagsInv, game
<1> QED BY <1>1, <1>2, <1>3, <1>4 DEF IInv

LEMMA AutoSwitchStep ==
  ASSUME IInv, AutoSwitch
  PROVE  IInv'
<1>1. (ScreenInv /\ EditorInv /\ FilesInv)'
  BY Untouched DEF AutoSwitch
<1>2. UNCHANGED <<slots, uiq, outbox, open, present, wireless, auto, down, device>> /\ touched' \subseteq Touches
  BY DEF AutoSwitch, SwitchTo, IInv, FlagsInv, Touches
<1>3. up' \in Seq(Lines) /\ ThreadInv'
  <2> DEFINE p == Resolve(detected)
             l == [op |-> "cfg", cfg |-> profiles[p], air |-> FALSE]
  <2>1. CASE ~auto \/ detected = last
    BY <2>1 DEF IInv, AutoSwitch, LinkInv, ThreadInv, Step
  <2>2. CASE ~(~auto \/ detected = last) /\ p \notin DOMAIN profiles
    BY <2>2 DEF IInv, AutoSwitch, LinkInv, ThreadInv, Step
  <2>3. CASE ~(~auto \/ detected = last) /\ p \in DOMAIN profiles
    <3>1. profiles[p] \in Whole
      BY <2>3 DEF IInv, FilesInv
    <3>2. l \in Lines
      BY <3>1, LinesFit
    <3>3. Tell(l) /\ job' = [op |-> "auto", cfg |-> profiles[p]]
      BY <2>3 DEF AutoSwitch, SwitchTo, Step
    <3>4. job'.cfg = profiles[p]
      BY <3>3
    <3> HIDE DEF l, p
    <3>5. up' \in Seq(Lines)
      BY <3>2, <3>3, TellKeepsLines DEF IInv
    <3> QED BY <3>1, <3>4, <3>5 DEF ThreadInv
  <2> QED BY <2>1, <2>2, <2>3
<1>4. (SlotsInv /\ QueueInv /\ LinkInv /\ FlagsInv)'
  BY <1>2, <1>3 DEF IInv, SlotsInv, QueueInv, LinkInv, FlagsInv
<1> QED BY <1>1, <1>3, <1>4 DEF IInv

LEMMA SwitchedStep ==
  ASSUME IInv, Switched
  PROVE  IInv'
<1>1. (ScreenInv /\ EditorInv /\ FilesInv)'
  BY Untouched DEF Switched
<1>2. LinkInv'
  <2>1. down # <<>> /\ down' = Tail(down) /\ UNCHANGED <<device, up>>
    BY DEF Switched
  <2>2. down' \in Seq(Answers) /\ device' \in Whole
    BY <2>1, DownTaken DEF IInv
  <2> QED BY <2>1, <2>2 DEF IInv, LinkInv
<1>3. QueueInv'
  <2> DEFINE fs == <<Fill(job.cfg), Note("Auto-switched")>>
  <2>1. job.cfg \in Whole /\ Post(fs)
    BY DEF IInv, ThreadInv, Switched
  <2>2. Fill(job.cfg) \in Closures /\ Note("Auto-switched") \in Closures
    BY <2>1, ClosuresFit DEF Messages
  <2>3. fs \in Seq(Closures)
    BY <2>2
  <2> HIDE DEF fs
  <2>4. uiq' \in Seq(Closures)
    BY <2>1, <2>3, PostKeepsQueue DEF IInv
  <2> QED BY <2>4 DEF IInv, QueueInv, Switched
<1>4. (SlotsInv /\ ThreadInv /\ FlagsInv)'
  BY DEF IInv, Switched, Step, SlotsInv, ThreadInv, FlagsInv, game
<1> QED BY <1>1, <1>2, <1>3, <1>4 DEF IInv

LEMMA TimedOutStep ==
  ASSUME IInv, TimedOut
  PROVE  IInv'
<1>1. (ScreenInv /\ EditorInv /\ FilesInv)'
  <2>1. UNCHANGED <<screen, store>>
    BY DEF TimedOut
  <2> QED BY <2>1, Untouched
<1>2. (SlotsInv /\ LinkInv)'
  BY DEF IInv, TimedOut, SlotsInv, LinkInv, link
<1>3. ThreadInv' /\ open' \in BOOLEAN
  BY DEF IInv, TimedOut, Step, ThreadInv, FlagsInv
<1>4. FlagsInv'
  BY <1>3 DEF IInv, TimedOut, FlagsInv, game, link
<1>5. QueueInv'
  <2> SUFFICES uiq' \in Seq(Closures)
    BY DEF IInv, QueueInv, TimedOut
  <2>1. /\ Note("Connect failed") \in Closures /\ Note("Push failed") \in Closures
        /\ Note("Auto-switch failed") \in Closures
    BY ClosuresFit DEF Messages
  <2>2. CASE UNCHANGED uiq
    BY <2>2 DEF IInv, QueueInv
  <2>3. CASE Post(<<Note("Connect failed")>>) \/ Post(<<Note("Push failed")>>)
    BY <2>1, <2>3, PostOne DEF IInv
  <2>4. CASE Post(Offline)
    BY <2>4, ClosuresFit, PostKeepsQueue DEF IInv
  <2> DEFINE fs == <<Fill(job.cfg), Note("Auto-switch failed")>>
  <2>5. CASE at = "switch" /\ Post(fs)
    <3>1. Fill(job.cfg) \in Closures
      BY <2>5, ClosuresFit DEF IInv, ThreadInv
    <3>2. fs \in Seq(Closures)
      BY <2>1, <3>1, SmallQueues
    <3> HIDE DEF fs
    <3> QED BY <2>5, <3>2, PostKeepsQueue DEF IInv
  <2> QED BY <2>2, <2>3, <2>4, <2>5 DEF TimedOut
<1> QED BY <1>1, <1>2, <1>3, <1>4, <1>5 DEF IInv

LEMMA UploadStep ==
  ASSUME IInv, Upload
  PROVE  IInv'
<1>1. (ScreenInv /\ EditorInv /\ FilesInv)'
  BY Untouched DEF Upload
<1>2. \/ /\ Post(<<Flash("Update failed")>>) /\ UNCHANGED <<open, device, touched, up, down>>
         /\ at' = "outbox"
      \/ /\ open' = FALSE /\ at' = "scan"
         /\ \E installed \in BOOLEAN :
              /\ Post(Offline \o <<Flash(IF installed THEN "Installed" ELSE "Update failed")>>)
              /\ IF installed THEN device' = Device /\ touched' = touched \cup {"restart"} /\ up' = <<>> /\ down' = <<>>
                 ELSE UNCHANGED <<device, touched, up, down>>
  BY DEF Upload, Step
<1>3. LinkInv'
  <2>1. Device \in Whole
    BY DeviceAssumption, SoundIsWhole
  <2>2. (UNCHANGED up \/ up' = <<>>) /\ (UNCHANGED down \/ down' = <<>>)
    BY <1>2
  <2>3. up' \in Seq(Lines) /\ down' \in Seq(Answers)
    BY <2>2, SmallQueues DEF IInv, LinkInv
  <2>4. device' \in Whole
    BY <1>2, <2>1 DEF IInv, LinkInv
  <2> QED BY <2>3, <2>4 DEF LinkInv
<1>4. QueueInv'
  <2>1. Flash("Installed") \in Closures /\ Flash("Update failed") \in Closures
    BY ClosuresFit DEF Messages
  <2>2. \A f \in Closures : <<f>> \in Seq(Closures) /\ Offline \o <<f>> \in Seq(Closures)
    <3>1. \A f \in Closures : <<f>> \in Seq(Closures)
      OBVIOUS
    <3> QED BY <3>1, ClosuresFit, QueuesJoined
  <2>3. \E fs \in Seq(Closures) : Post(fs)
    BY <1>2, <2>1, <2>2
  <2>4. uiq' \in Seq(Closures)
    BY <2>3, PostKeepsQueue DEF IInv
  <2> QED BY <2>4 DEF IInv, QueueInv, Upload
<1>5. ThreadInv' /\ FlagsInv'
  BY <1>2 DEF IInv, ThreadInv, FlagsInv, Touches, Upload, game
<1>6. SlotsInv'
  BY DEF IInv, Upload, SlotsInv
<1> QED BY <1>1, <1>3, <1>4, <1>5, <1>6 DEF IInv

LEMMA AirStep ==
  ASSUME IInv, Air
  PROVE  IInv'
<1>1. (ScreenInv /\ EditorInv /\ FilesInv)'
  BY Untouched DEF Air
<1>2. /\ UNCHANGED <<open, slots, device, touched, present, wireless, down, auto>>
      /\ at' \in {"scan", "request"}
  BY DEF Air, game, Step, IInv, QueueInv, Requests, None
<1>3. up' \in Seq(Lines) /\ uiq' \in Seq(Closures) /\ outbox' \in Requests
  <2>1. CASE ~(wireless /\ outbox # None)
    BY <2>1 DEF IInv, LinkInv, QueueInv, Air
  <2>2. CASE wireless /\ outbox # None
    <3>1. outbox' \in Requests
      <4>1. outbox' = None
        BY <2>2 DEF Air
      <4> QED BY <4>1 DEF None, Requests
    <3>2. CASE outbox.op = "push"
      <4>1. outbox.cfg \in Whole
        BY <3>2 DEF IInv, QueueInv, Requests
      <4> DEFINE l == [op |-> "cfg", cfg |-> outbox.cfg, air |-> TRUE]
      <4>2. l \in Lines
        BY <4>1, LinesFit
      <4>3. up' = Append(up, l) /\ Post(<<Note("Pushed over WiFi")>>)
        BY <2>2, <3>2 DEF Air
      <4> HIDE DEF l
      <4>4. up' \in Seq(Lines)
        BY <4>2, <4>3, QueueGrown DEF IInv, LinkInv
      <4>5. Note("Pushed over WiFi") \in Closures
        BY ClosuresFit DEF Messages
      <4> QED BY <3>1, <4>3, <4>4, <4>5, PostOne DEF IInv
    <3>3. CASE outbox.op \in {"refresh", "wifi"}
      BY <2>2, <3>1, <3>3 DEF Air, IInv, LinkInv, QueueInv
    <3>4. CASE outbox.op = "ota"
      <4>1. Post(<<Flash("Sent over WiFi")>>) /\ UNCHANGED up
        BY <2>2, <3>4 DEF Air
      <4>2. Flash("Sent over WiFi") \in Closures
        BY ClosuresFit DEF Messages
      <4> QED BY <3>1, <4>1, <4>2, PostOne DEF IInv, LinkInv
    <3>5. outbox.op \in {"push", "refresh", "wifi", "ota"}
      BY <2>2 DEF IInv, QueueInv, Requests, None
    <3> QED BY <3>2, <3>3, <3>4, <3>5
  <2> QED BY <2>1, <2>2
<1>4. (SlotsInv /\ QueueInv /\ LinkInv /\ ThreadInv /\ FlagsInv)'
  BY <1>2, <1>3 DEF IInv, SlotsInv, QueueInv, LinkInv, ThreadInv, FlagsInv
<1> QED BY <1>1, <1>4 DEF IInv

LEMMA RequestedStep ==
  ASSUME IInv, Requested
  PROVE  IInv'
<1>1. (ScreenInv /\ EditorInv /\ FilesInv)'
  BY DEF IInv, Requested, ScreenInv, EditorInv, FilesInv, store
<1>2. (SlotsInv /\ ThreadInv /\ QueueInv)'
  <2>1. UNCHANGED outbox
    BY DEF Requested
  <2>2. CASE TakeIn(device) /\ UNCHANGED uiq
    BY <2>1, <2>2, TakenIn DEF IInv, LinkInv, QueueInv
  <2>3. CASE Step("scan", None) /\ Post(<<Note("Refresh failed")>>) /\ UNCHANGED slots
    <3>1. Note("Refresh failed") \in Closures
      BY ClosuresFit DEF Messages
    <3>2. uiq' \in Seq(Closures)
      BY <2>3, <3>1, PostOne DEF IInv
    <3> QED BY <2>1, <2>3, <3>2 DEF IInv, SlotsInv, ThreadInv, QueueInv, Step
  <2> QED BY <2>2, <2>3 DEF Requested
<1>3. (LinkInv /\ FlagsInv)'
  BY DEF IInv, Requested, LinkInv, FlagsInv, game, link
<1> QED BY <1>1, <1>2, <1>3 DEF IInv

------------------------------------------------------------------------------
(***************************************************************************)
(* The pedal, its cable, the network and the game.                         *)
(***************************************************************************)
LEMMA PedalStep ==
  ASSUME IInv, Pedal
  PROVE  IInv'
<1> DEFINE l == Head(up)
           answer == IF l.op = "get" THEN [op |-> "get", cfg |-> device] ELSE [op |-> l.op]
<1>1. up \in Seq(Lines) /\ up # <<>> /\ up' = Tail(up) /\ down \in Seq(Answers) /\ device \in Whole
  BY DEF IInv, LinkInv, Pedal
<1>2. l \in Lines /\ up' \in Seq(Lines)
  BY <1>1, QueueTaken
<1>3. /\ device' = IF l.op = "cfg" THEN l.cfg ELSE device
      /\ down' = IF l.air THEN down ELSE Append(down, answer)
  BY DEF Pedal
<1> HIDE DEF l
<1>4. l.op = "cfg" => l.cfg \in Whole
  BY <1>2 DEF Lines
<1>5. l.op \in {"cfg", "cap", "get", "wifi", "act", "?"}
  BY <1>2 DEF Lines
<1>6. answer \in Answers
  <2>1. CASE l.op = "get"
    BY <1>1, <2>1 DEF Answers
  <2>2. CASE l.op # "get"
    BY <1>5, <2>2 DEF Answers
  <2> QED BY <2>1, <2>2
<1> HIDE DEF answer
<1>7. Append(down, answer) \in Seq(Answers)
  BY <1>1, <1>6, QueueGrown
<1>8. LinkInv'
  BY <1>1, <1>2, <1>3, <1>4, <1>7 DEF LinkInv
<1>9. (ScreenInv /\ EditorInv /\ FilesInv)'
  BY Untouched DEF Pedal
<1>10. (SlotsInv /\ QueueInv /\ ThreadInv /\ FlagsInv)'
  BY DEF IInv, Pedal, SlotsInv, QueueInv, ThreadInv, FlagsInv, game, thread
<1> QED BY <1>8, <1>9, <1>10 DEF IInv

LEMMA PlugStep ==
  ASSUME IInv, Plug
  PROVE  IInv'
<1>1. LinkInv'
  <2>1. Device \in Whole
    BY DeviceAssumption, SoundIsWhole
  <2>2. up' = <<>> /\ down' = <<>> /\ device' \in {Device, device}
    BY DEF Plug
  <2>3. device' \in Whole
    BY <2>1, <2>2 DEF IInv, LinkInv
  <2> QED BY <2>2, <2>3, SmallQueues DEF LinkInv
<1>2. FlagsInv'
  BY DEF IInv, Plug, FlagsInv, Touches, game
<1>3. (ScreenInv /\ EditorInv /\ FilesInv)'
  BY Untouched DEF Plug
<1>4. (SlotsInv /\ QueueInv /\ ThreadInv)'
  BY DEF IInv, Plug, SlotsInv, QueueInv, ThreadInv
<1> QED BY <1>1, <1>2, <1>3, <1>4 DEF IInv

LEMMA OutsideStep ==
  ASSUME IInv, Network \/ Drive
  PROVE  IInv'
<1>1. FlagsInv'
  BY DEF IInv, Network, Drive, FlagsInv, game, thread, link
<1>2. (ScreenInv /\ EditorInv /\ FilesInv)'
  BY Untouched DEF Network, Drive
<1>3. (SlotsInv /\ QueueInv)'
  BY DEF IInv, Network, Drive, SlotsInv, QueueInv
<1>4. (LinkInv /\ ThreadInv)'
  BY DEF IInv, Network, Drive, LinkInv, ThreadInv, thread, link
<1> QED BY <1>1, <1>2, <1>3, <1>4 DEF IInv

LEMMA StutterStep ==
  ASSUME IInv, UNCHANGED vars
  PROVE  IInv'
<1>1. (ScreenInv /\ EditorInv /\ FilesInv)'
  BY Untouched DEF vars
<1>2. (SlotsInv /\ QueueInv /\ LinkInv /\ ThreadInv /\ FlagsInv)'
  BY DEF IInv, vars, SlotsInv, QueueInv, LinkInv, ThreadInv, FlagsInv, game, thread, link
<1> QED BY <1>1, <1>2 DEF IInv

LEMMA Inductive ==
  ASSUME IInv, [Next]_vars
  PROVE  IInv'
<1>1. CASE UiRun
  BY <1>1, UiRunStep
<1>2. CASE UserActs
  BY <1>2, TypeStep, EditCurveStep, SelectStep, PushStep, AskStep, InstallStep, LoadStep, SaveStep,
     DeleteStep, BindStep, SetAutoStep DEF UserActs
<1>3. CASE Downloaded
  BY <1>3, InstallStep
<1>4. CASE Thread
  BY <1>4, ScanStep, ConnectedStep, GotConfigStep, AdoptStep, FillInStep, TakeOutboxStep, PushedStep,
     AskedStep, AnsweredStep, AutoSwitchStep, SwitchedStep, TimedOutStep, UploadStep, AirStep,
     RequestedStep DEF Thread
<1>5. CASE Pedal
  BY <1>5, PedalStep
<1>6. CASE Plug
  BY <1>6, PlugStep
<1>7. CASE Network \/ Drive
  BY <1>7, OutsideStep
<1>8. CASE UNCHANGED vars
  BY <1>8, StutterStep
<1> QED BY <1>1, <1>2, <1>3, <1>4, <1>5, <1>6, <1>7, <1>8 DEF Next

------------------------------------------------------------------------------
(***************************************************************************)
(* The theorems.                                                           *)
(***************************************************************************)
LEMMA InvariantHolds == Spec => []IInv
<1>1. Init => IInv
  BY InitInv
<1>2. IInv /\ [Next]_vars => IInv'
  BY Inductive
<1> QED BY <1>1, <1>2, PTL DEF Spec

LEMMA TypesFromInv ==
  ASSUME IInv
  PROVE  TypeOK
<1>1. outbox.op \in {"none", "push", "refresh", "wifi", "ota"}
  BY DEF IInv, QueueInv, Requests
<1>2. Len(editor.curve) \in 2..MaxPoints
  BY DEF IInv, EditorInv, Curves
<1>3. {online, crashed, open, present, wireless, auto} \subseteq BOOLEAN /\ touched \subseteq Touches
  BY DEF IInv, ScreenInv, FlagsInv
<1>4. DOMAIN bindings \subseteq Names /\ DOMAIN profiles \subseteq Names
  BY DEF IInv, FilesInv
<1> QED BY <1>1, <1>2, <1>3, <1>4 DEF TypeOK, IInv, ScreenInv

\* No slot, no profile, no push on its way and not the pedal itself ever has
\* one pedal's role and another's hidden part, whatever is selected, typed,
\* loaded, saved or taken in from the pedal (config_from_ui and PEDAL_SLOTS).
THEOREM PedalsWhole == Spec => []WholeConfigs
<1>1. ASSUME IInv PROVE WholeConfigs
  <2>1. TypeOK
    BY <1>1, TypesFromInv
  <2>2. \A r \in Roles : slots[r] \in Whole /\ slots[r].role = r
    BY <1>1 DEF IInv, SlotsInv
  <2>3. \A p \in DOMAIN profiles : profiles[p] \in Whole
    BY <1>1 DEF IInv, FilesInv
  <2>4. device \in Whole
    BY <1>1 DEF IInv, LinkInv
  <2>5. \A j \in DOMAIN up : up[j].op = "cfg" => up[j].cfg \in Whole
    <3>1. \A j \in DOMAIN up : up[j] \in Lines
      BY <1>1 DEF IInv, LinkInv
    <3>2. \A l \in Lines : l.op = "cfg" => l.cfg \in Whole
      BY DEF Lines
    <3> QED BY <3>1, <3>2
  <2>6. outbox.op = "push" => outbox.cfg \in Whole
    BY <1>1 DEF IInv, QueueInv, Requests
  <2>7. Configurations \subseteq Whole
    BY <2>2, <2>3, <2>4, <2>5, <2>6 DEF Configurations
  <2>8. \A c \in Configurations : c.rest[1] = c.role
    BY <2>7, WholeParts
  <2> QED BY <2>1, <2>2, <2>8 DEF WholeConfigs
<1>2. IInv => WholeConfigs
  BY <1>1
<1> QED BY <1>2, InvariantHolds, PTL

\* However points are dragged, added and removed in whatever order, the curve
\* starts at the left end, ends at the right end and never runs back
\* (the three callbacks of the curve editor).
THEOREM CurveKept == Spec => []CurveOrdered
<1>1. IInv => CurveOrdered
  BY DEF IInv, EditorInv, Curves, CurveOrdered
<1> QED BY <1>1, InvariantHolds, PTL

==============================================================================
