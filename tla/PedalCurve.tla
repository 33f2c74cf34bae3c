----------------------------- MODULE PedalCurve -----------------------------
(***************************************************************************)
(* The editor of a pedal's force curve (dashboard/src/pedals.rs): control  *)
(* points <<travel, force>> that are dragged, added and removed, their     *)
(* rounding into the configuration.  Lengths are units of the plot;        *)
(* `Coarse` of them are one unit of the configuration.                     *)
(***************************************************************************)
EXTENDS Integers, Sequences, FiniteSets, SequencesExt

CONSTANTS
  Width, Height,   \* of the plot
  Gap,             \* what a drag keeps between two points (0.01)
  Close,           \* square of the distance at which a right click removes (0.04)
  Coarse,          \* units of the plot in one unit of the configuration (0.001)
  MaxPoints        \* 11

ASSUME CurveAssumption ==
  /\ {Width, Height, Gap, Close, Coarse, MaxPoints} \subseteq Nat \ {0}
  /\ Width % Coarse = 0 /\ Height % Coarse = 0 /\ MaxPoints >= 3

Linear == <<<<0, 0>>, <<Width, Height>>>>

Within(x, lo, hi) == IF x < lo THEN lo ELSE IF x > hi THEN hi ELSE x

\* A drag keeps the first and the last point at the ends and the others
\* between their neighbours.
Room(pts, i) == [lo |-> pts[i-1][1] + Gap, hi |-> pts[i+1][1] - Gap]

\* f32::clamp panics when there is no room.
NoRoom(pts, i) == i \in 2..Len(pts)-1 /\ Room(pts, i).lo > Room(pts, i).hi

Moved(pts, i, x, y) ==
  LET nx == IF i = 1 THEN 0 ELSE IF i = Len(pts) THEN Width ELSE Within(x, Room(pts, i).lo, Room(pts, i).hi)
  IN  [pts EXCEPT ![i] = <<nx, Within(y, 0, Height)>>]

Apart(p, x, y) == (p[1] - x) * (p[1] - x) + (p[2] - y) * (p[2] - y)

Nearest(pts, x, y) ==
  CHOOSE i \in DOMAIN pts : \A j \in DOMAIN pts :
    Apart(pts[i], x, y) < Apart(pts[j], x, y) \/ (Apart(pts[i], x, y) = Apart(pts[j], x, y) /\ i <= j)

\* A point dropped in at the end of the list.
AddedLast(pts, x, y) == Append(pts, <<x, y>>)

Added(pts, x, y) ==
  LET later == {i \in DOMAIN pts : pts[i][1] > x}
      at    == IF later = {} THEN Len(pts) + 1 ELSE CHOOSE i \in later : \A j \in later : i <= j
  IN  InsertAt(pts, at, <<x, Within(y, 0, Height)>>)

RightClicked(pts, x, y) ==
  LET n == Nearest(pts, x, y)
  IN  IF Apart(pts[n], x, y) < Close /\ n \notin {1, Len(pts)} /\ Len(pts) > 2 THEN RemoveAt(pts, n)
      ELSE IF Len(pts) < MaxPoints /\ x > 0 /\ x < Width THEN Added(pts, x, y)
      ELSE pts

\* The configuration has rounded points; a list it cannot use shows a line.
Rounded(x)   == (2 * x + Coarse) \div (2 * Coarse)
Packed(pts)  == [i \in DOMAIN pts |-> <<Rounded(pts[i][1]), Rounded(pts[i][2])>>]
Unpacked(qs) == IF Len(qs) < 2 THEN Linear ELSE [i \in DOMAIN qs |-> <<Coarse * qs[i][1], Coarse * qs[i][2]>>]

Presets == {Linear, <<<<0, 0>>, <<Width \div 2, Height>>, <<Width, Height>>>>}

\* From the left end to the right end, never back.
Ordered(pts) ==
  /\ pts[1][1] = 0 /\ pts[Len(pts)][1] = Width
  /\ \A i, j \in DOMAIN pts : i <= j => pts[i][1] <= pts[j][1]
=============================================================================
