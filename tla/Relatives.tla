----------------------------- MODULE Relatives ------------------------------
(***************************************************************************)
(* The list of cars around the player (pith-core/src/relatives.rs): the    *)
(* host picks the cars that fit on one line, the DDU reads the line back.  *)
(* A car is [place, gap, player, text]: gap is the signed gap on track, 0  *)
(* for the player, text whether its record survives the line.              *)
(***************************************************************************)
EXTENDS Ranking

CONSTANTS
  MaxRel,       \* cars on a line
  Top           \* how many of them lead the field

ASSUME LineAssumption == MaxRel \in Nat /\ Top \in Nat /\ Top <= MaxRel

\* Cars as a source lists them; a name is cleaned before it goes on the line
\* (set_name), so that every record reads.
Cars == Seq([place : Int, gap : Int, player : BOOLEAN, text : {TRUE}])

Abs(n) == IF n < 0 THEN -n ELSE n

FirstOf(seq, n) == {seq[i] : i \in 1 .. IF n < Len(seq) THEN n ELSE Len(seq)}

\* The leaders, then the nearest on track until the line is full.
Leaders(cars) == FirstOf(Ranked([i \in DOMAIN cars |-> cars[i].place]), Top)
NearestSigned(cars) == Ranked([i \in DOMAIN cars \ Leaders(cars) |-> cars[i].gap])   \* the sign left in
Nearest(cars) == Ranked([i \in DOMAIN cars \ Leaders(cars) |-> Abs(cars[i].gap)])
Chosen(cars) ==
  IF Len(cars) <= MaxRel THEN DOMAIN cars
  ELSE Leaders(cars) \cup FirstOf(Nearest(cars), MaxRel - Cardinality(Leaders(cars)))

\* select: by place; the player's row, or the first where there is none.
PlayerRow(rows) == IF \E i \in DOMAIN rows : rows[i].player
                   THEN CHOOSE i \in DOMAIN rows : rows[i].player ELSE 1
Select(cars) ==
  LET order == Ranked([i \in Chosen(cars) |-> cars[i].place])
      rows  == [i \in DOMAIN order |-> cars[order[i]]]
  IN  [rows |-> rows, player |-> PlayerRow(rows)]

\* parse_rf2_relatives, acc_relatives: no list without a player or a track.
Nothing == [rows |-> <<>>, player |-> 0]
Relatives(cars) ==
  IF \E i \in DOMAIN cars : cars[i].player THEN Select(cars) ELSE Nothing

\* from_wire: a record that does not read is skipped; the player's row is
\* the number the line names.
FromWire(wire) ==
  [rows   |-> Retained(wire.rows, {i \in DOMAIN wire.rows : wire.rows[i].text}),
   player |-> wire.player]
=============================================================================
