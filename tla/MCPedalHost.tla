----------------------------- MODULE MCPedalHost -----------------------------
EXTENDS PedalHost

MCRoles == {"brake", "throttle"}
MCCars  == {"", "gt3"}
MCGames == {"", "lmu", "acc"}
MCAlike == {<<"gt3", "gt3">>}
MCSpots == {<<2, 0>>, <<3, 4>>, <<5, 8>>}
MCDevice == [role |-> "brake", n |-> 3, curve |-> Packed(Linear), rest |-> <<"brake", "device">>]

Profile(r, n) == [role |-> r, n |-> n, curve |-> Packed(Linear), rest |-> <<r, "default">>]
NoFiles  == [p |-> <<>>, b |-> <<>>]
TwoFiles == [p |-> <<Profile("brake", 2), Profile("brake", 4)>>, b |-> <<{"lmu"}, {"gt3"}>>]

Case(there, files, switch, may) ==
  [present |-> there, profiles |-> files.p, bindings |-> files.b, auto |-> switch, may |-> may]
MCScenarios ==
  {Case(FALSE, NoFiles, FALSE, [curve |-> 4]),
   Case(TRUE, NoFiles, FALSE, [type |-> 1, select |-> 1, push |-> 1]),
   Case(TRUE, NoFiles, FALSE, [type |-> 1, refresh |-> 1, late |-> 1]),
   Case(TRUE, TwoFiles, TRUE, [game |-> 2]),
   Case(TRUE, TwoFiles, TRUE, [game |-> 1, late |-> 1]),
   Case(TRUE, TwoFiles, TRUE, [game |-> 1, auto |-> 2]),
   Case(TRUE, TwoFiles, TRUE, [game |-> 1, plug |-> 2]),
   Case(TRUE, TwoFiles, FALSE, [load |-> 1, save |-> 1, select |-> 1]),
   Case(TRUE, TwoFiles, TRUE, [delete |-> 1, bind |-> 2]),
   Case(TRUE, NoFiles, FALSE, [plug |-> 2, late |-> 1]),
   Case(TRUE, NoFiles, FALSE, [plug |-> 1, push |-> 1]),
   Case(TRUE, NoFiles, FALSE, [install |-> 1, push |-> 1, broken |-> 1]),
   Case(FALSE, NoFiles, FALSE, [net |-> 2, type |-> 1, push |-> 1]),
   Case(FALSE, NoFiles, FALSE, [net |-> 2, refresh |-> 1, late |-> 1, plug |-> 1]),
   Case(FALSE, NoFiles, FALSE, [net |-> 1, wifi |-> 1, plug |-> 2])}
=============================================================================
