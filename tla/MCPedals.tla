------------------------------ MODULE MCPedals ------------------------------
EXTENDS PedalMotion

\* A travel of four steps, with two more to the hard stops; the second one
\* reaches below zero.
Short == [softMin |-> 1, softMax |-> 5, hardMin |-> 0, hardMax |-> 6]
Lower == [softMin |-> -3, softMax |-> 1, hardMin |-> -4, hardMax |-> 2]
MCEnvelopes == {Short, Lower}

Plain ==
  [absTravel |-> FALSE, amp |-> [e \in Kinds |-> 0], bite |-> 3, minForce |-> 0,
   curve |-> <<0, 1, 2, 4>>, endRange |-> 0, endStiff |-> 0, progression |-> 0, friction |-> 0,
   reachable |-> -4..8, travelAxis |-> FALSE, max |-> 4, min |-> 0, gameMax |-> 100, raw |-> TRUE]
Amp(es)   == [e \in Kinds |-> IF e \in es THEN 1 ELSE 0]
Braking   == [Plain EXCEPT !.amp = Amp({"abs", "slip"}), !.minForce = 1, !.endRange = 1, !.endStiff = 2]
Shaking   == [Plain EXCEPT !.amp = [Amp({"abs"}) EXCEPT !["rpm"] = 2], !.absTravel = TRUE, !.travelAxis = TRUE,
                           !.gameMax = 120]
Biting    == [Plain EXCEPT !.amp = Amp({"bite", "g", "road"}), !.friction = 1, !.raw = FALSE]
Crooked   == [Plain EXCEPT !.reachable = 0..2, !.progression = 2, !.gameMax = 50]
MCConfigs == {Plain, Crooked}

MCActions == {[NoAction EXCEPT !.abs = TRUE, !.slip = 1],
              [NoAction EXCEPT !.rpm = 1, !.g = 2, !.road = 1]}
MCForces  == {0, 2, 5}

Case(c, e, a, may) == [cfg |-> c, env |-> e, armed |-> a, may |-> may]
MCScenarios ==
  {Case(Braking, Short, TRUE, [act |-> 1, push |-> 2]),
   Case(Shaking, Short, TRUE, [act |-> 1, push |-> 1]),
   Case(Biting, Short, TRUE, [act |-> 1, push |-> 1]),
   Case(Plain, Short, TRUE, [push |-> 3, osc |-> 1]),
   Case(Crooked, Short, TRUE, [push |-> 2, cfg |-> 1]),
   Case(Plain, Lower, TRUE, [push |-> 1, serial |-> 2]),
   Case(Plain, Short, TRUE, [push |-> 1, ota |-> 1, pull |-> 1, disarm |-> 1, reset |-> 1]),
   Case(Plain, Unhomed, FALSE, [push |-> 1, home |-> 2, arm |-> 1, bench |-> 3])}
=============================================================================
