----------------------------- MODULE MCDduLink -----------------------------
EXTENDS DduLink

MCSize == [stat |-> 4, button |-> 3]
MCNudges == {-5, 0, 2, 11}

Doc(n) == [text |-> "plain", n |-> n]
Turned(c) == [text |-> "plain", orient |-> 1, flip |-> 1, colour |-> c]
MCSettings == [pages |-> 0, orient |-> 3, flip |-> 1, colour |-> 1, pins |-> Doc(0)]
MCDocuments == [BS |-> {Doc(2)}, PINS |-> {Doc(1)}, DO |-> {Turned(0), Turned(1)},
                C |-> {Doc(1), [text |-> "dollar", n |-> 1]}]

\* A device that stored a layout before it had the large partition.
OldLayout == [nodes |-> <<Widget(<<"button", 3>>, "button", 0, 1, 1, 0, 3)>>, tabs |-> [d \in Displays |-> IF d = 0 THEN 2 ELSE 0],
              zone |-> <<"stat", 0>>]
OldFlash  == [race |-> RaceDoc, ui |-> UiDoc(OldLayout), ed |-> EdDoc(OldLayout), car |-> Doc(0)]
NoFlash   == [k \in {} |-> Nil]

\* Two screens: two pages of buttons on the first, one button on the other.
TwoScreens == [nodes |-> <<Widget(<<"button", 1>>, "button", 0, 0, 1, 0, 3), Widget(<<"button", 2>>, "button", 0, 1, 2, 0, 3),
                           Widget(<<"button", 3>>, "button", 1, 0, 3, 0, 3)>>,
               tabs |-> [d \in Displays |-> IF d = 0 THEN 2 ELSE 0], zone |-> <<"stat", 0>>]
Buttons   == [ui |-> UiDoc(TwoScreens)]
MCPlaces  == {[row |-> "body", x |-> 1], [row |-> "strip", x |-> 11], [row |-> "corner", x |-> 0]}

Case(t, f, may) == [open |-> TRUE, table |-> t, flash |-> f, may |-> may]
Driver(may) == [open |-> FALSE, table |-> "new", flash |-> Buttons, may |-> may]
Alone(may) == Case("new", NoFlash, may)
MCScenarios ==
  {Alone([drag |-> 2, add |-> 1]),
   Alone([drag |-> 1, place |-> 2, grid |-> 1]),
   Alone([add |-> 2, hid |-> 1, elem |-> 2, look |-> 1]),
   Alone([add |-> 1, elem |-> 3, kind |-> 1, hid |-> 1]),
   Alone([grid |-> 1, remove |-> 2, add |-> 1, look |-> 1]),
   Alone([tabs |-> 4, add |-> 1, look |-> 1]),
   Alone([tabs |-> 2, add |-> 2, look |-> 2]),
   Alone([tabs |-> 1, add |-> 1, preset |-> 3, reopen |-> 1]),
   Alone([add |-> 2, reopen |-> 2, preset |-> 1, remove |-> 1]),
   Case("new", OldFlash, [boot |-> 2, save |-> 1, add |-> 1, power |-> 1]),
   Case("new", OldFlash, [boot |-> 1, read |-> 1, add |-> 1, plug |-> 1, look |-> 1]),
   Case("new", OldFlash, [boot |-> 1, sync |-> 1, remove |-> 1, tabs |-> 1]),
   Case("old", OldFlash, [boot |-> 2, save |-> 1, text |-> 1, power |-> 1]),
   Case("new", OldFlash, [boot |-> 1, save |-> 2, text |-> 1]),
   Case("new", OldFlash, [boot |-> 3, other |-> 1, power |-> 1]),
   Case("new", OldFlash, [boot |-> 2, other |-> 2]),
   Case("new", NoFlash, [boot |-> 2, save |-> 1, other |-> 1, full |-> 1]),
   Case("new", OldFlash, [boot |-> 1, drag |-> 1, plug |-> 1, cut |-> 1]),
   Driver([boot |-> 1, host |-> 1, touch |-> 4]),
   Driver([boot |-> 1, host |-> 1, touch |-> 3, wait |-> 1, telem |-> 1]),
   Driver([boot |-> 2, host |-> 2, touch |-> 3, power |-> 1]),
   Driver([boot |-> 1, host |-> 1, touch |-> 2, ota |-> 2, wait |-> 1]),
   Case("new", Buttons, [boot |-> 1, host |-> 1, touch |-> 1, save |-> 1])}
=============================================================================
