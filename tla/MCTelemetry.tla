---------------------------- MODULE MCTelemetry -----------------------------
EXTENDS TelemetryFeed

Shim == "rF2/LMU (shim)"
MCSources  == {Shim, "SimHub plugin", "Forza", "F1", "AC/ACC", "ACC", "Assetto Corsa", "Gran Turismo 7", "SIM"}
MCPriority == [l \in MCSources |-> CASE l \in {Shim, "AC/ACC"} -> 4
                                     [] l \in {"ACC", "Assetto Corsa", "Gran Turismo 7"} -> 3
                                     [] l = "SimHub plugin" -> 2
                                     [] OTHER -> 1]
MCLoopOf == [l \in MCSources |-> IF l \in {Shim, "SimHub plugin", "Forza", "F1"} THEN "udp" ELSE l]

All == Fields
Sender(how, label, has, calls) ==
  [how |-> how, label |-> label, has |-> has, calls |-> calls, width |-> Len(Wire), blank |-> 0, tagged |-> FALSE, lists |-> FALSE]
MCSenders ==
  [shim   |-> [Sender("text", Shim, All \ {"best"}, <<"alpha", "beta">>) EXCEPT !.tagged = TRUE, !.lists = TRUE],
   plugin |-> [Sender("text", "SimHub plugin", {"lap", "last", "fuel", "best"}, <<"alpha", "other">>) EXCEPT !.width = 9, !.blank = Empty],
   forza  |-> Sender("decoder", "Forza", {"lap", "fuel", "last"}, <<"beta", "">>),
   f1     |-> Sender("decoder", "F1", {"fuel", "cur", "pct"}, <<"", "">>),
   memory |-> Sender("memory", "AC/ACC", {"lap", "last", "fuel", "fpl"}, <<"alpha", "torn">>),
   sim    |-> Sender("sim", "SIM", All, <<"", "">>),
   acc    |-> [Sender("ask", "ACC", {"lap", "last"}, <<"", "">>) EXCEPT !.lists = TRUE],
   ac     |-> Sender("ask", "Assetto Corsa", {"lap", "last"}, <<"alpha", "beta">>),
   gt7    |-> Sender("ask", "Gran Turismo 7", {"lap", "fuel"}, <<"other", "alpha">>)]

MCGames   == {"G1", "G2"}
MCGameOf  == [acc |-> "G1", ac |-> "G1", gt7 |-> None]
MCLibrary == [G1 |-> <<"alpha", "beta", "torn", "bad">>, G2 |-> <<"gamma">>]
AllEntries  == {"alpha", "beta", "torn", "bad", "gamma", "formula"}
MCScore   == [p \in {"alpha", "beta", "torn", "bad", "other"} \X AllEntries |->
                IF p[1] = p[2] THEN 1000 ELSE IF p = <<"alpha", "gamma">> THEN 3 ELSE 0]
MCBuiltin == [l \in MCSources |-> IF l = "F1" THEN "formula" ELSE None]

\* The race, as far as it differs from its start.
Start == [f \in Fields \cup {"rpm", "session"} |-> CASE f = "rpm" -> 70 [] f = "session" -> 1 [] OTHER -> 0]
Race(s, lap, last, best, fuel) == [Start EXCEPT !.session = s, !.lap = lap, !.last = last, !.best = best, !.fuel = fuel, !.wear = 90]
Energy(lap, pct, cur, last, ve, vpl) ==
  [Race(1, lap, last, 0, 50) EXCEPT !.pct = pct, !.cur = cur, !.ve = ve, !.vpl = vpl, !.isVe = 1]
OneLap   == <<Race(1, 0, 0, 0, 90)>>
TwoLaps  == <<Race(1, 0, 0, 0, 90), Race(1, 1, 80, 80, 70)>>
Sessions == <<Race(1, 1, 80, 0, 90), Race(1, 2, 70, 0, 80), Race(1, 3, 75, 0, 70), Race(2, 0, 0, 0, 90), Race(2, 1, 85, 0, 80)>>
Hybrid   == <<Energy(0, 1, 30, 0, 90, 0), Energy(0, 2, 60, 0, 70, 0), Energy(1, 0, 5, 90, 60, 0), Energy(1, 2, 65, 90, 40, 33)>>

Car(place, gap, player) == [place |-> place, gap |-> gap, player |-> player, text |-> TRUE]
Alone == <<Car(1, 0, TRUE), Car(2, 5, FALSE)>>
Pack(gaps, me) == [i \in 1 .. 5 |-> Car(i, IF i = me THEN 0 ELSE gaps[i], i = me)]
Grids == {Alone} \cup {Pack(g, me) : g \in {<<-4, 3, 0, 0, 9>>, <<0, 0, 0, 0, 0>>, <<-9, -4, -3, -2, 3>>}, me \in {2, 5}}

PerLap   == <<[Race(1, 0, 0, 0, 90) EXCEPT !.fpl = 15], Race(1, 1, 80, 0, 80)>>

\* Frames without car names, on a connected device; the car alone; a game that is asked.
Feed(who, script, may) ==
  [on |-> Range(who), two |-> who, script |-> script, may |-> may, grids |-> {<<>>}, asks |-> "none", clock |-> {"device"},
   named |-> FALSE, link |-> "up", car |-> 1, process |-> None, scanned |-> None, game |-> "G1", library |-> TRUE]
Drive(who, may) == [Feed(who, OneLap, may) EXCEPT !.named = TRUE, !.clock = {}, !.process = "G1", !.link = "down", !.scanned = "unset"]
Connector(kind, may) == [Feed(<<kind, kind>>, OneLap, may) EXCEPT !.on = {}, !.asks = kind, !.process = "G1"]

Merge(who, script, may) == [Feed(who, script, may) EXCEPT !.clock = {"preview"}]
One(x) == <<x, x>>
MCScenarios ==
  {Merge(One("memory"), Sessions, [turn |-> 2]),
   [Feed(One("memory"), TwoLaps, [turn |-> 1]) EXCEPT !.clock = Consumers],
   [Feed(One("shim"), OneLap, [plug |-> 1]) EXCEPT !.grids = Grids, !.clock = {}],
   Merge(One("shim"), OneLap, [tag |-> 1, bad |-> 1]),
   Merge(One("shim"), Hybrid, [turn |-> 0]),
   Feed(<<"memory", "forza">>, OneLap, [turn |-> 1]),
   Merge(<<"memory", "forza">>, TwoLaps, [turn |-> 1]),
   Merge(<<"plugin", "memory">>, TwoLaps, [turn |-> 1]),
   Merge(<<"forza", "f1">>, TwoLaps, [turn |-> 2]),
   Merge(<<"shim", "plugin">>, TwoLaps, [turn |-> 1]),
   Merge(<<"memory", "forza">>, PerLap, [turn |-> 1]),
   Feed(One("plugin"), TwoLaps, [ota |-> 1, plug |-> 1]),
   Drive(One("memory"), [plug |-> 1]),
   [Drive(One("memory"), [choose |-> 1, car |-> 1]) EXCEPT !.link = "up"],
   Drive(One("memory"), [car |-> 1]),
   Drive(One("shim"), [car |-> 1]),
   Drive(One("forza"), [car |-> 1, game |-> 1]),
   Drive(One("f1"), [browse |-> 2, turn |-> 1]),
   [Drive(One("plugin"), [browse |-> 1]) EXCEPT !.library = FALSE],
   [Drive(One("plugin"), [car |-> 1, ota |-> 1]) EXCEPT !.link = "up"],
   Drive(One("sim"), [turn |-> 1, car |-> 2]),
   Connector("acc", [peer |-> 1, lose |-> 1]),
   Connector("ac", [switch |-> 1]),
   Connector("gt7", [peer |-> 1, lose |-> 1])}
=============================================================================
