------------------------------- MODULE MCWifi -------------------------------
(***************************************************************************)
(* Instances of WifiSession.                                               *)
(***************************************************************************)
EXTENDS WifiSession, TLC

CONSTANTS hb, ddu, c1, c2

OneAxis  == hb :> "handbrake" @@ ddu :> "ddu"

\* A scenario with the devices `on` in which what `may` lists may happen.
Scenario(on, from, inputs, may) ==
  [on |-> on, at |-> from, enabled |-> inputs, may |-> [k \in Charges |-> IF k \in DOMAIN may THEN may[k] ELSE 0]]

\* The guard: five crashes, one more than a limit of 3 and a new start need.
Crashing == Scenario({ddu}, "clean", {"ddu"}, [crash |-> 5, restart |-> 1, creds |-> 1])
\* The network and the credentials.
Roaming == Scenario({ddu}, "clean", {"ddu"}, [restart |-> 2, creds |-> 2, outage |-> 2, driver |-> 1])
\* The buttons.
Pressing == Scenario({ddu}, "clean", {"ddu"}, [dash |-> 1, input |-> 3, loss |-> 1, gap |-> 1, toggle |-> 2])
Resetting == Scenario({ddu}, "udp", {"ddu"}, [dash |-> 1, input |-> 2, restart |-> 1, outage |-> 1])
\* The handbrake's page.
Paging == Scenario({hb}, "udp", {}, [dash |-> 1, press |-> 3])
Losing == Scenario({hb}, "udp", {}, [dash |-> 1, press |-> 1, loss |-> 1, cable |-> 1])
Straying == Scenario({hb}, "udp", {}, [dash |-> 1, late |-> 1])
Away == Scenario({hb}, "udp", {}, [dash |-> 1, outage |-> 1])
Renewed == Scenario({hb}, "udp", {}, [dash |-> 1, restart |-> 1])
SetUp == Scenario({hb}, "udp", {}, [dash |-> 1, setup |-> 1])
Both == Scenario({hb, ddu}, "udp", {"handbrake", "ddu"}, [dash |-> 1, input |-> 1])

All == {Crashing, Roaming, Pressing, Resetting, Paging, Losing, Straying, Away, Renewed, SetUp, Both}
=============================================================================
