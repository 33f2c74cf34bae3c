----------------------------- MODULE MCDduBoot -----------------------------
(***************************************************************************)
(* Instances of DduBoot: one transport, many crashes, the menu and a pin   *)
(* map; two transports with failing flash and NVS.                         *)
(***************************************************************************)
EXTENDS DduBoot

Both == {"hid", "wifi"}
TheSetups == {
  [via |-> {"hid"}, faults |-> {}, updates |-> 2, crashes |-> 4, taps |-> 1, pins |-> 1],
  [via |-> Both, faults |-> FaultKinds, updates |-> 3, crashes |-> 2, taps |-> 0, pins |-> 0]}
=============================================================================
