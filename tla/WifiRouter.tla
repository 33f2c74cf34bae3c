----------------------------- MODULE WifiRouter -----------------------------
(***************************************************************************)
(* The dashboard's WiFi thread (dashboard/src/wifi.rs): the table of       *)
(* devices, the replies somebody waits for, and the virtual joystick       *)
(* (vjoy.rs) that shows the game the axes and buttons of wireless devices. *)
(*                                                                         *)
(* The thread waits in one place, for a datagram.  A step goes from there  *)
(* to there: the datagram, if one came in time, is handled and the outbox  *)
(* sent; then the next turn drops the devices not heard of for 5 s, reads  *)
(* the switches, and removes the joystick when all are off.  A button mask *)
(* has one button.  The joystick can always be created, and telemetry,     *)
(* which changes nothing here, is not forwarded.                           *)
(***************************************************************************)
EXTENDS WifiLink

CONSTANT MaxAxes   \* MAX_AXES

Kinds == {"handbrake", "pedals", "ddu"}
ASSUME AxesAssumption   == MaxAxes \in Nat \ {0}
ASSUME SwitchAssumption == \A s \in Scenarios : s.enabled \subseteq Kinds

VARIABLES
  enabled,  \* the kinds whose wireless input is on, in State
  seen,     \* those, as the turn read them
  host,     \* the table of devices, axis_map, button_masks and the joystick
  pending,  \* who waits for the device's next reply: no one, a caller, one that gave up
  outbox,   \* wifi_out
  answer    \* what the caller's channel holds

routerVars == <<seen, host, pending>>

NoAxis   == MaxAxes
Axes     == 0..(MaxAxes - 1)
Released == [on |-> FALSE, axis |-> [a \in Axes |-> 0], btn |-> 0]

NoAnswer   == [op |-> "none", bit |-> 0]
Hung       == [op |-> "dropped", bit |-> 0]    \* the sender is gone
Entry(d, o) == [dev |-> d, op |-> o]

RouterInit ==
  /\ \E s \in Scenarios : budget = s.may /\ enabled = s.enabled
  /\ seen = enabled
  /\ host = [table |-> {}, joy |-> Released,
             axisOf |-> [d \in Dev |-> NoAxis], masks |-> [d \in Dev |-> None]]
  /\ pending = [d \in Dev |-> "none"]
  /\ outbox = {} /\ answer = NoAnswer

\* The switches of the Wireless screen.
Toggle(k) ==
  /\ Spend("toggle")
  /\ enabled' = IF k \in enabled THEN enabled \ {k} ELSE enabled \cup {k}
  /\ UNCHANGED <<devVars, air, routerVars, outbox, answer>>

------------------------------------------------------------------------------
(***************************************************************************)
(* From the outbox back to recv_from.                                      *)
(***************************************************************************)
Forget(f, S, v) == [d \in Dev |-> IF d \in S THEN v ELSE f[d]]

\* mutant: a lost device's button stays pressed
HoldsOn(h, S) ==
  [h EXCEPT !.table = @ \ S, !.axisOf = Forget(@, S, NoAxis), !.masks = Forget(@, S, None)]

\* expire_stale: a button a lost device holds is released; its axis stays as
\* it was.
Dropped(h, S) ==
  [h EXCEPT !.table = @ \ S, !.axisOf = Forget(@, S, NoAxis), !.masks = Forget(@, S, None),
            !.joy.btn = IF \E d \in S : h.masks[d] = 1 THEN 0 ELSE @]

\* mutant: the joystick outlives the switches
Kept(h) == h

\* With every input off the joystick and what it held are gone.
Switched(h) ==
  IF enabled = {}
  THEN [h EXCEPT !.joy = Released, !.axisOf = Forget(@, Dev, NoAxis), !.masks = Forget(@, Dev, None)]
  ELSE h

NextTurn(h) ==
  /\ \E S \in SUBSET {d \in h.table : ~Speaks(d)} : host' = Switched(Dropped(h, S))
  /\ seen' = enabled
  /\ UNCHANGED <<devVars, enabled>>

------------------------------------------------------------------------------
(***************************************************************************)
(* recv_from and handle_packet, then the outbox is sent.                   *)
(***************************************************************************)
Requests == {e \in outbox : e.op # "ota"}
Known(t) == {e \in outbox : e.dev \in t}

\* The datagrams of the outbox, for the devices in table t.
SentTo(t) == {IF e.op = "ota" THEN Msg("@OTAWIFI", e.dev, "-", 0) ELSE Msg("line", e.dev, e.op, 0) :
                e \in Known(t)}

\* What the outbox does to who waits and to the caller's channel: a newer
\* request takes the place of the one before, one to an unknown device fails.
SendOut(t, arrived, back, p, a) ==
  /\ air' = (air \ arrived) \cup back \cup SentTo(t)
  /\ pending' = [d \in Dev |-> IF \E e \in Requests \cap Known(t) : e.dev = d
                               THEN "caller" ELSE p[d]]
  /\ answer' = IF Requests \ Known(t) # {} THEN Hung ELSE a
  /\ outbox' = {}

Taken(m, t) == budget["dash"] > 0 /\ m \in air /\ m.type = t /\ Free

TakeBeacon(m) ==
  /\ Taken(m, "PITH")
  /\ LET h == [host EXCEPT !.table = @ \cup {m.dev}] IN
       /\ SendOut(h.table, {m}, {Msg("@SUB", m.dev, "-", 0)}, pending, answer)
       /\ NextTurn(h)

Routed(d) == d \in host.table /\ KindOf[d] \in seen

\* The count of the axes that are taken is the number of the next.
AxisFor(d) ==
  IF host.axisOf[d] # NoAxis THEN host.axisOf[d]
  ELSE Min({Cardinality({e \in Dev : host.axisOf[e] # NoAxis}), MaxAxes - 1})

TakeAxis(m) ==
  /\ Taken(m, "AX")
  /\ SendOut(host.table, {m}, {}, pending, answer)
  /\ NextTurn(IF Routed(m.dev) /\ KindOf[m.dev] # "ddu"
              THEN [host EXCEPT !.axisOf[m.dev] = AxisFor(m.dev), !.joy.on = TRUE,
                                !.joy.axis[AxisFor(m.dev)] = m.bit]
              ELSE host)

\* Only a button that differs from the device's last mask is set.
TakeButtons(m) ==
  /\ Taken(m, "BT")
  /\ SendOut(host.table, {m}, {}, pending, answer)
  /\ LET before == IF host.masks[m.dev] = None THEN 0 ELSE host.masks[m.dev] IN
       NextTurn(IF Routed(m.dev) /\ KindOf[m.dev] = "ddu"
                THEN [host EXCEPT !.masks[m.dev] = m.bit, !.joy.on = TRUE,
                                  !.joy.btn = IF before # m.bit THEN m.bit ELSE @]
                ELSE host)

\* A reply goes to who waits for one; otherwise it is shown in a status line.
TakeReply(m) ==
  /\ Taken(m, "RE")
  /\ SendOut(host.table, {m}, {}, Set(pending, m.dev, "none"),
             IF pending[m.dev] = "caller" THEN [op |-> m.op, bit |-> m.bit] ELSE answer)
  /\ NextTurn(host)

\* recv_from times out.
TakeNothing ==
  /\ budget["dash"] > 0 /\ Free
  /\ SendOut(host.table, {}, {}, pending, answer)
  /\ NextTurn(host)

\* Nothing arrives for 5 s from a device that sends.
Unheard ==
  /\ budget["dash"] > 0 /\ Spend("gap")
  /\ SendOut(host.table, {}, {}, pending, answer)
  /\ \E d \in host.table : host' = Switched(Dropped(host, {d}))
  /\ seen' = enabled /\ UNCHANGED <<devVars, enabled>>

Router ==
  \/ TakeNothing \/ Unheard
  \/ \E m \in air : TakeBeacon(m) \/ TakeAxis(m) \/ TakeButtons(m) \/ TakeReply(m)

\* Packets that tell the dashboard nothing new need not be sent.
Apart(d)   == ~sub[d] \/ d \notin host.table
Changed(d) == KindOf[d] \in enabled \cup seen /\
  IF KindOf[d] = "ddu" THEN host.masks[d] # input[d]
  ELSE host.axisOf[d] # NoAxis => host.joy.axis[host.axisOf[d]] # input[d]
Streaming(d) ==
  /\ budget["dash"] > 0
  /\ \/ Apart(d) /\ Beacon(d)
     \/ Changed(d) /\ (StreamAxis(d) \/ StreamButtons(d))

------------------------------------------------------------------------------
RouterTypeOK ==
  /\ {enabled, seen} \subseteq SUBSET Kinds
  /\ host \in [table : SUBSET Dev, axisOf : [Dev -> Axes \cup {NoAxis}],
               masks : [Dev -> {0, 1, None}],
               joy : [on : BOOLEAN, axis : [Axes -> {0, 1}], btn : {0, 1}]]
  /\ pending \in [Dev -> {"none", "caller", "gone"}]

\* A button the game sees is held, as far as the dashboard knows, by a device
\* on the network; in particular nothing stays pressed when a device goes
\* (wifi.rs 387-388), and a joystick made anew holds nothing.
NoGhostButton == host.joy.btn = 1 => host.joy.on /\ \E d \in host.table : host.masks[d] = 1

=============================================================================
