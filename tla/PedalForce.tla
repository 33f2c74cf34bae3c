----------------------------- MODULE PedalForce -----------------------------
(***************************************************************************)
(* One control step of an active pedal (pith-pedals-core): the reading of  *)
(* the load cell becomes a force, the effects of the game are added to it, *)
(* the admittance model integrates a virtual mass and yields the target of *)
(* the motor and the value of the joystick axis.                           *)
(*                                                                         *)
(* Lengths are steps of the servo, forces are whole units, one tick is one *)
(* unit of time.  The linkage maps the sled to the arc of the pedal; here  *)
(* both are counted in steps and `Reachable` keeps the one case in which   *)
(* the map has no value.  The curve is a table of the configuration, the   *)
(* value of a sine is any of -1, 0 and 1.  Divisions round towards zero.   *)
(***************************************************************************)
EXTENDS Integers, Sequences, FiniteSetsExt

CONSTANTS
  Window,     \* ticks an effect lasts after its trigger (100 ms)
  Samples,    \* length of the moving averages (100)
  MaxVel,     \* steps the motor can do in a tick
  MaxAcc,     \* MAX_ACCEL_MPS2
  MaxPower,   \* MAX_REGEN_POWER_W
  Mass,       \* mass of the model, and what the oscillation detector adds at most
  MoreMass,
  Leash,      \* the model returns 1/Leash of its distance from the motor per tick
  AxisMax     \* 65535

ASSUME ForceAssumption ==
  {Window, Samples, MaxVel, MaxAcc, MaxPower, Mass, Leash, AxisMax} \subseteq Nat \ {0} /\ MoreMass \in Nat

Clamp(x, lo, hi) == IF x < lo THEN lo ELSE IF x > hi THEN hi ELSE x
Sign(x) == Clamp(x, -1, 1)
Mag(x)  == IF x < 0 THEN -x ELSE x
Quot(x, y) == Sign(x) * (Mag(x) \div y)

Old == Window + 1   \* an age the window has passed

-----------------------------------------------------------------------------
(* Effects.  `age` counts the ticks since a trigger; ABS keeps both of its  *)
(* offsets, RPM the last one, the two averages their samples.               *)

Snaps    == {"bite", "slip"}            \* oscillators that end with their window
Averaged == {"g", "road"}
Kinds    == Snaps \cup Averaged \cup {"abs", "rpm"}
NoAction == [abs |-> FALSE, rpm |-> 0, g |-> 0, slip |-> 0, road |-> 0]

QuietFx == [age      |-> [e \in Snaps \cup {"abs", "rpm"} |-> Old],
            absForce |-> 0, absPos |-> 0, rpmPos |-> 0,
            past     |-> [e \in Averaged |-> [i \in 1..Samples |-> 0]]]

\* apply_action: ABS and slip are triggered by every action that shows them.
Triggered(fx, a) ==
  [fx EXCEPT !.age["abs"] = IF a.abs THEN 0 ELSE @, !.age["rpm"] = 0, !.age["slip"] = IF a.slip > 0 THEN 0 ELSE @]

Aged(fx) == [fx EXCEPT !.age = [e \in DOMAIN @ |-> Min({@[e] + 1, Old})]]

Live(fx, e) == fx.age[e] <= Window

\* The offset held when the window has passed.
Held(v, step) == v

Decayed(v, step) == IF Mag(v) > step THEN v - Sign(v) * step ELSE 0

AbsOf(fx, c, wave) ==
  IF ~Live(fx, "abs") THEN [fx EXCEPT !.absForce = Decayed(@, 1), !.absPos = Decayed(@, 2)]
  ELSE [fx EXCEPT !.absForce = IF c.absTravel THEN 0 ELSE c.amp["abs"] * wave,
                  !.absPos   = IF c.absTravel THEN c.amp["abs"] * wave ELSE 0]

\* The vibration of the engine holds its last offset when no action comes.
RpmOf(fx, c, a, wave) ==
  IF Live(fx, "rpm") THEN [fx EXCEPT !.rpmPos = IF a.rpm = 0 THEN 0 ELSE c.amp["rpm"] * wave] ELSE fx

SnapOf(fx, c, a, e, wave) ==
  IF Live(fx, e) THEN c.amp[e] * wave * (IF e = "slip" THEN a.slip ELSE 1) ELSE 0

\* The bite point is triggered by the position of the pedal itself.
BiteOf(fx, c, pos, travel) ==
  IF c.amp["bite"] > 0 /\ travel > 0 /\ pos >= c.bite THEN [fx EXCEPT !.age["bite"] = 0] ELSE fx

Pushed(past, x) == Append(Tail(past), x)
Mean(past) ==
  LET sum[n \in 0..Samples] == IF n = 0 THEN 0 ELSE sum[n - 1] + past[n]
  IN  Quot(sum[Samples], Samples)

AveragesOf(fx, c, a) ==
  [fx EXCEPT !.past = [e \in Averaged |-> Pushed(@[e], c.amp[e] * a[e])]]

\* The oscillators of one tick: they are not even run while the foot is off
\* the pedal (`min_force_for_effects`).
Allowed(c, force) == c.minForce <= 0 \/ force >= c.minForce

Effects(fx, c, a, force, pos, travel, wave) ==
  IF ~Allowed(c, force) THEN [fx |-> fx, force |-> 0, offset |-> 0]
  ELSE LET next == AveragesOf(BiteOf(RpmOf(AbsOf(fx, c, wave["abs"]), c, a, wave["rpm"]), c, pos, travel), c, a)
       IN  [fx     |-> next,
            force  |-> next.absForce + Mean(next.past["g"]) + Mean(next.past["road"]),
            offset |-> next.absPos + next.rpmPos +
                       SnapOf(next, c, a, "bite", wave["bite"]) + SnapOf(next, c, a, "slip", wave["slip"])]

-----------------------------------------------------------------------------
(* The admittance model.  `m` has the position (steps above the soft end    *)
(* stop), the velocity, the last net force and the mass added.              *)

AtRest == [pos |-> 0, vel |-> 0, net |-> 0, extra |-> 0]

\* The curve is a table of forces from the start to the end of the travel.
Spring(c, travel, pos) ==
  IF travel = 0 THEN c.curve[1] ELSE c.curve[1 + (Clamp(pos, 0, travel) * (Len(c.curve) - 1)) \div travel]

Slope(c, travel, pos) ==
  LET at == Clamp(pos, 0, travel - 1) IN Spring(c, travel, at + 1) - Spring(c, travel, at)

\* Effects may push past the soft end stops, a force as far as the spring yields.
Reach(c, travel, pos, e) ==
  LET k   == Slope(c, travel, pos)
      ext == e.offset + (IF k > 0 THEN Quot(e.force, k) ELSE 0)
  IN  [lo |-> Min({ext, 0}), hi |-> travel + Max({ext, 0}) + c.endRange]

EndForce(c, travel, pos) == IF c.endRange > 0 /\ pos > travel THEN c.endStiff * (pos - travel) ELSE 0

\* Mass is added while the model oscillates and given back at the ends of the
\* travel; an effect freezes it.
MassOf(m, e, oscillates, atEnd) ==
  IF e.force # 0 \/ e.offset # 0 THEN m.extra
  ELSE IF oscillates THEN Min({m.extra + 1, MoreMass})
  ELSE IF atEnd THEN Max({m.extra - 1, 0}) ELSE m.extra

Damping(c, mass, travel, pos) ==
  2 * mass + (IF travel = 0 THEN 0 ELSE (c.progression * Clamp(pos, 0, travel)) \div travel)

\* Braking gives the motor no more power than it can take.
Braked(mass, vel, acc) ==
  IF acc * vel < 0 /\ mass * Mag(acc * vel) > MaxPower
  THEN Sign(acc) * Max({1, MaxPower \div (mass * Mag(vel))}) ELSE acc

\* Trapezoidal integration of  mass * acc + damping * vel = net.
Velocity(m, mass, damping, net) ==
  LET tustin == Quot(net + m.net - (damping - 2 * mass) * m.vel, 2 * mass + damping)
      acc    == Clamp(tustin - m.vel, -MaxAcc, MaxAcc)
  IN  Clamp(m.vel + Braked(mass, m.vel, acc), -MaxVel, MaxVel)

Bounded(pos, vel, r) ==
  IF pos <= r.lo THEN [pos |-> r.lo, vel |-> Max({vel, 0})]
  ELSE IF pos >= r.hi THEN [pos |-> r.hi, vel |-> Min({vel, 0})] ELSE [pos |-> pos, vel |-> vel]

\* The model is drawn towards the motor, but for a dead band of one step.
Drawn(pos, actual) ==
  LET apart == actual - pos IN pos + (IF Mag(apart) <= 1 THEN 0 ELSE Quot(apart - Sign(apart), Leash))

\* One step of the model with the measured force, the effects and the motor
\* `phys` steps above the soft end stop.
Integrated(m, c, travel, force, e, phys, oscillates) ==
  LET actual  == Clamp(phys, 0, travel)
      extra   == MassOf(m, e, oscillates, actual \in {0, travel})
      mass    == Mass + extra
      net     == force + e.force - Spring(c, travel, m.pos) - EndForce(c, travel, m.pos) - c.friction * Sign(m.vel)
      vel     == Velocity(m, mass, Damping(c, mass, travel, m.pos), net)
      bounded == Bounded(m.pos + vel, vel, Reach(c, travel, m.pos, e))
  IN  IF travel = 0 THEN [AtRest EXCEPT !.net = net, !.extra = extra]
      ELSE [pos |-> Drawn(bounded.pos, actual), vel |-> bounded.vel, net |-> net, extra |-> extra]

\* The offset of the effects added to the clamped target.
TargetPushed(m, c, env, e, phys) ==
  LET travel == env.softMax - env.softMin
      sled   == IF m.pos \in c.reachable THEN m.pos ELSE Clamp(phys, 0, travel)
  IN  Clamp(Clamp(sled, 0, travel) + env.softMin, env.hardMin, env.hardMax) + e.offset

\* The absolute target: the sled position of the pedal angle, or the present
\* one if the rod cannot reach it, and the effects' offset within the limits.
Target(m, c, env, e, phys) ==
  LET travel == env.softMax - env.softMin
      sled   == IF m.pos \in c.reachable THEN m.pos ELSE Clamp(phys, 0, travel)
  IN  Clamp(Clamp(sled, 0, travel) + env.softMin + e.offset, env.hardMin, env.hardMax)

\* The axis shows the force, or the travel of the model; a share of more than
\* the whole saturates at the width of the axis.
Axis(m, c, travel, force) ==
  LET shown == IF c.travelAxis THEN IF travel = 0 THEN 0 ELSE (Clamp(m.pos, 0, travel) * AxisMax) \div travel
               ELSE IF c.max > c.min THEN (Clamp(force - c.min, 0, c.max - c.min) * AxisMax) \div (c.max - c.min)
               ELSE 0
  IN  Min({(shown * c.gameMax) \div 100, AxisMax})

\* The exponential filter and the raw reading (orders 2 and 3).
Filtered(c, before, raw) ==
  IF c.raw THEN raw ELSE before + Quot(raw - before, 2) + (IF Mag(raw - before) = 1 THEN raw - before ELSE 0)
=============================================================================
