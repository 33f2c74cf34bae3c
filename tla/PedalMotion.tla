----------------------------- MODULE PedalMotion -----------------------------
(***************************************************************************)
(* The firmware of the active pedal: the main loop with its two command    *)
(* channels (USB and WiFi), homing and arming (runtime.rs), the step of    *)
(* PedalForce, and the servo driver that writes the target over a serial   *)
(* line that loses and delays frames.  The WiFi thread may begin an update *)
(* (@OTAWIFI) between any two steps of the loop.  The drive, the foot, the *)
(* host and the bench that identifies and arms the driver are external.    *)
(*                                                                         *)
(* A pass of the loop is: the lines that came over USB, the lines that     *)
(* came over WiFi, the update's timeout, one control step and, when the    *)
(* pedal is homed and armed, three register writes, each with its answer.  *)
(***************************************************************************)
EXTENDS PedalForce, TLC

CONSTANTS
  Scenarios,   \* [cfg, homed, armed, may]: the configuration, the state at boot's end, what may happen
  Envelopes,   \* travel envelopes @HOME may carry
  Configs,     \* configurations @CFG may carry
  Actions,     \* @ACT lines of the dashboard
  Forces,      \* readings of the load cell
  Word,        \* values of a register (2^16)
  Rail         \* how far the drive gets from where it was switched on (bound of its position)

\* The numbers of @HOME are i32, which two registers hold.
i32 == -((Word * Word) \div 2)..(Word * Word) \div 2 - 1
Envelope == [softMin : i32, softMax : i32, hardMin : i32, hardMax : i32]
WellFormed(e) == e.softMax > e.softMin /\ e.hardMax > e.hardMin   \* handle_command's condition
Unhomed == [softMin |-> 0, softMax |-> 0, hardMin |-> 0, hardMax |-> 0]

ASSUME WordAssumption     == Word \in Nat \ {0} /\ Word % 2 = 0
ASSUME EnvelopeAssumption == Envelopes \subseteq Envelope
ASSUME ActionAssumption   == \A a \in Actions : {a.slip, a.g, a.road} \subseteq Int
ASSUME ForcesAssumption   == Forces \subseteq Int
ASSUME RailAssumption     == Rail \in Nat

\* The numbers of a configuration the control step reads, and how it reads them.
Usable(c) ==
  /\ DOMAIN c.amp = Kinds /\ (\A e \in Kinds : c.amp[e] \in Int) /\ c.reachable \subseteq Int
  /\ c.curve \in Seq(Int) /\ c.curve # <<>>
  /\ {c.minForce, c.bite, c.endRange, c.endStiff, c.friction, c.min, c.max} \subseteq Int
  /\ {c.progression, c.gameMax} \subseteq Nat
  /\ {c.absTravel, c.travelAxis, c.raw} \subseteq BOOLEAN

ASSUME ConfigAssumption   == \A c \in Configs : Usable(c)
ASSUME ScenarioAssumption ==
  \A s \in Scenarios : /\ Usable(s.cfg) /\ s.armed \in BOOLEAN
                       /\ s.env = Unhomed \/ (s.env \in Envelopes /\ WellFormed(s.env))

Charges == {"push", "act", "cfg", "home", "arm", "disarm", "ota", "pull", "serial", "bench", "osc", "reset"}

VARIABLES
  pc, batch,          \* the main loop, and the USB lines it took
  usbq, wifiq,        \* lines received over USB and over WiFi
  ota,                \* an update session is active
  pull,               \* the WiFi thread is pulling an image, and reads no lines
  homed, armed, env, cfg, fx, act, model, force, phys, out,   \* Runtime and Controller
  servo,              \* the driver: [armed, identified]
  stale,              \* an answer of the drive that is still on its way
  drive,              \* the drive: [lo, hi, pos]
  hand,               \* the foot
  moved,              \* the last move: [to, by]: what the registers said, what the loop asked for
  budget

loopVars  == <<pc, batch, usbq, wifiq, ota, pull>>
session   == <<ota, pull>>
ctlVars   == <<cfg, fx, act, model, force, phys, out>>
armVars   == <<homed, armed, env>>
servoVars == <<servo, stale, drive, moved>>
vars == <<loopVars, armVars, ctlVars, servoVars, hand, budget>>

NoReply == [addr |-> "none", value |-> 0]
Travel  == env.softMax - env.softMin

Line(op, arg) == [op |-> op, arg |-> arg]
Spend(k)  == budget[k] > 0 /\ budget' = [budget EXCEPT ![k] = @ - 1]
Free      == UNCHANGED budget

\* Runtime::new, Servo::new; the scenario may begin with a homed, armed pedal.
Boot(c) ==
  /\ cfg = c /\ fx = QuietFx /\ act = NoAction /\ model = AtRest /\ force = 0 /\ phys = 0 /\ out = 0

Init ==
  \E s \in Scenarios :
    /\ pc = "usb" /\ batch = <<>> /\ usbq = <<>> /\ wifiq = <<>> /\ ota = FALSE /\ pull = FALSE
    /\ Boot(s.cfg)
    /\ homed = (s.env # Unhomed) /\ armed = s.armed /\ env = s.env
    /\ servo = [armed |-> s.armed, identified |-> s.armed]
    /\ stale = NoReply /\ drive = [lo |-> 0, hi |-> 0, pos |-> 0] /\ moved = [to |-> 0, by |-> 0]
    /\ hand = 0
    /\ budget = [k \in Charges |-> IF k \in DOMAIN s.may THEN s.may[k] ELSE 0]

-----------------------------------------------------------------------------
(* Commands (handle_command): the same over both channels.                 *)

Arm(l) ==
  /\ l.op = "@ARM"
  /\ armed' = (armed \/ homed)
  /\ UNCHANGED <<homed, env, ctlVars, ota>>

Disarm(l) ==
  /\ l.op = "@DISARM"
  /\ armed' = FALSE
  /\ UNCHANGED <<homed, env, ctlVars, ota>>

\* The model keeps its position as a part of the travel; the estimate of the
\* motor's position stays as it was.
Home(l) ==
  /\ l.op = "@HOME"
  /\ IF WellFormed(l.arg)
     THEN /\ env' = l.arg /\ homed' = TRUE
          /\ model' = [model EXCEPT !.pos = IF Travel = 0 THEN 0
                                            ELSE Quot(@ * (l.arg.softMax - l.arg.softMin), Travel)]
     ELSE UNCHANGED <<env, homed, model>>
  /\ UNCHANGED <<armed, cfg, fx, act, force, phys, out, ota>>

Configure(l) ==
  /\ l.op = "@CFG"
  /\ cfg' = l.arg
  /\ UNCHANGED <<armVars, fx, act, model, force, phys, out, ota>>

Act(l) ==
  /\ l.op = "@ACT"
  /\ fx' = Triggered(fx, l.arg) /\ act' = l.arg
  /\ UNCHANGED <<armVars, cfg, model, force, phys, out, ota>>

Command(l) == Arm(l) \/ Disarm(l) \/ Home(l) \/ Configure(l) \/ Act(l)

\* Over USB @OTA begins an update; over WiFi it is an unknown command.
BeginOta(l) == l.op = "@OTA" /\ ota' = TRUE /\ UNCHANGED <<armVars, ctlVars>>
Unknown(l)  == l.op = "@OTA" /\ UNCHANGED <<armVars, ctlVars, ota>>

-----------------------------------------------------------------------------
(* The main loop                                                           *)

\* During an update, whoever began it, everything that comes over USB is fed to it.
TakeUsb ==
  /\ pc = "usb" /\ batch = <<>>
  /\ IF ota \/ usbq = <<>> THEN pc' = "wifi" /\ UNCHANGED batch ELSE batch' = usbq /\ UNCHANGED pc
  /\ usbq' = <<>>
  /\ UNCHANGED <<wifiq, session, armVars, ctlVars, servoVars, hand, budget>>

UsbLine ==
  /\ pc = "usb" /\ batch # <<>>
  /\ Command(Head(batch)) \/ BeginOta(Head(batch))
  /\ batch' = Tail(batch) /\ pc' = IF Len(batch) = 1 THEN "wifi" ELSE pc
  /\ UNCHANGED <<usbq, wifiq, pull, servoVars, hand, budget>>

\* Lines over WiFi dropped while an update runs, as those over USB are.
WifiLineIfIdle ==
  /\ pc = "wifi" /\ wifiq # <<>>
  /\ IF ota THEN UNCHANGED <<armVars, ctlVars, ota>> ELSE Command(Head(wifiq)) \/ Unknown(Head(wifiq))
  /\ wifiq' = Tail(wifiq)
  /\ UNCHANGED <<pc, batch, usbq, pull, servoVars, hand, budget>>

WifiLine ==
  /\ pc = "wifi" /\ wifiq # <<>>
  /\ Command(Head(wifiq)) \/ Unknown(Head(wifiq))
  /\ wifiq' = Tail(wifiq)
  /\ UNCHANGED <<pc, batch, usbq, pull, servoVars, hand, budget>>

\* No more lines; the update may be given up here (check_timeout).  Nothing
\* looks at it again until the pass is over.
CheckUpdate ==
  /\ pc = "wifi" /\ wifiq = <<>>
  /\ ota' \in {ota, FALSE}
  /\ pc' = IF ota' THEN "usb" ELSE "tick"
  /\ UNCHANGED <<batch, usbq, wifiq, pull, armVars, ctlVars, servoVars, hand, budget>>

Drives == armed /\ homed

\* One control step; the target is sent if the driver is armed too, and the
\* motor is taken to be where it was told to go.
Tick ==
  /\ pc = "tick"
  /\ \E wave \in [{e \in Kinds \ Averaged : cfg.amp[e] > 0} -> {-1, 1}],
        osc \in IF budget["osc"] > 0 THEN BOOLEAN ELSE {FALSE} :
       LET w   == [e \in Kinds |-> IF e \in DOMAIN wave THEN wave[e] ELSE 0]
           f   == Filtered(cfg, force, hand)
           e   == Effects(Aged(fx), cfg, act, f, model.pos, Travel, w)
           m   == Integrated(model, cfg, Travel, f, e, phys, osc)
           to  == Target(m, cfg, env, e, phys)
       IN  /\ force' = f /\ fx' = e.fx /\ model' = m /\ out' = to
           /\ phys' = IF Drives THEN Max({to - env.softMin, 0}) ELSE phys
           /\ budget' = [budget EXCEPT !["osc"] = IF osc THEN @ - 1 ELSE @]
  /\ pc' = IF Drives /\ servo.armed THEN "lo" ELSE "usb"
  /\ UNCHANGED <<batch, usbq, wifiq, session, armVars, cfg, act, servoVars, hand>>

-----------------------------------------------------------------------------
(* The servo driver and the drive                                          *)

Low(t)  == t % Word
High(t) == (t \div Word) % Word
Both(d) == LET v == d.hi * Word + d.lo IN IF v >= (Word * Word) \div 2 THEN v - Word * Word ELSE v

\* What the drive does with a write.  Its register 29 is never written, so
\* that a position move is relative to where it stands, as far as it gets.
Executed(addr, value) ==
  CASE addr = "lo"   -> [drive EXCEPT !.lo = value]
    [] addr = "hi"   -> [drive EXCEPT !.hi = value]
    [] addr = "move" -> [drive EXCEPT !.pos = Clamp(@ + Both(drive), -Rail, Rail)]

\* One transaction: stale bytes that are there are dropped, the frame is
\* written, and whatever comes within the timeout is the answer.  The drive
\* answers in order: a frame it executes is answered after an older one.  The
\* loop goes on at `done`, or at `failed` when the answer is not its own.
Transact(addr, value, done, failed) ==
  \E drained, reaches, answers \in BOOLEAN :
    LET left  == IF drained THEN NoReply ELSE stale
        mine  == [addr |-> addr, value |-> value]
        heard == (IF left # NoReply /\ reaches THEN <<left>> ELSE <<>>) \o (IF reaches /\ answers THEN <<mine>> ELSE <<>>)
        late  == ~reaches /\ left # NoReply /\ answers      \* the old answer, and nothing else
        ok    == heard = <<mine>> \/ (late /\ left = mine)
    IN  /\ (drained /\ reaches /\ answers) \/ budget["serial"] > 0
        /\ budget' = IF drained /\ reaches /\ answers THEN budget ELSE [budget EXCEPT !["serial"] = @ - 1]
        /\ drive' = IF reaches THEN Executed(addr, value) ELSE drive
        /\ moved' = IF reaches /\ addr = "move" THEN [to |-> Both(drive), by |-> out] ELSE moved
        /\ stale' = IF reaches /\ ~answers THEN mine ELSE IF heard # <<>> \/ late THEN NoReply ELSE left
        /\ pc' = IF ok THEN done ELSE failed

\* A target that is written on after a failure.
WriteOn(here, addr, value, next) ==
  /\ pc = here
  /\ Transact(addr, value, next, next)
  /\ UNCHANGED <<batch, usbq, wifiq, session, armVars, ctlVars, servo, hand>>

\* write_register with its acknowledgement, and send_target's `?` after each.
WriteAnd(here, addr, value, next) ==
  /\ pc = here
  /\ Transact(addr, value, next, "usb")
  /\ UNCHANGED <<batch, usbq, wifiq, session, armVars, ctlVars, servo, hand>>

SendTarget ==
  \/ WriteAnd("lo", "lo", Low(out), "hi")
  \/ WriteAnd("hi", "hi", High(out), "move")
  \/ WriteAnd("move", "move", 1, "usb")

\* The bench: probe_identity, then arm, or disarm.
Bench ==
  /\ pc = "usb" /\ Spend("bench")
  /\ \/ \E found \in BOOLEAN : servo' = [servo EXCEPT !.identified = found]
     \/ servo' = [servo EXCEPT !.armed = @ \/ servo.identified]
     \/ servo' = [servo EXCEPT !.armed = FALSE]
  /\ UNCHANGED <<loopVars, armVars, ctlVars, stale, drive, moved, hand>>

-----------------------------------------------------------------------------
(* The WiFi thread                                                         *)

AroundWifi == <<pc, batch, usbq, wifiq, armVars, ctlVars, servoVars, hand>>

\* @OTAWIFI begins an update from the thread that received it (handle_ota_wifi).
PullBegins == ~pull /\ Spend("pull") /\ pull' = TRUE /\ ota' = TRUE /\ UNCHANGED AroundWifi

\* The image is in or a write failed, which ends the session, or the sender has
\* gone, or the session.
PullEnds == pull /\ pull' = FALSE /\ ota' \in {ota, FALSE} /\ UNCHANGED <<AroundWifi, budget>>

WifiThread == PullBegins \/ PullEnds

-----------------------------------------------------------------------------
(* The host and the foot                                                   *)

Lines(k) ==
  CASE k = "act"    -> {Line("@ACT", a) : a \in Actions}
    [] k = "cfg"    -> {Line("@CFG", c) : c \in Configs}
    [] k = "home"   -> {Line("@HOME", e) : e \in Envelopes}
    [] k = "arm"    -> {Line("@ARM", "-")}
    [] k = "disarm" -> {Line("@DISARM", "-")}
    [] k = "ota"    -> {Line("@OTA", "-")}

Host ==
  /\ \E k \in {"act", "cfg", "home", "arm", "disarm", "ota"} :
       /\ Spend(k)
       /\ \E l \in Lines(k) : \/ usbq' = Append(usbq, l) /\ UNCHANGED wifiq
                              \/ ~pull /\ wifiq' = Append(wifiq, l) /\ UNCHANGED usbq
  /\ UNCHANGED <<pc, batch, session, armVars, ctlVars, servoVars, hand>>

Push ==
  /\ Spend("push") /\ hand' \in Forces \ {hand}
  /\ UNCHANGED <<loopVars, armVars, ctlVars, servoVars>>

\* Power is lost, or an update has been completed: the drive keeps its registers.
Reset ==
  /\ Spend("reset")
  /\ pc' = "usb" /\ batch' = <<>> /\ usbq' = <<>> /\ wifiq' = <<>> /\ ota' = FALSE /\ pull' = FALSE
  /\ homed' = FALSE /\ armed' = FALSE /\ env' = Unhomed
  /\ \E s \in Scenarios : cfg' = s.cfg
  /\ fx' = QuietFx /\ act' = NoAction /\ model' = AtRest /\ force' = 0 /\ phys' = 0 /\ out' = 0
  /\ servo' = [armed |-> FALSE, identified |-> FALSE]
  /\ UNCHANGED <<stale, drive, moved, hand>>

MainLoop == TakeUsb \/ UsbLine \/ WifiLine \/ CheckUpdate \/ Tick \/ SendTarget
Next == MainLoop \/ WifiThread \/ Bench \/ Host \/ Push \/ Reset
Spec == Init /\ [][Next]_vars

\* The loop never stops (a step of it is always possible, so that this is the
\* weak fairness of MainLoop); a session is given up when no more of the image
\* comes.
FairSpec == Spec /\ []<><<pc' # pc>>_vars
                 /\ SF_vars(CheckUpdate /\ ~ota')

-----------------------------------------------------------------------------
(* Properties                                                              *)

\* The numbers stay in their ranges: the model never outruns the motor or adds
\* more mass than it may, and the axis never leaves its 16 bits.
TypeOK ==
  /\ pc \in {"usb", "wifi", "tick", "lo", "hi", "move"}
  /\ {homed, armed, ota, pull, servo.armed, servo.identified} \subseteq BOOLEAN
  /\ env \in Envelopes \cup {Unhomed} /\ act \in Actions \cup {NoAction}
  /\ {force, phys, out, model.pos, model.vel, model.net} \subseteq Int /\ drive.pos \in -Rail..Rail
  /\ {drive.lo, drive.hi} \subseteq 0..Word-1
  /\ model.extra \in 0..MoreMass /\ model.vel \in -MaxVel..MaxVel
  /\ fx.age \in [Snaps \cup {"abs", "rpm"} -> 0..Old]
  /\ Axis(model, cfg, Travel, force) \in 0..AxisMax

\* The two halves of a target go into two registers and a third write starts
\* the move.  Whatever frames and answers the serial line loses or delays, a
\* move the drive makes is to a target the loop asked for, never to the low
\* half of one target with the high half of another.
MovesWhole == moved.to = moved.by

\* The numbers are in their ranges, and the target is within the hard limits.
\* Whatever effects, configurations and re-homings come, whatever the serial
\* line loses, and whenever the WiFi thread begins an update: when the loop is
\* about to start a move the pedal is homed and armed and the registers of the
\* drive hold a number within the limits in force.
WithinEnvelope ==
  /\ TypeOK
  /\ pc = "move" => homed /\ armed /\ Both(drive) \in env.hardMin..env.hardMax

\* When the host falls silent, what needs a trigger ends although the code
\* advances it only in some of the control steps: the offsets of ABS decay, and
\* the oscillation of a slipping wheel stops.
EffectsEnd ==
  <>[](Allowed(cfg, force)) => <>[](fx.absForce = 0 /\ fx.absPos = 0 /\ ~Live(fx, "slip"))

\* A @DISARM that came over WiFi is heard, also while an update runs.
DisarmHeard == (\E i \in DOMAIN wifiq : wifiq[i].op = "@DISARM") ~> ~armed
=============================================================================
