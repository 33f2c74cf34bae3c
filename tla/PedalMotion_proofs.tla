-------------------------- MODULE PedalMotion_proofs --------------------------
(***************************************************************************)
(* Proofs about PedalMotion, for every width of a register, all travels,    *)
(* configurations, effects and budgets: a move of the motor is to a target  *)
(* the loop asked for, and it is asked for only of a pedal that is homed    *)
(* and armed, with a number within the hard limits in the registers.        *)
(*                                                                         *)
(* Neither is inductive.  That the halves in the drive's registers are      *)
(* those of one target follows from the place of the loop (RegistersInv)    *)
(* and from what an answer that comes late can still be taken for           *)
(* (StaleInv); that the target is within the limits when the move starts    *)
(* follows from the clamp of the control step, and from commands being      *)
(* handled only between two targets (TargetInv).                            *)
(*                                                                         *)
(* NumbersInv keeps the numbers of the control step in their ranges: what   *)
(* each helper of PedalForce returns is a lemma of its own.                 *)
(***************************************************************************)
EXTENDS PedalMotion, SequenceTheorems, WellFoundedInduction, TLAPS

HostLines == UNION {Lines(k) : k \in {"act", "cfg", "home", "arm", "disarm", "ota"}}

FxFields == {"age", "absForce", "absPos", "rpmPos", "past"}

DataInv ==
  /\ pc \in {"usb", "wifi", "tick", "lo", "hi", "move"}
  /\ homed \in BOOLEAN /\ armed \in BOOLEAN /\ ota \in BOOLEAN /\ pull \in BOOLEAN
  /\ env \in Envelope /\ (homed => WellFormed(env))
  /\ Usable(cfg) /\ act.slip \in Int
  /\ phys \in Int /\ out \in Int
  /\ DOMAIN fx = FxFields /\ fx.absPos \in Int /\ fx.rpmPos \in Int
  /\ usbq \in Seq(HostLines) /\ wifiq \in Seq(HostLines) /\ batch \in Seq(HostLines)
  /\ drive \in [lo : Int, hi : Int, pos : Int]

\* While a target is written nothing takes back what allowed it: an update the
\* WiFi thread begins now stops the next pass, not this one.
TargetInv ==
  pc \in {"lo", "hi", "move"} => homed /\ armed /\ out \in env.hardMin..env.hardMax

\* The drive has the halves whose writes were acknowledged.
RegistersInv ==
  /\ pc \in {"hi", "move"} => drive.lo = Low(out)
  /\ pc = "move" => drive.hi = High(out)

\* An answer on its way acknowledges what its register still holds.
StaleInv ==
  /\ stale.addr = "lo" => drive.lo = stale.value
  /\ stale.addr = "hi" => drive.hi = stale.value

IInv == DataInv /\ TargetInv /\ RegistersInv /\ StaleInv /\ MovesWhole

-----------------------------------------------------------------------------
(* The two halves of a target                                               *)

LEMMA Divided ==
  ASSUME NEW t \in Int
  PROVE  /\ t % Word \in 0..Word - 1 /\ t \div Word \in Int
         /\ t = Word * (t \div Word) + (t % Word)
BY WordAssumption

\* What the registers hold after both halves were written is the target.
LEMMA Halves ==
  ASSUME NEW t \in i32, NEW d, d.lo = Low(t), d.hi = High(t)
  PROVE  Both(d) = t
<1> DEFINE q == t \div Word  r == t % Word  h == Word \div 2
<1>0. Word \in Nat /\ Word > 0 /\ h \in Nat /\ Word = 2 * h /\ h > 0
  BY WordAssumption
<1>1. t \in Int /\ q \in Int /\ r \in 0..Word - 1 /\ t = Word * q + r
  BY Divided, <1>0 DEF i32
<1>2. (Word * Word) \div 2 = Word * h
  <2>1. Word * Word = 2 * (Word * h)
    BY <1>0
  <2>2. Word * h \in Int
    BY <1>0
  <2> QED BY <2>1, <2>2
<1>3. -(Word * h) <= t /\ t < Word * h
  BY <1>0, <1>1, <1>2 DEF i32
<1> HIDE DEF q, r, h
<1>4. -h <= q /\ q < h
  <2>1. ASSUME q >= h PROVE FALSE
    <3>1. Word * q >= Word * h
      BY <2>1, <1>0, <1>1
    <3> QED BY <3>1, <1>0, <1>1, <1>3
  <2>2. ASSUME q <= -h - 1 PROVE FALSE
    <3>1. Word * q <= Word * (-h - 1)
      BY <2>2, <1>0, <1>1
    <3>2. Word * (-h - 1) = -(Word * h) - Word
      BY <1>0
    <3> QED BY <3>1, <3>2, <1>0, <1>1, <1>3
  <2> QED BY <2>1, <2>2, <1>0, <1>1
<1>5. q % Word = IF q >= 0 THEN q ELSE q + Word
  BY <1>0, <1>1, <1>4
<1>6. d.lo = r /\ d.hi = q % Word
  BY DEF Low, High, q, r
<1> DEFINE v == d.hi * Word + d.lo
<1>7. CASE q >= 0
  <2>1. v = t
    BY <1>7, <1>5, <1>6, <1>1, <1>0
  <2> QED BY <2>1, <1>2, <1>3, <1>0, <1>1 DEF Both
<1>8. CASE q < 0
  <2>1. v = Word * q + Word * Word + r
    BY <1>8, <1>5, <1>6, <1>1, <1>0
  <2>2. v = t + Word * Word
    BY <2>1, <1>1, <1>0
  <2>3. v >= (Word * Word) \div 2
    <3>1. Word * Word = 2 * (Word * h)
      BY <1>0
    <3> QED BY <3>1, <2>2, <1>2, <1>3, <1>0, <1>1
  <2> QED BY <2>2, <2>3, <1>0, <1>1 DEF Both
<1> QED BY <1>7, <1>8, <1>1

-----------------------------------------------------------------------------
(* The control step                                                         *)

LEMMA ClampInt ==
  ASSUME NEW x \in Int, NEW lo \in Int, NEW hi \in Int
  PROVE  Clamp(x, lo, hi) \in Int /\ (lo <= hi => Clamp(x, lo, hi) \in lo..hi)
BY DEF Clamp

LEMMA EnvelopeFields ==
  ASSUME NEW e \in Envelope
  PROVE  e.softMin \in i32 /\ e.softMax \in i32 /\ e.hardMin \in i32 /\ e.hardMax \in i32
BY DEF Envelope

LEMMA i32Int == i32 \subseteq Int
BY WordAssumption DEF i32

LEMMA TargetInLimits ==
  ASSUME NEW m, NEW c, NEW e, NEW en \in Envelope, NEW ph \in Int, Usable(c), e.offset \in Int
  PROVE  /\ Target(m, c, en, e, ph) \in Int
         /\ WellFormed(en) => Target(m, c, en, e, ph) \in en.hardMin..en.hardMax
<1> DEFINE travel == en.softMax - en.softMin
           sled   == IF m.pos \in c.reachable THEN m.pos ELSE Clamp(ph, 0, travel)
<1>1. /\ en.softMin \in Int /\ en.softMax \in Int /\ en.hardMin \in Int /\ en.hardMax \in Int
      /\ travel \in Int
  <2>1. /\ en.softMin \in Int /\ en.softMax \in Int /\ en.hardMin \in Int /\ en.hardMax \in Int
    BY EnvelopeFields, i32Int
  <2> QED BY <2>1
<1>2. sled \in Int
  <2>1. Clamp(ph, 0, travel) \in Int
    BY <1>1, ClampInt
  <2> QED BY <2>1 DEF Usable
<1> HIDE DEF sled, travel
<1>3. Clamp(sled, 0, travel) + en.softMin + e.offset \in Int
  <2>1. Clamp(sled, 0, travel) \in Int
    BY <1>1, <1>2, ClampInt
  <2> QED BY <2>1, <1>1
<1>4. Target(m, c, en, e, ph) = Clamp(Clamp(sled, 0, travel) + en.softMin + e.offset, en.hardMin, en.hardMax)
  BY DEF Target, sled, travel
<1>5. WellFormed(en) => en.hardMin <= en.hardMax
  BY <1>1 DEF WellFormed
<1> DEFINE x == Clamp(sled, 0, travel) + en.softMin + e.offset  y == Clamp(x, en.hardMin, en.hardMax)
<1>6. y \in Int /\ (en.hardMin <= en.hardMax => y \in en.hardMin..en.hardMax)
  <2> HIDE DEF x
  <2>1. x \in Int
    BY <1>3 DEF x
  <2> QED BY <1>1, <2>1, ClampInt
<1> QED BY <1>4, <1>5, <1>6

LEMMA MaxInt ==
  ASSUME NEW a \in Int, NEW b \in Int
  PROVE  Max({a, b}) \in Int
<1>1. \E x \in {a, b} : \A y \in {a, b} : x >= y
  OBVIOUS
<1>2. Max({a, b}) \in {a, b}
  BY <1>1 DEF Max
<1> QED BY <1>2

LEMMA DecayedInt ==
  ASSUME NEW x \in Int, NEW step \in Int
  PROVE  Decayed(x, step) \in Int
<1>1. Sign(x) \in Int /\ Mag(x) \in Int
  BY ClampInt DEF Sign, Mag
<1> HIDE DEF Sign, Mag
<1>2. Sign(x) * step \in Int
  BY <1>1
<1> QED BY <1>1, <1>2 DEF Decayed

\* The offsets an oscillator leaves are numbers, and nothing of the record of
\* effects is lost.
Offsets(f) == DOMAIN f = FxFields /\ f.absPos \in Int /\ f.rpmPos \in Int

LEMMA AbsOfOffsets ==
  ASSUME NEW f, NEW c, NEW w \in Int, Offsets(f), Usable(c)
  PROVE  Offsets(AbsOf(f, c, w))
<1>1. c.amp["abs"] * w \in Int
  <2>1. c.amp["abs"] \in Int
    BY DEF Usable, Kinds
  <2> QED BY <2>1
<1>2. Decayed(f.absPos, 2) \in Int
  <2>1. f.absPos \in Int /\ 2 \in Int
    BY DEF Offsets
  <2> QED BY <2>1, DecayedInt
<1> DEFINE A == [f EXCEPT !.absForce = Decayed(@, 1), !.absPos = Decayed(@, 2)]
           B == [f EXCEPT !.absForce = IF c.absTravel THEN 0 ELSE c.amp["abs"] * w,
                          !.absPos   = IF c.absTravel THEN c.amp["abs"] * w ELSE 0]
<1>3. Offsets(A)
  <2>1. DOMAIN A = DOMAIN f /\ A.absPos = Decayed(f.absPos, 2) /\ A.rpmPos = f.rpmPos
    BY DEF Offsets, FxFields
  <2> QED BY <2>1, <1>2 DEF Offsets
<1>4. Offsets(B)
  <2>1. DOMAIN B = DOMAIN f /\ B.absPos = (IF c.absTravel THEN c.amp["abs"] * w ELSE 0) /\ B.rpmPos = f.rpmPos
    BY DEF Offsets, FxFields
  <2> QED BY <2>1, <1>1 DEF Offsets
<1> QED BY <1>3, <1>4 DEF AbsOf

LEMMA RpmOfOffsets ==
  ASSUME NEW f, NEW c, NEW a, NEW w \in Int, Offsets(f), Usable(c)
  PROVE  Offsets(RpmOf(f, c, a, w))
<1>1. c.amp["rpm"] * w \in Int
  <2>1. c.amp["rpm"] \in Int
    BY DEF Usable, Kinds
  <2> QED BY <2>1
<1> QED BY <1>1 DEF RpmOf, Offsets, FxFields

LEMMA SnapOfInt ==
  ASSUME NEW f, NEW c, NEW a, NEW k \in Snaps, NEW w \in Int, Usable(c), a.slip \in Int
  PROVE  SnapOf(f, c, a, k, w) \in Int
<1>1. c.amp[k] \in Int
  BY DEF Usable, Kinds
<1>2. c.amp[k] * w \in Int
  BY <1>1
<1>3. c.amp[k] * w * 1 \in Int /\ c.amp[k] * w * a.slip \in Int
  BY <1>2
<1> QED BY <1>3 DEF SnapOf

\* What the effects of one tick hand to the target, and leave for the next.
LEMMA EffectsInt ==
  ASSUME NEW f, NEW c, NEW a, NEW force_, NEW pos, NEW travel, NEW w,
         Offsets(f), Usable(c), a.slip \in Int, \A k \in Kinds : w[k] \in Int
  PROVE  /\ Effects(f, c, a, force_, pos, travel, w).offset \in Int
         /\ Offsets(Effects(f, c, a, force_, pos, travel, w).fx)
<1> DEFINE f1 == AbsOf(f, c, w["abs"])
           f2 == RpmOf(f1, c, a, w["rpm"])
           f3 == BiteOf(f2, c, pos, travel)
           f4 == AveragesOf(f3, c, a)
<1>0. w["abs"] \in Int /\ w["rpm"] \in Int /\ w["bite"] \in Int /\ w["slip"] \in Int
  BY DEF Kinds, Snaps
<1>1. Offsets(f1)
  BY <1>0, AbsOfOffsets
<1>2. Offsets(f2)
  <2> HIDE DEF f1
  <2> QED BY <1>0, <1>1, RpmOfOffsets
<1>3. Offsets(f3)
  <2> HIDE DEF f2
  <2> QED BY <1>2 DEF BiteOf, Offsets, FxFields
<1>4. Offsets(f4)
  <2> HIDE DEF f3
  <2> QED BY <1>3 DEF AveragesOf, Offsets, FxFields
<1> DEFINE s1 == SnapOf(f4, c, a, "bite", w["bite"])
           s2 == SnapOf(f4, c, a, "slip", w["slip"])
<1>5. s1 \in Int /\ s2 \in Int
  <2> HIDE DEF f4
  <2> QED BY <1>0, SnapOfInt DEF Snaps
<1>6. CASE ~Allowed(c, force_)
  BY <1>6 DEF Effects
<1>7. CASE Allowed(c, force_)
  <2>1. Effects(f, c, a, force_, pos, travel, w) =
          [fx |-> f4, force |-> f4.absForce + Mean(f4.past["g"]) + Mean(f4.past["road"]),
           offset |-> f4.absPos + f4.rpmPos + s1 + s2]
    BY <1>7 DEF Effects
  <2> HIDE DEF f4, s1, s2
  <2>2. f4.absPos \in Int /\ f4.rpmPos \in Int
    BY <1>4 DEF Offsets
  <2>3. f4.absPos + f4.rpmPos + s1 + s2 \in Int
    BY <2>2, <1>5
  <2> QED BY <2>1, <2>3, <1>4
<1> QED BY <1>6, <1>7

-----------------------------------------------------------------------------
(* The steps                                                                *)

\* A line names what its command carries.
LineOK(l) ==
  /\ l.op = "@HOME" => l.arg \in Envelope
  /\ l.op = "@CFG" => Usable(l.arg)
  /\ l.op = "@ACT" => l.arg.slip \in Int

LEMMA HostLinesOK ==
  ASSUME NEW l \in HostLines
  PROVE  LineOK(l)
<1>1. PICK k \in {"act", "cfg", "home", "arm", "disarm", "ota"} : l \in Lines(k)
  BY DEF HostLines
<1>2. CASE k = "act"
  BY <1>1, <1>2, ActionAssumption DEF Lines, Line, LineOK
<1>3. CASE k = "cfg"
  BY <1>1, <1>3, ConfigAssumption DEF Lines, Line, LineOK
<1>4. CASE k = "home"
  BY <1>1, <1>4, EnvelopeAssumption DEF Lines, Line, LineOK
<1>5. CASE k \in {"arm", "disarm", "ota"}
  BY <1>1, <1>5 DEF Lines, Line, LineOK
<1> QED BY <1>1, <1>2, <1>3, <1>4, <1>5

LEMMA QueueSteps ==
  ASSUME NEW q \in Seq(HostLines)
  PROVE  /\ \A l \in HostLines : Append(q, l) \in Seq(HostLines)
         /\ q # <<>> => Head(q) \in HostLines /\ Tail(q) \in Seq(HostLines)
         /\ <<>> \in Seq(HostLines)
<1> HIDE DEF HostLines
<1>1. q # <<>> => Head(q) \in HostLines /\ Tail(q) \in Seq(HostLines)
  BY HeadTailProperties
<1>2. \A l \in HostLines : Append(q, l) \in Seq(HostLines)
  BY AppendProperties
<1>3. <<>> \in Seq(HostLines)
  BY EmptySeq
<1> QED BY <1>1, <1>2, <1>3

LEMMA UnhomedEnvelope == Unhomed \in Envelope
<1>1. 0 \in i32
  <2> DEFINE h == Word \div 2
  <2>1. Word \in Nat /\ Word > 0 /\ h \in Nat /\ Word = 2 * h /\ h > 0
    BY WordAssumption
  <2> HIDE DEF h
  <2>2. Word * Word = 2 * (Word * h) /\ Word * h \in Nat /\ Word * h > 0
    BY <2>1
  <2>3. (Word * Word) \div 2 = Word * h
    BY <2>2
  <2> QED BY <2>2, <2>3 DEF i32
<1> QED BY <1>1 DEF Unhomed, Envelope

LEMMA QuietOffsets == Offsets(QuietFx)
BY DEF Offsets, QuietFx, FxFields

LEMMA InitInv == Init => IInv
<1> SUFFICES ASSUME Init PROVE IInv
  OBVIOUS
<1>1. PICK s \in Scenarios :
        /\ pc = "usb" /\ batch = <<>> /\ usbq = <<>> /\ wifiq = <<>> /\ ota = FALSE /\ pull = FALSE
        /\ Boot(s.cfg)
        /\ homed = (s.env # Unhomed) /\ armed = s.armed /\ env = s.env
        /\ stale = NoReply /\ drive = [lo |-> 0, hi |-> 0, pos |-> 0] /\ moved = [to |-> 0, by |-> 0]
  BY DEF Init
<1>2. Usable(s.cfg) /\ s.armed \in BOOLEAN /\ (s.env = Unhomed \/ (s.env \in Envelopes /\ WellFormed(s.env)))
  BY ScenarioAssumption
<1>3. env \in Envelope /\ (homed => WellFormed(env)) /\ homed \in BOOLEAN
  BY <1>1, <1>2, EnvelopeAssumption, UnhomedEnvelope
<1>4. DataInv
  <2>1. cfg = s.cfg /\ fx = QuietFx /\ act = NoAction /\ phys = 0 /\ out = 0
    BY <1>1 DEF Boot
  <2>2. act.slip \in Int
    BY <2>1 DEF NoAction
  <2>3. DOMAIN fx = FxFields /\ fx.absPos \in Int /\ fx.rpmPos \in Int
    BY <2>1, QuietOffsets DEF Offsets
  <2>4. usbq \in Seq(HostLines) /\ wifiq \in Seq(HostLines) /\ batch \in Seq(HostLines)
    BY <1>1, EmptySeq
  <2>5. drive \in [lo : Int, hi : Int, pos : Int]
    BY <1>1
  <2> QED BY <1>1, <1>2, <1>3, <2>1, <2>2, <2>3, <2>4, <2>5 DEF DataInv
<1>5. TargetInv /\ RegistersInv /\ StaleInv /\ MovesWhole
  BY <1>1 DEF TargetInv, RegistersInv, StaleInv, MovesWhole, NoReply
<1> QED BY <1>4, <1>5 DEF IInv

\* A command changes what is allowed, and keeps all of it what it says it is.
LEMMA CommandData ==
  ASSUME IInv, NEW l \in HostLines, Command(l) \/ BeginOta(l) \/ Unknown(l)
  PROVE  /\ homed' \in BOOLEAN /\ armed' \in BOOLEAN /\ ota' \in BOOLEAN
         /\ env' \in Envelope /\ (homed' => WellFormed(env'))
         /\ Usable(cfg') /\ act'.slip \in Int
         /\ DOMAIN fx' = FxFields /\ fx'.absPos \in Int /\ fx'.rpmPos \in Int
         /\ UNCHANGED <<phys, out>>
<1> USE DEF IInv, DataInv
<1>0. LineOK(l)
  BY HostLinesOK
<1>1. CASE Arm(l)
  BY <1>1 DEF Arm, ctlVars
<1>2. CASE Disarm(l)
  BY <1>2 DEF Disarm, ctlVars
<1>3. CASE Home(l)
  BY <1>0, <1>3 DEF Home, LineOK
<1>4. CASE Configure(l)
  BY <1>0, <1>4 DEF Configure, armVars, LineOK
<1>5. CASE Act(l)
  <2>1. act'.slip \in Int /\ UNCHANGED <<armVars, cfg, phys, out, ota>> /\ fx' = Triggered(fx, l.arg)
    BY <1>0, <1>5 DEF Act, LineOK
  <2>2. DOMAIN fx' = FxFields /\ fx'.absPos \in Int /\ fx'.rpmPos \in Int
    BY <2>1 DEF Triggered, FxFields
  <2> QED BY <2>1, <2>2 DEF armVars
<1>6. CASE BeginOta(l)
  BY <1>6 DEF BeginOta, armVars, ctlVars
<1>7. CASE Unknown(l)
  BY <1>7 DEF Unknown, armVars, ctlVars
<1> QED BY <1>1, <1>2, <1>3, <1>4, <1>5, <1>6, <1>7 DEF Command

\* Away from the servo nothing is said of its registers.
LEMMA Elsewhere ==
  ASSUME IInv, DataInv', pc' \in {"usb", "wifi", "tick"}, UNCHANGED <<stale, drive, moved>>
  PROVE  IInv'
BY DEF IInv, TargetInv, RegistersInv, StaleInv, MovesWhole

LEMMA CommandStep ==
  ASSUME IInv, UsbLine \/ WifiLine
  PROVE  IInv'
<1>1. CASE UsbLine
  <2>1. Head(batch) \in HostLines /\ Tail(batch) \in Seq(HostLines)
    BY <1>1, QueueSteps DEF UsbLine, IInv, DataInv
  <2>2. Command(Head(batch)) \/ BeginOta(Head(batch))
    BY <1>1 DEF UsbLine
  <2>3. DataInv'
    BY <1>1, <2>1, <2>2, CommandData DEF UsbLine, servoVars, IInv, DataInv
  <2> QED BY <1>1, <2>3, Elsewhere DEF UsbLine, servoVars
<1>2. CASE WifiLine
  <2>1. Head(wifiq) \in HostLines /\ Tail(wifiq) \in Seq(HostLines)
    BY <1>2, QueueSteps DEF WifiLine, IInv, DataInv
  <2>2. Command(Head(wifiq)) \/ Unknown(Head(wifiq))
    BY <1>2 DEF WifiLine
  <2>3. DataInv'
    BY <1>2, <2>1, <2>2, CommandData DEF WifiLine, servoVars, IInv, DataInv
  <2> QED BY <1>2, <2>3, Elsewhere DEF WifiLine, servoVars
<1> QED BY <1>1, <1>2

LEMMA LoopStep ==
  ASSUME IInv, TakeUsb \/ CheckUpdate
  PROVE  IInv'
<1>1. CASE TakeUsb
  <2>1. DataInv'
    BY <1>1, QueueSteps DEF TakeUsb, session, armVars, ctlVars, servoVars, IInv, DataInv
  <2> QED BY <1>1, <2>1, Elsewhere DEF TakeUsb, servoVars
<1>2. CASE CheckUpdate
  <2>1. DataInv'
    BY <1>2 DEF CheckUpdate, armVars, ctlVars, servoVars, IInv, DataInv
  <2> QED BY <1>2, <2>1, Elsewhere DEF CheckUpdate, servoVars
<1> QED BY <1>1, <1>2

LEMMA AgedOffsets ==
  ASSUME NEW f, Offsets(f)
  PROVE  Offsets(Aged(f))
BY DEF Offsets, Aged, FxFields

LEMMA TickStep ==
  ASSUME IInv, Tick
  PROVE  IInv'
<1>1. PICK wave \in [{e \in Kinds \ Averaged : cfg.amp[e] > 0} -> {-1, 1}], osc \in BOOLEAN :
       LET w   == [e \in Kinds |-> IF e \in DOMAIN wave THEN wave[e] ELSE 0]
           f   == Filtered(cfg, force, hand)
           e   == Effects(Aged(fx), cfg, act, f, model.pos, Travel, w)
           m   == Integrated(model, cfg, Travel, f, e, phys, osc)
           to  == Target(m, cfg, env, e, phys)
       IN  /\ fx' = e.fx /\ out' = to
           /\ phys' = IF Drives THEN Max({to - env.softMin, 0}) ELSE phys
  BY DEF Tick
<1> DEFINE w   == [e \in Kinds |-> IF e \in DOMAIN wave THEN wave[e] ELSE 0]
           f   == Filtered(cfg, force, hand)
           e   == Effects(Aged(fx), cfg, act, f, model.pos, Travel, w)
           m   == Integrated(model, cfg, Travel, f, e, phys, osc)
           to  == Target(m, cfg, env, e, phys)
<1>2. fx' = e.fx /\ out' = to /\ phys' = IF Drives THEN Max({to - env.softMin, 0}) ELSE phys
  BY <1>1
<1>3. /\ pc = "tick" /\ pc' = (IF Drives /\ servo.armed THEN "lo" ELSE "usb")
      /\ UNCHANGED <<batch, usbq, wifiq, ota, pull, armVars, cfg, act, servoVars>>
  BY DEF Tick, session
<1>4. \A k \in Kinds : w[k] \in Int
  OBVIOUS
<1>5. Offsets(Aged(fx))
  BY AgedOffsets DEF IInv, DataInv, Offsets
<1>6. e.offset \in Int /\ Offsets(e.fx)
  <2> HIDE DEF w, f
  <2> QED BY <1>4, <1>5, EffectsInt DEF IInv, DataInv
<1>7. to \in Int /\ (WellFormed(env) => to \in env.hardMin..env.hardMax)
  <2> HIDE DEF e, m
  <2> QED BY <1>6, TargetInLimits DEF IInv, DataInv
<1> HIDE DEF to, e, m, f, w
<1>8. phys' \in Int
  <2>1. env.softMin \in Int
    BY EnvelopeFields, i32Int DEF IInv, DataInv
  <2>2. to - env.softMin \in Int /\ 0 \in Int
    BY <2>1, <1>7
  <2>3. Max({to - env.softMin, 0}) \in Int
    BY <2>2, MaxInt
  <2> QED BY <2>3, <1>2 DEF IInv, DataInv
<1>9. DataInv'
  BY <1>2, <1>3, <1>6, <1>7, <1>8 DEF IInv, DataInv, Offsets, armVars, servoVars
<1>10. TargetInv'
  <2>1. CASE pc' = "lo"
    <3>1. homed /\ armed /\ WellFormed(env)
      BY <2>1, <1>3 DEF Drives, IInv, DataInv
    <3> QED BY <3>1, <2>1, <1>2, <1>3, <1>7 DEF TargetInv, armVars
  <2>2. CASE pc' = "usb"
    BY <2>2 DEF TargetInv
  <2> QED BY <2>1, <2>2, <1>3
<1>11. RegistersInv' /\ StaleInv' /\ MovesWhole'
  BY <1>3 DEF IInv, RegistersInv, StaleInv, MovesWhole, servoVars
<1> QED BY <1>9, <1>10, <1>11 DEF IInv

LEMMA RestStep ==
  ASSUME IInv, WifiThread \/ Bench \/ Host \/ Push \/ Reset \/ UNCHANGED vars
  PROVE  IInv'
<1>1. CASE Bench
  <2>1. UNCHANGED <<loopVars, armVars, ctlVars, stale, drive, moved>>
    BY <1>1 DEF Bench
  <2> QED BY <2>1 DEF IInv, DataInv, TargetInv, RegistersInv, StaleInv, MovesWhole, loopVars, armVars, ctlVars
<1>2. CASE Host
  <2>1. PICK l \in HostLines : \/ usbq' = Append(usbq, l) /\ UNCHANGED wifiq
                               \/ wifiq' = Append(wifiq, l) /\ UNCHANGED usbq
    BY <1>2 DEF Host, HostLines
  <2>3. usbq' \in Seq(HostLines) /\ wifiq' \in Seq(HostLines)
    BY <2>1, QueueSteps DEF IInv, DataInv
  <2>4. UNCHANGED <<pc, batch, ota, pull, armVars, ctlVars, servoVars>>
    BY <1>2 DEF Host, session
  <2> QED BY <2>3, <2>4 DEF IInv, DataInv, TargetInv, RegistersInv, StaleInv, MovesWhole, armVars, ctlVars, servoVars
<1>3. CASE Push
  BY <1>3 DEF Push, IInv, DataInv, TargetInv, RegistersInv, StaleInv, MovesWhole, loopVars, armVars, ctlVars, servoVars
<1>4. CASE Reset
  <2>1. PICK s \in Scenarios : cfg' = s.cfg
    BY <1>4 DEF Reset
  <2>2. Usable(cfg')
    BY <2>1, ScenarioAssumption
  <2>3. act'.slip \in Int
    BY <1>4 DEF Reset, NoAction
  <2>4. DOMAIN fx' = FxFields /\ fx'.absPos \in Int /\ fx'.rpmPos \in Int
    BY <1>4, QuietOffsets DEF Reset, Offsets
  <2>5. /\ pc' = "usb" /\ batch' = <<>> /\ usbq' = <<>> /\ wifiq' = <<>> /\ ota' = FALSE /\ pull' = FALSE
        /\ homed' = FALSE /\ armed' = FALSE /\ env' = Unhomed /\ phys' = 0 /\ out' = 0
        /\ drive' = drive /\ UNCHANGED <<stale, moved>>
    BY <1>4 DEF Reset
  <2>6. drive' \in [lo : Int, hi : Int, pos : Int]
    BY <2>5 DEF IInv, DataInv
  <2>7. usbq' \in Seq(HostLines) /\ wifiq' \in Seq(HostLines) /\ batch' \in Seq(HostLines)
    BY <2>5, EmptySeq
  <2>8. env' \in Envelope
    BY <2>5, UnhomedEnvelope
  <2>9. phys' \in Int /\ out' \in Int
    BY <2>5
  <2> HIDE DEF HostLines
  <2>10. DataInv'
    BY <2>2, <2>3, <2>4, <2>5, <2>6, <2>7, <2>8, <2>9 DEF DataInv
  <2> QED BY <2>5, <2>10, Elsewhere
<1>5. CASE UNCHANGED vars
  BY <1>5 DEF vars, IInv, DataInv, TargetInv, RegistersInv, StaleInv, MovesWhole, loopVars, armVars, ctlVars, servoVars
<1>6. CASE WifiThread
  <2>1. UNCHANGED AroundWifi /\ ota' \in BOOLEAN /\ pull' \in BOOLEAN
    BY <1>6 DEF WifiThread, PullBegins, PullEnds, IInv, DataInv
  <2>2. UNCHANGED <<pc, batch, usbq, wifiq, armVars, ctlVars, stale, drive, moved>>
    BY <2>1 DEF AroundWifi, servoVars
  <2> QED BY <2>1, <2>2 DEF IInv, DataInv, TargetInv, RegistersInv, StaleInv, MovesWhole, armVars, ctlVars
<1> QED BY <1>1, <1>2, <1>3, <1>4, <1>5, <1>6

-----------------------------------------------------------------------------
(* The servo's registers                                                    *)

\* A move ends at the rail's ends at the latest.
LEMMA MovedWithin ==
  ASSUME NEW at \in Int, NEW by \in Int
  PROVE  Clamp(at + by, -Rail, Rail) \in Int /\ Clamp(at + by, -Rail, Rail) \in -Rail..Rail
<1>1. at + by \in Int /\ -Rail \in Int /\ Rail \in Int /\ -Rail <= Rail
  BY RailAssumption
<1> DEFINE x == at + by  l == -Rail
<1>2. Clamp(x, l, Rail) \in Int /\ Clamp(x, l, Rail) \in l..Rail
  <2> HIDE DEF x, l
  <2> QED BY <1>1, ClampInt DEF x, l
<1> QED BY <1>2

\* What the registers hold is a number.
LEMMA BothInt ==
  ASSUME NEW d \in [lo : Int, hi : Int, pos : Int]
  PROVE  Both(d) \in Int
<1>1. d.lo \in Int /\ d.hi \in Int /\ Word \in Int
  BY WordAssumption
<1>2. d.hi * Word \in Int /\ Word * Word \in Int
  BY <1>1
<1>3. d.hi * Word + d.lo \in Int
  BY <1>1, <1>2
<1> QED BY <1>2, <1>3 DEF Both

\* Whatever frame or answer is lost or late: the loop goes on only if the
\* register holds what it wrote.
LEMMA Acknowledged ==
  ASSUME IInv, NEW addr \in {"lo", "hi", "move"}, NEW value \in Int, NEW done, NEW failed,
         addr = "move" => pc = "move", Transact(addr, value, done, failed), UNCHANGED out
  PROVE  /\ pc' \in {done, failed}
         /\ pc' # failed /\ addr = "lo" => drive'.lo = value
         /\ pc' # failed /\ addr = "hi" => drive'.hi = value
         /\ addr # "lo" => drive'.lo = drive.lo
         /\ addr # "hi" => drive'.hi = drive.hi
         /\ drive' \in [lo : Int, hi : Int, pos : Int]
         /\ addr # "move" => moved' = moved
         /\ moved' = moved \/ moved' = [to |-> Both(drive), by |-> out]
         /\ StaleInv'
<1>1. PICK drained \in BOOLEAN, reaches \in BOOLEAN, answers \in BOOLEAN :
    LET left  == IF drained THEN NoReply ELSE stale
        mine  == [addr |-> addr, value |-> value]
        heard == (IF left # NoReply /\ reaches THEN <<left>> ELSE <<>>) \o (IF reaches /\ answers THEN <<mine>> ELSE <<>>)
        late  == ~reaches /\ left # NoReply /\ answers
        ok    == heard = <<mine>> \/ (late /\ left = mine)
    IN  /\ drive' = IF reaches THEN Executed(addr, value) ELSE drive
        /\ moved' = IF reaches /\ addr = "move" THEN [to |-> Both(drive), by |-> out] ELSE moved
        /\ stale' = IF reaches /\ ~answers THEN mine ELSE IF heard # <<>> \/ late THEN NoReply ELSE left
        /\ pc' = IF ok THEN done ELSE failed
  BY DEF Transact
<1> DEFINE left  == IF drained THEN NoReply ELSE stale
           mine  == [addr |-> addr, value |-> value]
           heard == (IF left # NoReply /\ reaches THEN <<left>> ELSE <<>>) \o (IF reaches /\ answers THEN <<mine>> ELSE <<>>)
           late  == ~reaches /\ left # NoReply /\ answers
           ok    == heard = <<mine>> \/ (late /\ left = mine)
<1>2. /\ drive' = IF reaches THEN Executed(addr, value) ELSE drive
      /\ moved' = IF reaches /\ addr = "move" THEN [to |-> Both(drive), by |-> out] ELSE moved
      /\ stale' = IF reaches /\ ~answers THEN mine ELSE IF heard # <<>> \/ late THEN NoReply ELSE left
      /\ pc' = IF ok THEN done ELSE failed
  BY <1>1
<1>3. ~reaches => heard = <<>>
  OBVIOUS
<1>4. reaches /\ answers => heard # <<>>
  <2> DEFINE older == IF left # NoReply /\ reaches THEN <<left>> ELSE <<>>
  <2>1. ASSUME reaches, answers PROVE heard = older \o <<mine>>
    BY <2>1
  <2>2. Len(older) \in Nat /\ older \in Seq({left})
    <3> HIDE DEF left
    <3>1. older = <<>> \/ older = <<left>>
      OBVIOUS
    <3> HIDE DEF older
    <3>2. <<>> \in Seq({left}) /\ Len(<<>>) = 0 /\ <<left>> \in Seq({left}) /\ Len(<<left>>) = 1
      OBVIOUS
    <3> QED BY <3>1, <3>2
  <2> HIDE DEF older
  <2>3. Len(<<mine>>) = 1 /\ <<mine>> \in Seq({mine})
    OBVIOUS
  <2> HIDE DEF mine, left
  <2>4. Len(older \o <<mine>>) = Len(older) + 1
    BY <2>2, <2>3
  <2>5. ASSUME reaches, answers PROVE heard # <<>>
    <3> HIDE DEF heard
    <3> QED BY <2>1, <2>2, <2>4, <2>5
  <2> QED BY <2>5
<1>5. reaches /\ answers => stale' = NoReply
  BY <1>2, <1>4
<1>6. ok => reaches \/ (stale = mine /\ left = stale)
  <2> HIDE DEF heard
  <2>1. heard = <<mine>> => heard # <<>>
    OBVIOUS
  <2> QED BY <1>3, <2>1 DEF NoReply
<1> HIDE DEF heard
<1>7. mine.addr = addr /\ mine.value = value
  OBVIOUS
<1>8. /\ drive \in [lo : Int, hi : Int, pos : Int]
      /\ stale.addr = "lo" => drive.lo = stale.value
      /\ stale.addr = "hi" => drive.hi = stale.value
  BY DEF IInv, DataInv, StaleInv
<1>9. Both(drive) \in Int
  BY <1>8, BothInt
<1> DEFINE did == Executed(addr, value)
<1>10. /\ did \in [lo : Int, hi : Int, pos : Int]
       /\ addr = "lo" => did.lo = value /\ did.hi = drive.hi
       /\ addr = "hi" => did.hi = value /\ did.lo = drive.lo
       /\ addr = "move" => did.lo = drive.lo /\ did.hi = drive.hi
  BY <1>8, <1>9, MovedWithin DEF Executed
<1> HIDE DEF did
<1>11. drive' = IF reaches THEN did ELSE drive
  BY <1>2 DEF did
<1>12. /\ pc' # failed /\ addr = "lo" => drive'.lo = value
       /\ pc' # failed /\ addr = "hi" => drive'.hi = value
  <2>1. CASE reaches
    BY <2>1, <1>10, <1>11
  <2>2. CASE ~reaches /\ pc' # failed
    <3>1. stale = mine
      BY <2>2, <1>2, <1>6
    <3> QED BY <3>1, <2>2, <1>7, <1>8, <1>11
  <2> QED BY <2>1, <2>2
<1>13. StaleInv'
  <2>1. CASE reaches /\ ~answers
    BY <2>1, <1>2, <1>7, <1>10, <1>11 DEF StaleInv
  <2>2. CASE reaches /\ answers
    BY <2>2, <1>5 DEF StaleInv, NoReply
  <2>3. CASE ~reaches
    <3>1. stale' \in {NoReply, stale}
      BY <2>3, <1>2
    <3>2. drive' = drive
      BY <2>3, <1>11
    <3> QED BY <3>1, <3>2, <1>8 DEF StaleInv, NoReply
  <2> QED BY <2>1, <2>2, <2>3
<1> QED BY <1>2, <1>8, <1>10, <1>11, <1>12, <1>13

LEMMA HalfInt ==
  ASSUME NEW t \in Int
  PROVE  Low(t) \in Int /\ High(t) \in Int
<1>1. t % Word \in Int /\ t \div Word \in Int
  BY Divided
<1>2. (t \div Word) % Word \in Int
  BY <1>1, WordAssumption
<1> QED BY <1>1, <1>2 DEF Low, High

\* A target that is being written is one the registers hold.
LEMMA InRange ==
  ASSUME IInv, pc = "move"
  PROVE  Both(drive) = out
<1>1. out \in i32
  <2>1. env.hardMin \in i32 /\ env.hardMax \in i32 /\ out \in env.hardMin..env.hardMax
    BY EnvelopeFields DEF IInv, DataInv, TargetInv
  <2> DEFINE half == (Word * Word) \div 2
  <2>2. half \in Int
    BY WordAssumption
  <2> HIDE DEF half
  <2>3. i32 = -half..half - 1
    BY DEF i32, half
  <2> QED BY <2>1, <2>2, <2>3
<1> QED BY <1>1, Halves DEF IInv, RegistersInv

LEMMA SendStep ==
  ASSUME IInv, SendTarget
  PROVE  IInv'
<1>0. out \in Int
  BY DEF IInv, DataInv
<1>1. ASSUME NEW here \in {"lo", "hi", "move"}, NEW value \in Int, NEW next, WriteAnd(here, here, value, next),
             next \in {"hi", "move", "usb"},
             next = "hi" => here = "lo" /\ value = Low(out),
             next = "move" => here = "hi" /\ value = High(out)
      PROVE  IInv'
  <2>1. /\ pc = here /\ Transact(here, value, next, "usb")
        /\ UNCHANGED <<batch, usbq, wifiq, ota, pull, armVars, ctlVars, servo, hand>>
    BY <1>1 DEF WriteAnd, session
  <2>2. UNCHANGED out
    BY <2>1 DEF ctlVars
  <2>3. /\ pc' \in {next, "usb"}
        /\ pc' # "usb" /\ here = "lo" => drive'.lo = value
        /\ pc' # "usb" /\ here = "hi" => drive'.hi = value
        /\ here # "lo" => drive'.lo = drive.lo
        /\ drive' \in [lo : Int, hi : Int, pos : Int]
        /\ here # "move" => moved' = moved
        /\ moved' = moved \/ moved' = [to |-> Both(drive), by |-> out]
        /\ StaleInv'
    BY <1>1, <2>1, <2>2, Acknowledged
  <2>4. DataInv'
    BY <1>1, <2>1, <2>3 DEF IInv, DataInv, armVars, ctlVars
  <2>5. TargetInv'
    BY <1>1, <2>1, <2>3 DEF IInv, TargetInv, armVars, ctlVars
  <2>6. RegistersInv'
    BY <1>1, <2>1, <2>2, <2>3 DEF IInv, RegistersInv
  <2>7. MovesWhole'
    <3>1. CASE here = "move"
      BY <3>1, <2>1, <2>3, InRange DEF IInv, MovesWhole
    <3>2. CASE here # "move"
      BY <3>2, <2>3 DEF IInv, MovesWhole
    <3> QED BY <3>1, <3>2
  <2> QED BY <2>3, <2>4, <2>5, <2>6, <2>7 DEF IInv
<1>2. Low(out) \in Int /\ High(out) \in Int /\ 1 \in Int
  BY <1>0, HalfInt
<1>3. CASE WriteAnd("lo", "lo", Low(out), "hi")
  BY <1>1, <1>2, <1>3
<1>4. CASE WriteAnd("hi", "hi", High(out), "move")
  BY <1>1, <1>2, <1>4
<1>5. CASE WriteAnd("move", "move", 1, "usb")
  BY <1>1, <1>2, <1>5
<1> QED BY <1>3, <1>4, <1>5 DEF SendTarget

LEMMA NextInv == IInv /\ [Next]_vars => IInv'
<1> SUFFICES ASSUME IInv, [Next]_vars PROVE IInv'
  OBVIOUS
<1>1. CASE UsbLine \/ WifiLine
  BY <1>1, CommandStep
<1>2. CASE TakeUsb \/ CheckUpdate
  BY <1>2, LoopStep
<1>3. CASE Tick
  BY <1>3, TickStep
<1>4. CASE SendTarget
  BY <1>4, SendStep
<1>5. CASE WifiThread \/ Bench \/ Host \/ Push \/ Reset \/ UNCHANGED vars
  BY <1>5, RestStep
<1> QED BY <1>1, <1>2, <1>3, <1>4, <1>5 DEF Next, MainLoop

LEMMA Invariant == Spec => []IInv
<1> QED BY InitInv, NextInv, PTL DEF Spec

-----------------------------------------------------------------------------
(* The numbers of the control step                                          *)

LEMMA ForceConstants ==
  /\ Window \in Nat /\ Window > 0 /\ Samples \in Nat /\ Samples > 0 /\ MaxVel \in Nat /\ MaxVel > 0
  /\ MaxAcc \in Nat /\ MaxAcc > 0 /\ MaxPower \in Nat /\ MaxPower > 0 /\ Mass \in Nat /\ Mass > 0
  /\ Leash \in Nat /\ Leash > 0 /\ AxisMax \in Nat /\ AxisMax > 0 /\ MoreMass \in Nat
BY ForceAssumption

LEMMA SignMag ==
  ASSUME NEW x \in Int
  PROVE  Sign(x) \in -1..1 /\ Mag(x) \in Nat /\ (x # 0 => Mag(x) > 0)
BY DEF Sign, Mag, Clamp

LEMMA QuotInt ==
  ASSUME NEW x \in Int, NEW y \in Nat, y > 0
  PROVE  Quot(x, y) \in Int
<1>1. Sign(x) \in Int /\ Mag(x) \in Nat
  BY SignMag
<1>2. Mag(x) \div y \in Int
  BY <1>1
<1>3. Sign(x) * (Mag(x) \div y) \in Int
  BY <1>1, <1>2
<1> QED BY <1>3 DEF Quot

LEMMA MinMax ==
  ASSUME NEW a \in Int, NEW b \in Int
  PROVE  /\ Max({a, b}) \in {a, b} /\ Max({a, b}) >= a /\ Max({a, b}) >= b
         /\ Min({a, b}) \in {a, b} /\ Min({a, b}) <= a /\ Min({a, b}) <= b
<1>1. Max({a, b}) \in {a, b} /\ \A y \in {a, b} : Max({a, b}) >= y
  <2>1. \E x \in {a, b} : \A y \in {a, b} : x >= y
    OBVIOUS
  <2> QED BY <2>1 DEF Max
<1>2. Min({a, b}) \in {a, b} /\ \A y \in {a, b} : Min({a, b}) <= y
  <2>1. \E x \in {a, b} : \A y \in {a, b} : x <= y
    OBVIOUS
  <2> QED BY <2>1 DEF Min
<1> QED BY <1>1, <1>2

\* A part of a whole scaled to a range stays in it.
LEMMA Scaled ==
  ASSUME NEW a \in Int, NEW b \in Nat, NEW top \in Nat, b > 0, a \in 0..b
  PROVE  (a * top) \div b \in 0..top
<1>1. a * top \in Nat /\ a * top <= b * top
  BY a \in Nat /\ a <= b
<1>2. b * top = top * b
  OBVIOUS
<1> DEFINE x == a * top
<1>3. x \in Nat /\ x <= top * b
  BY <1>1, <1>2
<1> HIDE DEF x
<1>4. x \div b \in Nat
  BY <1>3
<1>5. ASSUME x \div b >= top + 1 PROVE FALSE
  <2>1. b * (x \div b) <= x
    BY <1>3
  <2>2. b * (x \div b) >= b * (top + 1)
    BY <1>4, <1>5
  <2>3. b * (top + 1) = top * b + b
    OBVIOUS
  <2> QED BY <2>1, <2>2, <2>3, <1>3, <1>4
<1>6. x \div b \in 0..top
  BY <1>4, <1>5
<1> QED BY <1>6 DEF x

LEMMA LeastNat ==
  ASSUME NEW T, T \subseteq Nat, T # {}
  PROVE  \E n \in T : \A x \in T : n <= x
<1> DEFINE Less == {p \in Nat \X Nat : p[1] < p[2]}
<1>1. IsWellFoundedOn(Less, Nat)
  BY NatLessThanWellFounded DEF OpToRel
<1> HIDE DEF Less
<1>2. PICK n \in T : \A y \in T : ~(<<y, n>> \in Less)
  BY <1>1, WFMin
<1>3. \A y \in T : ~(y < n)
  BY <1>2 DEF Less
<1> QED BY <1>3

\* The sums of the first samples of a filter, up to k of them.
Summed(g, k, past) == g[0] = 0 /\ \A n \in 1..k : g[n] = g[n - 1] + past[n]

LEMMA SumsExist ==
  ASSUME NEW past, \A n \in 1..Samples : past[n] \in Int
  PROVE  \E g \in [0..Samples -> Int] : Summed(g, Samples, past)
<1> DEFINE Bad == {k \in 0..Samples : \A g \in [0..k -> Int] : ~Summed(g, k, past)}
<1>0. Samples \in Nat
  BY ForceConstants
<1>1. CASE Bad = {}
  BY <1>0, <1>1
<1>2. CASE Bad # {}
  <2>0. Bad \subseteq Nat
    BY <1>0
  <2>1. PICK k \in Bad : \A x \in Bad : k <= x
    <3> HIDE DEF Bad
    <3> QED BY <2>0, <1>2, LeastNat
  <2>2. k \in 0..Samples /\ \A g \in [0..k -> Int] : ~Summed(g, k, past)
    OBVIOUS
  <2>3. CASE k = 0
    <3>1. [n \in 0..0 |-> 0] \in [0..0 -> Int] /\ Summed([n \in 0..0 |-> 0], 0, past)
      BY DEF Summed
    <3> QED BY <3>1, <2>2, <2>3
  <2>4. CASE k > 0
    <3>1. k - 1 \in 0..Samples /\ k - 1 \notin Bad
      BY <1>0, <2>1, <2>2, <2>4
    <3>2. PICK g \in [0..k - 1 -> Int] : Summed(g, k - 1, past)
      BY <3>1
    <3> DEFINE h == [n \in 0..k |-> IF n < k THEN g[n] ELSE g[k - 1] + past[k]]
    <3>3. past[k] \in Int /\ g[k - 1] \in Int
      BY <1>0, <2>2, <2>4
    <3>4. h \in [0..k -> Int]
      BY <3>3, <2>2
    <3>5. h[0] = 0
      BY <3>2, <2>2, <2>4 DEF Summed
    <3>6. ASSUME NEW n \in 1..k PROVE h[n] = h[n - 1] + past[n]
      <4>1. n \in 0..k /\ n - 1 \in 0..k /\ n - 1 < k
        BY <2>2
      <4>2. h[n - 1] = g[n - 1]
        BY <4>1
      <4>3. CASE n = k
        BY <4>1, <4>2, <4>3
      <4>4. CASE n < k
        <5>1. n \in 1..k - 1 /\ h[n] = g[n]
          BY <4>1, <4>4, <2>2
        <5> QED BY <5>1, <4>2, <3>2 DEF Summed
      <4> QED BY <4>3, <4>4, <2>2
    <3> HIDE DEF h
    <3>7. Summed(h, k, past)
      BY <3>5, <3>6 DEF Summed
    <3> QED BY <3>4, <3>7, <2>2
  <2> QED BY <2>2, <2>3, <2>4
<1> QED BY <1>1, <1>2

\* The average of a filter's samples is a number.
LEMMA MeanInt ==
  ASSUME NEW past, \A n \in 1..Samples : past[n] \in Int
  PROVE  Mean(past) \in Int
<1> DEFINE F(f) == [n \in 0..Samples |-> IF n = 0 THEN 0 ELSE f[n - 1] + past[n]]
           sum == CHOOSE f : f = F(f)
<1>0. Samples \in Nat /\ Samples > 0
  BY ForceConstants
<1>1. sum = F(sum)
  <2>1. PICK g \in [0..Samples -> Int] : Summed(g, Samples, past)
    BY SumsExist
  <2>2. ASSUME NEW n \in 0..Samples PROVE g[n] = F(g)[n]
    <3>1. CASE n = 0
      BY <2>1, <3>1 DEF Summed
    <3>2. CASE n # 0
      <4>1. n \in 1..Samples
        BY <3>2, <1>0
      <4> QED BY <4>1, <2>1, <3>2 DEF Summed
    <3> QED BY <3>1, <3>2
  <2>3. g = F(g)
    BY <2>2
  <2> HIDE DEF F
  <2> QED BY <2>3
<1> HIDE DEF sum
<1>2. sum[0] = 0 /\ \A n \in 1..Samples : sum[n] = sum[n - 1] + past[n]
  <2>1. sum[0] = 0
    <3>1. 0 \in 0..Samples
      BY <1>0
    <3> QED BY <1>1, <3>1
  <2>2. ASSUME NEW n \in 1..Samples PROVE sum[n] = sum[n - 1] + past[n]
    <3>1. n \in 0..Samples /\ n # 0
      BY <1>0
    <3>2. F(sum)[n] = sum[n - 1] + past[n]
      BY <3>1
    <3> QED BY <1>1, <3>2
  <2> QED BY <2>1, <2>2
<1> HIDE DEF F
<1> DEFINE Bad == {k \in 0..Samples : sum[k] \notin Int}
<1>3. Bad = {}
  <2> SUFFICES ASSUME Bad # {} PROVE FALSE
    OBVIOUS
  <2>0. Bad \subseteq Nat
    BY <1>0
  <2>1. PICK k \in Bad : \A x \in Bad : k <= x
    <3> HIDE DEF Bad
    <3> QED BY <2>0, LeastNat
  <2>2. k \in 0..Samples /\ sum[k] \notin Int
    OBVIOUS
  <2>3. k # 0
    BY <1>2, <2>2
  <2>4. k - 1 \in 0..Samples /\ k \in 1..Samples
    BY <1>0, <2>2, <2>3
  <2>5. k - 1 \notin Bad
    BY <2>1, <2>2, <2>4
  <2>6. sum[k - 1] \in Int
    BY <2>4, <2>5
  <2>7. sum[k] = sum[k - 1] + past[k] /\ past[k] \in Int
    BY <1>2, <2>4
  <2> QED BY <2>2, <2>6, <2>7
<1>4. sum[Samples] \in Int
  BY <1>0, <1>3
<1>5. Mean(past) = Quot(sum[Samples], Samples)
  BY DEF Mean, sum, F
<1> QED BY <1>0, <1>4, <1>5, QuotInt

-----------------------------------------------------------------------------
(* What the effects keep from tick to tick                                  *)

Timed == Snaps \cup {"abs", "rpm"}

\* Ages within the window or past it, offsets, and as many samples as a filter has.
EffectsOK(f) ==
  /\ DOMAIN f = FxFields
  /\ f.age \in [Timed -> 0..Old]
  /\ f.absForce \in Int /\ f.absPos \in Int /\ f.rpmPos \in Int
  /\ DOMAIN f.past = Averaged
  /\ \A k \in Averaged : f.past[k] \in Seq(Int) /\ Len(f.past[k]) = Samples

LEMMA Ages == Old \in Nat /\ Old > 0 /\ 0 \in 0..Old
BY ForceConstants DEF Old

LEMMA QuietOK == EffectsOK(QuietFx)
<1>1. [i \in 1..Samples |-> 0] \in Seq(Int) /\ Len([i \in 1..Samples |-> 0]) = Samples
  <2>1. Samples \in Nat
    BY ForceConstants
  <2> QED BY <2>1
<1>2. [k \in Timed |-> Old] \in [Timed -> 0..Old]
  BY Ages
<1>3. DOMAIN QuietFx = FxFields
  BY DEF QuietFx, FxFields
<1>4. /\ QuietFx.age = [k \in Timed |-> Old] /\ QuietFx.absForce = 0 /\ QuietFx.absPos = 0 /\ QuietFx.rpmPos = 0
      /\ QuietFx.past = [k \in Averaged |-> [i \in 1..Samples |-> 0]]
  BY DEF QuietFx, Timed
<1>5. DOMAIN QuietFx.past = Averaged
      /\ \A k \in Averaged : QuietFx.past[k] \in Seq(Int) /\ Len(QuietFx.past[k]) = Samples
  BY <1>1, <1>4
<1>6. QuietFx.age \in [Timed -> 0..Old]
  BY <1>2, <1>4
<1>7. QuietFx.absForce \in Int /\ QuietFx.absPos \in Int /\ QuietFx.rpmPos \in Int
  BY <1>4
<1> QED BY <1>3, <1>5, <1>6, <1>7 DEF EffectsOK

\* A field of the effects is replaced, the others stay.
LEMMA AgeReplaced ==
  ASSUME NEW f, NEW g, EffectsOK(f), DOMAIN g = DOMAIN f, g.age \in [Timed -> 0..Old],
         g.absForce = f.absForce, g.absPos = f.absPos, g.rpmPos = f.rpmPos, g.past = f.past
  PROVE  EffectsOK(g)
BY DEF EffectsOK

LEMMA TriggeredOK ==
  ASSUME NEW f, NEW a, EffectsOK(f)
  PROVE  EffectsOK(Triggered(f, a))
<1> DEFINE g == Triggered(f, a)
<1>1. /\ DOMAIN g = DOMAIN f /\ g.absForce = f.absForce /\ g.absPos = f.absPos
      /\ g.rpmPos = f.rpmPos /\ g.past = f.past
  BY DEF Triggered, EffectsOK, FxFields
<1>2. g.age \in [Timed -> 0..Old]
  <2>1. f.age \in [Timed -> 0..Old] /\ DOMAIN f = FxFields
    BY DEF EffectsOK
  <2>2. "abs" \in Timed /\ "rpm" \in Timed /\ "slip" \in Timed
    BY DEF Timed, Snaps
  <2>3. g.age = [[[f.age EXCEPT !["abs"] = IF a.abs THEN 0 ELSE @] EXCEPT !["rpm"] = 0]
                   EXCEPT !["slip"] = IF a.slip > 0 THEN 0 ELSE @]
    BY <2>1 DEF Triggered, FxFields
  <2> QED BY <2>1, <2>2, <2>3, Ages
<1> QED BY <1>1, <1>2, AgeReplaced

LEMMA AgedOK ==
  ASSUME NEW f, EffectsOK(f)
  PROVE  EffectsOK(Aged(f))
<1> DEFINE g == Aged(f)
<1>1. /\ DOMAIN g = DOMAIN f /\ g.absForce = f.absForce /\ g.absPos = f.absPos
      /\ g.rpmPos = f.rpmPos /\ g.past = f.past /\ g.age = [k \in Timed |-> Min({f.age[k] + 1, Old})]
  BY DEF Aged, EffectsOK, FxFields
<1>2. ASSUME NEW k \in Timed PROVE Min({f.age[k] + 1, Old}) \in 0..Old
  <2>1. f.age[k] \in 0..Old
    BY DEF EffectsOK
  <2>2. f.age[k] + 1 \in Int /\ f.age[k] + 1 > 0 /\ Old \in Int
    BY <2>1, Ages
  <2>3. Min({f.age[k] + 1, Old}) \in {f.age[k] + 1, Old} /\ Min({f.age[k] + 1, Old}) <= Old
    BY <2>2, MinMax
  <2> HIDE DEF EffectsOK
  <2> DEFINE x == f.age[k] + 1  y == Min({x, Old})
  <2> HIDE DEF x
  <2>4. x \in Nat /\ y \in {x, Old} /\ y <= Old
    BY <2>2, <2>3 DEF x
  <2> HIDE DEF y
  <2>5. y \in 0..Old
    BY <2>4, Ages
  <2> QED BY <2>5 DEF x, y
<1>3. g.age \in [Timed -> 0..Old]
  BY <1>1, <1>2
<1> HIDE DEF g
<1>4. EffectsOK(g)
  BY <1>1, <1>3, AgeReplaced
<1> QED BY <1>4 DEF g

LEMMA AmpInt ==
  ASSUME NEW c, Usable(c), NEW k \in Kinds, NEW w \in Int
  PROVE  c.amp[k] \in Int /\ c.amp[k] * w \in Int
<1>1. c.amp[k] \in Int
  BY DEF Usable
<1> QED BY <1>1

LEMMA AbsOK ==
  ASSUME NEW f, NEW c, NEW w \in Int, EffectsOK(f), Usable(c)
  PROVE  EffectsOK(AbsOf(f, c, w))
<1>1. c.amp["abs"] * w \in Int
  BY AmpInt DEF Kinds
<1>2. Decayed(f.absForce, 1) \in Int /\ Decayed(f.absPos, 2) \in Int
  <2>1. f.absForce \in Int /\ f.absPos \in Int /\ 1 \in Int /\ 2 \in Int
    BY DEF EffectsOK
  <2> QED BY <2>1, DecayedInt
<1> DEFINE A == [f EXCEPT !.absForce = Decayed(@, 1), !.absPos = Decayed(@, 2)]
           B == [f EXCEPT !.absForce = IF c.absTravel THEN 0 ELSE c.amp["abs"] * w,
                          !.absPos   = IF c.absTravel THEN c.amp["abs"] * w ELSE 0]
<1>3. EffectsOK(A)
  <2>1. /\ DOMAIN A = DOMAIN f /\ A.age = f.age /\ A.rpmPos = f.rpmPos /\ A.past = f.past
        /\ A.absForce = Decayed(f.absForce, 1) /\ A.absPos = Decayed(f.absPos, 2)
    BY DEF EffectsOK, FxFields
  <2> QED BY <2>1, <1>2 DEF EffectsOK
<1>4. EffectsOK(B)
  <2>1. /\ DOMAIN B = DOMAIN f /\ B.age = f.age /\ B.rpmPos = f.rpmPos /\ B.past = f.past
        /\ B.absForce = (IF c.absTravel THEN 0 ELSE c.amp["abs"] * w)
        /\ B.absPos = (IF c.absTravel THEN c.amp["abs"] * w ELSE 0)
    BY DEF EffectsOK, FxFields
  <2> QED BY <2>1, <1>1 DEF EffectsOK
<1> QED BY <1>3, <1>4 DEF AbsOf

LEMMA RpmOK ==
  ASSUME NEW f, NEW c, NEW a, NEW w \in Int, EffectsOK(f), Usable(c)
  PROVE  EffectsOK(RpmOf(f, c, a, w))
<1>1. c.amp["rpm"] * w \in Int
  BY AmpInt DEF Kinds
<1> DEFINE A == [f EXCEPT !.rpmPos = IF a.rpm = 0 THEN 0 ELSE c.amp["rpm"] * w]
<1>2. /\ DOMAIN A = DOMAIN f /\ A.age = f.age /\ A.past = f.past
      /\ A.absForce = f.absForce /\ A.absPos = f.absPos
      /\ A.rpmPos = IF a.rpm = 0 THEN 0 ELSE c.amp["rpm"] * w
  BY DEF EffectsOK, FxFields
<1>3. EffectsOK(A)
  BY <1>1, <1>2 DEF EffectsOK
<1> QED BY <1>3 DEF RpmOf

LEMMA BiteOK ==
  ASSUME NEW f, NEW c, NEW pos, NEW travel, EffectsOK(f)
  PROVE  EffectsOK(BiteOf(f, c, pos, travel))
<1> DEFINE A == [f EXCEPT !.age["bite"] = 0]
<1>1. /\ DOMAIN A = DOMAIN f /\ A.absForce = f.absForce /\ A.absPos = f.absPos
      /\ A.rpmPos = f.rpmPos /\ A.past = f.past /\ A.age = [f.age EXCEPT !["bite"] = 0]
  BY DEF EffectsOK, FxFields
<1>2. A.age \in [Timed -> 0..Old]
  BY <1>1, Ages DEF EffectsOK
<1>3. EffectsOK(A)
  BY <1>1, <1>2, AgeReplaced
<1> QED BY <1>3 DEF BiteOf

\* The oldest sample of a filter is given up for the new one.
LEMMA PushedOK ==
  ASSUME NEW past \in Seq(Int), Len(past) = Samples, NEW x \in Int
  PROVE  Pushed(past, x) \in Seq(Int) /\ Len(Pushed(past, x)) = Samples
<1>1. Samples \in Nat /\ Samples > 0
  BY ForceConstants
<1>2. past # <<>>
  BY <1>1
<1>3. Tail(past) \in Seq(Int) /\ Len(Tail(past)) = Samples - 1
  BY <1>2, HeadTailProperties
<1>4. Append(Tail(past), x) \in Seq(Int) /\ Len(Append(Tail(past), x)) = Samples - 1 + 1
  BY <1>3, AppendProperties
<1> QED BY <1>1, <1>4 DEF Pushed

LEMMA AveragesOK ==
  ASSUME NEW f, NEW c, NEW a, EffectsOK(f), Usable(c), a.g \in Int, a.road \in Int
  PROVE  EffectsOK(AveragesOf(f, c, a))
<1> DEFINE P == [k \in Averaged |-> Pushed(f.past[k], c.amp[k] * a[k])]
           A == [f EXCEPT !.past = P]
<1>1. ASSUME NEW k \in Averaged PROVE P[k] \in Seq(Int) /\ Len(P[k]) = Samples
  <2>1. a[k] \in Int
    BY DEF Averaged
  <2>2. c.amp[k] * a[k] \in Int
    BY <2>1, AmpInt DEF Kinds
  <2>3. f.past[k] \in Seq(Int) /\ Len(f.past[k]) = Samples
    BY DEF EffectsOK
  <2> QED BY <2>2, <2>3, PushedOK
<1>2. DOMAIN P = Averaged
  OBVIOUS
<1> HIDE DEF P
<1>3. /\ DOMAIN A = DOMAIN f /\ A.age = f.age /\ A.absForce = f.absForce /\ A.absPos = f.absPos
      /\ A.rpmPos = f.rpmPos /\ A.past = P
  BY DEF EffectsOK, FxFields
<1>4. EffectsOK(A)
  BY <1>1, <1>2, <1>3 DEF EffectsOK
<1> QED BY <1>4 DEF AveragesOf, P

\* One tick of the effects: the force they add is a number.
LEMMA EffectsKept ==
  ASSUME NEW f, NEW c, NEW a, NEW force_, NEW pos, NEW travel, NEW w,
         EffectsOK(f), Usable(c), a.g \in Int, a.road \in Int, \A k \in Kinds : w[k] \in Int
  PROVE  /\ Effects(f, c, a, force_, pos, travel, w).force \in Int
         /\ EffectsOK(Effects(f, c, a, force_, pos, travel, w).fx)
<1> DEFINE f1 == AbsOf(f, c, w["abs"])
           f2 == RpmOf(f1, c, a, w["rpm"])
           f3 == BiteOf(f2, c, pos, travel)
           f4 == AveragesOf(f3, c, a)
<1>0. w["abs"] \in Int /\ w["rpm"] \in Int
  BY DEF Kinds
<1>1. EffectsOK(f1)
  BY <1>0, AbsOK
<1>2. EffectsOK(f2)
  <2> HIDE DEF f1
  <2> QED BY <1>0, <1>1, RpmOK
<1>3. EffectsOK(f3)
  <2> HIDE DEF f2
  <2> QED BY <1>2, BiteOK
<1>4. EffectsOK(f4)
  <2> HIDE DEF f3
  <2> QED BY <1>3, AveragesOK
<1>5. CASE ~Allowed(c, force_)
  BY <1>5 DEF Effects
<1>6. CASE Allowed(c, force_)
  <2>1. /\ Effects(f, c, a, force_, pos, travel, w).fx = f4
        /\ Effects(f, c, a, force_, pos, travel, w).force =
             f4.absForce + Mean(f4.past["g"]) + Mean(f4.past["road"])
    BY <1>6 DEF Effects
  <2> HIDE DEF f4
  <2>2. ASSUME NEW k \in Averaged PROVE Mean(f4.past[k]) \in Int
    <3>1. f4.past[k] \in Seq(Int) /\ Len(f4.past[k]) = Samples
      BY <1>4 DEF EffectsOK
    <3>2. \A n \in 1..Samples : f4.past[k][n] \in Int
      BY <3>1
    <3> QED BY <3>2, MeanInt
  <2>3. f4.absForce \in Int /\ Mean(f4.past["g"]) \in Int /\ Mean(f4.past["road"]) \in Int
    BY <1>4, <2>2 DEF EffectsOK, Averaged
  <2>4. f4.absForce + Mean(f4.past["g"]) + Mean(f4.past["road"]) \in Int
    BY <2>3
  <2> QED BY <2>1, <2>4, <1>4
<1> QED BY <1>5, <1>6

-----------------------------------------------------------------------------
(* The step of the model                                                    *)

ModelOK(m) == m \in [pos : Int, vel : -MaxVel..MaxVel, net : Int, extra : 0..MoreMass]

LEMMA SpringInt ==
  ASSUME NEW c, Usable(c), NEW travel \in Nat, NEW pos \in Int
  PROVE  Spring(c, travel, pos) \in Int
<1>1. c.curve \in Seq(Int) /\ Len(c.curve) \in Nat /\ Len(c.curve) >= 1
  BY DEF Usable
<1>2. CASE travel = 0
  <2>1. c.curve[1] \in Int
    BY <1>1
  <2> QED BY <2>1, <1>2 DEF Spring
<1>3. CASE travel > 0
  <2> DEFINE n == Len(c.curve)  x == Clamp(pos, 0, travel)  at == (x * (n - 1)) \div travel
  <2>1. x \in 0..travel
    BY <1>3, ClampInt
  <2>2. n - 1 \in Nat
    BY <1>1
  <2>3. at \in 0..n - 1
    <3> HIDE DEF x, n
    <3> QED BY <1>3, <2>1, <2>2, Scaled
  <2> HIDE DEF at
  <2>4. 1 + at \in 1..Len(c.curve)
    BY <1>1, <2>3
  <2>5. c.curve[1 + at] \in Int
    BY <1>1, <2>4
  <2>6. Spring(c, travel, pos) = c.curve[1 + at]
    BY <1>3 DEF Spring, at
  <2> QED BY <2>5, <2>6
<1> QED BY <1>2, <1>3

LEMMA ReachInt ==
  ASSUME NEW c, Usable(c), NEW travel \in Nat, travel > 0, NEW pos \in Int,
         NEW e, e.offset \in Int, e.force \in Int
  PROVE  Reach(c, travel, pos, e).lo \in Int /\ Reach(c, travel, pos, e).hi \in Int
<1> DEFINE k == Slope(c, travel, pos)
           ext == e.offset + (IF k > 0 THEN Quot(e.force, k) ELSE 0)
<1>1. k \in Int
  <2> DEFINE at == Clamp(pos, 0, travel - 1)
  <2>1. at \in Int
    BY ClampInt
  <2>2. at + 1 \in Int
    BY <2>1
  <2> HIDE DEF at
  <2>3. Spring(c, travel, at) \in Int /\ Spring(c, travel, at + 1) \in Int
    BY <2>1, <2>2, SpringInt
  <2>4. Spring(c, travel, at + 1) - Spring(c, travel, at) \in Int
    BY <2>3
  <2> QED BY <2>4 DEF Slope, at
<1> HIDE DEF k
<1>2. ext \in Int
  <2>1. CASE k > 0
    <3>1. Quot(e.force, k) \in Int
      BY <1>1, <2>1, QuotInt
    <3> QED BY <3>1, <2>1
  <2>2. CASE ~(k > 0)
    BY <2>2
  <2> QED BY <2>1, <2>2
<1>3. Reach(c, travel, pos, e) = [lo |-> Min({ext, 0}), hi |-> travel + Max({ext, 0}) + c.endRange]
  BY DEF Reach, k
<1> HIDE DEF ext
<1>4. Min({ext, 0}) \in Int /\ Max({ext, 0}) \in Int
  <2> DEFINE lo == Min({ext, 0})  hi == Max({ext, 0})
  <2>1. lo \in {ext, 0} /\ hi \in {ext, 0}
    BY <1>2, MinMax
  <2>2. {ext, 0} \subseteq Int
    BY <1>2
  <2> HIDE DEF lo, hi
  <2>3. lo \in Int /\ hi \in Int
    BY <2>1, <2>2
  <2> QED BY <2>3 DEF lo, hi
<1>5. c.endRange \in Int
  BY DEF Usable
<1>6. travel + Max({ext, 0}) + c.endRange \in Int
  BY <1>4, <1>5
<1> QED BY <1>3, <1>4, <1>6

\* The mass that is added stays within what may be added.
LEMMA MassRange ==
  ASSUME NEW m, ModelOK(m), NEW e, NEW oscillates, NEW atEnd
  PROVE  MassOf(m, e, oscillates, atEnd) \in 0..MoreMass
<1> DEFINE x == m.extra
<1>1. x \in 0..MoreMass /\ MoreMass \in Nat
  BY ForceConstants DEF ModelOK
<1> HIDE DEF x
<1>2. Min({x + 1, MoreMass}) \in 0..MoreMass
  <2>1. x + 1 \in Int /\ MoreMass \in Int /\ x + 1 >= 0
    BY <1>1
  <2>2. Min({x + 1, MoreMass}) \in {x + 1, MoreMass} /\ Min({x + 1, MoreMass}) <= MoreMass
    BY <2>1, MinMax
  <2> QED BY <2>1, <2>2, <1>1
<1>3. Max({x - 1, 0}) \in 0..MoreMass
  <2>1. x - 1 \in Int /\ 0 \in Int /\ x - 1 <= MoreMass
    BY <1>1
  <2>2. Max({x - 1, 0}) \in {x - 1, 0} /\ Max({x - 1, 0}) >= 0
    BY <2>1, MinMax
  <2> QED BY <2>1, <2>2, <1>1
<1> QED BY <1>1, <1>2, <1>3 DEF MassOf, x

LEMMA DampingNat ==
  ASSUME NEW c, Usable(c), NEW mass \in Nat, NEW travel \in Nat, NEW pos \in Int
  PROVE  Damping(c, mass, travel, pos) \in Nat
<1>1. CASE travel = 0
  BY <1>1 DEF Damping
<1>2. CASE travel > 0
  <2> DEFINE x == Clamp(pos, 0, travel)
  <2>1. x \in 0..travel
    BY <1>2, ClampInt
  <2>2. c.progression \in Nat
    BY DEF Usable
  <2> HIDE DEF x
  <2>3. c.progression * x \in Nat
    BY <2>1, <2>2
  <2>4. (c.progression * x) \div travel \in Nat
    BY <2>3, <1>2
  <2>5. 2 * mass + (c.progression * x) \div travel \in Nat
    BY <2>4
  <2> QED BY <2>5, <1>2 DEF Damping, x
<1> QED BY <1>1, <1>2

\* Braking is a number, also where it is cut to what the motor can take.
LEMMA BrakedInt ==
  ASSUME NEW mass \in Nat, mass > 0, NEW vel \in Int, NEW acc \in Int
  PROVE  Braked(mass, vel, acc) \in Int
<1>1. CASE acc * vel < 0
  <2>1. vel # 0
    BY <1>1
  <2>2. Mag(vel) \in Nat /\ Mag(vel) > 0
    BY <2>1, SignMag
  <2> DEFINE d == mass * Mag(vel)
  <2>3. d \in Nat /\ d > 0
    BY <2>2
  <2> HIDE DEF d
  <2>4. MaxPower \div d \in Int
    BY <2>3, ForceConstants
  <2> DEFINE q == MaxPower \div d
  <2> HIDE DEF q
  <2>5. Max({1, q}) \in Int
    BY <2>4, MaxInt DEF q
  <2>6. Sign(acc) \in Int
    BY SignMag
  <2>7. Sign(acc) * Max({1, q}) \in Int
    BY <2>5, <2>6
  <2> QED BY <2>7 DEF Braked, q, d
<1>2. CASE ~(acc * vel < 0)
  BY <1>2 DEF Braked
<1> QED BY <1>1, <1>2

\* The model is never faster than the motor.
LEMMA VelocityRange ==
  ASSUME NEW m, ModelOK(m), NEW mass \in Nat, mass > 0, NEW damping \in Nat, NEW net \in Int
  PROVE  Velocity(m, mass, damping, net) \in -MaxVel..MaxVel
<1> DEFINE push   == net + m.net - (damping - 2 * mass) * m.vel
           tustin == Quot(push, 2 * mass + damping)
           acc    == Clamp(tustin - m.vel, -MaxAcc, MaxAcc)
           braked == Braked(mass, m.vel, acc)
<1>1. m.vel \in Int /\ m.net \in Int /\ MaxVel \in Nat /\ MaxAcc \in Nat
  BY ForceConstants DEF ModelOK
<1>2. push \in Int
  <2>1. damping - 2 * mass \in Int
    OBVIOUS
  <2>2. (damping - 2 * mass) * m.vel \in Int
    BY <2>1, <1>1
  <2> QED BY <2>2, <1>1
<1> HIDE DEF push
<1>3. tustin \in Int
  <2>1. 2 * mass + damping \in Nat /\ 2 * mass + damping > 0
    OBVIOUS
  <2> QED BY <2>1, <1>2, QuotInt
<1> HIDE DEF tustin
<1>4. acc \in Int
  <2>1. tustin - m.vel \in Int /\ -MaxAcc \in Int /\ MaxAcc \in Int
    BY <1>1, <1>3
  <2> QED BY <2>1, ClampInt
<1> HIDE DEF acc
<1>5. braked \in Int
  BY <1>1, <1>4, BrakedInt
<1> HIDE DEF braked
<1>6. Clamp(m.vel + braked, -MaxVel, MaxVel) \in -MaxVel..MaxVel
  <2>1. m.vel + braked \in Int /\ -MaxVel \in Int /\ MaxVel \in Int /\ -MaxVel <= MaxVel
    BY <1>1, <1>5
  <2> QED BY <2>1, ClampInt
<1> QED BY <1>6 DEF Velocity, push, tustin, acc, braked

LEMMA BoundedRange ==
  ASSUME NEW pos \in Int, NEW vel \in -MaxVel..MaxVel, NEW r, r.lo \in Int, r.hi \in Int
  PROVE  Bounded(pos, vel, r).pos \in Int /\ Bounded(pos, vel, r).vel \in -MaxVel..MaxVel
<1>1. MaxVel \in Nat /\ vel \in Int
  BY ForceConstants
<1>2. /\ Max({vel, 0}) \in {vel, 0} /\ Min({vel, 0}) \in {vel, 0}
  BY <1>1, MinMax
<1>3. Max({vel, 0}) \in -MaxVel..MaxVel /\ Min({vel, 0}) \in -MaxVel..MaxVel
  BY <1>1, <1>2
<1> QED BY <1>3 DEF Bounded

LEMMA DrawnInt ==
  ASSUME NEW pos \in Int, NEW actual \in Int
  PROVE  Drawn(pos, actual) \in Int
<1> DEFINE apart == actual - pos
<1>1. apart \in Int /\ Sign(apart) \in Int
  BY SignMag
<1>2. apart - Sign(apart) \in Int
  BY <1>1
<1>3. Quot(apart - Sign(apart), Leash) \in Int
  BY <1>2, ForceConstants, QuotInt
<1> HIDE DEF apart
<1> QED BY <1>3 DEF Drawn, apart

\* One step of the model keeps it within the motor's speed and the added mass.
LEMMA IntegratedOK ==
  ASSUME NEW m, ModelOK(m), NEW c, Usable(c), NEW travel \in Nat, NEW force_ \in Int,
         NEW e, e.force \in Int, e.offset \in Int, NEW ph \in Int, NEW oscillates
  PROVE  ModelOK(Integrated(m, c, travel, force_, e, ph, oscillates))
<1> DEFINE actual  == Clamp(ph, 0, travel)
           extra   == MassOf(m, e, oscillates, actual \in {0, travel})
           mass    == Mass + extra
           net     == force_ + e.force - Spring(c, travel, m.pos) - EndForce(c, travel, m.pos) - c.friction * Sign(m.vel)
           damping == Damping(c, mass, travel, m.pos)
           vel     == Velocity(m, mass, damping, net)
           reach   == Reach(c, travel, m.pos, e)
           bounded == Bounded(m.pos + vel, vel, reach)
           pos     == Drawn(bounded.pos, actual)
<1>0. m.pos \in Int /\ m.vel \in Int /\ 0 \in 0..MoreMass /\ 0 \in -MaxVel..MaxVel
  BY ForceConstants DEF ModelOK
<1>1. actual \in Int
  BY ClampInt
<1>2. extra \in 0..MoreMass
  BY MassRange
<1>3. Integrated(m, c, travel, force_, e, ph, oscillates) =
        IF travel = 0 THEN [AtRest EXCEPT !.net = net, !.extra = extra]
        ELSE [pos |-> pos, vel |-> bounded.vel, net |-> net, extra |-> extra]
  BY DEF Integrated
<1> HIDE DEF actual, extra
<1>4. mass \in Nat /\ mass > 0
  BY <1>2, ForceConstants
<1> HIDE DEF mass
<1>5. net \in Int
  <2>1. Spring(c, travel, m.pos) \in Int
    BY <1>0, SpringInt
  <2>2. EndForce(c, travel, m.pos) \in Int
    <3>1. c.endStiff \in Int /\ m.pos - travel \in Int
      BY <1>0 DEF Usable
    <3>2. c.endStiff * (m.pos - travel) \in Int
      BY <3>1
    <3> QED BY <3>2 DEF EndForce
  <2>3. c.friction * Sign(m.vel) \in Int
    <3>1. c.friction \in Int /\ Sign(m.vel) \in Int
      BY <1>0, SignMag DEF Usable
    <3> QED BY <3>1
  <2> QED BY <2>1, <2>2, <2>3
<1> HIDE DEF net
<1>6. damping \in Nat
  BY <1>0, <1>4, DampingNat
<1> HIDE DEF damping
<1>7. vel \in -MaxVel..MaxVel
  BY <1>4, <1>5, <1>6, VelocityRange
<1> HIDE DEF vel
<1>8. CASE travel = 0
  <2>1. Integrated(m, c, travel, force_, e, ph, oscillates) = [pos |-> 0, vel |-> 0, net |-> net, extra |-> extra]
    BY <1>3, <1>8 DEF AtRest
  <2> QED BY <2>1, <1>0, <1>2, <1>5 DEF ModelOK
<1>9. CASE travel > 0
  <2>1. reach.lo \in Int /\ reach.hi \in Int
    BY <1>0, <1>9, ReachInt
  <2> HIDE DEF reach
  <2>2. m.pos + vel \in Int
    BY <1>0, <1>7, ForceConstants
  <2>3. bounded.pos \in Int /\ bounded.vel \in -MaxVel..MaxVel
    BY <1>7, <2>1, <2>2, BoundedRange
  <2> HIDE DEF bounded
  <2>4. pos \in Int
    BY <1>1, <2>3, DrawnInt
  <2> HIDE DEF pos
  <2> QED BY <1>2, <1>3, <1>5, <1>9, <2>3, <2>4 DEF ModelOK
<1> QED BY <1>8, <1>9

LEMMA FilteredInt ==
  ASSUME NEW c, Usable(c), NEW before \in Int, NEW raw \in Int
  PROVE  Filtered(c, before, raw) \in Int
<1>1. raw - before \in Int /\ 2 \in Nat /\ 2 > 0
  OBVIOUS
<1>2. Quot(raw - before, 2) \in Int
  BY <1>1, QuotInt
<1>3. before + Quot(raw - before, 2) + (IF Mag(raw - before) = 1 THEN raw - before ELSE 0) \in Int
  BY <1>1, <1>2
<1> QED BY <1>3 DEF Filtered

\* The axis never leaves its range, whatever the configuration asks for.
LEMMA AxisRange ==
  ASSUME NEW m, m.pos \in Int, NEW c, Usable(c), NEW travel \in Nat, NEW force_ \in Int
  PROVE  Axis(m, c, travel, force_) \in 0..AxisMax
<1> DEFINE byTravel == (Clamp(m.pos, 0, travel) * AxisMax) \div travel
           byForce  == (Clamp(force_ - c.min, 0, c.max - c.min) * AxisMax) \div (c.max - c.min)
           shown    == IF c.travelAxis THEN IF travel = 0 THEN 0 ELSE byTravel
                       ELSE IF c.max > c.min THEN byForce ELSE 0
<1>1. c.min \in Int /\ c.max \in Int /\ c.gameMax \in Nat /\ AxisMax \in Nat
  BY ForceConstants DEF Usable
<1>2. travel # 0 => byTravel \in 0..AxisMax
  <2>1. SUFFICES ASSUME travel > 0 PROVE byTravel \in 0..AxisMax
    OBVIOUS
  <2> DEFINE x == Clamp(m.pos, 0, travel)
  <2>2. x \in 0..travel
    <3> DEFINE y == m.pos
    <3>1. y \in Int /\ 0 \in Int /\ travel \in Int /\ 0 <= travel
      BY <2>1
    <3> HIDE DEF y
    <3>2. Clamp(y, 0, travel) \in 0..travel
      BY <3>1, ClampInt
    <3> QED BY <3>2 DEF y
  <2> HIDE DEF x
  <2>3. (x * AxisMax) \div travel \in 0..AxisMax
    BY <1>1, <2>1, <2>2, Scaled
  <2> QED BY <2>3 DEF x
<1>3. c.max > c.min => byForce \in 0..AxisMax
  <2>1. SUFFICES ASSUME c.max > c.min PROVE byForce \in 0..AxisMax
    OBVIOUS
  <2> DEFINE x == Clamp(force_ - c.min, 0, c.max - c.min)
             d == c.max - c.min
  <2>2. d \in Nat /\ d > 0 /\ force_ - c.min \in Int
    BY <1>1, <2>1
  <2>3. x \in 0..d
    <3> HIDE DEF d
    <3> DEFINE y == force_ - c.min
    <3>1. y \in Int /\ 0 \in Int /\ d \in Int /\ 0 <= d
      BY <2>2
    <3> HIDE DEF y
    <3>2. Clamp(y, 0, d) \in 0..d
      BY <3>1, ClampInt
    <3> QED BY <3>2 DEF d, y
  <2> HIDE DEF x, d
  <2>4. (x * AxisMax) \div d \in 0..AxisMax
    BY <1>1, <2>2, <2>3, Scaled
  <2> QED BY <2>4 DEF x, d
<1> HIDE DEF byTravel, byForce
<1>4. shown \in 0..AxisMax
  BY <1>1, <1>2, <1>3
<1>5. Axis(m, c, travel, force_) = Min({(shown * c.gameMax) \div 100, AxisMax})
  BY DEF Axis, byTravel, byForce
<1> HIDE DEF shown
<1> DEFINE x == (shown * c.gameMax) \div 100
<1>6. x \in Nat
  <2>1. shown * c.gameMax \in Nat
    BY <1>1, <1>4
  <2> QED BY <2>1
<1> HIDE DEF x
<1>7. Min({x, AxisMax}) \in {x, AxisMax} /\ Min({x, AxisMax}) <= AxisMax
  BY <1>1, <1>6, MinMax
<1>8. Min({x, AxisMax}) \in 0..AxisMax
  BY <1>1, <1>6, <1>7
<1> QED BY <1>5, <1>8 DEF x

-----------------------------------------------------------------------------
(* The types                                                                *)

NumbersInv ==
  /\ servo \in [armed : BOOLEAN, identified : BOOLEAN]
  /\ env = Unhomed \/ (env \in Envelopes /\ WellFormed(env))
  /\ act \in Actions \cup {NoAction}
  /\ force \in Int /\ hand \in Int
  /\ ModelOK(model) /\ EffectsOK(fx)
  /\ drive.lo \in 0..Word - 1 /\ drive.hi \in 0..Word - 1 /\ drive.pos \in -Rail..Rail

\* What a line of the host carries is one of the host's.
LEMMA HostLinesCarry ==
  ASSUME NEW l \in HostLines
  PROVE  /\ l.op = "@HOME" => l.arg \in Envelopes
         /\ l.op = "@ACT" => l.arg \in Actions
<1>1. PICK k \in {"act", "cfg", "home", "arm", "disarm", "ota"} : l \in Lines(k)
  BY DEF HostLines
<1>2. CASE k = "act"
  BY <1>1, <1>2 DEF Lines, Line
<1>3. CASE k = "home"
  BY <1>1, <1>3 DEF Lines, Line
<1>4. CASE k \in {"cfg", "arm", "disarm", "ota"}
  BY <1>1, <1>4 DEF Lines, Line
<1> QED BY <1>1, <1>2, <1>3, <1>4

\* A travel is a number of steps, none before the pedal is homed.
LEMMA TravelNat ==
  ASSUME NEW e, e = Unhomed \/ (e \in Envelopes /\ WellFormed(e))
  PROVE  e.softMax - e.softMin \in Nat
<1>1. CASE e = Unhomed
  BY <1>1 DEF Unhomed
<1>2. CASE e \in Envelopes /\ WellFormed(e)
  <2>1. e.softMin \in Int /\ e.softMax \in Int
    BY <1>2, EnvelopeAssumption, EnvelopeFields, i32Int
  <2> QED BY <1>2, <2>1 DEF WellFormed
<1> QED BY <1>1, <1>2

LEMMA ActionNumbers ==
  ASSUME NEW a \in Actions \cup {NoAction}
  PROVE  a.slip \in Int /\ a.g \in Int /\ a.road \in Int
BY ActionAssumption DEF NoAction

LEMMA RestOK == ModelOK(AtRest)
BY ForceConstants DEF ModelOK, AtRest

LEMMA InitNumbers == Init => NumbersInv
<1> SUFFICES ASSUME Init PROVE NumbersInv
  OBVIOUS
<1>1. PICK s \in Scenarios :
        /\ Boot(s.cfg) /\ env = s.env /\ hand = 0
        /\ servo = [armed |-> s.armed, identified |-> s.armed]
        /\ drive = [lo |-> 0, hi |-> 0, pos |-> 0]
  BY DEF Init
<1>2. s.armed \in BOOLEAN /\ (s.env = Unhomed \/ (s.env \in Envelopes /\ WellFormed(s.env)))
  BY ScenarioAssumption
<1>3. ModelOK(model) /\ EffectsOK(fx) /\ act = NoAction /\ force = 0
  BY <1>1, RestOK, QuietOK DEF Boot
<1>4. drive.lo \in 0..Word - 1 /\ drive.hi \in 0..Word - 1 /\ drive.pos \in -Rail..Rail
  BY <1>1, WordAssumption, RailAssumption
<1> QED BY <1>1, <1>2, <1>3, <1>4 DEF NumbersInv

\* A command keeps the numbers; re-homing moves the model with its travel.
LEMMA CommandNumbers ==
  ASSUME IInv, NumbersInv, NEW l \in HostLines, Command(l) \/ BeginOta(l) \/ Unknown(l),
         UNCHANGED <<servoVars, hand>>
  PROVE  NumbersInv'
<1>0. UNCHANGED <<servo, drive, hand>>
  BY DEF servoVars
<1>1. CASE Arm(l) \/ Disarm(l) \/ BeginOta(l) \/ Unknown(l)
  <2>1. UNCHANGED <<env, ctlVars>>
    BY <1>1 DEF Arm, Disarm, BeginOta, Unknown, armVars
  <2> QED BY <1>0, <2>1 DEF NumbersInv, ctlVars
<1>2. CASE Home(l)
  <2>1. CASE ~WellFormed(l.arg)
    <3>1. UNCHANGED <<env, act, force, model, fx>>
      BY <1>2, <2>1 DEF Home
    <3> QED BY <1>0, <3>1 DEF NumbersInv
  <2>2. CASE WellFormed(l.arg)
    <3>1. l.arg \in Envelopes
      BY <1>2, HostLinesCarry DEF Home
    <3> DEFINE t == l.arg.softMax - l.arg.softMin
               p == IF Travel = 0 THEN 0 ELSE Quot(model.pos * t, Travel)
    <3>2. env' = l.arg /\ model' = [model EXCEPT !.pos = p] /\ UNCHANGED <<act, force, fx>>
      BY <1>2, <2>2 DEF Home
    <3>3. t \in Int /\ Travel \in Nat
      BY <2>2, <3>1, TravelNat DEF NumbersInv, Travel
    <3>4. p \in Int
      <4> HIDE DEF t
      <4>1. CASE Travel = 0
        BY <4>1
      <4>2. CASE Travel > 0
        <5>1. model.pos * t \in Int
          <6>1. model.pos \in Int
            BY DEF NumbersInv, ModelOK
          <6> QED BY <6>1, <3>3
        <5> QED BY <3>3, <4>2, <5>1, QuotInt
      <4> QED BY <3>3, <4>1, <4>2
    <3> HIDE DEF p
    <3>5. ModelOK(model')
      BY <3>2, <3>4 DEF NumbersInv, ModelOK
    <3> QED BY <1>0, <2>2, <3>1, <3>2, <3>5 DEF NumbersInv
  <2> QED BY <2>1, <2>2
<1>3. CASE Configure(l)
  BY <1>0, <1>3 DEF Configure, armVars, NumbersInv
<1>4. CASE Act(l)
  <2>1. l.arg \in Actions
    BY <1>4, HostLinesCarry DEF Act
  <2>2. fx' = Triggered(fx, l.arg) /\ act' = l.arg /\ UNCHANGED <<env, force, model>>
    BY <1>4 DEF Act, armVars
  <2>3. EffectsOK(fx')
    BY <2>2, TriggeredOK DEF NumbersInv
  <2> QED BY <1>0, <2>1, <2>2, <2>3 DEF NumbersInv
<1> QED BY <1>1, <1>2, <1>3, <1>4 DEF Command

LEMMA TickNumbers ==
  ASSUME IInv, NumbersInv, Tick
  PROVE  NumbersInv'
<1>1. PICK wave \in [{k \in Kinds \ Averaged : cfg.amp[k] > 0} -> {-1, 1}], osc \in BOOLEAN :
       LET w   == [k \in Kinds |-> IF k \in DOMAIN wave THEN wave[k] ELSE 0]
           f   == Filtered(cfg, force, hand)
           e   == Effects(Aged(fx), cfg, act, f, model.pos, Travel, w)
           m   == Integrated(model, cfg, Travel, f, e, phys, osc)
       IN  force' = f /\ fx' = e.fx /\ model' = m
  BY DEF Tick
<1> DEFINE w == [k \in Kinds |-> IF k \in DOMAIN wave THEN wave[k] ELSE 0]
           f == Filtered(cfg, force, hand)
           e == Effects(Aged(fx), cfg, act, f, model.pos, Travel, w)
           m == Integrated(model, cfg, Travel, f, e, phys, osc)
<1>2. force' = f /\ fx' = e.fx /\ model' = m
  BY <1>1
<1>3. UNCHANGED <<env, act, servo, drive, hand>>
  BY DEF Tick, armVars, servoVars
<1>4. \A k \in Kinds : w[k] \in Int
  OBVIOUS
<1>5. f \in Int
  BY FilteredInt DEF IInv, DataInv, NumbersInv
<1>6. act.slip \in Int /\ act.g \in Int /\ act.road \in Int /\ Usable(cfg) /\ phys \in Int
  BY ActionNumbers DEF IInv, DataInv, NumbersInv
<1>7. EffectsOK(Aged(fx)) /\ Offsets(Aged(fx))
  BY AgedOK DEF NumbersInv, EffectsOK, Offsets
<1> HIDE DEF w, f
<1>8. e.force \in Int /\ EffectsOK(e.fx) /\ e.offset \in Int
  BY <1>4, <1>6, <1>7, EffectsKept, EffectsInt
<1>9. Travel \in Nat
  BY TravelNat DEF NumbersInv, Travel
<1> HIDE DEF e
<1>10. ModelOK(m)
  BY <1>5, <1>6, <1>8, <1>9, IntegratedOK DEF NumbersInv
<1> HIDE DEF m
<1> QED BY <1>2, <1>3, <1>5, <1>8, <1>10 DEF NumbersInv

LEMMA HalfRange ==
  ASSUME NEW t \in Int
  PROVE  Low(t) \in 0..Word - 1 /\ High(t) \in 0..Word - 1
<1>1. t \div Word \in Int
  BY Divided
<1>2. t % Word \in 0..Word - 1 /\ (t \div Word) % Word \in 0..Word - 1
  BY <1>1, WordAssumption
<1> QED BY <1>2 DEF Low, High

\* A register holds the half that is written to it, or what it held.
LEMMA SendNumbers ==
  ASSUME IInv, NumbersInv, SendTarget
  PROVE  NumbersInv'
<1>1. ASSUME NEW here \in {"lo", "hi", "move"}, NEW value \in Int, NEW next, WriteAnd(here, here, value, next),
             here \in {"lo", "hi"} => value \in 0..Word - 1
      PROVE  NumbersInv'
  <2>1. Transact(here, value, next, "usb") /\ UNCHANGED <<armVars, ctlVars, servo, hand>>
    BY <1>1 DEF WriteAnd
  <2>2. PICK reaches \in BOOLEAN : drive' = IF reaches THEN Executed(here, value) ELSE drive
    BY <2>1 DEF Transact
  <2>3. /\ drive \in [lo : Int, hi : Int, pos : Int]
        /\ drive.lo \in 0..Word - 1 /\ drive.hi \in 0..Word - 1 /\ drive.pos \in -Rail..Rail
    BY DEF IInv, DataInv, NumbersInv
  <2>4. Clamp(drive.pos + Both(drive), -Rail, Rail) \in -Rail..Rail
    BY <2>3, BothInt, MovedWithin
  <2> DEFINE did == Executed(here, value)
  <2>5. did.lo \in 0..Word - 1 /\ did.hi \in 0..Word - 1 /\ did.pos \in -Rail..Rail
    BY <1>1, <2>3, <2>4 DEF Executed
  <2> HIDE DEF did
  <2>6. drive'.lo \in 0..Word - 1 /\ drive'.hi \in 0..Word - 1 /\ drive'.pos \in -Rail..Rail
    BY <2>2, <2>3, <2>5 DEF did
  <2> QED BY <2>1, <2>6 DEF NumbersInv, armVars, ctlVars
<1>2. out \in Int /\ 1 \in Int
  BY DEF IInv, DataInv
<1>3. Low(out) \in 0..Word - 1 /\ High(out) \in 0..Word - 1 /\ Low(out) \in Int /\ High(out) \in Int
  BY <1>2, HalfRange, HalfInt
<1>4. CASE WriteAnd("lo", "lo", Low(out), "hi")
  BY <1>1, <1>3, <1>4
<1>5. CASE WriteAnd("hi", "hi", High(out), "move")
  BY <1>1, <1>3, <1>5
<1>6. CASE WriteAnd("move", "move", 1, "usb")
  BY <1>1, <1>2, <1>6
<1> QED BY <1>4, <1>5, <1>6 DEF SendTarget

LEMMA NextNumbers == IInv /\ NumbersInv /\ [Next]_vars => NumbersInv'
<1> SUFFICES ASSUME IInv, NumbersInv, [Next]_vars PROVE NumbersInv'
  OBVIOUS
<1>1. CASE UsbLine
  <2>1. Head(batch) \in HostLines
    BY <1>1, QueueSteps DEF UsbLine, IInv, DataInv
  <2>2. (Command(Head(batch)) \/ BeginOta(Head(batch))) /\ UNCHANGED <<servoVars, hand>>
    BY <1>1 DEF UsbLine
  <2> QED BY <2>1, <2>2, CommandNumbers
<1>2. CASE WifiLine
  <2>1. Head(wifiq) \in HostLines
    BY <1>2, QueueSteps DEF WifiLine, IInv, DataInv
  <2>2. (Command(Head(wifiq)) \/ Unknown(Head(wifiq))) /\ UNCHANGED <<servoVars, hand>>
    BY <1>2 DEF WifiLine
  <2> QED BY <2>1, <2>2, CommandNumbers
<1>3. CASE TakeUsb \/ CheckUpdate \/ WifiThread \/ Host \/ UNCHANGED vars
  <2>1. UNCHANGED <<armVars, ctlVars, servoVars, hand>>
    BY <1>3 DEF TakeUsb, CheckUpdate, WifiThread, PullBegins, PullEnds, AroundWifi, Host, vars
  <2> QED BY <2>1 DEF NumbersInv, armVars, ctlVars, servoVars
<1>4. CASE Tick
  BY <1>4, TickNumbers
<1>5. CASE SendTarget
  BY <1>5, SendNumbers
<1>6. CASE Bench
  <2>1. UNCHANGED <<armVars, ctlVars, drive, hand>>
    BY <1>6 DEF Bench
  <2>2. servo' \in [armed : BOOLEAN, identified : BOOLEAN]
    BY <1>6 DEF Bench, NumbersInv
  <2> QED BY <2>1, <2>2 DEF NumbersInv, armVars, ctlVars
<1>7. CASE Push
  <2>1. UNCHANGED <<armVars, ctlVars, servoVars>> /\ hand' \in Int
    BY <1>7, ForcesAssumption DEF Push
  <2> QED BY <2>1 DEF NumbersInv, armVars, ctlVars, servoVars
<1>8. CASE Reset
  <2>1. /\ env' = Unhomed /\ fx' = QuietFx /\ act' = NoAction /\ model' = AtRest /\ force' = 0
        /\ servo' = [armed |-> FALSE, identified |-> FALSE] /\ UNCHANGED <<drive, hand>>
    BY <1>8 DEF Reset
  <2>2. ModelOK(model') /\ EffectsOK(fx')
    BY <2>1, RestOK, QuietOK
  <2> QED BY <2>1, <2>2 DEF NumbersInv
<1> QED BY <1>1, <1>2, <1>3, <1>4, <1>5, <1>6, <1>7, <1>8 DEF Next, MainLoop

-----------------------------------------------------------------------------
(* Results                                                                  *)

\* A move is never to the low half of one target with the high half of
\* another, whatever the serial line loses or delays (send_target).
THEOREM TargetsWhole == Spec => []MovesWhole
<1>1. IInv => MovesWhole
  BY DEF IInv
<1> QED BY <1>1, Invariant, PTL

\* The numbers stay in their ranges: the model is never faster than the motor
\* nor heavier than it may get, ages stay within the window, the registers hold
\* words, and the axis keeps to its 16 bits for every configuration, effect and
\* re-homing (admittance.rs, effects.rs, axis_from_fraction).
THEOREM NumbersInRange == Spec => []TypeOK
<1>1. Init => IInv /\ NumbersInv
  BY InitInv, InitNumbers
<1>2. IInv /\ NumbersInv /\ [Next]_vars => (IInv /\ NumbersInv)'
  BY NextInv, NextNumbers
<1>3. IInv /\ NumbersInv => TypeOK
  <2> SUFFICES ASSUME IInv, NumbersInv PROVE TypeOK
    OBVIOUS
  <2>1. /\ model.pos \in Int /\ model.vel \in -MaxVel..MaxVel /\ model.net \in Int /\ model.extra \in 0..MoreMass
        /\ model.vel \in Int
    BY ForceConstants DEF NumbersInv, ModelOK
  <2>2. Axis(model, cfg, Travel, force) \in 0..AxisMax
    <3>1. Travel \in Nat
      BY TravelNat DEF NumbersInv, Travel
    <3> QED BY <2>1, <3>1, AxisRange DEF IInv, DataInv, NumbersInv
  <2>3. fx.age \in [Snaps \cup {"abs", "rpm"} -> 0..Old]
    BY DEF NumbersInv, EffectsOK, Timed
  <2>4. /\ pc \in {"usb", "wifi", "tick", "lo", "hi", "move"}
        /\ {homed, armed, ota, pull, servo.armed, servo.identified} \subseteq BOOLEAN
        /\ env \in Envelopes \cup {Unhomed} /\ act \in Actions \cup {NoAction}
    BY DEF IInv, DataInv, NumbersInv
  <2>5. {force, phys, out, model.pos, model.vel, model.net} \subseteq Int /\ drive.pos \in -Rail..Rail
    BY <2>1 DEF IInv, DataInv, NumbersInv
  <2>6. {drive.lo, drive.hi} \subseteq 0..Word - 1
    BY DEF NumbersInv
  <2> QED BY <2>1, <2>2, <2>3, <2>4, <2>5, <2>6 DEF TypeOK
<1> QED BY <1>1, <1>2, <1>3, PTL DEF Spec

\* The loop asks for a move only of a pedal that is homed and armed, and only
\* when the registers of the drive hold a number within the hard limits in force
\* (Runtime, send_target).
THEOREM MovesAllowed == Spec => []WithinEnvelope
<1>1. IInv /\ TypeOK => WithinEnvelope
  BY InRange DEF IInv, TargetInv, WithinEnvelope
<1> QED BY <1>1, Invariant, NumbersInRange, PTL
=============================================================================
