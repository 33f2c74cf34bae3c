------------------------ MODULE HandbrakeHost_proofs ------------------------
(***************************************************************************)
(* Proofs about the handbrake: the idle tracking of the device, and the    *)
(* dialogue between the dashboard's thread and the device.                 *)
(***************************************************************************)
EXTENDS HandbrakeHost, WellFoundedInduction, TLAPS

\* A quarter of a residue: towards it, and no further than a quarter.
LEMMA QuarterBounds ==
  ASSUME NEW d \in Int
  PROVE  /\ Quarter(d) \in Int
         /\ d >= 0 => 0 <= Quarter(d) /\ 4 * Quarter(d) <= d
         /\ d <= 0 => d <= 4 * Quarter(d) /\ Quarter(d) <= 0
<1>1. CASE d >= 0
  BY <1>1 DEF Quarter
<1>2. CASE ~(d >= 0)
  <2>1. -d \in Nat
    BY <1>2
  <2>2. (-d) \div 4 \in Nat /\ 4 * ((-d) \div 4) <= -d
    BY <2>1
  <2> QED BY <1>2, <2>2 DEF Quarter
<1> QED BY <1>1, <1>2

\* What observe may move: the idle point stays on its side of the maximum, the
\* range keeps 47 of its 48 parts and grows by one at most, and maximum,
\* deadzones and the calibrated flag are left alone (autozero.rs 31-63).
THEOREM TrackingKeepsRange ==
  ASSUME NEW r \in Int, pending \in Calibrations, AutoZero(r)
  PROVE  /\ pending' = [pending EXCEPT !.idle = pending'.idle]
         /\ pending'.idle \in Int
         /\ pending.idle < pending.max <=> pending'.idle < pending'.max
         /\ pending'.idle # pending'.max
         /\ 47 * Span(pending) <= 48 * Span(pending')
         /\ 48 * Span(pending') <= 49 * Span(pending)
<1> DEFINE i == pending.idle
           m == pending.max
           s == Span(pending)
           q == Quarter(r - i)
<1>1. i \in Int /\ m \in Int
  BY DEF Calibrations
<1>2. s \in Nat /\ s # 0 /\ (s = m - i \/ s = i - m) /\ (m >= i <=> s = m - i)
  BY <1>1 DEF AutoZero, Span
<1>3. 12 * (s \div 12) <= s /\ s \div 12 \in Nat
  BY <1>2
<1>4. Distance(r, i) <= s \div 12 /\ Distance(r, i) \in Nat
  BY <1>1 DEF AutoZero, Distance
<1>5. q \in Int /\ 4 * q <= Distance(r, i) /\ -(4 * q) <= Distance(r, i)
  <2>1. r - i \in Int
    BY <1>1
  <2> QED BY <2>1, <1>1, QuarterBounds DEF Distance
<1>6. 48 * q <= s /\ -(48 * q) <= s
  BY <1>2, <1>3, <1>4, <1>5
<1>7. pending' = [pending EXCEPT !.idle = i + q]
  BY DEF AutoZero, Nudged
<1>8. pending'.idle = i + q /\ pending'.max = m
  BY <1>7 DEF Calibrations
<1>9. Span(pending') = IF m >= i + q THEN m - (i + q) ELSE (i + q) - m
  BY <1>8 DEF Span
<1>10. /\ i < m <=> i + q < m
       /\ i + q # m
  BY <1>1, <1>2, <1>5, <1>6
<1>11. 47 * s <= 48 * Span(pending') /\ 48 * Span(pending') <= 49 * s
  BY <1>1, <1>2, <1>5, <1>6, <1>9, <1>10
<1>12. pending' = [pending EXCEPT !.idle = pending'.idle] /\ pending'.idle \in Int
  BY <1>1, <1>5, <1>7, <1>8
<1> QED BY <1>8, <1>10, <1>11, <1>12
------------------------------------------------------------------------------
(***************************************************************************)
(* The extremes of a set of readings.                                      *)
(***************************************************************************)
LEMMA NatHasMin ==
  ASSUME NEW T, T \subseteq Nat, T # {}
  PROVE  \E m \in T : \A x \in T : m <= x
<1> DEFINE Less == {p \in Nat \X Nat : p[1] < p[2]}
<1>1. IsWellFoundedOn(Less, Nat)
  BY NatLessThanWellFounded DEF OpToRel
<1> HIDE DEF Less
<1>2. PICK m \in T : \A y \in T : ~(<<y, m>> \in Less)
  BY <1>1, WFMin
<1>3. \A y \in T : ~(y < m)
  BY <1>2 DEF Less
<1> QED BY <1>3

LEMMA ConversionBounded ==
  \E k \in Nat : \A c \in Conversion : c \in Int /\ -k <= c /\ c <= k
<1>1. HalfScale \in Nat
  BY SMT DEF HalfScale
<1>2. \A c \in Conversion : c \in Int /\ -HalfScale <= c /\ c <= HalfScale
  BY <1>1 DEF Conversion
<1> QED BY <1>1, <1>2

LEMMA MinOfReadings ==
  ASSUME NEW S, S \subseteq Conversion, S # {}
  PROVE  Min(S) \in S /\ \A x \in S : Min(S) <= x
<1>1. PICK k \in Nat : \A c \in Conversion : c \in Int /\ -k <= c /\ c <= k
  BY ConversionBounded
<1>2. \A x \in S : x \in Int /\ -k <= x
  BY <1>1
<1> DEFINE T == {x + k : x \in S}
<1>3. T \subseteq Nat /\ T # {}
  BY <1>2
<1> HIDE DEF T
<1>4. PICK t \in T : \A u \in T : t <= u
  BY <1>3, NatHasMin
<1>5. PICK m \in S : t = m + k
  BY DEF T
<1>6. ASSUME NEW x \in S PROVE m <= x
  <2>1. x + k \in T
    BY DEF T
  <2> QED BY <1>2, <1>4, <1>5, <2>1
<1> QED BY <1>6 DEF Min

LEMMA MaxOfReadings ==
  ASSUME NEW S, S \subseteq Conversion, S # {}
  PROVE  Max(S) \in S /\ \A x \in S : x <= Max(S)
<1>1. PICK k \in Nat : \A c \in Conversion : c \in Int /\ -k <= c /\ c <= k
  BY ConversionBounded
<1>2. \A x \in S : x \in Int /\ x <= k
  BY <1>1
<1> DEFINE T == {k - x : x \in S}
<1>3. T \subseteq Nat /\ T # {}
  BY <1>2
<1> HIDE DEF T
<1>4. PICK t \in T : \A u \in T : t <= u
  BY <1>3, NatHasMin
<1>5. PICK m \in S : t = k - m
  BY DEF T
<1>6. ASSUME NEW x \in S PROVE m >= x
  <2>1. k - x \in T
    BY DEF T
  <2> QED BY <1>2, <1>4, <1>5, <2>1
<1>7. Max(S) \in S /\ \A x \in S : Max(S) >= x
  BY <1>6 DEF Max
<1> QED BY <1>2, <1>7

------------------------------------------------------------------------------
(***************************************************************************)
(* The invariant.  Linked holds always; the rest as long as no reply has   *)
(* come late.                                                              *)
(***************************************************************************)
Waiting == pc \in Waits

Linked ==
  /\ live => plugged
  /\ Waiting => open
  /\ connected <=> open /\ pc # "cap"
  /\ pc = "setidle" => learn.seen # {}
  /\ pc \in {"command", "refresh"} => cur \in Outbound /\ cur.op \in {"setfeel", "save", "cancel", "reset", "wifi"}

\* One line at most is out for each reply given up, and one for the wait.
Room == Len(cmds) + Len(lines) <= IF Waiting /\ live THEN late + 1 ELSE late

\* What the thread waits for an answer to.
Due == CASE pc = "cap" -> "cap"
         [] pc \in {"hello", "alive", "refresh", "learned"} -> "status"
         [] pc = "command" -> cur.op
         [] OTHER -> pc

Fits(r) == CASE Due = "cap"    -> r = CapOk
             [] Due = "status" -> r = StatusOk
             [] OTHER          -> r.about = "plain"

OneOut ==
  \/ lines = <<>> /\ \E c \in Wire : cmds = <<c>> /\ c.op = Due
  \/ cmds = <<>> /\ \E r \in Replies : lines = <<r>> /\ Fits(r)

Dialogue ==
  /\ ~live => Quiet
  /\ live => open
  /\ live /\ pc = "loop" => Quiet
  /\ live /\ Waiting => OneOut

\* The status has been shown since the calibration changed last.
Clean == shown = Visible(pending)

ShownInv ==
  /\ pc \in {"loop", "alive", "setidle"} /\ connected => Clean
  /\ pc = "setmax" /\ (cmds # <<>> \/ ~lines[1].ok) => Clean
  /\ pc = "command" /\ (cmds # <<>> \/ cur.op \in {"wifi", "save"}) => Clean

SavedInv ==
  cur.op = "save" /\ (pc = "refresh" \/ (pc = "command" /\ cmds = <<>> /\ lines[1].ok))
    => Visible(pending) = Visible(nvs)

PageInv == connected /\ pc # "hello" => page # "Connect"

InStep == Dialogue /\ (live => ShownInv /\ SavedInv /\ PageInv)

\* TypeOK, without the bound on the queues, which Linked implies.
DataOK ==
  /\ pending \in Stored /\ saved \in Stored /\ nvs \in Stored /\ shown \in Shown
  /\ cmds \in Seq(Wire) /\ lines \in Seq(Replies)

HostOK ==
  /\ plugged \in BOOLEAN /\ open \in BOOLEAN /\ live \in BOOLEAN /\ viewed \in BOOLEAN
  /\ connected \in BOOLEAN /\ flashing \in BOOLEAN /\ fetching \in BOOLEAN
  /\ pc \in Waits \cup {"loop"} /\ cur \in Outbound \cup {NoCmd} /\ slot \in Outbound \cup {NoCmd}
  /\ learn \in [active : BOOLEAN, first : Raw, seen : SUBSET Raw]
  /\ page \in Pages
  /\ late \in 0..MaxLate /\ unplugs \in 0..MaxUnplugs /\ updates \in 0..MaxUpdates /\ presses \in 0..MaxPresses

IInv == DataOK /\ HostOK /\ Linked /\ Room /\ (late = 0 => InStep)

------------------------------------------------------------------------------
(***************************************************************************)
(* The values the variables hold.                                          *)
(***************************************************************************)
LEMMA InRange ==
  /\ Min(Readings) \in Int /\ Max(Readings) \in Int
  /\ \A r \in Readings : r \in Int /\ Min(Readings) <= r /\ r <= Max(Readings)
<1>1. Readings \subseteq Conversion /\ Readings # {}
  BY RawAssumption DEF Readings
<1>2. \A c \in Conversion : c \in Int
  BY ConversionBounded
<1> QED BY <1>1, <1>2, MinOfReadings, MaxOfReadings

LEMMA DefaultTyped == Default \in Stored /\ Visible(Default) \in Shown
<1>1. 0 \in Min(Readings)..Max(Readings)
  BY InRange, RawAssumption DEF Readings
<1> QED BY <1>1, RawAssumption, FeelAssumption DEF Default, Stored, Shown, Visible

LEMMA VisibleTyped == \A c \in Stored : Visible(c) \in Shown
BY DEF Stored, Shown, Visible

LEMMA ReportedTyped ==
  ASSUME NEW is \in BOOLEAN, NEW c \in Stored, NEW what \in {"plain", "cap", "status"}
  PROVE  Reported(is, what, c) \in Replies
BY VisibleTyped DEF Reported, Replies

\* A nudge stays between the idle point and the reading.
LEMMA NudgeTyped ==
  ASSUME NEW r \in Resting, pending \in Stored, AutoZero(r)
  PROVE  pending' \in Stored /\ Visible(pending') = Visible(pending)
<1> DEFINE i == pending.idle
           q == Quarter(r - i)
<1>1. /\ Min(Readings) \in Int /\ Max(Readings) \in Int /\ r \in Int
      /\ Min(Readings) <= r /\ r <= Max(Readings)
  BY InRange DEF Readings
<1>2. i \in Int /\ Min(Readings) <= i /\ i <= Max(Readings)
  BY <1>1 DEF Stored
<1>3. r - i \in Int
  BY <1>1, <1>2
<1>4. /\ q \in Int
      /\ r - i >= 0 => 0 <= q /\ 4 * q <= r - i
      /\ r - i <= 0 => r - i <= 4 * q /\ q <= 0
  BY <1>3, QuarterBounds
<1> HIDE DEF q
<1>5. i + q \in Min(Readings)..Max(Readings)
  BY <1>1, <1>2, <1>4
<1>6. pending' = [pending EXCEPT !.idle = i + q]
  BY DEF AutoZero, Nudged, q
<1>7. pending' \in Stored
  BY <1>5, <1>6 DEF Stored
<1>8. /\ pending'.max = pending.max /\ pending'.feel = pending.feel
      /\ pending'.calibrated = pending.calibrated
  BY <1>6 DEF Stored
<1> QED BY <1>7, <1>8 DEF Visible

LEMMA WireArgs ==
  ASSUME NEW c \in Wire
  PROVE  /\ c = Cmd(c.op, c.arg)
         /\ c.op \in {"setidle", "setmax"} => c.arg \in Raw
         /\ c.op = "setfeel" => c.arg \in Feel
BY DEF Wire, SetFeels, Cmd

\* What the user asks for can be written as a line.
LEMMA OutboundWire ==
  ASSUME NEW c \in Outbound, c.op \in {"setfeel", "save", "cancel", "reset", "wifi"}
  PROVE  Cmd(c.op, c.arg) \in Wire
BY DEF Outbound, Plain, SetFeels, Wire, Cmd

LEMMA FixedWire == Cmd("cap", 0) \in Wire /\ Cmd("status", 0) \in Wire
BY DEF Wire

LEMMA PointWire == \A r \in Raw : Cmd("setidle", r) \in Wire /\ Cmd("setmax", r) \in Wire
BY DEF Wire

\* The two ends of a learn window are samples of it.
LEMMA EndsSeen ==
  ASSUME NEW l \in [active : BOOLEAN, first : Raw, seen : SUBSET Raw], l.seen # {}
  PROVE  IdleOf(l) \in Raw /\ MaxOf(l) \in Raw
<1>1. l.seen \subseteq Conversion /\ l.seen \subseteq Raw
  BY RawAssumption
<1>2. Min(l.seen) \in Raw /\ Max(l.seen) \in Raw
  BY <1>1, MinOfReadings, MaxOfReadings
<1> QED BY <1>2 DEF IdleOf, MaxOf
------------------------------------------------------------------------------
(***************************************************************************)
(* A line written and a reply taken.                                       *)
(***************************************************************************)
LEMMA Sent ==
  ASSUME cmds \in Seq(Wire), NEW o, NEW a, NEW w, Cmd(o, a) \in Wire, Send(o, a, w)
  PROVE  /\ cmds' \in Seq(Wire) /\ pc' = w
         /\ Len(cmds') = IF live THEN Len(cmds) + 1 ELSE Len(cmds)
BY DEF Send

LEMMA Heard ==
  ASSUME lines \in Seq(Replies), NEW w, Received(w)
  PROVE  /\ pc = w /\ lines' \in Seq(Replies)
         /\ \/ /\ live /\ lines # <<>> /\ Reply = Head(lines) /\ Reply \in Replies
               /\ lines' = Tail(lines) /\ late' = late
            \/ ~live /\ Reply = NoReply /\ lines' = lines /\ late' = late
            \/ /\ live /\ lines = <<>> /\ Reply = NoReply /\ lines' = <<>>
               /\ late < MaxLate /\ late' = late + 1
<1>1. pc = w
  BY DEF Received
<1>2. \A r \in Replies : r # NoReply
  BY DEF Replies, NoReply, Reported
<1>3. CASE live /\ lines # <<>>
  <2>1. Reply = Head(lines) /\ Head(lines) \in Replies
    BY <1>3 DEF Reply
  <2>2. Answered
    BY <1>2, <2>1 DEF Received, TimedOut
  <2> QED BY <1>1, <1>3, <2>1, <2>2 DEF Answered
<1>4. CASE ~(live /\ lines # <<>>)
  <2>1. Reply = NoReply
    BY <1>4 DEF Reply
  <2>2. TimedOut
    BY <2>1 DEF Received, Answered
  <2> QED BY <1>1, <1>4, <2>1, <2>2 DEF TimedOut
<1> QED BY <1>3, <1>4

LEMMA StatusShown ==
  ASSUME lines \in Seq(Replies), NEW w, Received(w), shown \in Shown, PushStatus
  PROVE  shown' \in Shown
<1>1. IsStatus => Reply \in Replies
  BY Heard DEF IsStatus, NoReply, Reported
<1> QED BY <1>1 DEF PushStatus, Replies
------------------------------------------------------------------------------
(***************************************************************************)
(* Every step keeps the types.                                             *)
(***************************************************************************)
LEMMA DeviceTyped ==
  ASSUME DataOK, DevServe
  PROVE  UNCHANGED shown => DataOK'
<1>1. cmds # <<>> /\ Head(cmds) \in Wire /\ Tail(cmds) \in Seq(Wire)
  BY DEF DataOK, DevServe, DevQuery, DevSetIdle, DevSetMax, DevSetFeel, DevSave, DevCancel,
         DevReset, Handle
<1>2. Ok \in Replies /\ Err \in Replies /\ CapOk \in Replies /\ StatusOk \in Replies
  BY ReportedTyped, DefaultTyped DEF DataOK, Ok, Err, CapOk, StatusOk
<1>3. \A r \in Replies : Append(lines, r) \in Seq(Replies)
  BY DEF DataOK
<1>4. ASSUME NEW op, Handle(op), NEW r \in Replies, Answer(r)
      PROVE  cmds' \in Seq(Wire) /\ lines' \in Seq(Replies)
  BY <1>1, <1>3, <1>4 DEF Handle, Answer
<1>5. CASE DevQuery
  BY <1>2, <1>4, <1>5 DEF DevQuery, DataOK, calVars
<1>6. CASE DevSetIdle
  <2>1. Arg \in Raw
    BY <1>1, <1>6, WireArgs DEF DevSetIdle, Handle, Arg
  <2>2. Arg \in Min(Readings)..Max(Readings)
    BY <2>1, InRange DEF Readings
  <2>3. pending' \in Stored
    BY <2>2, <1>6 DEF DevSetIdle, DataOK, Stored
  <2> QED BY <1>2, <1>4, <1>6, <2>3 DEF DevSetIdle, DataOK
<1>7. CASE DevSetMax
  <2>1. Arg \in Raw
    BY <1>1, <1>7, WireArgs DEF DevSetMax, Handle, Arg
  <2>2. pending' \in Stored
    BY <2>1, <1>7 DEF DevSetMax, DataOK, Stored
  <2> QED BY <1>2, <1>4, <1>7, <2>2 DEF DevSetMax, DataOK
<1>8. CASE DevSetFeel
  <2>1. Arg \in Feel
    BY <1>1, <1>8, WireArgs DEF DevSetFeel, Handle, Arg
  <2>2. pending' \in Stored
    BY <2>1, <1>8 DEF DevSetFeel, DataOK, Stored
  <2> QED BY <1>2, <1>4, <1>8, <2>2 DEF DevSetFeel, DataOK
<1>9. CASE DevSave
  BY <1>2, <1>4, <1>9 DEF DevSave, DataOK
<1>10. CASE DevCancel
  BY <1>2, <1>4, <1>10 DEF DevCancel, DataOK
<1>11. CASE DevReset
  BY <1>2, <1>4, <1>11, DefaultTyped DEF DevReset, DataOK
<1> QED BY <1>5, <1>6, <1>7, <1>8, <1>9, <1>10, <1>11 DEF DevServe

LEMMA DataStep ==
  ASSUME DataOK, HostOK, Linked, [Next]_vars
  PROVE  DataOK'
<1> USE DEF DataOK
<1>1. CASE UNCHANGED vars
  BY <1>1 DEF vars, devVars, uiVars
<1>2. CASE User \/ Downloaded
  BY <1>2 DEF User, Press, Provision, Navigate, LeaveOrReturn, Install, Downloaded, devVars, uiVars
<1>3. CASE Plug
  BY <1>3 DEF Plug, Boot, uiVars
<1>4. CASE Unplug
  BY <1>4 DEF Unplug, calVars, uiVars
<1>5. CASE Serve
  BY <1>5, DeviceTyped DEF Serve, uiVars
<1>6. CASE Drift
  BY <1>6, NudgeTyped DEF Drift, AutoZero, uiVars
<1>7. CASE Connect
  <2>1. cmds' = Append(cmds, Cmd("cap", 0))
    BY <1>7 DEF Connect
  <2>2. cmds' \in Seq(Wire)
    BY <2>1, FixedWire
  <2>3. lines' = lines \/ lines' = <<>>
    BY <1>7 DEF Connect
  <2>4. <<>> \in Seq(Replies)
    OBVIOUS
  <2>5. lines' \in Seq(Replies)
    BY <2>3, <2>4
  <2> QED BY <1>7, <2>2, <2>5 DEF Connect, calVars, uiVars
<1>8. CASE Handshake
  BY <1>8, FixedWire, Heard, Sent DEF Handshake, calVars
<1>9. CASE FirstStatus
  BY <1>9, Heard, StatusShown DEF FirstStatus, Rest, calVars
<1>10. CASE DropCommand \/ StartLearning \/ StopLearning
  BY <1>10 DEF DropCommand, StartLearning, StopLearning, devVars, uiVars
<1>11. CASE SendCommand
  <2>1. PICK op \in {"setfeel", "save", "cancel", "reset", "wifi"} :
          Take(op) /\ Send(op, slot.arg, "command")
    BY <1>11 DEF SendCommand
  <2>2. slot.op = op /\ slot \in Outbound
    BY <2>1 DEF Take, HostOK, NoCmd
  <2>3. Cmd(op, slot.arg) \in Wire
    BY <2>2, OutboundWire
  <2> QED BY <1>11, <2>1, <2>3, Sent DEF SendCommand, calVars, uiVars
<1>12. CASE CommandAnswered
  BY <1>12, FixedWire, Heard, Sent DEF CommandAnswered, calVars, uiVars
<1>13. CASE Refreshed
  BY <1>13, Heard, StatusShown DEF Refreshed, Rest, calVars
<1>14. CASE Upload
  <2>1. lines' = <<>> /\ (cmds' = <<>> \/ cmds' = cmds)
    BY <1>14 DEF Upload, Boot
  <2>2. <<>> \in Seq(Replies) /\ <<>> \in Seq(Wire)
    OBVIOUS
  <2>3. lines' \in Seq(Replies) /\ cmds' \in Seq(Wire)
    BY <2>1, <2>2
  <2> QED BY <1>14, <2>3 DEF Upload, Boot, calVars
<1>15. CASE DropStray
  BY <1>15 DEF DropStray, calVars, uiVars
<1>16. CASE \E r \in Raw : Sample(r)
  BY <1>16 DEF Sample, devVars, uiVars
<1>17. CASE WindowEnds
  <2>1. Cmd("setidle", IdleOf(learn)) \in Wire
    BY <1>17, EndsSeen, PointWire DEF WindowEnds, HostOK
  <2> QED BY <1>17, <2>1, Sent DEF WindowEnds, calVars, uiVars
<1>18. CASE IdleAnswered
  <2>1. Received("setidle") /\ pc = "setidle" /\ lines' \in Seq(Replies)
    BY <1>18, Heard DEF IdleAnswered
  <2>2. Cmd("setmax", MaxOf(learn)) \in Wire
    BY <2>1, EndsSeen, PointWire DEF HostOK, Linked
  <2> QED BY <1>18, <2>1, <2>2, Sent DEF IdleAnswered, calVars, uiVars
<1>19. CASE MaxAnswered
  BY <1>19, FixedWire, Heard, Sent DEF MaxAnswered, calVars, uiVars
<1>20. CASE Learned
  BY <1>20, Heard, StatusShown DEF Learned, Rest, calVars
<1>21. CASE Silence
  BY <1>21, FixedWire, Sent DEF Silence, calVars, uiVars
<1>22. CASE Alive
  BY <1>22, Heard DEF Alive, calVars
<1> QED
  BY <1>1, <1>2, <1>3, <1>4, <1>5, <1>6, <1>7, <1>8, <1>9, <1>10, <1>11, <1>12, <1>13, <1>14,
     <1>15, <1>16, <1>17, <1>18, <1>19, <1>20, <1>21, <1>22 DEF Next, Thread

LEMMA ShowTyped ==
  ASSUME NEW p \in Pages, NEW s \in Outbound \cup {NoCmd}, ShowOver(p, s)
  PROVE  page' \in Pages /\ slot' \in Outbound \cup {NoCmd}
BY DEF ShowOver, Outbound, Plain

LEMMA FixedPages == {"Connect", "AutoCalibrate", "Deadzone", "Done", "Monitor"} \subseteq Pages
BY DEF Pages

LEMMA FixedSlots ==
  /\ NoCmd \in Outbound \cup {NoCmd} /\ Cmd("start", 0) \in Outbound /\ Cmd("ota", 0) \in Outbound
  /\ Cmd("wifi", 0) \in Outbound /\ \A p \in Pages : Buttons(p) \subseteq Outbound
BY DEF Outbound, Plain, Buttons, Pages

LEMMA LearnTyped ==
  NotLearning \in [active : BOOLEAN, first : Raw, seen : SUBSET Raw]
  /\ Restarted \in [active : BOOLEAN, first : Raw, seen : SUBSET Raw]
BY RawAssumption DEF NotLearning, Restarted

LEMMA HostStep ==
  ASSUME DataOK, HostOK, Linked, [Next]_vars
  PROVE  HostOK'
<1> USE DEF HostOK
<1>0. /\ MaxLate \in Nat /\ MaxUnplugs \in Nat /\ MaxUpdates \in Nat /\ MaxPresses \in Nat
      /\ late \in Nat /\ unplugs \in Nat /\ updates \in Nat /\ presses \in Nat
  BY HostBounds
<1> DEFINE Flags == /\ plugged' \in BOOLEAN /\ open' \in BOOLEAN /\ live' \in BOOLEAN
                    /\ viewed' \in BOOLEAN /\ connected' \in BOOLEAN
                    /\ flashing' \in BOOLEAN /\ fetching' \in BOOLEAN
           Counts == /\ late' \in 0..MaxLate /\ unplugs' \in 0..MaxUnplugs
                     /\ updates' \in 0..MaxUpdates /\ presses' \in 0..MaxPresses
           Asked == slot' \in Outbound \cup {NoCmd} /\ page' \in Pages
<1>a. ASSUME NEW w, Received(w) PROVE late' \in 0..MaxLate /\ pc = w
  BY <1>0, <1>a, Heard DEF DataOK
<1>b. ASSUME NEW o, NEW a, NEW w \in Waits, Send(o, a, w) PROVE pc' \in Waits \cup {"loop"}
  BY <1>b DEF Send
<1>1. CASE UNCHANGED vars
  BY <1>1 DEF vars, threadVars, uiVars, flashVars, updateVars, linkVars
<1>2. CASE Press
  BY <1>0, <1>2, FixedSlots DEF Press, Acts, threadVars, uiVars, updateVars, linkVars
<1>3. CASE Provision
  BY <1>0, <1>3, FixedSlots DEF Provision, Acts, threadVars, uiVars, updateVars, linkVars
<1>4. CASE Navigate
  <2>1. Asked
    BY <1>4, ShowTyped, FixedPages DEF Navigate, Show
  <2>2. Counts
    BY <1>0, <1>4 DEF Navigate, Acts, updateVars, linkVars
  <2> QED BY <1>4, <2>1, <2>2 DEF Navigate, Acts, threadVars, updateVars, linkVars
<1>5. CASE LeaveOrReturn
  BY <1>0, <1>5, FixedSlots DEF LeaveOrReturn, Acts, threadVars, updateVars, linkVars
<1>6. CASE Install
  BY <1>0, <1>6 DEF Install, threadVars, uiVars, linkVars
<1>7. CASE Downloaded
  BY <1>7, FixedSlots DEF Downloaded, threadVars, uiVars, linkVars
<1>8. CASE Plug
  BY <1>8 DEF Plug, threadVars, uiVars, flashVars, updateVars
<1>9. CASE Unplug
  <2>1. Counts
    BY <1>0, <1>9 DEF Unplug, flashVars, updateVars
  <2> QED BY <1>9, <2>1 DEF Unplug, threadVars, uiVars, flashVars, updateVars
<1>10. CASE Serve \/ Drift
  BY <1>10 DEF Serve, Drift, threadVars, uiVars, flashVars, updateVars, linkVars
<1>11. CASE Connect
  BY <1>11 DEF Connect, Waits, uiVars, flashVars, updateVars
<1>12. CASE Handshake
  <2>1. pc' \in Waits \cup {"loop"} /\ late' \in 0..MaxLate
    BY <1>a, <1>b, <1>12 DEF Handshake, Waits
  <2> QED BY <1>12, <2>1 DEF Handshake, flashVars, updateVars, linkVars
<1>13. CASE FirstStatus
  <2>1. Asked
    BY <1>13, ShowTyped, FixedPages DEF FirstStatus, Show, StayOnPage
  <2>2. late' \in 0..MaxLate
    BY <1>a, <1>13 DEF FirstStatus
  <2> QED BY <1>13, <2>1, <2>2 DEF FirstStatus, Rest, flashVars, updateVars, linkVars
<1>14. CASE DropCommand
  BY <1>14 DEF DropCommand, threadVars, uiVars, linkVars
<1>15. CASE StartLearning
  BY <1>15, LearnTyped DEF StartLearning, uiVars, flashVars, updateVars, linkVars
<1>16. CASE StopLearning
  <2>1. Asked
    BY <1>16, ShowTyped, FixedPages DEF StopLearning
  <2> QED BY <1>16, <2>1, LearnTyped DEF StopLearning, Rest, flashVars, updateVars, linkVars
<1>17. CASE SendCommand
  <2>1. pc' \in Waits \cup {"loop"}
    BY <1>b, <1>17 DEF SendCommand, Waits
  <2> QED BY <1>17, <2>1 DEF SendCommand, uiVars, flashVars, updateVars, linkVars
<1>18. CASE CommandAnswered
  <2>1. pc' \in Waits \cup {"loop"} /\ late' \in 0..MaxLate
    BY <1>a, <1>b, <1>18 DEF CommandAnswered, Waits
  <2> QED BY <1>18, <2>1 DEF CommandAnswered, uiVars, flashVars, updateVars, linkVars
<1>19. CASE Refreshed
  <2>1. PageAfter(cur.op) \in Pages
    BY FixedPages DEF PageAfter
  <2>2. Asked
    BY <1>19, <2>1, ShowTyped DEF Refreshed, Show
  <2>3. late' \in 0..MaxLate
    BY <1>a, <1>19 DEF Refreshed
  <2> QED BY <1>19, <2>2, <2>3 DEF Refreshed, Rest, flashVars, updateVars, linkVars
<1>20. CASE Upload
  <2>1. Asked
    BY <1>20, ShowTyped, FixedPages DEF Upload
  <2>2. learn' \in [active : BOOLEAN, first : Raw, seen : SUBSET Raw]
    BY <1>20, LearnTyped DEF Upload
  <2> QED BY <1>20, <2>1, <2>2 DEF Upload
<1>21. CASE DropStray
  BY <1>21 DEF DropStray, threadVars, uiVars, flashVars, updateVars, linkVars
<1>22. CASE \E r \in Raw : Sample(r)
  <2>1. PICK r \in Raw : Sample(r)
    BY <1>22
  <2>2. learn' \in [active : BOOLEAN, first : Raw, seen : SUBSET Raw]
    BY <2>1 DEF Sample
  <2> QED BY <2>1, <2>2 DEF Sample, uiVars, flashVars, updateVars, linkVars
<1>23. CASE WindowEnds
  <2>1. pc' \in Waits \cup {"loop"}
    BY <1>b, <1>23 DEF WindowEnds, Waits
  <2> QED BY <1>23, <2>1 DEF WindowEnds, uiVars, flashVars, updateVars, linkVars
<1>24. CASE IdleAnswered \/ MaxAnswered
  <2>1. pc' \in Waits \cup {"loop"} /\ late' \in 0..MaxLate
    BY <1>a, <1>b, <1>24 DEF IdleAnswered, MaxAnswered, Waits
  <2> QED BY <1>24, <2>1, LearnTyped
          DEF IdleAnswered, MaxAnswered, uiVars, flashVars, updateVars, linkVars
<1>25. CASE Learned
  <2>1. Asked
    BY <1>25, ShowTyped, FixedPages DEF Learned, Show
  <2>2. late' \in 0..MaxLate
    BY <1>a, <1>25 DEF Learned
  <2> QED BY <1>25, <2>1, <2>2 DEF Learned, Rest, flashVars, updateVars, linkVars
<1>26. CASE Silence
  <2>1. pc' \in Waits \cup {"loop"}
    BY <1>b, <1>26 DEF Silence, Waits
  <2> QED BY <1>26, <2>1 DEF Silence, uiVars, flashVars, updateVars, linkVars
<1>27. CASE Alive
  <2>1. Asked
    BY <1>27, ShowTyped, FixedPages DEF Alive, Show, StayOnPage
  <2>2. late' \in 0..MaxLate
    BY <1>a, <1>27 DEF Alive
  <2> QED BY <1>27, <2>1, <2>2, LearnTyped DEF Alive, flashVars, updateVars
<1> QED
  BY <1>1, <1>2, <1>3, <1>4, <1>5, <1>6, <1>7, <1>8, <1>9, <1>10, <1>11, <1>12, <1>13, <1>14,
     <1>15, <1>16, <1>17, <1>18, <1>19, <1>20, <1>21, <1>22, <1>23, <1>24, <1>25, <1>26, <1>27
     DEF Next, Thread, User

LEMMA LinkedStep ==
  ASSUME DataOK, HostOK, Linked, [Next]_vars
  PROVE  Linked'
<1> USE DEF Linked, Waiting, Waits
<1>a. ASSUME NEW w, Received(w) PROVE pc = w
  BY <1>a DEF Received
<1>1. CASE UNCHANGED vars
  BY <1>1 DEF vars, threadVars, uiVars, linkVars
<1>2. CASE User \/ Downloaded
  BY <1>2 DEF User, Press, Provision, Navigate, LeaveOrReturn, Install, Downloaded, Acts,
              threadVars, uiVars, linkVars
<1>3. CASE Plug \/ Unplug \/ Serve \/ Drift
  BY <1>3 DEF Plug, Unplug, Serve, Drift, threadVars, uiVars, linkVars
<1>4. CASE Connect
  BY <1>4 DEF Connect, uiVars
<1>5. CASE Handshake
  BY <1>a, <1>5 DEF Handshake, Send, linkVars
<1>6. CASE FirstStatus \/ Refreshed \/ Learned
  BY <1>a, <1>6 DEF FirstStatus, Refreshed, Learned, Rest, linkVars
<1>7. CASE DropCommand \/ StartLearning \/ StopLearning
  <2>1. /\ pc = "loop" /\ pc' = pc /\ open' = open /\ connected' = connected
        /\ live' = live /\ plugged' = plugged
    BY <1>7 DEF DropCommand, StartLearning, StopLearning, Take, Rest, threadVars, uiVars, linkVars
  <2> QED BY <2>1
<1>8. CASE SendCommand
  BY <1>8, FixedSlots DEF SendCommand, Take, Send, HostOK, NoCmd, uiVars, linkVars
<1>9. CASE CommandAnswered
  <2>1. /\ pc = "command" /\ open' = open /\ connected' = connected
        /\ live' = live /\ plugged' = plugged
    BY <1>a, <1>9 DEF CommandAnswered, uiVars, linkVars
  <2>2. pc' = "loop" \/ (pc' = "refresh" /\ cur' = cur)
    BY <1>9 DEF CommandAnswered, Send
  <2> QED BY <2>1, <2>2
<1>10. CASE Upload
  <2>1. /\ pc = "loop" /\ pc' = "loop" /\ plugged' = plugged
        /\ (~live' /\ ~open' /\ ~connected') \/ (live' = live /\ open' = open /\ connected' = connected)
    BY <1>10 DEF Upload, Take
  <2> QED BY <2>1
<1>11. CASE DropStray \/ (\E r \in Raw : Sample(r))
  BY <1>11 DEF DropStray, Sample, Idling, threadVars, uiVars, linkVars
<1>12. CASE WindowEnds \/ Silence
  BY <1>12 DEF WindowEnds, Silence, Idling, Send, uiVars, linkVars
<1>13. CASE IdleAnswered
  BY <1>a, <1>13 DEF IdleAnswered, Send, uiVars, linkVars
<1>14. CASE MaxAnswered
  BY <1>a, <1>14 DEF MaxAnswered, Send, uiVars, linkVars
<1>15. CASE Alive
  BY <1>a, <1>15 DEF Alive
<1> QED
  BY <1>1, <1>2, <1>3, <1>4, <1>5, <1>6, <1>7, <1>8, <1>9, <1>10, <1>11, <1>12, <1>13, <1>14,
     <1>15 DEF Next, Thread

LEMMA RoomLeft ==
  ASSUME DataOK', late' \in Nat, Len(cmds') + Len(lines') <= late'
  PROVE  Room'
BY DEF DataOK, Room

LEMMA HeardRoom ==
  ASSUME DataOK, HostOK, Room, NEW w \in Waits, Received(w)
  PROVE  late' \in Nat /\ Len(lines') \in Nat /\ Len(cmds) + Len(lines') <= late'
<1>1. late \in Nat
  BY HostBounds DEF HostOK
<1>2. Len(cmds) \in Nat /\ Len(lines) \in Nat
  BY DEF DataOK
<1>3. pc = w /\ Waiting
  BY DEF Received, Waiting
<1>4. CASE live /\ lines # <<>> /\ lines' = Tail(lines) /\ late' = late
  <2>1. Len(lines') = Len(lines) - 1 /\ Len(lines') \in Nat
    BY <1>4 DEF DataOK
  <2> QED BY <1>1, <1>2, <1>3, <1>4, <2>1 DEF Room
<1>5. CASE ~live /\ lines' = lines /\ late' = late
  BY <1>1, <1>2, <1>3, <1>5 DEF Room
<1>6. CASE live /\ lines = <<>> /\ lines' = <<>> /\ late' = late + 1
  BY <1>1, <1>2, <1>3, <1>6 DEF Room
<1> QED BY <1>4, <1>5, <1>6, Heard DEF DataOK

LEMMA SentRoom ==
  ASSUME DataOK, late' \in Nat, Len(lines') \in Nat, Len(cmds) + Len(lines') <= late',
         NEW o, NEW a, NEW w \in Waits, Cmd(o, a) \in Wire, Send(o, a, w), live' = live
  PROVE  Room'
<1>1. Len(cmds) \in Nat
  BY DEF DataOK
<1>2. pc' = w /\ Len(cmds') = IF live THEN Len(cmds) + 1 ELSE Len(cmds)
  BY Sent DEF DataOK
<1> QED BY <1>1, <1>2 DEF Room, Waiting

LEMMA RoomStep ==
  ASSUME DataOK, HostOK, Linked, Room, [Next]_vars
  PROVE  Room'
<1>0. /\ late \in Nat /\ Len(cmds) \in Nat /\ Len(lines) \in Nat /\ DataOK'
      /\ pc = "loop" => Len(cmds) + Len(lines) <= late
  BY HostBounds, DataStep DEF HostOK, DataOK, Room, Waiting, Waits
<1>q. \A w \in {"cap", "hello", "alive", "command", "refresh", "setidle", "setmax", "learned"} :
        w \in Waits
  BY DEF Waits
<1>a. ASSUME NEW w \in Waits, Received(w), cmds' = cmds PROVE Room'
  BY <1>0, <1>a, HeardRoom, RoomLeft
<1>b. ASSUME NEW v \in Waits, Received(v), live' = live,
             NEW o, NEW a, NEW w \in Waits, Cmd(o, a) \in Wire, Send(o, a, w)
      PROVE  Room'
  BY <1>b, HeardRoom, SentRoom
<1>c. ASSUME pc = "loop", live' = live, lines' = lines, late' = late,
             NEW o, NEW a, NEW w \in Waits, Cmd(o, a) \in Wire, Send(o, a, w)
      PROVE  Room'
  BY <1>0, <1>c, SentRoom
<1>1. CASE UNCHANGED <<cmds, lines, pc, live, late>>
  BY <1>1 DEF Room, Waiting
<1>2. CASE UNCHANGED vars \/ User \/ Downloaded
  BY <1>1, <1>2 DEF User, Press, Provision, Navigate, LeaveOrReturn, Install, Downloaded,
              vars, devVars, threadVars, linkVars
<1>3. CASE Plug \/ Unplug
  <2>1. cmds' = <<>> /\ lines' = <<>> /\ late' = late
    BY <1>3 DEF Plug, Unplug, Boot
  <2>2. Len(cmds') + Len(lines') <= late'
    BY <1>0, <2>1
  <2> QED BY <1>0, <2>1, <2>2, RoomLeft
<1>4. CASE Serve
  <2>1. /\ cmds # <<>> /\ cmds' = Tail(cmds)
        /\ \E r : lines' = Append(lines, r)
    BY <1>4 DEF Serve, DevServe, DevQuery, DevSetIdle, DevSetMax, DevSetFeel, DevSave, DevCancel,
                DevReset, Handle, Answer
  <2>2. Len(cmds') = Len(cmds) - 1
    BY <2>1 DEF DataOK
  <2>3. Len(lines') = Len(lines) + 1
    BY <2>1 DEF DataOK
  <2>4. pc' = pc /\ live' = live /\ late' = late
    BY <1>4 DEF Serve, threadVars, linkVars
  <2> QED BY <1>0, <2>2, <2>3, <2>4 DEF Room, Waiting
<1>5. CASE Drift
  BY <1>1, <1>5 DEF Drift, AutoZero, threadVars, linkVars
<1>6. CASE Connect
  <2>1. pc = "loop" /\ live' /\ pc' = "cap" /\ late' = late
    BY <1>6 DEF Connect
  <2>2. cmds' = Append(cmds, Cmd("cap", 0)) /\ (lines' = lines \/ lines' = <<>>)
    BY <1>6 DEF Connect
  <2>3. Len(cmds') = Len(cmds) + 1
    BY <2>2 DEF DataOK
  <2>4. Len(lines') <= Len(lines) /\ Len(lines') \in Nat
    BY <1>0, <2>2
  <2>5. Len(cmds') + Len(lines') <= late' + 1
    BY <1>0, <2>1, <2>3, <2>4
  <2> QED BY <1>q, <2>1, <2>5 DEF Room, Waiting
<1>7. CASE Handshake
  <2>1. Received("cap") /\ live' = live
    BY <1>7 DEF Handshake, linkVars
  <2>2. Send("status", 0, "hello") \/ cmds' = cmds
    BY <1>7 DEF Handshake
  <2> QED BY <1>a, <1>b, <1>q, <2>1, <2>2, FixedWire
<1>8. CASE FirstStatus \/ Refreshed \/ Learned
  BY <1>a, <1>q, <1>8 DEF FirstStatus, Refreshed, Learned
<1>9. CASE DropCommand \/ StartLearning \/ StopLearning
  BY <1>1, <1>9 DEF DropCommand, StartLearning, StopLearning, Rest, devVars, threadVars, linkVars
<1>10. CASE SendCommand
  <2>1. PICK op \in {"setfeel", "save", "cancel", "reset", "wifi"} :
          Take(op) /\ Send(op, slot.arg, "command")
    BY <1>10 DEF SendCommand
  <2>2. slot.op = op /\ slot \in Outbound
    BY <2>1 DEF Take, HostOK, NoCmd
  <2>3. Cmd(op, slot.arg) \in Wire
    BY <2>2, OutboundWire
  <2>4. pc = "loop" /\ live' = live /\ lines' = lines /\ late' = late
    BY <1>10, <2>1 DEF SendCommand, Take, linkVars
  <2> QED BY <1>c, <1>q, <2>1, <2>3, <2>4
<1>11. CASE CommandAnswered
  <2>1. Received("command") /\ live' = live
    BY <1>11 DEF CommandAnswered, linkVars
  <2>2. Send("status", 0, "refresh") \/ cmds' = cmds
    BY <1>11 DEF CommandAnswered
  <2> QED BY <1>a, <1>b, <1>q, <2>1, <2>2, FixedWire
<1>12. CASE Upload
  <2>1. pc = "loop" /\ late' = late /\ lines' = <<>> /\ (cmds' = <<>> \/ cmds' = cmds)
    BY <1>12 DEF Upload, Take, Boot
  <2>2. Len(cmds') + Len(lines') <= late'
    BY <1>0, <2>1
  <2> QED BY <1>0, <2>1, <2>2, RoomLeft
<1>13. CASE DropStray
  <2>1. lines # <<>> /\ lines' = Tail(lines) /\ cmds' = cmds /\ late' = late /\ pc = "loop"
    BY <1>13 DEF DropStray, Idling
  <2>2. Len(lines') = Len(lines) - 1
    BY <2>1 DEF DataOK
  <2>3. Len(cmds') + Len(lines') <= late'
    BY <1>0, <2>1, <2>2
  <2> QED BY <1>0, <2>1, <2>3, RoomLeft
<1>14. CASE \E r \in Raw : Sample(r)
  BY <1>1, <1>14 DEF Sample, devVars, linkVars
<1>15. CASE WindowEnds
  <2>1. Cmd("setidle", IdleOf(learn)) \in Wire
    BY <1>15, EndsSeen, PointWire DEF WindowEnds, HostOK
  <2> QED BY <1>c, <1>q, <1>15, <2>1 DEF WindowEnds, Idling, linkVars
<1>16. CASE IdleAnswered
  <2>1. Received("setidle") /\ pc = "setidle" /\ live' = live
    BY <1>16, Heard DEF IdleAnswered, DataOK, linkVars
  <2>2. Cmd("setmax", MaxOf(learn)) \in Wire
    BY <2>1, EndsSeen, PointWire DEF HostOK, Linked
  <2>3. Send("setmax", MaxOf(learn), "setmax") \/ cmds' = cmds
    BY <1>16 DEF IdleAnswered
  <2> QED BY <1>a, <1>b, <1>q, <2>1, <2>2, <2>3
<1>17. CASE MaxAnswered
  <2>1. Received("setmax") /\ live' = live
    BY <1>17 DEF MaxAnswered, linkVars
  <2>2. Send("status", 0, "learned") \/ cmds' = cmds
    BY <1>17 DEF MaxAnswered
  <2> QED BY <1>a, <1>b, <1>q, <2>1, <2>2, FixedWire
<1>18. CASE Silence
  BY <1>c, <1>q, <1>18, FixedWire DEF Silence, Idling, linkVars
<1>19. CASE Alive
  BY <1>a, <1>q, <1>19 DEF Alive
<1> QED
  BY <1>2, <1>3, <1>4, <1>5, <1>6, <1>7, <1>8, <1>9, <1>10, <1>11, <1>12, <1>13, <1>14,
     <1>15, <1>16, <1>17, <1>18, <1>19 DEF Next, Thread

------------------------------------------------------------------------------
(***************************************************************************)
(* Until the first late reply, question and answer stay in step.           *)
(***************************************************************************)
LEMMA InTime ==
  ASSUME DataOK, HostOK, [Next]_vars, late' = 0
  PROVE  late = 0
<1>1. late \in Nat
  BY HostBounds DEF HostOK
<1>2. ASSUME NEW w, Received(w) PROVE late' = late \/ late' = late + 1
  BY <1>2, Heard DEF DataOK
<1>3. late' = late \/ \E w : Received(w)
  BY DEF Next, User, Press, Provision, Navigate, LeaveOrReturn, Install, Downloaded, Plug, Unplug,
         Serve, Drift, Thread, Connect, Handshake, FirstStatus, DropCommand, StartLearning,
         StopLearning, SendCommand, CommandAnswered, Refreshed, Upload, DropStray, Sample,
         WindowEnds, IdleAnswered, MaxAnswered, Learned, Silence, Alive, vars
<1> QED BY <1>1, <1>2, <1>3

\* A reply taken in time is the one due.
LEMMA HeardDue ==
  ASSUME DataOK, HostOK, Linked, late = 0, late' = 0, Dialogue, NEW w \in Waits, Received(w)
  PROVE  /\ pc = w /\ cmds = <<>> /\ lines' = <<>>
         /\ live  => Reply \in Replies /\ Fits(Reply) /\ lines = <<Reply>>
         /\ ~live => Reply = NoReply
<1>1. pc = w /\ Waiting
  BY DEF Received, Waiting
<1>2. CASE ~live
  BY <1>1, <1>2, Heard DEF Dialogue, Quiet, DataOK
<1>3. CASE live
  <2>1. /\ lines # <<>> /\ Reply = Head(lines) /\ lines' = Tail(lines)
    BY <1>3, Heard DEF DataOK
  <2>2. PICK r \in Replies : cmds = <<>> /\ lines = <<r>> /\ Fits(r)
    BY <1>1, <1>3, <2>1 DEF Dialogue, OneOut
  <2>3. Reply = r /\ lines' = <<>>
    BY <2>1, <2>2
  <2> QED BY <1>1, <1>3, <2>2, <2>3
<1> QED BY <1>2, <1>3

\* What that says of each wait.
LEMMA HeardStatus ==
  ASSUME DataOK, HostOK, Linked, late = 0, late' = 0, Dialogue, live,
         NEW w \in {"hello", "alive", "refresh", "learned"}, Received(w)
  PROVE  Reply = StatusOk /\ IsStatus /\ Reply.cal = Visible(pending)
<1>1. pc = w /\ Fits(Reply)
  BY HeardDue DEF Waits
<1>2. Reply = StatusOk
  BY <1>1 DEF Fits, Due
<1> QED BY <1>2 DEF IsStatus, StatusOk, Reported

\* The device answers the line that is due.
LEMMA Served ==
  ASSUME DataOK, Linked, HostOK, Dialogue, Serve
  PROVE  /\ live /\ Waiting /\ cmds' = <<>>
         /\ \E c \in Wire : cmds = <<c>> /\ c.op = Due
         /\ \E r \in Replies : lines' = <<r>>
<1>1. DataOK'
  BY DataStep DEF Next
<1>2. cmds # <<>> /\ cmds' = Tail(cmds) /\ \E r : lines' = Append(lines, r)
  BY DEF Serve, DevServe, DevQuery, DevSetIdle, DevSetMax, DevSetFeel, DevSave, DevCancel,
         DevReset, Handle, Answer
<1>3. live /\ Waiting
  BY <1>2 DEF Dialogue, Quiet, Waiting, HostOK
<1>4. PICK c \in Wire : lines = <<>> /\ cmds = <<c>> /\ c.op = Due
  BY <1>2, <1>3 DEF Dialogue, OneOut
<1>5. cmds' = <<>>
  BY <1>2, <1>4
<1>6. PICK r : lines' = <<r>>
  BY <1>2, <1>4
<1>7. r \in Replies
  <2>1. lines' \in Seq(Replies)
    BY <1>1 DEF DataOK
  <2>2. Len(lines') = 1 /\ lines'[1] = r
    BY <1>6
  <2>3. 1 \in 1..Len(lines')
    BY <2>2
  <2>4. lines'[1] \in Replies
    BY <2>1, <2>3
  <2> QED BY <2>2, <2>4
<1> QED BY <1>3, <1>4, <1>5, <1>6, <1>7

\* By which line it was: what it changed and what it answered.
LEMMA ServedBy ==
  ASSUME DataOK, Linked, HostOK, Dialogue, Serve
  PROVE  /\ Due \in {"cap", "status", "wifi", "setidle", "setmax", "setfeel", "save", "cancel", "reset"}
         /\ Due = "cap"     => lines' = <<CapOk>>
         /\ Due = "status"  => lines' = <<StatusOk>>
         /\ Due \in {"cap", "status", "wifi"} => UNCHANGED <<pending, nvs>>
         /\ Due \notin {"cap", "status"} => lines' = <<Ok>> \/ lines' = <<Err>>
         /\ Due = "setidle" => Visible(pending') = Visible(pending)
         /\ Due = "setmax"  => lines' = <<Ok>> \/ (lines' = <<Err>> /\ UNCHANGED pending)
         /\ Due = "save"    => UNCHANGED pending /\ (lines' = <<Err>> \/ nvs' = pending)
<1>1. PICK c \in Wire : cmds = <<c>> /\ c.op = Due
  BY Served
<1>2. Head(cmds) = c /\ live /\ Waiting
  BY <1>1, Served
<1>3. lines = <<>>
  BY <1>1, <1>2 DEF Dialogue, OneOut
<1>4. \A r : Append(lines, r) = <<r>>
  BY <1>3
<1>5. ASSUME NEW op, Handle(op) PROVE Due = op
  BY <1>1, <1>2, <1>5 DEF Handle
<1>6. ASSUME NEW r, Answer(r) PROVE lines' = <<r>>
  BY <1>4, <1>6 DEF Answer
<1>7. CASE DevQuery
  BY <1>5, <1>6, <1>7 DEF DevQuery, calVars
<1>8. CASE DevSetIdle
  <2>1. Visible(pending') = Visible(pending)
    BY <1>8 DEF DevSetIdle, Visible, DataOK, Stored
  <2> QED BY <1>5, <1>6, <1>8, <2>1 DEF DevSetIdle
<1>9. CASE DevSetMax
  BY <1>5, <1>6, <1>9 DEF DevSetMax
<1>10. CASE DevSetFeel
  BY <1>5, <1>6, <1>10 DEF DevSetFeel
<1>11. CASE DevSave
  BY <1>5, <1>6, <1>11 DEF DevSave
<1>12. CASE DevCancel
  BY <1>5, <1>6, <1>12 DEF DevCancel
<1>13. CASE DevReset
  BY <1>5, <1>6, <1>13 DEF DevReset
<1> QED BY <1>7, <1>8, <1>9, <1>10, <1>11, <1>12, <1>13 DEF Serve, DevServe

LEMMA Undisturbed ==
  ASSUME Dialogue, UNCHANGED <<pc, live, open, cmds, lines, cur>>, Visible(pending') = Visible(pending)
  PROVE  Dialogue'
<1>1. Due' = Due
  BY DEF Due
<1>2. \A r : Fits(r)' <=> Fits(r)
  BY <1>1 DEF Fits, StatusOk, CapOk, Reported
<1> QED BY <1>1, <1>2 DEF Dialogue, Quiet, Waiting, OneOut

LEMMA AskedOne ==
  ASSUME cmds = <<>>, lines' = <<>>, NEW o, NEW a, NEW w \in Waits, Cmd(o, a) \in Wire,
         Send(o, a, w), live' = live, live => open', Due' = o
  PROVE  Dialogue'
<1>1. pc' = w /\ w # "loop"
  BY DEF Send, Waits
<1>2. CASE live
  <2>1. cmds' = <<Cmd(o, a)>>
    BY <1>2 DEF Send
  <2>2. Cmd(o, a).op = o
    BY DEF Cmd
  <2>3. OneOut'
    BY <2>1, <2>2 DEF OneOut
  <2> QED BY <1>1, <1>2, <2>3 DEF Dialogue
<1>3. CASE ~live
  BY <1>3 DEF Send, Dialogue, Quiet
<1> QED BY <1>2, <1>3

LEMMA AtRest ==
  ASSUME cmds' = <<>>, lines' = <<>>, live' => open', pc' = "loop"
  PROVE  Dialogue'
BY DEF Dialogue, Quiet, Waiting, Waits

LEMMA DialogueStep ==
  ASSUME DataOK, HostOK, Linked, Dialogue, [Next]_vars, late = 0, late' = 0
  PROVE  Dialogue'
<1>q. \A w \in {"cap", "hello", "alive", "command", "refresh", "setidle", "setmax", "learned"} :
        w \in Waits
  BY DEF Waits
<1>d. Dialogue /\ (Waiting => open) /\ (live => open)
  BY DEF Linked, Dialogue
<1>u. CASE UNCHANGED <<pc, live, open, cmds, lines, cur, pending>>
  BY <1>u, Undisturbed
<1>1. CASE UNCHANGED vars \/ User \/ Downloaded
  BY <1>u, <1>1 DEF User, Press, Provision, Navigate, LeaveOrReturn, Install, Downloaded,
              vars, devVars, threadVars, linkVars
<1>2. CASE Plug \/ Unplug
  <2>1. cmds' = <<>> /\ lines' = <<>> /\ ~live'
    BY <1>2 DEF Plug, Unplug, Boot, Linked, HostOK
  <2> QED BY <2>1 DEF Dialogue, Quiet
<1>3. CASE Serve
  <2>1. /\ live /\ Waiting /\ cmds' = <<>> /\ UNCHANGED <<pc, live, open, cur>>
    BY <1>3, Served DEF Serve, threadVars, linkVars
  <2>2. PICK r \in Replies : lines' = <<r>>
    BY <1>3, Served
  <2>3. Due' = Due
    BY <2>1 DEF Due
  <2>4. Fits(r)'
    <3>1. CASE Due = "cap"
      <4>1. <<r>> = <<CapOk>>
        BY <1>3, <2>2, <3>1, ServedBy
      <4> QED BY <2>3, <3>1, <4>1 DEF Fits, CapOk, Reported
    <3>2. CASE Due = "status"
      <4>1. <<r>> = <<StatusOk>> /\ UNCHANGED pending
        BY <1>3, <2>2, <3>2, ServedBy
      <4> QED BY <2>3, <3>2, <4>1 DEF Fits, StatusOk, Reported
    <3>3. CASE Due \notin {"cap", "status"}
      <4>1. <<r>> = <<Ok>> \/ <<r>> = <<Err>>
        BY <1>3, <2>2, <3>3, ServedBy
      <4>2. r.about = "plain"
        BY <4>1 DEF Ok, Err, Reported
      <4> QED BY <2>3, <3>3, <4>2 DEF Fits
    <3> QED BY <3>1, <3>2, <3>3
  <2>5. OneOut'
    BY <2>1, <2>2, <2>4 DEF OneOut
  <2> QED BY <2>1, <2>5 DEF Dialogue, Waiting, Waits
<1>4. CASE Drift
  <2>1. Visible(pending') = Visible(pending)
    BY <1>4, NudgeTyped DEF Drift, DataOK
  <2> QED BY <1>4, <2>1, Undisturbed DEF Drift, AutoZero, threadVars, linkVars
<1>5. CASE Connect
  <2>1. cmds = <<>> /\ lines = <<>>
    BY <1>5, <1>d DEF Connect, Dialogue, Quiet, HostOK
  <2>2. /\ cmds' = <<Cmd("cap", 0)>> /\ lines' = <<>> /\ live' /\ open' /\ pc' = "cap"
    BY <1>5, <2>1 DEF Connect
  <2>3. Due' = "cap" /\ Cmd("cap", 0).op = "cap"
    BY <2>2 DEF Due, Cmd
  <2>4. OneOut'
    BY <2>2, <2>3, FixedWire DEF OneOut
  <2> QED BY <2>2, <2>4 DEF Dialogue
<1>6. CASE Handshake
  <2>1. cmds = <<>> /\ lines' = <<>> /\ live' = live /\ pc = "cap" /\ open
    BY <1>6, <1>q, <1>d, HeardDue DEF Handshake, Waiting, linkVars
  <2>2. live => Reply.ok
    <3>1. live => Fits(Reply) /\ Due = "cap"
      BY <1>6, <1>q, <2>1, HeardDue DEF Handshake, Due
    <3> QED BY <3>1 DEF Fits, CapOk, Reported
  <2>3. CASE Reply.ok
    <3>1. Send("status", 0, "hello") /\ open' = open
      BY <1>6, <2>3 DEF Handshake
    <3>2. Due' = "status"
      BY <3>1 DEF Send, Due
    <3> QED BY <1>q, <2>1, <3>1, <3>2, AskedOne, FixedWire
  <2>4. CASE ~Reply.ok
    BY <1>6, <2>1, <2>2, <2>4, AtRest DEF Handshake
  <2> QED BY <2>3, <2>4
<1>7. CASE FirstStatus \/ Refreshed \/ Learned
  <2>1. PICK w \in Waits : Received(w)
    BY <1>7, <1>q DEF FirstStatus, Refreshed, Learned
  <2>2. cmds = <<>> /\ lines' = <<>>
    BY <2>1, HeardDue
  <2> QED BY <1>7, <1>d, <2>2, AtRest DEF FirstStatus, Refreshed, Learned, Rest, linkVars
<1>8. CASE DropCommand \/ StartLearning \/ StopLearning
  <2>1. CASE DropCommand
    BY <1>u, <2>1 DEF DropCommand, devVars, threadVars, linkVars
  <2>2. CASE StartLearning \/ StopLearning
    BY <1>u, <2>2 DEF StartLearning, StopLearning, Rest, devVars, linkVars
  <2> QED BY <1>8, <2>1, <2>2
<1>9. CASE SendCommand
  <2>1. PICK op \in {"setfeel", "save", "cancel", "reset", "wifi"} :
          Take(op) /\ Send(op, slot.arg, "command")
    BY <1>9 DEF SendCommand
  <2>2. slot.op = op /\ slot \in Outbound
    BY <2>1 DEF Take, HostOK, NoCmd
  <2>3. Cmd(op, slot.arg) \in Wire
    BY <2>2, OutboundWire
  <2>4. cmds = <<>> /\ lines = <<>> /\ lines' = lines /\ live' = live /\ open' = open
    BY <1>9, <1>d, <2>1 DEF SendCommand, Take, Dialogue, Quiet, linkVars
  <2>5. Due' = op
    BY <1>9, <2>1, <2>2 DEF SendCommand, Send, Due
  <2> QED BY <1>q, <1>d, <2>1, <2>3, <2>4, <2>5, AskedOne
<1>10. CASE CommandAnswered
  <2>1. cmds = <<>> /\ lines' = <<>> /\ live' = live /\ open' = open
    BY <1>10, <1>q, HeardDue DEF CommandAnswered, linkVars
  <2>2. CASE Send("status", 0, "refresh")
    <3>1. Due' = "status"
      BY <2>2 DEF Send, Due
    <3> QED BY <1>q, <1>d, <2>1, <2>2, <3>1, AskedOne, FixedWire
  <2>3. CASE pc' = "loop" /\ cmds' = cmds
    BY <1>d, <2>1, <2>3, AtRest
  <2> QED BY <1>10, <2>2, <2>3 DEF CommandAnswered
<1>11. CASE Upload
  <2>1. CASE lines' = <<>> /\ cmds' = <<>> /\ ~live'
    BY <2>1 DEF Dialogue, Quiet
  <2>2. CASE lines' = <<>> /\ UNCHANGED <<cmds, open, live, pc>> /\ pc = "loop"
    BY <1>d, <2>2, AtRest DEF Dialogue, Quiet
  <2> QED BY <1>11, <2>1, <2>2 DEF Upload, Boot, Take
<1>12. CASE DropStray
  BY <1>12, <1>d DEF DropStray, Idling, Dialogue, Quiet
<1>13. CASE \E r \in Raw : Sample(r)
  BY <1>u, <1>13 DEF Sample, devVars, linkVars
<1>14. CASE WindowEnds
  <2>1. Cmd("setidle", IdleOf(learn)) \in Wire
    BY <1>14, EndsSeen, PointWire DEF WindowEnds, HostOK
  <2>2. Send("setidle", IdleOf(learn), "setidle") /\ live' = live /\ open' = open /\ lines' = lines
        /\ cmds = <<>> /\ lines = <<>>
    BY <1>14 DEF WindowEnds, Quiet, linkVars
  <2>3. Due' = "setidle"
    BY <2>2 DEF Send, Due
  <2> QED BY <1>q, <1>d, <2>1, <2>2, <2>3, AskedOne
<1>15. CASE IdleAnswered
  <2>1. cmds = <<>> /\ lines' = <<>> /\ live' = live /\ open' = open /\ pc = "setidle"
    BY <1>15, <1>q, HeardDue DEF IdleAnswered, linkVars
  <2>2. CASE Send("setmax", MaxOf(learn), "setmax")
    <3>1. Due' = "setmax"
      BY <2>2 DEF Send, Due
    <3>2. Cmd("setmax", MaxOf(learn)) \in Wire
      BY <2>1, EndsSeen, PointWire DEF HostOK, Linked
    <3> QED BY <1>q, <1>d, <2>1, <2>2, <3>1, <3>2, AskedOne
  <2>3. CASE pc' = "loop" /\ cmds' = cmds
    BY <1>d, <2>1, <2>3, AtRest
  <2> QED BY <1>15, <2>2, <2>3 DEF IdleAnswered
<1>16. CASE MaxAnswered
  <2>1. cmds = <<>> /\ lines' = <<>> /\ live' = live /\ open' = open
    BY <1>16, <1>q, HeardDue DEF MaxAnswered, linkVars
  <2>2. CASE Send("status", 0, "learned")
    <3>1. Due' = "status"
      BY <2>2 DEF Send, Due
    <3> QED BY <1>q, <1>d, <2>1, <2>2, <3>1, AskedOne, FixedWire
  <2>3. CASE pc' = "loop" /\ cmds' = cmds
    BY <1>d, <2>1, <2>3, AtRest
  <2> QED BY <1>16, <2>2, <2>3 DEF MaxAnswered
<1>17. CASE Silence
  <2>1. Send("status", 0, "alive") /\ live' = live /\ open' = open /\ lines' = lines
    BY <1>17 DEF Silence, linkVars
  <2>2. cmds = <<>> /\ lines = <<>>
    BY <1>17, <1>d DEF Silence, Idling, Dialogue, Quiet
  <2>3. Due' = "status"
    BY <2>1 DEF Send, Due
  <2> QED BY <1>q, <1>d, <2>1, <2>2, <2>3, AskedOne, FixedWire
<1>18. CASE Alive
  <2>1. cmds = <<>> /\ lines' = <<>> /\ Received("alive")
    BY <1>18, <1>q, HeardDue DEF Alive
  <2>2. cmds' = cmds /\ pc' = "loop" /\ (~live' \/ (live' = live /\ open' = open))
    BY <1>18 DEF Alive
  <2> QED BY <1>d, <2>1, <2>2, AtRest DEF Dialogue, Quiet
<1> QED
  BY <1>1, <1>2, <1>3, <1>4, <1>5, <1>6, <1>7, <1>8, <1>9, <1>10, <1>11, <1>12, <1>13, <1>14,
     <1>15, <1>16, <1>17, <1>18 DEF Next, Thread

LEMMA LiveBefore ==
  ASSUME [Next]_vars, live'
  PROVE  live \/ Connect
BY DEF Next, User, Press, Provision, Navigate, LeaveOrReturn, Install, Downloaded, Plug, Unplug,
       Serve, Drift, Thread, Handshake, FirstStatus, DropCommand, StartLearning, StopLearning,
       SendCommand, CommandAnswered, Refreshed, Upload, DropStray, Sample, WindowEnds,
       IdleAnswered, MaxAnswered, Learned, Silence, Alive, Rest, linkVars, vars

\* What a step can do to the thread and what it shows, where the device is
\* not the one that acts.
LEMMA HostOnly ==
  ASSUME UNCHANGED vars \/ User \/ Downloaded \/ DropCommand \/ StartLearning \/ StopLearning
           \/ (\E r \in Raw : Sample(r))
  PROVE  UNCHANGED <<pending, nvs, cmds, lines, pc, cur, live, open, connected, shown>>
<1>1. CASE UNCHANGED vars \/ User \/ Downloaded
  BY <1>1 DEF User, Press, Provision, Navigate, LeaveOrReturn, Install, Downloaded,
              vars, devVars, threadVars, uiVars, linkVars
<1>2. CASE DropCommand \/ StartLearning
  BY <1>2 DEF DropCommand, StartLearning, devVars, threadVars, uiVars, linkVars
<1>3. CASE StopLearning
  BY <1>3 DEF StopLearning, Rest, devVars, linkVars
<1>4. CASE \E r \in Raw : Sample(r)
  BY <1>4 DEF Sample, devVars, uiVars, linkVars
<1> QED BY <1>1, <1>2, <1>3, <1>4

LEMMA ShownStep ==
  ASSUME DataOK, HostOK, Linked, Dialogue, ShownInv, live, live', [Next]_vars, late = 0, late' = 0
  PROVE  ShownInv'
<1>q. \A w \in {"cap", "hello", "alive", "command", "refresh", "setidle", "setmax", "learned"} :
        w \in Waits
  BY DEF Waits
<1>l. /\ pc = "loop" => cmds = <<>> /\ lines = <<>>
      /\ connected <=> open /\ pc # "cap"
      /\ Waiting => open
  BY DEF Dialogue, Quiet, Linked
<1>u. CASE UNCHANGED <<cmds, lines, pc, cur, connected, shown>> /\ Visible(pending') = Visible(pending)
  BY <1>u DEF ShownInv, Clean
<1>1. CASE UNCHANGED vars \/ User \/ Downloaded \/ DropCommand \/ StartLearning \/ StopLearning
           \/ (\E r \in Raw : Sample(r))
  BY <1>1, <1>u, HostOnly
<1>2. CASE Plug \/ Unplug \/ Connect
  BY <1>2, <1>l DEF Plug, Unplug, Connect, Linked, ShownInv, Dialogue
<1>3. CASE Drift
  <2>1. Visible(pending') = Visible(pending)
    BY <1>3, NudgeTyped DEF Drift, DataOK
  <2> QED BY <1>3, <1>u, <2>1 DEF Drift, AutoZero, threadVars, uiVars
<1>4. CASE Serve
  <2>1. /\ pc \in Waits /\ cmds' = <<>> /\ cmds # <<>>
        /\ UNCHANGED <<pc, cur, connected, shown>>
    BY <1>4, Served DEF Serve, Waiting, threadVars, uiVars
  <2>2. CASE pc \in {"alive", "setidle"}
    <3>1. Visible(pending') = Visible(pending)
      BY <1>4, <2>2, ServedBy DEF Due
    <3> QED BY <2>1, <2>2, <3>1 DEF ShownInv, Clean
  <2>3. CASE pc = "setmax"
    <3>1. lines' = <<Ok>> \/ (lines' = <<Err>> /\ UNCHANGED pending)
      BY <1>4, <2>3, ServedBy DEF Due
    <3>2. lines'[1].ok \/ UNCHANGED pending
      BY <3>1 DEF Ok, Reported
    <3>3. Clean
      BY <2>1, <2>3 DEF ShownInv
    <3> QED BY <2>1, <2>3, <3>2, <3>3 DEF ShownInv, Clean
  <2>4. CASE pc = "command"
    <3>1. cur.op \in {"wifi", "save"} => UNCHANGED pending
      BY <1>4, <2>4, ServedBy DEF Due
    <3>2. Clean
      BY <2>1, <2>4 DEF ShownInv
    <3> QED BY <2>1, <2>4, <3>1, <3>2 DEF ShownInv, Clean
  <2>5. CASE pc \in {"cap", "hello", "refresh", "learned"}
    BY <2>1, <2>5 DEF ShownInv
  <2> QED BY <2>1, <2>2, <2>3, <2>4, <2>5 DEF Waits
<1>5. CASE Handshake
  <2>1. pc = "cap" /\ (pc' = "hello" \/ (pc' = "loop" /\ connected' = connected))
    BY <1>5 DEF Handshake, Received, Send
  <2> QED BY <1>l, <2>1 DEF ShownInv
<1>6. CASE FirstStatus \/ Refreshed \/ Learned
  <2>1. PICK w \in {"hello", "alive", "refresh", "learned"} : Received(w)
    BY <1>6 DEF FirstStatus, Refreshed, Learned
  <2>2. IsStatus /\ Reply.cal = Visible(pending)
    BY <2>1, HeardStatus
  <2>3. pc' = "loop" /\ shown' = Visible(pending) /\ pending' = pending
    BY <1>6, <2>2 DEF FirstStatus, Refreshed, Learned, PushStatus, Rest, calVars
  <2> QED BY <2>3 DEF ShownInv, Clean
<1>7. CASE SendCommand
  <2>1. /\ pc = "loop" /\ open /\ pc' = "command" /\ UNCHANGED <<pending, shown>>
    BY <1>7 DEF SendCommand, Take, Send, calVars, uiVars
  <2>2. Clean
    BY <1>l, <2>1 DEF ShownInv
  <2> QED BY <2>1, <2>2 DEF ShownInv, Clean
<1>8. CASE CommandAnswered
  <2>1. pc = "command" /\ UNCHANGED <<pending, shown>>
    BY <1>8 DEF CommandAnswered, Received, calVars, uiVars
  <2>2. pc' = "refresh" \/ (pc' = "loop" /\ cur.op \in {"wifi", "save"})
    BY <1>8 DEF CommandAnswered, Send
  <2> QED BY <2>1, <2>2 DEF ShownInv, Clean
<1>9. CASE Upload
  <2>1. CASE ~live'
    BY <2>1
  <2>2. CASE cmds' = cmds /\ lines' = <<>> /\ UNCHANGED <<pending, connected, pc, cur, shown>> /\ pc = "loop"
    BY <2>2 DEF ShownInv, Clean
  <2> QED BY <1>9, <2>1, <2>2 DEF Upload, Take, calVars
<1>10. CASE DropStray
  BY <1>10, <1>l DEF DropStray, Idling
<1>11. CASE WindowEnds \/ Silence
  <2>1. /\ pc = "loop" /\ open /\ pc' \in {"setidle", "alive"} /\ UNCHANGED <<pending, shown>>
    BY <1>11 DEF WindowEnds, Silence, Idling, Send, calVars, uiVars
  <2>2. Clean
    BY <1>l, <2>1 DEF ShownInv
  <2> QED BY <2>1, <2>2 DEF ShownInv, Clean
<1>12. CASE IdleAnswered
  <2>1. /\ pc = "setidle" /\ pc' \in {"setmax", "loop"} /\ UNCHANGED <<pending, shown>>
    BY <1>12 DEF IdleAnswered, Received, Send, calVars, uiVars
  <2>2. Clean
    BY <1>l, <2>1 DEF ShownInv, Waiting, Waits
  <2> QED BY <2>1, <2>2 DEF ShownInv, Clean
<1>13. CASE MaxAnswered
  <2>1. /\ pc = "setmax" /\ UNCHANGED <<pending, shown>> /\ lines = <<Reply>>
    BY <1>13, <1>q, HeardDue DEF MaxAnswered, Received, calVars, uiVars
  <2>2. pc' = "learned" \/ (pc' = "loop" /\ ~Reply.ok)
    BY <1>13 DEF MaxAnswered, Send
  <2>3. lines[1] = Reply
    BY <2>1
  <2> QED BY <2>1, <2>2, <2>3 DEF ShownInv, Clean
<1>14. CASE Alive
  <2>1. pc = "alive" /\ pc' = "loop" /\ UNCHANGED <<pending, shown>>
    BY <1>14 DEF Alive, Received, calVars
  <2>2. Clean
    BY <1>l, <2>1 DEF ShownInv, Waiting, Waits
  <2> QED BY <2>1, <2>2 DEF ShownInv, Clean
<1> QED
  BY <1>1, <1>2, <1>3, <1>4, <1>5, <1>6, <1>7, <1>8, <1>9, <1>10, <1>11, <1>12, <1>13, <1>14
     DEF Next, Thread

LEMMA SavedStep ==
  ASSUME DataOK, HostOK, Linked, Dialogue, SavedInv, live, live', [Next]_vars, late = 0, late' = 0
  PROVE  SavedInv'
<1>q. \A w \in {"cap", "hello", "alive", "command", "refresh", "setidle", "setmax", "learned"} :
        w \in Waits
  BY DEF Waits
<1>u. CASE UNCHANGED <<cmds, lines, pc, cur, nvs>> /\ Visible(pending') = Visible(pending)
  BY <1>u DEF SavedInv
<1>n. CASE pc' \notin {"command", "refresh"}
  BY <1>n DEF SavedInv
<1>1. CASE UNCHANGED vars \/ User \/ Downloaded \/ DropCommand \/ StartLearning \/ StopLearning
           \/ (\E r \in Raw : Sample(r))
  BY <1>1, <1>u, HostOnly
<1>2. CASE Plug \/ Unplug \/ Connect
  BY <1>2, <1>n DEF Plug, Unplug, Connect, Linked
<1>3. CASE Drift
  <2>1. Visible(pending') = Visible(pending)
    BY <1>3, NudgeTyped DEF Drift, DataOK
  <2> QED BY <1>3, <1>u, <2>1 DEF Drift, AutoZero, threadVars
<1>4. CASE Serve
  <2>1. cmds' = <<>> /\ UNCHANGED <<pc, cur>>
    BY <1>4, Served DEF Serve, threadVars
  <2>2. CASE pc = "refresh"
    <3>1. UNCHANGED <<pending, nvs>>
      BY <1>4, <2>2, ServedBy DEF Due
    <3> QED BY <2>1, <2>2, <3>1 DEF SavedInv
  <2>3. CASE pc = "command" /\ cur.op = "save"
    <3>1. UNCHANGED pending /\ (lines' = <<Err>> \/ nvs' = pending)
      BY <1>4, <2>3, ServedBy DEF Due
    <3>2. lines'[1].ok => nvs' = pending
      BY <3>1 DEF Err, Reported
    <3> QED BY <2>1, <2>3, <3>1, <3>2 DEF SavedInv
  <2> QED BY <2>1, <2>2, <2>3 DEF SavedInv
<1>5. CASE Handshake \/ FirstStatus \/ Refreshed \/ Learned \/ Upload \/ WindowEnds
           \/ IdleAnswered \/ MaxAnswered \/ Silence \/ Alive
  BY <1>5, <1>n DEF Handshake, FirstStatus, Refreshed, Learned, Upload, Take, WindowEnds,
                    IdleAnswered, MaxAnswered, Silence, Alive, Send
<1>6. CASE SendCommand
  <2>1. PICK c : cmds' = Append(cmds, c)
    BY <1>6 DEF SendCommand, Send
  <2>2. cmds' # <<>> /\ pc' = "command"
    BY <1>6, <2>1 DEF SendCommand, Send, DataOK
  <2> QED BY <2>2 DEF SavedInv
<1>7. CASE CommandAnswered
  <2>1. /\ pc = "command" /\ UNCHANGED <<pending, nvs>> /\ lines = <<Reply>> /\ cmds = <<>>
    BY <1>7, <1>q, HeardDue DEF CommandAnswered, Received, calVars
  <2>2. lines[1] = Reply
    BY <2>1
  <2>3. pc' = "loop" \/ (pc' = "refresh" /\ cur' = cur /\ (cur.op = "save" => Reply.ok))
    BY <1>7 DEF CommandAnswered, Send
  <2> QED BY <2>1, <2>2, <2>3 DEF SavedInv
<1>8. CASE DropStray
  BY <1>8 DEF DropStray, Idling, Dialogue, Quiet
<1> QED
  BY <1>1, <1>2, <1>3, <1>4, <1>5, <1>6, <1>7, <1>8 DEF Next, Thread

LEMMA PageStep ==
  ASSUME DataOK, HostOK, Linked, Dialogue, PageInv, live, live', [Next]_vars, late = 0, late' = 0
  PROVE  PageInv'
<1>u. CASE UNCHANGED <<page, pc, connected>>
  BY <1>u DEF PageInv
<1>n. CASE page' # "Connect" \/ ~connected' \/ pc' = "hello"
  BY <1>n DEF PageInv
<1>1. CASE UNCHANGED vars \/ Press \/ Provision \/ LeaveOrReturn \/ Install \/ Downloaded
           \/ DropCommand \/ StartLearning \/ (\E r \in Raw : Sample(r))
  BY <1>1, <1>u DEF Press, Provision, LeaveOrReturn, Install, Downloaded, DropCommand, StartLearning,
                    Sample, vars, threadVars, uiVars
<1>2. CASE Navigate \/ StopLearning
  BY <1>2, <1>n DEF Navigate, StopLearning, Show, ShowOver
<1>3. CASE Plug \/ Unplug
  BY <1>3 DEF Plug, Unplug, Linked
<1>4. CASE Serve \/ Drift
  BY <1>4, <1>u DEF Serve, Drift, threadVars, uiVars
<1>5. CASE Connect
  BY <1>5 DEF Connect, Dialogue
<1>6. CASE Handshake
  <2>1. pc = "cap" /\ (pc' = "hello" \/ connected' = connected)
    BY <1>6 DEF Handshake, Received, Send
  <2> QED BY <1>n, <2>1 DEF Linked
<1>7. CASE FirstStatus
  <2>1. IsStatus
    BY <1>7, HeardStatus DEF FirstStatus
  <2> QED BY <1>7, <1>n, <2>1 DEF FirstStatus, Show, ShowOver
<1>8. CASE Refreshed
  <2>1. pc = "refresh" /\ connected' = connected /\ page' = PageAfter(cur.op)
    BY <1>8 DEF Refreshed, Received, Show, ShowOver
  <2>2. PageAfter(cur.op) = page \/ PageAfter(cur.op) # "Connect"
    BY DEF PageAfter
  <2> QED BY <2>1, <2>2 DEF PageInv
<1>9. CASE Learned
  BY <1>9, <1>n DEF Learned, Show, ShowOver
<1>10. CASE SendCommand
  BY <1>10 DEF SendCommand, Take, PageInv, uiVars
<1>11. CASE CommandAnswered
  BY <1>11 DEF CommandAnswered, Received, PageInv, uiVars
<1>12. CASE Upload
  BY <1>12, <1>u DEF Upload
<1>13. CASE DropStray
  BY <1>13, <1>u DEF DropStray, threadVars, uiVars
<1>14. CASE WindowEnds \/ Silence
  BY <1>14 DEF WindowEnds, Silence, Idling, PageInv, uiVars
<1>15. CASE IdleAnswered \/ MaxAnswered
  BY <1>15 DEF IdleAnswered, MaxAnswered, Received, PageInv, uiVars
<1>16. CASE Alive
  BY <1>16, <1>n DEF Alive, Received, PageInv, StayOnPage
<1> QED
  BY <1>1, <1>2, <1>3, <1>4, <1>5, <1>6, <1>7, <1>8, <1>9, <1>10, <1>11, <1>12, <1>13, <1>14,
     <1>15, <1>16 DEF Next, Thread, User

LEMMA InStepKept ==
  ASSUME DataOK, HostOK, Linked, late = 0 => InStep, [Next]_vars, late' = 0
  PROVE  InStep'
<1>1. late = 0 /\ Dialogue /\ Dialogue'
  BY InTime, DialogueStep DEF InStep
<1>2. CASE live /\ live'
  BY <1>1, <1>2, ShownStep, SavedStep, PageStep DEF InStep
<1>3. CASE ~live /\ live'
  <2>1. pc' = "cap" /\ ~connected /\ connected' = connected
    BY <1>3, LiveBefore DEF Connect, Linked, uiVars
  <2> QED BY <1>1, <2>1 DEF InStep, ShownInv, SavedInv, PageInv
<1>4. CASE ~live'
  BY <1>1, <1>4 DEF InStep
<1> QED BY <1>2, <1>3, <1>4

------------------------------------------------------------------------------
LEMMA Inductive == IInv /\ [Next]_vars => IInv'
BY DataStep, HostStep, LinkedStep, RoomStep, InStepKept DEF IInv

LEMMA InitOK == Init => IInv
<1> SUFFICES ASSUME Init PROVE IInv
  OBVIOUS
<1>1. DataOK
  BY DefaultTyped DEF Init, CalInit, DataOK
<1>2. HostOK
  <2>1. /\ late \in 0..MaxLate /\ unplugs \in 0..MaxUnplugs
        /\ updates \in 0..MaxUpdates /\ presses \in 0..MaxPresses
    BY HostBounds DEF Init
  <2>2. learn \in [active : BOOLEAN, first : Raw, seen : SUBSET Raw] /\ page \in Pages
    BY LearnTyped, FixedPages DEF Init
  <2> QED BY <2>1, <2>2 DEF Init, HostOK
<1>3. Linked /\ Room
  BY DEF Init, CalInit, Linked, Room, Waiting, Waits
<1>4. InStep
  BY DEF Init, CalInit, InStep, Dialogue, Quiet
<1> QED BY <1>1, <1>2, <1>3, <1>4 DEF IInv

LEMMA Invariance == Spec => []IInv
BY InitOK, Inductive, PTL DEF Spec

LEMMA Typed == IInv => TypeOK
<1> SUFFICES ASSUME IInv PROVE TypeOK
  OBVIOUS
<1>1. Len(cmds) + Len(lines) <= MaxLate + 1
  <2>1. /\ MaxLate \in Nat /\ late \in Nat /\ late <= MaxLate
        /\ Len(cmds) \in Nat /\ Len(lines) \in Nat
    BY HostBounds DEF IInv, DataOK, HostOK
  <2> QED BY <2>1 DEF IInv, Room
<1> QED BY <1>1 DEF IInv, DataOK, HostOK, TypeOK

\* Every reachable state of device, thread, page and cable has the declared
\* types; the queues between them hold one line at most for each reply that
\* came late, and one more.
THEOREM TypeCorrect == Spec => []TypeOK
BY Invariance, Typed, PTL

\* However user, UI, thread, device and cable interleave: while the thread is
\* at rest, the page shows the calibration that is in effect, and a connected
\* handbrake has left the Connect page (handbrake.rs 160-164, hb.rs 560-610).
THEOREM PageShowsEffect == Spec => []ShowsInEffect
<1>1. IInv => ShowsInEffect
  BY Typed DEF IInv, InStep, ShownInv, Clean, PageInv, ShowsInEffect
<1> QED BY <1>1, Invariance, PTL

\* "Calibration saved" is shown of a calibration that is in NVS, unless a
\* reply came late (hb.rs 588-597).
THEOREM SavedIsStored == Spec => DoneIsSaved
<1>1. ASSUME IInv, [Next]_vars, page # "Done", page' = "Done", live, late' = 0
      PROVE  shown' = Visible(nvs)
  <2>1. late = 0 /\ DataOK /\ HostOK /\ Linked /\ Dialogue /\ SavedInv
    BY <1>1, InTime DEF IInv, InStep
  <2>2. Refreshed /\ cur.op = "save"
    <3>1. \A p : p # "Done" => ~Show(p) /\ \A s : ~ShowOver(p, s)
      BY <1>1 DEF Show, ShowOver
    <3>2. ~(UNCHANGED page)
      BY <1>1
    <3>3. CASE Navigate
      BY <3>1, <3>3, <1>1 DEF Navigate
    <3>4. CASE FirstStatus
      BY <3>1, <3>2, <3>4 DEF FirstStatus, StayOnPage
    <3>5. CASE StopLearning \/ Upload \/ Learned
      BY <3>1, <3>2, <3>5 DEF StopLearning, Upload, Learned
    <3>6. CASE Alive
      BY <3>1, <3>2, <3>6 DEF Alive, StayOnPage
    <3>7. CASE Refreshed
      BY <1>1, <3>7 DEF Refreshed, Show, ShowOver, PageAfter
    <3>8. CASE UNCHANGED vars \/ Press \/ Provision \/ LeaveOrReturn \/ Install \/ Downloaded
                \/ Plug \/ Unplug \/ Serve \/ Drift
      BY <3>2, <3>8 DEF Press, Provision, LeaveOrReturn, Install, Downloaded, Plug, Unplug, Serve,
                        Drift, vars, uiVars
    <3>9. CASE Connect \/ Handshake \/ DropCommand \/ StartLearning \/ SendCommand
                \/ CommandAnswered \/ DropStray \/ (\E r \in Raw : Sample(r)) \/ WindowEnds
                \/ IdleAnswered \/ MaxAnswered \/ Silence
      BY <3>2, <3>9 DEF Connect, Handshake, DropCommand, StartLearning, SendCommand,
                        CommandAnswered, DropStray, Sample, WindowEnds, IdleAnswered,
                        MaxAnswered, Silence, uiVars
    <3> QED BY <1>1, <3>3, <3>4, <3>5, <3>6, <3>7, <3>8, <3>9 DEF Next, User, Thread
  <2>3. IsStatus /\ Reply.cal = Visible(pending)
    BY <1>1, <2>1, <2>2, HeardStatus DEF Refreshed
  <2>4. shown' = Visible(pending) /\ pc = "refresh"
    BY <2>2, <2>3 DEF Refreshed, PushStatus, Received
  <2> QED BY <2>1, <2>2, <2>4 DEF SavedInv
<1>2. IInv /\ [Next]_vars => [page # "Done" /\ page' = "Done" /\ live /\ late' = 0
                                => shown' = Visible(nvs)]_vars
  BY <1>1
<1> QED BY <1>2, Invariance, PTL DEF Spec, DoneIsSaved
==============================================================================
