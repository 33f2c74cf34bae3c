---------------------------- MODULE HandbrakeCal ----------------------------
(***************************************************************************)
(* The handbrake's calibration, device side (firmware/handbrake): the      *)
(* calibration in effect (`pending`), the one CANCEL goes back to (`saved`) *)
(* and the one in NVS, changed by the lines of the command channel and by  *)
(* the idle tracking that runs on every sample.                            *)
(*                                                                         *)
(* The channel is a queue of commands and a queue of replies; the          *)
(* telemetry between the replies is read and skipped by the host and is    *)
(* left out.  A deadzone pair and the inversion are one member of Feel.    *)
(***************************************************************************)
EXTENDS Integers, Sequences

CONSTANTS
  Raw,      \* the readings of the load cell a learn window can see
  Resting,  \* those it can rest at
  Feel,     \* the values of deadzones and inversion
  MinSpan   \* MIN_SPAN

\* What the HX711 converts to: 24 bits, sign-extended.
HalfScale  == 128 * 256 * 256
Conversion == -HalfScale..(HalfScale - 1)

ASSUME RawAssumption  == Raw \subseteq Conversion /\ Resting \subseteq Conversion /\ 0 \in Raw
ASSUME FeelAssumption == 0 \in Feel
ASSUME SpanAssumption == MinSpan \in Nat \ {0}

VARIABLES
  pending,  \* Runtime.pending: what drives the axis
  saved,    \* Runtime.saved
  nvs,      \* the blob under "hb"/"cal"
  cmds,     \* command lines the device has not handled yet
  lines     \* replies the host has not read yet

calVars == <<pending, saved, nvs>>
devVars == <<pending, saved, nvs, cmds, lines>>

Calibrations == [idle : Int, max : Int, feel : Feel, calibrated : BOOLEAN]

Default == [idle |-> 0, max |-> 0, feel |-> 0, calibrated |-> FALSE]

Span(c) == IF c.max >= c.idle THEN c.max - c.idle ELSE c.idle - c.max

SpanOk(idle, max) == max - idle >= MinSpan \/ idle - max >= MinSpan

\* Integer division as Rust does it: towards zero.
Quarter(d) == IF d >= 0 THEN d \div 4 ELSE -((-d) \div 4)

Distance(a, b) == IF a >= b THEN a - b ELSE b - a

------------------------------------------------------------------------------
\* What the properties look at of a calibration that is reported.
Visible(c) == [max |-> c.max, feel |-> c.feel, calibrated |-> c.calibrated]

Reported(is, what, c) == [ok |-> is, about |-> what, cal |-> Visible(c)]

Ok       == Reported(TRUE, "plain", Default)
Err      == Reported(FALSE, "plain", Default)
CapOk    == Reported(TRUE, "cap", Default)
StatusOk == Reported(TRUE, "status", pending)

\* The next line is `op`; one reply goes out for it.
Handle(op)  == cmds # <<>> /\ Head(cmds).op = op /\ cmds' = Tail(cmds)
Answer(r)   == lines' = Append(lines, r)
Arg         == Head(cmds).arg

DevQuery ==
  /\ UNCHANGED calVars
  /\ \/ Handle("cap") /\ Answer(CapOk)
     \/ Handle("status") /\ Answer(StatusOk)
     \/ Handle("wifi") /\ Answer(Ok)

DevSetIdle ==
  /\ Handle("setidle")
  /\ pending' = [pending EXCEPT !.idle = Arg]
  /\ Answer(Ok)
  /\ UNCHANGED <<saved, nvs>>

DevSetMax ==
  /\ Handle("setmax")
  /\ IF SpanOk(pending.idle, Arg)
     THEN /\ pending' = [pending EXCEPT !.max = Arg, !.calibrated = TRUE]
          /\ Answer(Ok)
     ELSE UNCHANGED pending /\ Answer(Err)
  /\ UNCHANGED <<saved, nvs>>

\* @DZ and @INV.
DevSetFeel ==
  /\ Handle("setfeel")
  /\ pending' = [pending EXCEPT !.feel = Arg]
  /\ Answer(Ok)
  /\ UNCHANGED <<saved, nvs>>

DevSave ==
  /\ Handle("save")
  /\ UNCHANGED pending
  /\ \/ nvs' = pending /\ saved' = pending /\ Answer(Ok)
     \/ UNCHANGED <<nvs, saved>> /\ Answer(Err)     \* set_raw fails

DevCancel ==
  /\ Handle("cancel")
  /\ pending' = saved
  /\ Answer(Ok)
  /\ UNCHANGED <<saved, nvs>>

DevReset ==
  /\ Handle("reset")
  /\ saved' = Default /\ pending' = Default
  /\ \/ nvs' = Default /\ Answer(Ok)
     \/ UNCHANGED nvs /\ Answer(Err)

DevServe == DevQuery \/ DevSetIdle \/ DevSetMax \/ DevSetFeel \/ DevSave \/ DevCancel
              \/ DevReset

(***************************************************************************)
(* AutoZero::observe: the sample r ends a run of STABLE_SAMPLES readings   *)
(* that differ by no more than the quiet band.  Which samples do so is     *)
(* left open; only a nudge that changes something is a step.               *)
(***************************************************************************)
Nudged(c, r) == c.idle + Quarter(r - c.idle)

AutoZero(r) ==
  /\ pending.calibrated /\ Span(pending) # 0
  /\ Distance(r, pending.idle) <= Span(pending) \div 12
  /\ Nudged(pending, r) # pending.idle
  /\ pending' = [pending EXCEPT !.idle = Nudged(pending, r)]
  /\ UNCHANGED <<saved, nvs, cmds, lines>>

\* Power on, or the restart after an update: Runtime::new.
Boot ==
  /\ pending' = nvs /\ saved' = nvs /\ UNCHANGED nvs
  /\ cmds' = <<>> /\ lines' = <<>>

CalInit == pending = Default /\ saved = Default /\ nvs = Default /\ cmds = <<>> /\ lines = <<>>
==============================================================================
