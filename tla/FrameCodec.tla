----------------------------- MODULE FrameCodec -----------------------------
(***************************************************************************)
(* The $-frame (pith-core/src/simhub.rs): one line of positional tokens.   *)
(* The gear and the revs stand for the required fields, Wire lists the     *)
(* optional ones the merge and the trackers tell apart, in their order.    *)
(* A token is a number, Empty, or Junk: anything else.                     *)
(***************************************************************************)
EXTENDS Integers, Sequences, SequencesExt

CONSTANTS Empty, Junk, NoFrame

ASSUME TokenAssumption == Empty \notin Int /\ Junk \notin Int /\ Empty # Junk

Wire   == <<"cur", "last", "best", "delta", "lap", "fuel", "fpl", "fuelLaps", "wear", "pct", "ve", "vpl", "isVe">>
Fields == Range(Wire)
Gears  == {"N", "R", "1"}

\* Telemetry::default: every field zero, and no gear.
Blank == [f \in Fields \cup {"gear", "rpm"} |-> IF f = "gear" THEN "" ELSE 0]
Frames == [DOMAIN Blank -> Int \cup Gears \cup {""}]

\* What a field holds when the line does not carry it: full tyres, or zero.
Absent(f) == IF f = "wear" THEN 100 ELSE 0

\* parse_line: a line without gear or revs is no frame, and neither is one with
\* a token that is no number or with a number too many: what the fields leave of
\* the line may only be separators.  The optional fields end where the line does.
ParseLine(line) ==
  LET known    == Len(Wire) + 2
      left     == {i \in 3 .. Len(line) : line[i] = Junk \/ (i > known /\ line[i] # Empty)}
      at(f)    == CHOOSE i \in 3 .. known : Wire[i - 2] = f
      field(f) == IF at(f) > Len(line) THEN Absent(f)
                  ELSE IF line[at(f)] = Empty THEN Absent(f) ELSE line[at(f)]
  IN  IF Len(line) < 2 THEN NoFrame
      ELSE IF line[1] \notin Gears \/ line[2] \in {Empty, Junk} \/ left # {} THEN NoFrame
      ELSE [f \in DOMAIN Blank |-> CASE f = "gear" -> line[1] [] f = "rpm" -> line[2] [] OTHER -> field(f)]

\* to_frame: every field, in order.
ToFrame(t) == <<t.gear, t.rpm>> \o [i \in 1 .. Len(Wire) |-> t[Wire[i]]]
=============================================================================
