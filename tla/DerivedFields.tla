--------------------------- MODULE DerivedFields ----------------------------
(***************************************************************************)
(* Fields the dashboard computes (dashboard/src/telemetry/derive.rs): best *)
(* lap, fuel and virtual energy per lap, and the delta to the best lap.    *)
(* Each tracker takes a frame and returns itself and the frame, filled.    *)
(* Real-valued ones (longitudinal g, tyre averages) are left out.          *)
(***************************************************************************)
EXTENDS FrameCodec, FiniteSets

CONSTANTS
  Buckets,       \* parts of the track the reference lap is kept for, from 0
  BurnWindow     \* what a lap can plausibly burn

Computed == {"best", "delta", "fpl"}

\* Provided::observe: what a source has ever sent, momentary zeros aside.
Observe(p, t) == p \cup {f \in Computed : t[f] # 0}

With(tracker, t) == [tr |-> tracker, t |-> t]

-----------------------------------------------------------------------------
(* Best lap                                                                *)

NoBest == [ms |-> 0, lap |-> 0]

Fastest(S) == IF \E v \in S : v > 0 THEN CHOOSE v \in S : v > 0 /\ \A w \in S : w > 0 => v <= w ELSE 0

\* A tracker that sees no new session.
KeptAlways(b, t) == b.ms

\* Fewer laps than before is a new session.
Kept(b, t) == IF t.lap < b.lap THEN 0 ELSE b.ms

BestLap(b, t) ==
  LET ms == Fastest({Kept(b, t), t.best, t.last})
  IN  With([ms |-> ms, lap |-> t.lap], IF t.best = 0 THEN [t EXCEPT !.best = ms] ELSE t)

-----------------------------------------------------------------------------
(* What a lap burns                                                        *)

NoBurn == [on |-> FALSE, lap |-> 0, start |-> 0, per |-> 0]

\* The average moves by a quarter of each plausible lap.
Averaged(per, used) ==
  IF used \notin BurnWindow THEN per ELSE IF per = 0 THEN used ELSE (per * 3 + used) \div 4

Burned(k, lap, level) ==
  IF ~k.on \/ lap < k.lap THEN [k EXCEPT !.on = TRUE, !.lap = lap, !.start = level]
  ELSE IF lap > k.lap THEN [on |-> TRUE, lap |-> lap, start |-> level, per |-> Averaged(k.per, k.start - level)]
  ELSE k

FuelTracker(k, t, provided) ==
  CASE t.fpl > 0 -> [k EXCEPT !.per = t.fpl]
    [] t.fpl <= 0 /\ provided -> k
    [] OTHER -> Burned(k, t.lap, t.fuel)

Fuel(k, t, provided) ==
  LET n == FuelTracker(k, t, provided)
      filled == IF t.fpl <= 0 /\ n.per > 0 THEN [t EXCEPT !.fpl = n.per] ELSE t
  IN  With(n, IF t.fuelLaps = 0 /\ n.per > 0 /\ t.fuel > 0
              THEN [filled EXCEPT !.fuelLaps = (t.fuel * 10) \div n.per] ELSE filled)

\* Virtual energy, on cars that run on it: whatever the source sent is replaced.
Ve(k, t) ==
  IF t.isVe = 0 \/ t.ve <= 0 THEN With(k, t)
  ELSE LET n == Burned(k, t.lap, t.ve)
       IN  With(n, IF n.per > 0 THEN [t EXCEPT !.vpl = n.per] ELSE t)

-----------------------------------------------------------------------------
(* Delta to the reference lap                                              *)

Unset == -1
NoLap == [b \in 0 .. Buckets |-> Unset]
NoDelta == [on |-> FALSE, ref |-> FALSE, lap |-> 0, best |-> 0, b |-> Unset, refT |-> NoLap, curT |-> NoLap]

NewLap(d, lap) == [d EXCEPT !.on = TRUE, !.lap = lap, !.b = Unset, !.curT = NoLap]

\* A completed lap becomes the reference if it is the fastest seen.
Adopted(d, t) ==
  IF t.last > 0 /\ (~d.ref \/ t.last < d.best)
  THEN [d EXCEPT !.refT = d.curT, !.best = t.last, !.ref = TRUE] ELSE d

Crossed(d, t) ==
  CASE ~d.on \/ t.lap < d.lap -> NewLap(d, t.lap)
    [] d.on /\ t.lap > d.lap  -> NewLap(Adopted(d, t), t.lap)
    [] OTHER -> d

\* The buckets that were skipped are filled in between.
Recorded(d, b, ms) ==
  LET from == IF d.curT[d.b] < 0 THEN 0 ELSE d.curT[d.b]
      table == IF d.b < 0 \/ b <= d.b THEN [d.curT EXCEPT ![b] = ms]
               ELSE [i \in 0 .. Buckets |->
                       IF i > d.b /\ i <= b THEN from + ((ms - from) * (i - d.b)) \div (b - d.b) ELSE d.curT[i]]
  IN  [d EXCEPT !.curT = table, !.b = IF b > @ THEN b ELSE @]

Delta(d, t) ==
  LET b == IF t.pct > Buckets THEN Buckets ELSE t.pct
      n == Recorded(Crossed(d, t), b, t.cur)
  IN  IF t.delta # 0 THEN With(d, t)
      ELSE IF t.cur <= 0 THEN With(Crossed(d, t), t)
      ELSE With(n, IF n.ref /\ n.refT[b] >= 0 THEN [t EXCEPT !.delta = (t.cur - n.refT[b]) * 10] ELSE t)

-----------------------------------------------------------------------------
(* Derived::update                                                         *)

NoDerived == [best |-> NoBest, fuel |-> NoBurn, ve |-> NoBurn, delta |-> NoDelta]

Update(d, t, provided) ==
  LET b == IF "best" \in provided THEN With(d.best, t) ELSE BestLap(d.best, t)
      f == Fuel(d.fuel, b.t, "fpl" \in provided)
      v == Ve(d.ve, f.t)
      l == IF "delta" \in provided THEN With(d.delta, v.t) ELSE Delta(d.delta, v.t)
  IN  [d |-> [best |-> b.tr, fuel |-> f.tr, ve |-> v.tr, delta |-> l.tr], t |-> l.t]
=============================================================================
