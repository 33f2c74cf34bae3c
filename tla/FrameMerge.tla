----------------------------- MODULE FrameMerge -----------------------------
(***************************************************************************)
(* Telemetry on its way through the dashboard (dashboard/src/loops.rs):    *)
(* every source's last frame is cached under the state lock, the live ones *)
(* are merged by priority and completed (DerivedFields), the result goes   *)
(* to the preview and into an outbox whose newest line one writer thread   *)
(* sends to the DDU (ctx.rs, device_writer_loop).                          *)
(*                                                                         *)
(* Time is two flags: `quiet` is set when a source has been silent for two *)
(* seconds, `due` when a consumer's interval has passed.  What the preview *)
(* draws is left out.                                                      *)
(***************************************************************************)
EXTENDS DerivedFields, Ranking

CONSTANTS
  Sources,      \* labels of the sources
  Priority,     \* source_priority, by label
  LoopOf,       \* the thread that receives a source, by label
  Nil

Consumers == {"device", "preview"}
Threads   == {LoopOf[s] : s \in Sources}

VARIABLES
  srcs,         \* State.src_frames: [src, frame, prov], in order of arrival
  quiet,        \* sources that have sent nothing for two seconds
  due,          \* by thread: consumers whose interval has passed
  derived,      \* State.derived
  line,         \* the frame last built
  pend,         \* by thread: a frame built under the lock and not handed on yet, and to whom
  relatives,    \* State.relatives: the list the page shows
  out,          \* the outbox: the telemetry and the relatives line
  writer,       \* the writer thread: "wait", or "took" with what it took
  took,
  otaFlag,      \* Ctx.ota_active
  held          \* the update holds the handle

merge == <<srcs, quiet, due, derived, line, pend>>
sends == <<out, writer, took>>
ota   == <<otaFlag, held>>

Empties == [telem |-> Nil, rel |-> Nil]

InitMerge ==
  /\ srcs = <<>> /\ quiet = Sources /\ due = [t \in Threads |-> {}]
  /\ derived = NoDerived /\ line = Nil /\ pend = [t \in Threads |-> Nil] /\ relatives = Nil
  /\ out = Empties /\ writer = "wait" /\ took = Empties
  /\ otaFlag = FALSE /\ held = FALSE

-----------------------------------------------------------------------------
(* The merge                                                               *)

IsOf(e, s) == e.src = s

\* A merge that forgets no source.
LiveForever(entries, s, silent) == entries

\* Sources silent for two seconds are dropped, the sender's own entry never.
Live(entries, s, silent) ==
  Retained(entries, {i \in DOMAIN entries : IsOf(entries[i], s) \/ entries[i].src \notin silent})

Cached(entries, s, frame) ==
  IF \E i \in DOMAIN entries : IsOf(entries[i], s)
  THEN [i \in DOMAIN entries |->
          IF IsOf(entries[i], s) THEN [src |-> s, frame |-> frame, prov |-> Observe(entries[i].prov, frame)]
          ELSE entries[i]]
  ELSE Append(entries, [src |-> s, frame |-> frame, prov |-> Observe({}, frame)])

\* Lowest priority first; equals in the order they were first seen.
Order(entries) == Ranked([i \in DOMAIN entries |-> Priority[entries[i].src]])

Overlay(under, over) == [f \in DOMAIN Blank |-> IF over[f] # Blank[f] THEN over[f] ELSE under[f]]

Merged(entries) ==
  LET order == Order(entries)
      upTo[n \in 0..Len(entries)] == IF n = 0 THEN Blank ELSE Overlay(upTo[n - 1], entries[order[n]].frame)
  IN  upTo[Len(entries)]

Provided(entries) == UNION {entries[i].prov : i \in DOMAIN entries}

\* push_sim_frame: what happens under the lock.
Idle(t) == pend[t] = Nil

PushFrame(s, text) ==
  LET frame == ParseLine(text)
      t     == LoopOf[s]
      now   == Cached(Live(srcs, s, quiet), s, frame)
      built == Update(derived, Merged(now), Provided(now))
  IN  /\ Idle(t)
      /\ IF otaFlag \/ frame = NoFrame THEN UNCHANGED merge
         ELSE /\ srcs' = now
              /\ quiet' = quiet \ {s}
              /\ due' = [due EXCEPT ![t] = {}]
              /\ IF due[t] = {} THEN UNCHANGED <<derived, line, pend>>
                 ELSE /\ derived' = built.d
                      /\ line' = built.t
                      /\ pend' = [pend EXCEPT ![t] = [frame |-> built.t, to |-> due[t]]]

\* What follows: another thread may have queued a newer frame in between.
HandsOn(t) ==
  LET p == pend[t]
  IN  /\ p # Nil
      /\ pend' = [pend EXCEPT ![t] = Nil]
      /\ out' = IF "device" \in p.to THEN [out EXCEPT !.telem = ToFrame(p.frame)] ELSE out
      /\ UNCHANGED <<srcs, quiet, due, derived, line>>

\* apply_relatives: the page gets what it can read, the DDU the line itself.
ApplyRelatives(text, list) ==
  /\ relatives' = IF list = Nil THEN relatives ELSE list
  /\ out' = IF otaFlag THEN out ELSE [out EXCEPT !.rel = text]

\* Time passes.
ComesDue(t, c) == c \notin due[t] /\ due' = [due EXCEPT ![t] = @ \cup {c}]
                  /\ UNCHANGED <<srcs, quiet, derived, line, pend>>
FallsQuiet(s)  == s \notin quiet /\ quiet' = quiet \cup {s} /\ UNCHANGED <<srcs, due, derived, line, pend>>

-----------------------------------------------------------------------------
(* The writer thread                                                       *)

\* Both slots are taken at once; an update's frames are dropped, not kept.
WriterTakes ==
  /\ writer = "wait" /\ out # Empties
  /\ out' = Empties
  /\ IF otaFlag THEN UNCHANGED <<writer, took>> ELSE writer' = "took" /\ took' = out

\* It waits for the handle; without a device the lines are dropped.
WriterSends == writer = "took" /\ ~held /\ writer' = "wait" /\ took' = Empties /\ UNCHANGED out

-----------------------------------------------------------------------------
(* A firmware update from the Firmware page (dashboard/src/firmware/ota.rs) *)

OtaBegins == ~otaFlag /\ otaFlag' = TRUE /\ UNCHANGED held
OtaHolds  == otaFlag /\ ~held /\ held' = TRUE /\ UNCHANGED otaFlag
OtaEnds   == held /\ held' = FALSE /\ otaFlag' = FALSE
=============================================================================
