------------------------------ MODULE DduPanel ------------------------------
(***************************************************************************)
(* The two touch panels of the DDU and the joystick it is to the host      *)
(* (firmware/ddu/src/display.rs, hid.rs): the display task reads both      *)
(* panels in one loop, presses and releases joystick buttons, sleeps and   *)
(* wakes; the HID task tells the host what is pressed.                     *)
(*                                                                         *)
(* One iteration of the loop is one step.  The names of the screens are    *)
(* those of DduStore; a touch is a row of the panel and one axis.  What is *)
(* drawn, the LED strip, brightness and the choice of the timeout are left *)
(* out.                                                                    *)
(***************************************************************************)
EXTENDS DduStore

CONSTANTS
  Width,        \* of a panel
  Places        \* where a finger may come down: [row, x]

VARIABLES
  finger,     \* by panel: the place touched, or Nil
  task,       \* the display task: [mode, down, held, tab, asleep, guard, cool, alone, idle]
  mask,       \* hid.rs, PAD.mask: buttons held
  news,       \* a telemetry frame since the screens went to sleep
  sim,        \* AppState.sim_on
  ota,        \* ota::ACTIVE
  hid,        \* the HID task: [ready, based, sent]
  seen,       \* buttons the host sees pressed
  dark        \* history: panels whose finger came down while they slept

glass  == <<finger, task, mask, news, sim, ota, hid, seen, dark>>
device == <<store, glass>>

Race   == 0
Side   == 1
Panels == {Race, Side}

\* The timers of the loop are kept as what has passed: `alone` eight seconds
\* without a touch, `idle` the sleep timeout, `cool` 400 ms since the finger of
\* SLEEP NOW went up.
Started ==
  [mode |-> "race", down |-> [p \in Panels |-> FALSE], held |-> [p \in Panels |-> 0],
   tab |-> [p \in Panels |-> 0], asleep |-> FALSE, guard |-> FALSE, cool |-> TRUE, alone |-> FALSE, idle |-> FALSE]
NoHost == [ready |-> FALSE, based |-> FALSE, sent |-> {}]

InitPanel ==
  /\ finger = [p \in Panels |-> Nil] /\ task = Started /\ mask = {}
  /\ news = FALSE /\ sim = FALSE /\ ota = FALSE /\ hid = NoHost /\ seen = {} /\ dark = {}

-----------------------------------------------------------------------------
(* What lies under a finger                                                *)

HasScreen(doc, p) == doc # Nil /\ p + 1 \in DOMAIN doc.screens
ScreenOf(doc, p)  == doc.screens[p + 1]

OnStrip(scr, at) == scr.tabs > 0 /\ at.row = "strip"

\* tab_at
TabAt(scr, at) ==
  LET each == IF Width \div scr.tabs = 0 THEN 1 ELSE Width \div scr.tabs
      tab  == at.x \div each
  IN  IF tab < scr.tabs THEN tab ELSE scr.tabs - 1

\* A button whose elements were customised is drawn, and not a button.
ButtonsAt(scr, tab, at) ==
  {i \in DOMAIN scr.nodes :
     LET n == scr.nodes[i]
     IN  /\ n.kind = "button" /\ n.els = <<>> /\ n.hid # 0
         /\ scr.tabs > 0 => n.page = tab
         /\ at.x \in n.x..(n.x + n.w - 1)}

\* ui_button_down takes the first.
HidAt(scr, tab, at) ==
  LET hits == ButtonsAt(scr, tab, at)
  IN  IF hits = {} THEN 0 ELSE scr.nodes[CHOOSE i \in hits : \A j \in hits : i <= j].hid

-----------------------------------------------------------------------------
(* One iteration of the loop, in its order: `s` is [task, mask, sim]       *)

Pressed(s, p, h)  == IF h = 0 THEN s ELSE [s EXCEPT !.task.held[p] = h, !.mask = @ \cup {h}]
Released(s, p)    == [s EXCEPT !.task.held[p] = 0, !.mask = @ \ {s.task.held[p]}]
Touched(s)        == [s EXCEPT !.task.alone = FALSE, !.task.idle = FALSE]

\* A new touch of a screen: the tab strip, or a button of the page shown.
Tap(s, p, scr) ==
  IF OnStrip(scr, finger[p]) THEN [s EXCEPT !.task.tab[p] = TabAt(scr, finger[p])]
  ELSE Pressed(s, p, HidAt(scr, s.task.tab[p], finger[p]))

\* handle_config_touch; `b` is the button that lies there.
ConfigButtons == {"back", "sleep", "sim", "restart", "other"}
ConfigTap(s, b) ==
  CASE b \in {"back", "sleep"} -> [s EXCEPT !.task.mode = "race"]
    [] b = "restart"           -> [s EXCEPT !.task.mode = "restart"]
    [] b = "sim"               -> [s EXCEPT !.sim = ~@]
    [] OTHER                   -> s

NewTouch(p) == finger[p] # Nil /\ ~task.down[p]

RaceTap(s, doc, b) ==
  IF s.task.mode = "config" THEN ConfigTap(s, b)
  ELSE IF finger[Race].row = "corner" THEN [s EXCEPT !.task.mode = "config"]
  ELSE IF HasScreen(doc, Race) THEN Tap(s, Race, ScreenOf(doc, Race))
  ELSE s

RaceTouch(s, doc, b) ==
  IF finger[Race] = Nil THEN Released([s EXCEPT !.task.down[Race] = FALSE], Race)
  ELSE IF s.task.down[Race] THEN Touched(s)
  ELSE RaceTap(Touched([s EXCEPT !.task.down[Race] = TRUE]), doc, b)

ConfigReturn(s) ==
  IF s.task.mode = "config" /\ s.task.alone THEN [s EXCEPT !.task.mode = "race"] ELSE s

\* ui_button_touch
ButtonTouch(s, scr) ==
  IF finger[Side] = Nil THEN Released([s EXCEPT !.task.down[Side] = FALSE], Side)
  ELSE IF s.task.down[Side] THEN s
  ELSE Tap([s EXCEPT !.task.down[Side] = TRUE], Side, scr)

\* The side panel without its "safety net".
SideOnScreen(s, doc) ==
  LET t == IF HasScreen(doc, Side) THEN ButtonTouch(s, ScreenOf(doc, Side)) ELSE s
  IN  IF finger[Side] = Nil THEN t ELSE Touched(t)

SideTouch(s, doc) ==
  LET t == IF HasScreen(doc, Side) THEN ButtonTouch(s, ScreenOf(doc, Side)) ELSE s
  IN  IF finger[Side] = Nil THEN Released(t, Side) ELSE Touched(t)

SleepEntry(s, asked) ==
  IF asked \/ s.task.idle
  THEN [s EXCEPT !.task.asleep = TRUE, !.task.guard = asked, !.task.cool = ~asked, !.task.idle = FALSE]
  ELSE s

Iteration(doc, b) ==
  LET s == RaceTouch([task |-> task, mask |-> mask, sim |-> sim], doc, b)
      asked == NewTouch(Race) /\ task.mode = "config" /\ b = "sleep"
  IN  IF s.task.mode = "restart" THEN s ELSE SleepEntry(SideTouch(ConfigReturn(s), doc), asked)

\* The document to draw: the last one pushed, parsed by this task.
Parsed == IF pending # Nil /\ pending.text = "plain" THEN pending ELSE shown

Awake == on /\ ~task.asleep /\ ~ota /\ task.mode # "restart"

\* The task takes the lock of the state, which a command holds to its end.
Frame ==
  /\ Awake /\ work = NoWork
  /\ pending' = Nil /\ shown' = Parsed
  /\ \E b \in ConfigButtons :
       LET s == Iteration(Parsed, b)
       IN  /\ task' = s.task /\ mask' = s.mask /\ sim' = s.sim
           /\ news' = (news /\ ~s.task.asleep)
  /\ UNCHANGED <<flash, ram, strip, work, reboot, on, kept, failed, finger, ota, hid, seen, dark>>

\* An iteration has something to do.
FrameReady ==
  /\ Awake /\ work = NoWork
  /\ pending # Nil \/ Iteration(shown, "other") # [task |-> task, mask |-> mask, sim |-> sim]

-----------------------------------------------------------------------------
(* Asleep                                                                  *)

AnyTouch == \E p \in Panels : finger[p] # Nil

\* Awake again with the buttons as they are.
Woken(t) == [t EXCEPT !.asleep = FALSE, !.alone = FALSE, !.idle = FALSE]

Wake(t) == IF AnyTouch THEN [Woken(t) EXCEPT !.down = [p \in Panels |-> TRUE]] ELSE Woken(t)

Dozed(t) == IF (AnyTouch /\ ~t.guard /\ t.cool) \/ news \/ ota THEN Wake(t) ELSE t

Doze ==
  /\ on /\ task.asleep
  /\ task' = Dozed([task EXCEPT !.guard = @ /\ AnyTouch])
  /\ UNCHANGED <<store, finger, mask, news, sim, ota, hid, seen, dark>>

-----------------------------------------------------------------------------
(* The joystick                                                            *)

\* service
Service ==
  /\ on
  /\ IF hid.ready THEN hid' = [hid EXCEPT !.sent = mask, !.based = TRUE] /\ seen' = mask
     ELSE hid' = [hid EXCEPT !.based = FALSE] /\ UNCHANGED seen
  /\ UNCHANGED <<store, finger, task, mask, news, sim, ota, dark>>

Settled == IF hid.ready THEN hid.based /\ hid.sent = mask ELSE ~hid.based

\* The host enumerates the device, which takes longer than a period of the
\* HID task.
Enumerates ==
  /\ on /\ ~hid.ready /\ ~hid.based
  /\ hid' = [hid EXCEPT !.ready = TRUE]
  /\ UNCHANGED <<store, finger, task, mask, news, sim, ota, seen, dark>>

Unseen == hid' = [hid EXCEPT !.ready = FALSE] /\ seen' = {}

-----------------------------------------------------------------------------
(* The world                                                               *)

TouchDown ==
  /\ \E p \in Panels : \E at \in Places :
       /\ finger[p] = Nil /\ finger' = [finger EXCEPT ![p] = at]
       /\ dark' = IF task.asleep THEN dark \cup {p} ELSE dark \ {p}
  /\ UNCHANGED <<store, task, mask, news, sim, ota, hid, seen>>

Lift ==
  /\ \E p \in Panels : finger[p] # Nil /\ finger' = [finger EXCEPT ![p] = Nil]
  /\ UNCHANGED <<store, task, mask, news, sim, ota, hid, seen, dark>>

\* Time passes without a touch.
Waits ==
  /\ Awake /\ ~AnyTouch
  /\ \/ task.mode = "config" /\ task' = [task EXCEPT !.alone = TRUE]
     \/ task.mode = "race" /\ ~sim /\ task' = [task EXCEPT !.idle = TRUE]
  /\ UNCHANGED <<store, finger, mask, news, sim, ota, hid, seen, dark>>

Cools ==
  /\ on /\ task.asleep /\ ~task.guard /\ ~task.cool
  /\ task' = [task EXCEPT !.cool = TRUE]
  /\ UNCHANGED <<store, finger, mask, news, sim, ota, hid, seen, dark>>

\* note_telem, for a frame of a game or of the simulation.
Telemetry ==
  /\ on
  /\ news' = (news \/ task.asleep) /\ task' = [task EXCEPT !.idle = FALSE]
  /\ UNCHANGED <<store, finger, mask, sim, ota, hid, seen, dark>>

FromGame  == Listening /\ ~ota /\ Telemetry
Simulated == sim /\ Telemetry

OtaTurns ==
  /\ on /\ work = NoWork /\ ota' = ~ota
  /\ UNCHANGED <<store, finger, task, mask, news, sim, hid, seen, dark>>

\* A reset, whatever the cause.
Forgets ==
  /\ task' = Started /\ mask' = {} /\ news' = FALSE /\ sim' = FALSE /\ ota' = FALSE
  /\ hid' = NoHost /\ seen' = {} /\ dark' = {} /\ UNCHANGED finger

RestartTapped == on /\ task.mode = "restart" /\ Stop

-----------------------------------------------------------------------------
\* "Swallow the wake tap - it must not press a button underneath": the touch
\* that wakes the panels, or any other that began while they were dark, presses
\* nothing for as long as the finger stays (display_task).
WakeTapSilent == [][\A p \in dark : task'.held[p] # 0 => task'.held[p] = task.held[p]]_task

\* "A held push button must release on finger-up even if the side UiDoc was
\* swapped out mid-press": once no finger is on a panel and the loop runs, the
\* host ends up seeing no button pressed, whatever was pushed, switched or
\* interrupted before (display_task, service).
ButtonsRelease == <>[](Awake /\ ~AnyTouch) => <>[](on => seen = {})

\* What the display draws ends up being the last layout the device took, also
\* after restarts and while it slept, unless that one was torn on the way
\* (queue_ui, load, apply_pending_ui).
RendersStored ==
  []<>Awake => <>[](on /\ ram["ui"] # Nil /\ ram["ui"].text = "plain" => shown = ram["ui"])
=============================================================================
