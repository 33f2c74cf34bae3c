------------------------------ MODULE DduLink ------------------------------
(***************************************************************************)
(* The dashboard's layout editor and the DDU over USB: the device thread   *)
(* connects and polls (dashboard/src/loops.rs, device_loop), the user      *)
(* edits and saves (callbacks.rs), background tasks read the layout back,  *)
(* closures bring what they read into the editor, and the device stores    *)
(* and draws what it got (DduStore), under the driver's fingers (DduPanel).*)
(*                                                                         *)
(* A lock on the handle lets one command and its answer through at a time  *)
(* (pith-device/src/dash.rs).  A read is one step here, a command that     *)
(* writes the device's flash is one for the line, one for each entry of    *)
(* the flash, and one for the answer.                                      *)
(***************************************************************************)
EXTENDS LayoutEditor, DduPanel

CONSTANTS
  Scenarios,      \* [open, may, table, flash]: whether the dashboard runs, how often the user and the world
                  \* may do what, what the device starts from
  Documents       \* documents of the other screens, by command

\* What is stored of a command is something: a document is not Nil.
Document(c, v) ==
  /\ v # Nil /\ "text" \in DOMAIN v
  /\ c = "BS" => v.n # Nil
  /\ c = "DO" => \A k \in Panel : v[k] # Nil

ASSUME DocumentsAssumption ==
  /\ "C" \in DOMAIN Documents /\ DOMAIN Documents \subseteq {"C", "BS", "PINS", "DO"}
  /\ \A c \in DOMAIN Documents : \A v \in Documents[c] : Document(c, v)

\* The layouts a device starts with come from this editor.
EdOk(v, r) == v # Nil /\ v.text = "plain" => Fine(v.lay, r)

ASSUME FlashAssumption == \A s \in Scenarios : "ed" \in DOMAIN s.flash => EdOk(s.flash["ed"], FALSE)

Charges == {"add", "grid", "remove", "drag", "place", "tabs", "kind", "hid", "elem", "text", "preset", "look",
            "save", "read", "sync", "other", "boot", "plug", "power", "full", "reopen", "cut",
            "host", "touch", "wait", "telem", "ota"}

VARIABLES
  handle,     \* the dashboard's handle: "none", "live", "dead"
  loop,       \* the device thread: "off", "scan", "greet", "poll"
  raceDirty,  \* State.race_dirty
  ui,         \* the UI thread: [at, todo, ok]: "idle", or in a callback that talks to the device
  line,       \* the line the device handles: [by, cmd, val], by "none", "ui", "task"
  tasks,      \* reads under way: [ask, ed]
  cars,       \* car profiles on their way to the device
  uiq,        \* closures
  budget

host == <<handle, loop, raceDirty, ui, line, tasks, cars, uiq>>
vars == <<editor, device, host, budget>>

NoLine == [by |-> "none", cmd |-> "none", val |-> Nil]
Idle   == [at |-> "idle", todo |-> <<>>, ok |-> FALSE]

Init ==
  \E s \in Scenarios :
    /\ InitEditor
    /\ table = s.table
    /\ blob = [k \in BlobKeys |-> Nil]
    /\ nvs = [k \in Keys |-> IF k \in DOMAIN s.flash THEN s.flash[k] ELSE Nil]
    /\ on = FALSE /\ ram = [k \in Keys |-> Nil] /\ strip = Nil /\ pending = Nil /\ shown = Nil
    /\ work = NoWork /\ reboot = FALSE /\ kept = nvs /\ failed = {}
    /\ InitPanel
    /\ handle = "none" /\ loop = (IF s.open THEN "scan" ELSE "off") /\ raceDirty = FALSE /\ ui = Idle /\ line = NoLine
    /\ tasks = <<>> /\ cars = <<>> /\ uiq = <<>>
    /\ budget = [k \in Charges |-> IF k \in DOMAIN s.may THEN s.may[k] ELSE 0]

Spend(k) == budget[k] > 0 /\ budget' = [budget EXCEPT ![k] = @ - 1]
Free     == UNCHANGED budget

-----------------------------------------------------------------------------
(* Commands                                                                *)

LockFree == line = NoLine
Reaches  == handle = "live" /\ Listening /\ ~ota

\* A read: the answer, or silence for two seconds.
Reply(k) == IF Reaches THEN ram[k] ELSE Nil

TextOf(v) == v.text
Received(v) == IF TextOf(v) = "dollar" THEN [v EXCEPT !.text = "torn"] ELSE v

\* command: a line longer than the device's buffer is dropped there.
Send(by, cmd, v) ==
  /\ LockFree
  /\ line' = [by |-> by, cmd |-> cmd, val |-> v]
  /\ IF Reaches /\ TextOf(v) # "long" THEN Handle(cmd, Received(v)) /\ UNCHANGED glass
     ELSE UNCHANGED device

\* The flash is written; the answer reaches the host if its handle lives.
DeviceWrites == WriteDone /\ UNCHANGED <<editor, host, glass>> /\ Free
DeviceFails  == WriteFails /\ Spend("full") /\ UNCHANGED <<editor, host, glass>>

Answered(ok) ==
  /\ line' = NoLine
  /\ CASE line.by = "ui"   -> /\ ui' = [ui EXCEPT !.ok = @ \/ (ok /\ line.cmd # "EL")]
                              /\ UNCHANGED cars
       [] line.by = "task" -> UNCHANGED <<ui, cars>>
  /\ UNCHANGED <<handle, loop, raceDirty, tasks, uiq>>

Answer ==
  /\ line # NoLine /\ Return /\ Answered(work.answer = "OK" /\ handle = "live")
  /\ UNCHANGED <<editor, glass>> /\ Free

Silence ==
  /\ line # NoLine /\ work = NoWork /\ Answered(FALSE)
  /\ UNCHANGED <<editor, device>> /\ Free

-----------------------------------------------------------------------------
(* The device                                                              *)

DeviceBoots   == Boot /\ Spend("boot") /\ UNCHANGED <<editor, host, glass>>
Gone          == handle' = IF handle = "live" THEN "dead" ELSE handle
DeviceStops   ==
  /\ \/ PowerLoss /\ Spend("power")
     \/ (Restart \/ RestartTapped) /\ Free
  /\ Forgets /\ Gone /\ UNCHANGED <<editor, loop, raceDirty, ui, line, tasks, cars, uiq>>

\* What happens on the panels and at the host's game.
PanelRuns ==
  /\ (Frame \/ Doze \/ Service \/ Lift \/ Cools \/ Simulated) /\ Free
  /\ UNCHANGED <<editor, host>>

PanelWorld ==
  /\ \/ TouchDown /\ Spend("touch")
     \/ Waits /\ Spend("wait")
     \/ FromGame /\ Spend("telem")
     \/ OtaTurns /\ Spend("ota")
     \/ Enumerates /\ Spend("host")
  /\ UNCHANGED <<editor, host>>

\* The cable.
Unplug ==
  /\ Spend("plug") /\ handle = "live" /\ Gone /\ Unseen
  /\ UNCHANGED <<editor, store, finger, task, mask, news, sim, ota, dark, loop, raceDirty, ui, line, tasks, cars, uiq>>

-----------------------------------------------------------------------------
(* The device thread                                                       *)

\* The thread waits while the device is being updated.  try_connect asks for the capabilities before it keeps the handle.
Scan ==
  /\ loop = "scan" /\ LockFree /\ handle = "none" /\ Listening /\ ~ota
  /\ handle' = "live" /\ loop' = "greet"
  /\ UNCHANGED <<editor, device, raceDirty, ui, line, tasks, cars, uiq>> /\ Free

StartRead(ask) == tasks' = Append(tasks, [ask |-> ask, ed |-> Nil])

\* A fresh connection reads the layout, "unless there are unsaved local edits".
Greet ==
  /\ loop = "greet" /\ LockFree /\ ~ota
  /\ loop' = "poll"
  /\ IF raceDirty \/ handle = "none" THEN UNCHANGED tasks ELSE StartRead("EG")
  /\ UNCHANGED <<editor, device, handle, raceDirty, ui, line, cars, uiq>> /\ Free

\* A status nobody answers closes the handle.
Poll ==
  /\ loop = "poll" /\ LockFree /\ ~ota /\ ~Reaches
  /\ handle' = "none" /\ loop' = "scan"
  /\ UNCHANGED <<editor, device, raceDirty, ui, line, tasks, cars, uiq>> /\ Free

-----------------------------------------------------------------------------
(* Tasks in the background                                                 *)

Ask(i) ==
  /\ LockFree
  /\ LET t == tasks[i]
     IN  \/ /\ t.ask = "EG" /\ tasks' = [tasks EXCEPT ![i].ed = Reply("ed"), ![i].ask = "RG"] /\ UNCHANGED uiq
         \/ /\ t.ask = "RG" /\ tasks' = RemoveAt(tasks, i)
            /\ uiq' = Append(uiq, [do |-> "layout", ed |-> t.ed, rg |-> Reply("race")])
         \/ /\ t.ask = "sync" /\ tasks' = RemoveAt(tasks, i)
            /\ uiq' = Append(uiq, [do |-> "zones", rg |-> Reply("race")])
  /\ UNCHANGED <<editor, device, handle, loop, raceDirty, ui, line, cars>> /\ Free

AskAny == \E i \in DOMAIN tasks : Ask(i)

\* push_car, for the profile a game or the user has chosen.
PushCar ==
  /\ cars # <<>> /\ cars' = Tail(cars)
  /\ IF handle = "none" THEN UNCHANGED <<line, device>> ELSE Send("task", "C", Head(cars))
  /\ UNCHANGED <<editor, handle, loop, raceDirty, ui, tasks, uiq>> /\ Free

-----------------------------------------------------------------------------
(* The UI thread                                                           *)

Usable(d) == d # Nil /\ d.text = "plain"

UiRun ==
  /\ ui = Idle /\ uiq # <<>> /\ uiq' = Tail(uiq)
  /\ LET f == Head(uiq)
     IN  /\ CASE f.do = "layout" /\ Usable(f.ed) /\ f.ed.lay.nodes # <<>> -> ApplyLayout(f.ed) /\ raceDirty' = FALSE
              [] f.do = "layout" /\ ~(Usable(f.ed) /\ f.ed.lay.nodes # <<>>) /\ Usable(f.rg) -> ApplyZones /\ raceDirty' = FALSE
              [] f.do = "zones" /\ Usable(f.rg) -> ApplyZones /\ raceDirty' = FALSE
              [] OTHER -> UNCHANGED <<editor, raceDirty>>
  /\ UNCHANGED <<device, handle, loop, ui, line, tasks, cars>> /\ Free

User(k) == ui = Idle /\ ~Dragging /\ Spend(k)

Screen(l, d) ==
  [tabs |-> l.tabs[d],
   nodes |-> LET mine == SelectSeq(l.nodes, LAMBDA n : n.disp = d)
             IN  [i \in DOMAIN mine |-> [mine[i] EXCEPT !.id = NoSel]]]

Worst(l) == IF \E n \in Range(l.nodes) : n.text = "long" THEN "long"
            ELSE IF \E n \in Range(l.nodes) : n.text = "dollar" THEN "dollar" ELSE "plain"

\* build_race_layout_json, build_uidoc_json, build_editor_layout_json.
RaceDoc    == [text |-> "plain"]
UiDoc(l)   == [text |-> Worst(l), screens |-> IF \E n \in Range(l.nodes) : n.disp = 1
                                               THEN <<Screen(l, 0), Screen(l, 1)>> ELSE <<Screen(l, 0)>>]
EdDoc(l)   == [text |-> Worst(l), lay |-> l]

\* on_save
Save ==
  /\ User("save") /\ handle # "none"
  /\ ui' = [at |-> "save", ok |-> FALSE,
            todo |-> <<<<"RS", RaceDoc>>, <<"UI", UiDoc(lay)>>, <<"EL", EdDoc(lay)>>>>]
  /\ UNCHANGED <<editor, device, handle, loop, raceDirty, line, tasks, cars, uiq>>

\* The other screens push one document each.
PushOther ==
  /\ User("other") /\ handle # "none"
  /\ \E c \in DOMAIN Documents : \E v \in Documents[c] : ui' = [at |-> "push", ok |-> FALSE, todo |-> <<<<c, v>>>>]
  /\ UNCHANGED <<editor, device, handle, loop, raceDirty, line, tasks, cars, uiq>>

ChooseCar ==
  /\ User("other") /\ \E v \in Documents["C"] : cars' = Append(cars, v)
  /\ UNCHANGED <<editor, device, handle, loop, raceDirty, ui, line, tasks, uiq>>

UiSends ==
  /\ ui.todo # <<>> /\ Send("ui", Head(ui.todo)[1], Head(ui.todo)[2])
  /\ ui' = [ui EXCEPT !.todo = Tail(@)]
  /\ UNCHANGED <<editor, handle, loop, raceDirty, tasks, cars, uiq>> /\ Free

UiReturns ==
  /\ ui.at # "idle" /\ ui.todo = <<>> /\ line.by # "ui" /\ ui' = Idle
  /\ IF ui.at = "save"
     THEN raceDirty' = (raceDirty /\ ~ui.ok) /\ dirty' = (dirty /\ ~ui.ok)
     ELSE UNCHANGED <<raceDirty, dirty>>
  /\ UNCHANGED <<lay, view, presets, active, uid, file, pfile, foreign, rekinded>>
  /\ UNCHANGED <<device, handle, loop, line, tasks, cars, uiq>> /\ Free

Read ==
  /\ User("read") /\ handle # "none"
  /\ StartRead("EG")
  /\ UNCHANGED <<editor, device, handle, loop, raceDirty, ui, line, cars, uiq>>

Sync ==
  /\ User("sync") /\ handle # "none"
  /\ StartRead("sync")
  /\ UNCHANGED <<editor, device, handle, loop, raceDirty, ui, line, cars, uiq>>

\* No edit sets race_dirty.
Editing ==
  \/ User("add") /\ NodeAdd
  \/ User("grid") /\ AddButtonGrid
  \/ User("remove") /\ (NodeRemove \/ DeleteSelected)
  \/ User("look") /\ (NodeSelect \/ SwitchDisplay \/ TabSelect \/ ElemSelect)
  \/ User("drag") /\ DragStart
  \/ User("place") /\ (Center \/ Align \/ SetGeo)
  \/ User("tabs") /\ (TabsEnable \/ TabAdd \/ TabRemove \/ TabMove \/ SetModPage)
  \/ User("kind") /\ (SetModKind \/ SetElemKind)
  \/ User("hid") /\ (SetModHid \/ SetElemHid)
  \/ User("text") /\ SetModText
  \/ User("elem") /\ (Customize \/ WidgetReset \/ ElemAdd \/ ElemRemove \/ ElemMove)
  \/ User("preset") /\ (NewPreset \/ UpdatePreset \/ DeletePreset)

\* One pointer: a gesture is finished before anything else is clicked.
Gesture == ui = Idle /\ Free /\ (NodeSnap \/ NodeResize \/ DragEnd)

EditLayout ==
  /\ IF Dragging THEN Gesture ELSE Editing
  /\ UNCHANGED <<device, host>>

ChoosePreset ==
  /\ User("preset") /\ SelectPreset /\ raceDirty' = FALSE
  /\ UNCHANGED <<device, handle, loop, ui, line, tasks, cars, uiq>>

\* The dashboard ends and starts; "cut": while it was writing the layout.
CloseAndOpen ==
  /\ ui = Idle /\ line = NoLine
  /\ \/ Spend("reopen") /\ Reopen(file)
     \/ Spend("cut") /\ Reopen(NoFile)
  /\ handle' = "none" /\ loop' = "scan" /\ raceDirty' = FALSE /\ tasks' = <<>> /\ cars' = <<>> /\ uiq' = <<>>
  /\ UNCHANGED <<device, ui, line>>

-----------------------------------------------------------------------------
Next ==
  \/ DeviceBoots \/ DeviceStops \/ PanelRuns \/ PanelWorld \/ DeviceWrites \/ DeviceFails \/ Answer \/ Silence \/ Unplug
  \/ Scan \/ Greet \/ Poll \/ AskAny \/ PushCar
  \/ UiRun \/ Save \/ PushOther \/ ChooseCar \/ UiSends \/ UiReturns \/ Read \/ Sync
  \/ EditLayout \/ ChoosePreset \/ CloseAndOpen

Spec == Init /\ [][Next]_vars

\* The tasks of the device are scheduled: weak fairness of steps that have
\* nothing more to do once they are taken.
DozeReady  == on /\ task.asleep /\ (news \/ ota \/ (AnyTouch /\ ~task.guard /\ task.cool))
FairSpec ==
  /\ Spec /\ WF_vars(DeviceWrites) /\ WF_vars(Answer)
  /\ []<>~FrameReady /\ []<>~DozeReady /\ []<>(~on \/ Settled)

\* "On connect, pull the device's saved layout so the editor shows what's
\* actually on the device - unless there are unsaved local edits to keep": a
\* new connection starts no read, whose answer replaces the layout in the
\* editor and on disk, while that is marked as unsaved (device_loop,
\* mark_dirty).
EditsKept == [][dirty /\ loop = "greet" /\ loop' = "poll" => tasks' = tasks]_vars
=============================================================================
