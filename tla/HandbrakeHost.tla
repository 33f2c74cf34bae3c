---------------------------- MODULE HandbrakeHost ----------------------------
(***************************************************************************)
(* The dashboard's handbrake page over USB (dashboard/src/hb.rs with       *)
(* pith-device/src/handbrake.rs), composed with the device of              *)
(* HandbrakeCal.  The actors are the user, the UI with its page, the       *)
(* thread that owns the HID handle, the download task of an update, and    *)
(* the device.                                                             *)
(*                                                                         *)
(* UI and thread meet in one slot, where the latest command wins.  The     *)
(* thread blocks for the reply to each line it writes; `pc` says which one *)
(* it is waiting for.  A page the thread sets appears at once (ui_run is a *)
(* queue to the UI's event loop).  The 8 s of a learn window, the 500 ms   *)
(* of a command and the 0.8 s of silence are not counted: the step that    *)
(* ends the wait may be taken or not.                                      *)
(***************************************************************************)
EXTENDS HandbrakeCal, FiniteSetsExt

CONSTANTS
  MaxLate,     \* bound: replies that come after the host's timeout
  MaxUnplugs,  \* bound: times the cable is pulled
  MaxUpdates,  \* bound: updates asked for
  MaxPresses   \* bound: what the user does apart from updates

ASSUME HostBounds == {MaxLate, MaxUnplugs, MaxUpdates, MaxPresses} \subseteq Nat

VARIABLES
  plugged,    \* the device is on the bus
  open, live, \* the thread has a handle; the handle is of the device there
  pc, cur,    \* the reply the thread waits for, the command it is about
  learn,      \* AutoCal
  slot,       \* hb_out
  page,       \* Hb.page
  viewed,     \* the handbrake screen is the one shown
  connected,  \* Hb.connected
  shown,      \* the calibration the UI shows
  flashing,   \* Hb.flashing
  fetching,   \* the download task runs
  late, unplugs, updates, presses   \* counters for the bounds

threadVars == <<open, pc, cur, learn>>
uiVars     == <<page, viewed, connected, shown>>
updateVars == <<flashing, fetching, updates>>
flashVars  == <<updateVars, presses>>
linkVars   == <<plugged, live, unplugs>>
vars == <<devVars, threadVars, uiVars, flashVars, linkVars, slot, late>>

Pages == {"Connect", "AutoCalibrate", "Deadzone", "Done", "Monitor"}

NoCmd     == [op |-> "none", arg |-> 0]
Cmd(o, a) == [op |-> o, arg |-> a]
\* HbOutbound, and what an answered window asks for.
Plain == {Cmd(o, 0) : o \in {"start", "stop", "save", "cancel", "reset", "wifi", "ota"}}
SetFeels == {Cmd("setfeel", f) : f \in Feel}
Outbound == Plain \cup SetFeels

NotLearning == [active |-> FALSE, first |-> 0, seen |-> {}]
Restarted   == [active |-> TRUE,  first |-> 0, seen |-> {}]

Waits == {"cap", "hello", "alive", "command", "refresh", "setidle", "setmax", "learned"}

------------------------------------------------------------------------------
(***************************************************************************)
(* The UI: a view of the calibration page that comes into being asks for   *)
(* a learn window.                                                         *)
(***************************************************************************)
Init ==
  /\ CalInit
  /\ plugged = FALSE /\ live = FALSE /\ open = FALSE
  /\ pc = "loop" /\ cur = NoCmd /\ learn = NotLearning
  /\ slot = NoCmd /\ page = "Connect" /\ viewed = TRUE
  /\ connected = FALSE /\ shown = Visible(Default)
  /\ flashing = FALSE /\ fetching = FALSE
  /\ late = 0 /\ unplugs = 0 /\ updates = 0 /\ presses = 0

\* Show page p, where the slot holds s otherwise.
ShowOver(p, s) ==
  /\ page' = p
  /\ slot' = IF viewed /\ p = "AutoCalibrate" /\ page # p THEN Cmd("start", 0) ELSE s

Show(p) == ShowOver(p, slot)
StayOnPage == UNCHANGED <<page, slot>>

\* What the buttons of each page send.
Buttons(p) ==
  CASE p = "AutoCalibrate" -> {Cmd("stop", 0)}
    [] p = "Deadzone"      -> {Cmd("save", 0), Cmd("cancel", 0)} \cup SetFeels
    [] p = "Monitor"       -> {Cmd("reset", 0)}
    [] OTHER               -> {}

Acts == presses < MaxPresses /\ presses' = presses + 1 /\ UNCHANGED updateVars

\* send_hb, from a button.
Press ==
  /\ Acts
  /\ viewed
  /\ \E c \in Buttons(page) : slot' = c
  /\ UNCHANGED <<devVars, threadVars, uiVars, linkVars, late>>

Provision ==
  /\ Acts
  /\ connected
  /\ slot' = Cmd("wifi", 0)
  /\ UNCHANGED <<devVars, threadVars, uiVars, linkVars, late>>

\* RECALIBRATE and GO TO MONITOR change the page without the thread.
Navigate ==
  /\ Acts
  /\ viewed
  /\ \/ page \in {"Done", "Monitor"} /\ Show("AutoCalibrate")
     \/ page = "Done" /\ Show("Monitor")
  /\ UNCHANGED <<devVars, threadVars, viewed, connected, shown, linkVars, late>>

\* Another screen of the application, and back.
LeaveOrReturn ==
  /\ Acts
  /\ viewed' = ~viewed
  /\ slot' = IF viewed' /\ page = "AutoCalibrate" THEN Cmd("start", 0) ELSE slot
  /\ UNCHANGED <<devVars, threadVars, page, connected, shown, linkVars, late>>

\* install_hb_update, as far as the download.
Install ==
  /\ updates < MaxUpdates
  /\ ~flashing /\ connected
  /\ flashing' = TRUE /\ fetching' = TRUE /\ updates' = updates + 1
  /\ UNCHANGED <<devVars, threadVars, uiVars, linkVars, slot, late, presses>>

\* The download ends: the image is queued, or there is none.
Downloaded ==
  /\ fetching /\ fetching' = FALSE
  /\ \/ slot' = Cmd("ota", 0) /\ UNCHANGED flashing
     \/ flashing' = FALSE /\ UNCHANGED slot
  /\ UNCHANGED <<devVars, threadVars, uiVars, linkVars, updates, late, presses>>

User == Press \/ Provision \/ Navigate \/ LeaveOrReturn \/ Install
------------------------------------------------------------------------------
(***************************************************************************)
(* The device and the cable.  Pulling the cable takes the power away.      *)
(***************************************************************************)
Plug ==
  /\ ~plugged /\ plugged' = TRUE
  /\ Boot
  /\ UNCHANGED <<threadVars, uiVars, flashVars, live, unplugs, slot, late>>

Unplug ==
  /\ plugged /\ unplugs < MaxUnplugs
  /\ unplugs' = unplugs + 1
  /\ plugged' = FALSE /\ live' = FALSE
  /\ cmds' = <<>> /\ lines' = <<>>
  /\ UNCHANGED <<calVars, threadVars, uiVars, flashVars, slot, late>>

Serve ==
  /\ plugged /\ DevServe
  /\ UNCHANGED <<threadVars, uiVars, flashVars, linkVars, slot, late>>

Drift ==
  /\ plugged
  /\ \E r \in Resting : AutoZero(r)
  /\ UNCHANGED <<threadVars, uiVars, flashVars, linkVars, slot, late>>
------------------------------------------------------------------------------
(***************************************************************************)
(* Handbrake::command: a line is written, then the first reply is taken    *)
(* for the answer.                                                         *)
(***************************************************************************)
Send(o, a, w) ==
  /\ cmds' = IF live THEN Append(cmds, Cmd(o, a)) ELSE cmds
  /\ pc' = w

NoReply == Reported(FALSE, "none", Default)
Reply   == IF live /\ lines # <<>> THEN Head(lines) ELSE NoReply

TimedOut ==
  /\ Reply = NoReply
  /\ UNCHANGED lines
  /\ \/ ~live /\ UNCHANGED late
     \/ live /\ late < MaxLate /\ late' = late + 1

Answered == Reply # NoReply /\ lines' = Tail(lines) /\ UNCHANGED late

Received(w) == pc = w /\ (Answered \/ TimedOut)

\* status() and push_status.
IsStatus   == Reply.about = "status"
PushStatus == shown' = IF IsStatus THEN Reply.cal ELSE shown

\* No line is out that has no reply yet.
Quiet == cmds = <<>> /\ lines = <<>>

Rest == UNCHANGED <<calVars, flashVars, linkVars, viewed>>
------------------------------------------------------------------------------
(***************************************************************************)
(* The thread without a device.                                            *)
(***************************************************************************)
\* device_present and try_connect.  The device may hold replies nobody read.
Connect ==
  /\ pc = "loop" /\ ~open /\ plugged
  /\ open' = TRUE /\ live' = TRUE
  /\ lines' \in {lines, <<>>}
  /\ cmds' = Append(cmds, Cmd("cap", 0)) /\ pc' = "cap"
  /\ UNCHANGED <<calVars, cur, learn, uiVars, flashVars, plugged, unplugs, slot, late>>

\* capabilities() takes any OK.
Handshake ==
  /\ Received("cap")
  /\ IF Reply.ok
     THEN connected' = TRUE /\ Send("status", 0, "hello") /\ UNCHANGED open
     ELSE open' = FALSE /\ pc' = "loop" /\ UNCHANGED <<connected, cmds>>
  /\ UNCHANGED <<calVars, cur, learn, page, viewed, shown, flashVars, linkVars, slot>>

FirstStatus ==
  /\ Received("hello")
  /\ PushStatus
  /\ IF IsStatus THEN Show(IF Reply.cal.calibrated THEN "Monitor" ELSE "AutoCalibrate")
                 ELSE StayOnPage
  /\ pc' = "loop"
  /\ UNCHANGED <<cmds, open, cur, learn, connected>> /\ Rest

\* No USB device: a queued upload is refused, everything else dropped.
DropCommand ==
  /\ pc = "loop" /\ ~open /\ slot # NoCmd
  /\ flashing' = IF slot.op = "ota" THEN FALSE ELSE flashing
  /\ slot' = NoCmd
  /\ UNCHANGED <<devVars, threadVars, uiVars, fetching, updates, linkVars, late, presses>>
------------------------------------------------------------------------------
(***************************************************************************)
(* handle_command.                                                         *)
(***************************************************************************)
Take(op) == pc = "loop" /\ open /\ slot.op = op

StartLearning ==
  /\ Take("start")
  /\ learn' = Restarted /\ slot' = NoCmd
  /\ UNCHANGED <<devVars, open, pc, cur, uiVars, flashVars, linkVars, late>>

StopLearning ==
  /\ Take("stop")
  /\ learn' = NotLearning
  /\ ShowOver("Monitor", NoCmd)
  /\ UNCHANGED <<devVars, open, pc, cur, connected, shown, late>>
  /\ Rest

SendCommand ==
  /\ \E op \in {"setfeel", "save", "cancel", "reset", "wifi"} :
       Take(op) /\ Send(op, slot.arg, "command")
  /\ cur' = slot /\ slot' = NoCmd
  /\ UNCHANGED <<calVars, lines, open, learn, uiVars, flashVars, linkVars, late>>

\* mutant: the deadzones are sent and the status is not asked for again
FeelUnrefreshed ==
  /\ Received("command")
  /\ IF cur.op \in {"wifi", "setfeel"} \/ (cur.op = "save" /\ ~Reply.ok)
     THEN pc' = "loop" /\ cur' = NoCmd /\ UNCHANGED cmds
     ELSE Send("status", 0, "refresh") /\ UNCHANGED cur
  /\ UNCHANGED <<calVars, open, learn, uiVars, flashVars, linkVars, slot>>

\* mutant: what @SAVE answers is ignored, as for the other commands
SaveUnlooked ==
  /\ Received("command")
  /\ IF cur.op = "wifi"
     THEN pc' = "loop" /\ cur' = NoCmd /\ UNCHANGED cmds
     ELSE Send("status", 0, "refresh") /\ UNCHANGED cur
  /\ UNCHANGED <<calVars, open, learn, uiVars, flashVars, linkVars, slot>>

\* Only Save looks at its reply; WiFi credentials ask for no status.
CommandAnswered ==
  /\ Received("command")
  /\ IF cur.op = "wifi" \/ (cur.op = "save" /\ ~Reply.ok)
     THEN pc' = "loop" /\ cur' = NoCmd /\ UNCHANGED cmds
     ELSE Send("status", 0, "refresh") /\ UNCHANGED cur
  /\ UNCHANGED <<calVars, open, learn, uiVars, flashVars, linkVars, slot>>

PageAfter(op) ==
  CASE op = "save"   -> "Done"
    [] op = "cancel" -> "Monitor"
    [] op = "reset"  -> "AutoCalibrate"
    [] OTHER         -> page

Refreshed ==
  /\ Received("refresh")
  /\ PushStatus
  /\ Show(PageAfter(cur.op))
  /\ pc' = "loop" /\ cur' = NoCmd
  /\ UNCHANGED <<cmds, open, learn, connected>> /\ Rest

\* OtaFile: ota_upload, whose protocol is OtaUpload's, then finish_flash.
Upload ==
  /\ Take("ota")
  /\ flashing' = FALSE
  /\ \/ /\ live /\ cmds = <<>>                         \* installed: the device restarts
        /\ Boot
        /\ open' = FALSE /\ live' = FALSE /\ learn' = NotLearning
        /\ connected' = FALSE /\ ShowOver("Connect", NoCmd)
     \/ /\ lines' = <<>> /\ slot' = NoCmd               \* the upload or the file failed
        /\ UNCHANGED <<calVars, cmds, open, live, learn, connected, page>>
  /\ UNCHANGED <<pc, cur, viewed, shown, fetching, updates, plugged, unplugs, late, presses>>
------------------------------------------------------------------------------
(***************************************************************************)
(* Telemetry and the learn window.                                         *)
(***************************************************************************)
Idling == pc = "loop" /\ open /\ slot = NoCmd

\* read_telem drops a reply that nobody waits for.
DropStray ==
  /\ Idling /\ live /\ lines # <<>>
  /\ lines' = Tail(lines)
  /\ UNCHANGED <<calVars, cmds, threadVars, uiVars, flashVars, linkVars, slot, late>>

\* on_telem inside the window.
Sample(r) ==
  /\ Idling /\ live /\ lines = <<>> /\ learn.active
  /\ learn' = [learn EXCEPT !.first = IF learn.seen = {} THEN r ELSE @, !.seen = @ \cup {r}]
  /\ UNCHANGED <<devVars, open, pc, cur, uiVars, flashVars, linkVars, slot, late>>

\* The extreme closer to the first sample is the idle one.
IdleOf(l) == IF Distance(l.first, Min(l.seen)) <= Distance(l.first, Max(l.seen))
             THEN Min(l.seen) ELSE Max(l.seen)
MaxOf(l)  == IF IdleOf(l) = Min(l.seen) THEN Max(l.seen) ELSE Min(l.seen)

\* The window is over.  In its 8 s the telemetry has shown that the device
\* answers, so every reply due has come.
WindowEnds ==
  /\ Idling /\ live /\ Quiet /\ learn.active /\ learn.seen # {}
  /\ Send("setidle", IdleOf(learn), "setidle")
  /\ UNCHANGED <<calVars, lines, open, cur, learn, uiVars, flashVars, linkVars, slot, late>>

IdleAnswered ==
  /\ Received("setidle")
  /\ IF Reply.ok THEN Send("setmax", MaxOf(learn), "setmax") /\ UNCHANGED learn
                 ELSE learn' = Restarted /\ pc' = "loop" /\ UNCHANGED cmds
  /\ UNCHANGED <<calVars, open, cur, uiVars, flashVars, linkVars, slot>>

MaxAnswered ==
  /\ Received("setmax")
  /\ IF Reply.ok THEN learn' = NotLearning /\ Send("status", 0, "learned")
                 ELSE learn' = Restarted /\ pc' = "loop" /\ UNCHANGED cmds
  /\ UNCHANGED <<calVars, open, cur, uiVars, flashVars, linkVars, slot>>

Learned ==
  /\ Received("learned")
  /\ PushStatus
  /\ Show("Deadzone")
  /\ pc' = "loop"
  /\ UNCHANGED <<cmds, open, cur, learn, connected>> /\ Rest

\* MISS_LIMIT reads without telemetry: the load cell always has a sample, so
\* the device is gone or in the middle of something.
Silence ==
  /\ Idling /\ lines = <<>> /\ (~live \/ cmds # <<>>)
  /\ Send("status", 0, "alive")
  /\ UNCHANGED <<calVars, lines, open, cur, learn, uiVars, flashVars, linkVars, slot, late>>

Alive ==
  /\ Received("alive")
  /\ pc' = "loop"
  /\ IF IsStatus
     THEN StayOnPage /\ UNCHANGED <<open, live, learn, connected>>
     ELSE open' = FALSE /\ live' = FALSE /\ learn' = NotLearning
            /\ connected' = FALSE /\ Show("Connect")
  /\ UNCHANGED <<calVars, cmds, cur, viewed, shown, flashVars, plugged, unplugs>>
------------------------------------------------------------------------------
Thread ==
  \/ Connect \/ Handshake \/ FirstStatus \/ DropCommand
  \/ StartLearning \/ StopLearning \/ SendCommand \/ CommandAnswered \/ Refreshed \/ Upload
  \/ DropStray \/ (\E r \in Raw : Sample(r))
  \/ WindowEnds \/ IdleAnswered \/ MaxAnswered \/ Learned \/ Silence \/ Alive

Next == User \/ Downloaded \/ Plug \/ Unplug \/ Serve \/ Drift \/ Thread

Spec == Init /\ [][Next]_vars
------------------------------------------------------------------------------
Wire == {Cmd(o, 0) : o \in {"cap", "status", "wifi", "save", "cancel", "reset"}}
          \cup SetFeels \cup {Cmd(o, r) : o \in {"setidle", "setmax"}, r \in Raw}

Readings == Raw \cup Resting
Stored  == [idle : Min(Readings)..Max(Readings), max : Raw, feel : Feel, calibrated : BOOLEAN]
Shown   == [max : Raw, feel : Feel, calibrated : BOOLEAN]
Replies == [ok : BOOLEAN, about : {"plain", "cap", "status"}, cal : Shown]

\* Every variable holds what the code can put there; the idle point stays
\* within the readings it was taken from.
TypeOK ==
  /\ {pending, saved, nvs} \subseteq Stored /\ shown \in Shown
  /\ cmds \in Seq(Wire) /\ lines \in Seq(Replies)
  /\ Len(cmds) + Len(lines) <= MaxLate + 1
  /\ {plugged, open, live, viewed, connected, flashing, fetching} \subseteq BOOLEAN
  /\ pc \in Waits \cup {"loop"} /\ cur \in Outbound \cup {NoCmd} /\ slot \in Outbound \cup {NoCmd}
  /\ learn \in [active : BOOLEAN, first : Raw, seen : SUBSET Raw]
  /\ page \in Pages
  /\ late \in 0..MaxLate /\ unplugs \in 0..MaxUnplugs /\ updates \in 0..MaxUpdates /\ presses \in 0..MaxPresses

\* When "Calibration saved" comes up, the calibration it shows is the one in
\* NVS, unless a reply came late (hb.rs 588-597).
DoneIsSaved ==
  [][page # "Done" /\ page' = "Done" /\ live /\ late' = 0 =>
       shown' = Visible(nvs)]_vars

\* While the thread is at rest the page shows the calibration in effect, not
\* a guess of its own; the idle point, which the device moves by itself and
\* which a window that failed has moved, apart (handbrake.rs 160-164).  A
\* connected handbrake has left the Connect page, on which there is nothing
\* to press (try_connect).
ShowsInEffect ==
  connected /\ live /\ late = 0 /\ pc = "loop" =>
    shown = Visible(pending) /\ page # "Connect"
==============================================================================
