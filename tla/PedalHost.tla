----------------------------- MODULE PedalHost -----------------------------
(***************************************************************************)
(* The dashboard's pedal screen (dashboard/src/pedals.rs): one editor for  *)
(* the configurations of several pedals, profiles with the games and cars  *)
(* they are bound to, the device thread that talks to the pedal over USB   *)
(* or hands its lines to the WiFi thread, and the switch to the profile of *)
(* the running game.                                                       *)
(*                                                                         *)
(* The UI thread runs callbacks of the user and closures other threads     *)
(* queue for it (`ui_run`).  A request to the device thread replaces the   *)
(* one before it.  The pedal answers every line in order and forgets its   *)
(* configuration when it restarts.  A configuration is its role, one       *)
(* number of the editor (`n`), the points of its curve, and all that the   *)
(* editor does not show (`rest`).                                          *)
(***************************************************************************)
EXTENDS PedalCurve

CONSTANTS
  Roles, Brake,      \* the selector's pedals; the one selected at the start
  Names,             \* names of profiles, in their order
  Cars, Games,       \* "" is no car, no game
  Alike,             \* pairs <<car, key>> of which one contains the other
  Numbers,           \* what the user types
  Spots,             \* where the user clicks in the plot
  Hidden,            \* what the editor does not show
  Device,            \* the configuration of the pedal after a restart
  Scenarios          \* [may, present, profiles, bindings, auto]

\* The pedal and the files hold configurations of this editor, or the ones
\* built in: a role with its own hidden part, a curve the editor can show.
Sound(c) ==
  /\ c \in [role : Roles, n : Nat, curve : Seq(Nat \X Nat), rest : Roles \X Hidden]
  /\ c.rest[1] = c.role
  /\ Len(c.curve) <= MaxPoints /\ Ordered(Unpacked(c.curve))

ASSUME HostAssumption ==
  /\ Brake \in Roles /\ Names \subseteq Nat \ {0} /\ Numbers \subseteq Nat
  /\ Spots \subseteq Int \X Int /\ "default" \in Hidden
ASSUME DeviceAssumption == Sound(Device)
ASSUME FilesAssumption ==
  \A s \in Scenarios :
    /\ {s.present, s.auto} \subseteq BOOLEAN
    /\ DOMAIN s.profiles \subseteq Names /\ DOMAIN s.bindings \subseteq Names
    /\ \A p \in DOMAIN s.profiles : Sound(s.profiles[p])

\* The user pushed or edited the files, the pedal restarted, or a profile that
\* was sent got lost with the cable.
Touches == {"push", "files", "restart", "lost"}

None   == [op |-> "none"]
NoGame == [game |-> "none", car |-> ""]   \* pedals_last_auto cleared
Charges == {"type", "select", "push", "refresh", "wifi", "install", "load", "save", "delete", "bind",
            "auto", "game", "plug", "net", "late", "curve", "broken"}

VARIABLES
  sel, editor, marks, online, status, flashing, profile,  \* the screen
  crashed,                \* a callback panicked
  uiq,                    \* closures for the UI thread
  slots,                  \* PEDAL_SLOTS
  profiles, bindings,     \* the two files
  auto, last, detected,   \* the State: auto-switch, what it handled, [game, car]
  outbox,                 \* latest request for the device thread
  at, job,                \* the device thread
  open,                   \* it has a handle, and the handle works
  present, wireless,      \* the pedal on USB, in the WiFi discovery table
  device,                 \* the pedal's configuration
  up, down,               \* lines and replies on their way
  touched,                \* history: what befell the pedal and the files (Touches)
  budget

screen == <<sel, editor, marks, online, status, flashing, profile, crashed>>
store  == <<profiles, bindings>>
game   == <<auto, last, detected>>
link   == <<device, up, down, present, wireless>>
thread == <<at, job, open>>
vars   == <<screen, uiq, slots, store, game, outbox, thread, link, touched, budget>>

\* Kilograms in the editor, tenths of a Newton in the configuration.
Shown(n)    == (n + 1) \div 2
Stored(kg)  == 2 * kg
Default(r)  == [role |-> r, n |-> 1, curve |-> Packed(Linear), rest |-> <<r, "default">>]
Spend(k)    == budget[k] > 0 /\ budget' = [budget EXCEPT ![k] = @ - 1]
Free        == UNCHANGED budget
Least(S)    == CHOOSE x \in S : \A y \in S : x <= y

Init ==
  \E s \in Scenarios :
    /\ sel = Brake /\ editor = [n |-> 0, curve |-> Linear] /\ marks = {} /\ online = FALSE
    /\ status = "" /\ flashing = "no" /\ crashed = FALSE
    /\ profile = IF DOMAIN s.profiles = {} THEN 0 ELSE Least(DOMAIN s.profiles)
    /\ uiq = <<>> /\ slots = [r \in Roles |-> Default(r)]
    /\ profiles = s.profiles /\ bindings = s.bindings
    /\ auto = s.auto /\ last = NoGame /\ detected = [game |-> "", car |-> ""]
    /\ outbox = None /\ at = "scan" /\ job = None /\ open = FALSE
    /\ present = s.present /\ wireless = FALSE /\ device = Device
    /\ up = <<>> /\ down = <<>> /\ touched = {}
    /\ budget = [k \in Charges |-> IF k \in DOMAIN s.may THEN s.may[k] ELSE 0]

-----------------------------------------------------------------------------
(* The editor and the closures of the UI thread                            *)

\* config_from_ui with what is not shown taken from the first slot.
BaseOfFirst == [slots[Brake] EXCEPT !.role = sel, !.n = Stored(editor.n), !.curve = Packed(editor.curve)]

FromUi == [slots[sel] EXCEPT !.role = sel, !.n = Stored(editor.n), !.curve = Packed(editor.curve)]
Keep   == slots' = [slots EXCEPT ![sel] = FromUi]

Filled(c) == [n |-> Shown(c.n), curve |-> Unpacked(c.curve)]
Fill(c)   == [do |-> "fill", cfg |-> c]
Note(m)   == [do |-> "note", msg |-> m]
Flash(m)   == [do |-> "flash", msg |-> m]
Online(b)   == [do |-> "online", on |-> b]
Marks(S)    == [do |-> "marks", roles |-> S]
Adopted(c)  == [do |-> "adopted", role |-> c.role]

UiRun ==
  /\ uiq # <<>> /\ uiq' = Tail(uiq)
  /\ LET f == Head(uiq)
     IN  /\ sel'      = IF f.do = "adopted" THEN f.role ELSE sel
         /\ marks'    = IF f.do = "adopted" THEN {f.role} ELSE IF f.do = "marks" THEN f.roles ELSE marks
         /\ editor'   = IF f.do = "fill" THEN Filled(f.cfg) ELSE editor
         /\ online'   = IF f.do = "online" THEN f.on ELSE online
         /\ flashing' = IF f.do = "flash" THEN "no" ELSE flashing
         /\ status'   = IF f.do \in {"note", "flash"} THEN f.msg ELSE status
  /\ UNCHANGED <<profile, crashed, slots, store, game, outbox, thread, link, touched, budget>>

-----------------------------------------------------------------------------
(* The user                                                                *)

\* A user answers to what the screen shows: the closures have run.
User(k) == uiq = <<>> /\ ~crashed /\ Spend(k)

Request(r) == outbox' = r

Type ==
  /\ User("type")
  /\ \E n \in Numbers : editor' = [editor EXCEPT !.n = n]
  /\ UNCHANGED <<sel, marks, online, status, flashing, profile, crashed, uiq, slots, store, game, outbox, thread, link, touched>>

\* The three edits of the curve.
EditCurve ==
  /\ User("curve")
  /\ \E x \in {p[1] : p \in Spots}, y \in {p[2] : p \in Spots} :
       \/ /\ editor' = [editor EXCEPT !.curve = RightClicked(@, x, y)] /\ UNCHANGED crashed
       \/ \E i \in DOMAIN editor.curve :
            IF NoRoom(editor.curve, i) THEN crashed' = TRUE /\ UNCHANGED editor
            ELSE editor' = [editor EXCEPT !.curve = Moved(@, i, x, y)] /\ UNCHANGED crashed
       \/ /\ \E p \in Presets : editor' = [editor EXCEPT !.curve = p] /\ UNCHANGED crashed
  /\ UNCHANGED <<sel, marks, online, status, flashing, profile, uiq, slots, store, game, outbox, thread, link, touched>>

Select ==
  /\ User("select") /\ Keep
  /\ \E r \in Roles \ {sel} : sel' = r /\ uiq' = Append(uiq, Fill(slots[r]))
  /\ UNCHANGED <<editor, marks, online, status, flashing, profile, crashed, store, game, outbox, thread, link, touched>>

Push ==
  /\ User("push") /\ Keep /\ Request([op |-> "push", cfg |-> FromUi]) /\ touched' = touched \cup {"push"}
  /\ UNCHANGED <<screen, uiq, store, game, thread, link>>

Ask ==
  /\ \/ User("refresh") /\ Request([op |-> "refresh"])
     \/ User("wifi") /\ Request([op |-> "wifi"])
  /\ UNCHANGED <<screen, uiq, slots, store, game, thread, link, touched>>

\* The update: the download ends in the outbox or with a message; the flag
\* stays up until the device thread has taken the file.
Install ==
  /\ User("install") /\ flashing = "no" /\ online /\ flashing' = "downloading"
  /\ UNCHANGED <<sel, editor, marks, online, status, profile, crashed, uiq, slots, store, game, outbox, thread, link, touched>>

Downloaded ==
  /\ flashing = "downloading"
  /\ \/ Request([op |-> "ota"]) /\ flashing' = "sent" /\ UNCHANGED uiq
     \/ uiq' = Append(uiq, Flash("Download failed")) /\ flashing' = "failed" /\ UNCHANGED <<outbox>>
  /\ UNCHANGED <<sel, editor, marks, online, status, profile, crashed, slots, store, game, thread, link, touched, budget>>

Load ==
  /\ User("load")
  /\ \E p \in DOMAIN profiles :
       /\ uiq' = Append(uiq, Fill(profiles[p])) /\ status' = "Loaded"
       /\ UNCHANGED profile
  /\ UNCHANGED <<sel, editor, marks, online, flashing, profile, crashed, slots, store, game, outbox, thread, link, touched>>

Save ==
  /\ User("save") /\ touched' = touched \cup {"files"} /\ Keep
  /\ \E p \in Names : profiles' = [q \in DOMAIN profiles \cup {p} |-> IF q = p THEN FromUi ELSE profiles[q]] /\ profile' = p
  /\ status' = "Saved"
  /\ UNCHANGED <<sel, editor, marks, online, flashing, crashed, uiq, bindings, game, outbox, thread, link>>

Without(f, p) == [q \in DOMAIN f \ {p} |-> f[q]]

Delete ==
  /\ User("delete") /\ touched' = touched \cup {"files"}
  /\ \E p \in DOMAIN profiles :
       /\ profiles' = Without(profiles, p) /\ bindings' = Without(bindings, p)
       /\ profile' = IF profile = p THEN 0 ELSE profile
  /\ UNCHANGED <<sel, editor, marks, online, status, flashing, crashed, uiq, slots, game, outbox, thread, link>>

\* A key is toggled; a profile without keys has no binding.
Bind ==
  /\ User("bind") /\ touched' = touched \cup {"files"} /\ profile # 0
  /\ \E k \in (Cars \cup Games) \ {""} :
       LET had  == IF profile \in DOMAIN bindings THEN bindings[profile] ELSE {}
           keys == IF k \in had THEN had \ {k} ELSE had \cup {k}
       IN  bindings' = IF keys = {} THEN Without(bindings, profile)
                       ELSE [q \in DOMAIN bindings \cup {profile} |-> IF q = profile THEN keys ELSE bindings[q]]
  /\ UNCHANGED <<screen, uiq, slots, profiles, game, outbox, thread, link>>

SetAuto ==
  /\ User("auto") /\ auto' = ~auto /\ last' = NoGame
  /\ UNCHANGED <<screen, uiq, slots, store, detected, outbox, thread, link, touched>>

UserActs ==
  \/ Type \/ EditCurve \/ Select \/ Push \/ Ask \/ Install \/ Load \/ Save \/ Delete \/ Bind \/ SetAuto

-----------------------------------------------------------------------------
(* The device thread.  A command is written and the next line is its       *)
(* reply; the replies are not matched to the commands.                     *)

Step(a, j) == at' = a /\ job' = j
Post(fs)   == uiq' = uiq \o fs
Tell(l)    == up' = IF open THEN Append(up, l) ELSE up
Command(l, a) == Tell(l) /\ Step(a, job)

Line(op) == [op |-> op, air |-> FALSE]

\* Handle closed, the screen told.
OfflineOnly == <<Online(FALSE)>>
Offline     == <<Marks({}), Online(FALSE)>>

\* Every second a look for the pedal.  What it still had to say to the last
\* session may be read by this one.
Scan ==
  /\ at = "scan"
  /\ \/ present /\ open' = TRUE /\ up' = Append(up, Line("cap")) /\ Step("cap", job) /\ down' \in {down, <<>>}
     \/ Step("air", job) /\ UNCHANGED <<open, up, down>>
  /\ UNCHANGED <<screen, uiq, slots, store, game, outbox, device, touched, present, wireless, budget>>

Connected ==
  /\ at = "cap" /\ down # <<>> /\ down' = Tail(down)
  /\ Post(<<Online(TRUE)>>) /\ Command(Line("get"), "getcfg")
  /\ UNCHANGED <<open, screen, slots, store, game, outbox, device, touched, present, wireless, budget>>

\* adopt_device_config: the slot, then two closures.
TakeIn(c) ==
  /\ slots' = [slots EXCEPT ![c.role] = c]
  /\ Step("adopt", [op |-> "adopt", cfg |-> c, air |-> at = "request"])

GotConfig ==
  /\ at \in {"getcfg", "refresh"} /\ down # <<>> /\ down' = Tail(down)
  /\ IF Head(down).op = "get" THEN TakeIn(Head(down).cfg) ELSE Step("act", None) /\ UNCHANGED slots
  /\ UNCHANGED <<open, sel, editor, marks, online, status, flashing, profile, crashed, uiq, store, game, outbox,
                 device, touched, present, wireless, up, budget>>

Adopt ==
  /\ at = "adopt" /\ Post(<<Adopted(job.cfg)>>) /\ Step("fill", job)
  /\ UNCHANGED <<open, screen, slots, store, game, outbox, link, touched, budget>>

FillIn ==
  /\ at = "fill" /\ Post(<<Fill(job.cfg)>>) /\ Step(IF job.air THEN "scan" ELSE "act", None)
  /\ UNCHANGED <<open, screen, slots, store, game, outbox, link, touched, budget>>

TakeOutbox ==
  /\ at = "outbox"
  /\ outbox' = None
  /\ CASE outbox.op = "push"    -> Tell([op |-> "cfg", cfg |-> outbox.cfg, air |-> FALSE]) /\ Step("push", None) /\ UNCHANGED uiq
       [] outbox.op = "refresh" -> Command(Line("get"), "refresh") /\ UNCHANGED uiq
       [] outbox.op = "wifi"    -> Command(Line("wifi"), "push") /\ UNCHANGED uiq
       [] outbox.op = "ota"     -> Step("ota", None) /\ UNCHANGED <<up, uiq>>
       [] OTHER                 -> Step("act", None) /\ UNCHANGED <<up, uiq>>
  /\ UNCHANGED <<open, screen, slots, store, game, device, touched, present, wireless, down, budget>>

Pushed ==
  /\ at = "push" /\ down # <<>> /\ down' = Tail(down)
  /\ Post(<<Note("Pushed")>>) /\ Step("act", None)
  /\ UNCHANGED <<open, screen, slots, store, game, outbox, device, touched, present, wireless, up, budget>>

\* The effects of the game, every 20 ms; its reply is the pulse of the link.
SendAction ==
  /\ at = "act"
  /\ Command(Line("act"), "acted") \/ (Step("status", None) /\ UNCHANGED up)
  /\ UNCHANGED <<open, screen, uiq, slots, store, game, outbox, device, touched, present, wireless, down, budget>>

Acted ==
  /\ at = "acted" /\ down # <<>> /\ down' = Tail(down) /\ Step("status", None)
  /\ UNCHANGED <<open, screen, uiq, slots, store, game, outbox, device, touched, present, wireless, up, budget>>

AskStatus ==
  /\ at = "status"
  /\ Command(Line("?"), "asked") \/ (Step("outbox", None) /\ UNCHANGED up)
  /\ UNCHANGED <<open, screen, uiq, slots, store, game, outbox, device, touched, present, wireless, down, budget>>

GotStatus ==
  /\ at = "asked" /\ down # <<>> /\ down' = Tail(down) /\ Step("auto", None)
  /\ UNCHANGED <<open, screen, uiq, slots, store, game, outbox, device, touched, present, wireless, up, budget>>

\* resolve_auto_profile: a car wins over a game, the first name over the rest.
Matches(k, d) == d.car # "" /\ <<d.car, k>> \in Alike
Resolve(d) ==
  LET byCar  == {p \in DOMAIN bindings : \E k \in bindings[p] : Matches(k, d)}
      byGame == {p \in DOMAIN bindings : \E k \in bindings[p] : ~Matches(k, d) /\ d.game # "" /\ k = d.game}
  IN  IF byCar # {} THEN Least(byCar) ELSE IF byGame # {} THEN Least(byGame) ELSE 0

SwitchTo(c) ==
  /\ Tell([op |-> "cfg", cfg |-> c, air |-> FALSE]) /\ Step("switch", [op |-> "auto", cfg |-> c])
  /\ touched' = IF open THEN touched ELSE touched \cup {"lost"}

\* Only the game is compared with what was handled.
AutoSwitchGame ==
  /\ at = "auto"
  /\ IF ~auto \/ detected.game = last.game THEN Step("outbox", None) /\ UNCHANGED <<last, up, touched>>
     ELSE /\ last' = detected
          /\ LET p == Resolve(detected)
             IN  IF p \in DOMAIN profiles
                 THEN SwitchTo(profiles[p])
                 ELSE Step("outbox", None) /\ UNCHANGED <<up, touched>>
  /\ UNCHANGED <<open, screen, uiq, slots, store, auto, detected, outbox, device, present, wireless, down, budget>>

\* maybe_auto_switch: handled first, pushed then.
AutoSwitch ==
  /\ at = "auto"
  /\ IF ~auto \/ detected = last THEN Step("outbox", None) /\ UNCHANGED <<last, up, touched>>
     ELSE /\ last' = detected
          /\ LET p == Resolve(detected)
             IN  IF p \in DOMAIN profiles
                 THEN SwitchTo(profiles[p])
                 ELSE Step("outbox", None) /\ UNCHANGED <<up, touched>>
  /\ UNCHANGED <<open, screen, uiq, slots, store, auto, detected, outbox, device, present, wireless, down, budget>>

Switched ==
  /\ at = "switch" /\ down # <<>> /\ down' = Tail(down)
  /\ Post(<<Fill(job.cfg), Note("Auto-switched")>>) /\ Step("outbox", None)
  /\ UNCHANGED <<open, screen, slots, store, game, outbox, device, touched, present, wireless, up, budget>>

\* No reply within 500 ms: the pedal is gone, restarted or slow.  Only an action that
\* gets none closes the handle; a connection without an answer is given up.
TimedOut ==
  /\ down = <<>> /\ (IF open /\ up # <<>> THEN Spend("late") ELSE Free)
  /\ \/ at = "cap"    /\ Step("air", None) /\ open' = FALSE /\ Post(<<Note("Connect failed")>>)
     \/ at \in {"getcfg", "refresh"} /\ Step("act", None) /\ UNCHANGED <<open, uiq>>
     \/ at = "push"   /\ Step("act", None) /\ Post(<<Note("Push failed")>>) /\ UNCHANGED open
     \/ at = "acted"  /\ Step("scan", None) /\ open' = FALSE /\ Post(Offline)
     \/ at = "asked"  /\ Step("auto", None) /\ UNCHANGED <<open, uiq>>
     \/ at = "switch" /\ Step("outbox", None) /\ Post(<<Fill(job.cfg), Note("Auto-switch failed")>>) /\ UNCHANGED open
  /\ UNCHANGED <<screen, slots, store, game, outbox, link, touched>>

\* flash_pedal_ota: the image cannot be read, or the upload ends well or not;
\* then the handle is closed (OtaUpload has the upload itself).
Upload ==
  /\ at = "ota"
  /\ \/ /\ Spend("broken") /\ Step("outbox", None) /\ Post(<<Flash("Update failed")>>)
        /\ UNCHANGED <<open, device, touched, up, down>>
     \/ /\ Free /\ Step("scan", None) /\ open' = FALSE
        /\ \E installed \in IF open THEN BOOLEAN ELSE {FALSE} :
             /\ Post(Offline \o <<Flash(IF installed THEN "Installed" ELSE "Update failed")>>)
             /\ IF installed THEN device' = Device /\ touched' = touched \cup {"restart"} /\ up' = <<>> /\ down' = <<>>
                ELSE UNCHANGED <<device, touched, up, down>>
  /\ UNCHANGED <<screen, slots, store, game, outbox, present, wireless>>

\* No handle: a pedal on the network gets the actions, and the requests.
Air ==
  /\ at = "air"
  /\ IF wireless /\ outbox # None
     THEN /\ outbox' = None
          /\ CASE outbox.op = "push"    -> up' = Append(up, [op |-> "cfg", cfg |-> outbox.cfg, air |-> TRUE])
                                           /\ Post(<<Note("Pushed over WiFi")>>) /\ Step("scan", None)
               [] outbox.op = "refresh" -> Step("request", None) /\ UNCHANGED <<up, uiq>>
               [] outbox.op = "wifi"    -> Step("scan", None) /\ UNCHANGED <<up, uiq>>
               [] outbox.op = "ota"     -> Post(<<Flash("Sent over WiFi")>>) /\ Step("scan", None) /\ UNCHANGED up
     ELSE Step("scan", None) /\ UNCHANGED <<outbox, up, uiq>>
  /\ UNCHANGED <<open, screen, slots, store, game, device, touched, present, wireless, down, budget>>

\* crate::wifi::request: the pedal's answer after the lines before, or none
\* within 800 ms.
Requested ==
  /\ at = "request"
  /\ \/ /\ wireless /\ up = <<>> /\ Free
        /\ TakeIn(device) /\ UNCHANGED uiq
     \/ /\ (IF wireless THEN Spend("late") ELSE Free)
        /\ Step("scan", None) /\ Post(<<Note("Refresh failed")>>) /\ UNCHANGED slots
  /\ UNCHANGED <<open, sel, editor, marks, online, status, flashing, profile, crashed, store, game, outbox, link, touched>>

Thread ==
  \/ Scan \/ Connected \/ GotConfig \/ Adopt \/ FillIn \/ TakeOutbox \/ Pushed \/ SendAction \/ Acted
  \/ AskStatus \/ GotStatus \/ AutoSwitch \/ Switched \/ TimedOut \/ Upload \/ Air \/ Requested

-----------------------------------------------------------------------------
(* The pedal, its cable, the network and the game                          *)

\* The answers to lines over WiFi are not for this thread.
Pedal ==
  /\ up # <<>> /\ (present \/ wireless) /\ up' = Tail(up)
  /\ LET l == Head(up)
     IN  /\ device' = IF l.op = "cfg" THEN l.cfg ELSE device
         /\ down' = IF l.air THEN down
                    ELSE Append(down, IF l.op = "get" THEN [op |-> "get", cfg |-> device] ELSE [op |-> l.op])
  /\ UNCHANGED <<screen, uiq, slots, store, game, outbox, thread, touched, present, wireless, budget>>

Undelivered == \E i \in DOMAIN up : up[i].op = "cfg"

\* The pedal has a supply of its own, but may restart with the cable.  A
\* handle does not outlive its cable.
Plug ==
  /\ Spend("plug")
  /\ present' = ~present /\ open' = FALSE
  /\ up' = <<>> /\ down' = <<>>
  /\ \/ device' = Device /\ touched' = touched \cup {"restart"}
     \/ UNCHANGED device /\ touched' = IF Undelivered THEN touched \cup {"lost"} ELSE touched
  /\ UNCHANGED <<screen, uiq, slots, store, game, outbox, at, job, wireless>>

Network ==
  /\ Spend("net") /\ wireless' = ~wireless
  /\ UNCHANGED <<screen, uiq, slots, store, game, outbox, thread, device, touched, up, down, present>>

Drive ==
  /\ Spend("game") /\ detected' \in [game : Games, car : Cars] \ {detected}
  /\ UNCHANGED <<screen, uiq, slots, store, auto, last, outbox, thread, link, touched>>

\* Nothing runs after a panic of the UI thread.
Next ==
  /\ ~crashed
  /\ UiRun \/ UserActs \/ Downloaded \/ Thread \/ Pedal \/ Plug \/ Network \/ Drive

Spec == Init /\ [][Next]_vars
\* The threads go on and their timers elapse, and the pedal answers; the user,
\* the cable, the network and the game do as they like.
FairSpec ==
  /\ Spec /\ WF_vars(UiRun) /\ WF_vars(Downloaded) /\ WF_vars(Thread) /\ WF_vars(Pedal)
  /\ SF_vars(Scan /\ open') /\ SF_vars(SendAction /\ at' = "acted") /\ SF_vars(AskStatus /\ at' = "asked")

-----------------------------------------------------------------------------
(* Properties                                                              *)

TypeOK ==
  /\ sel \in Roles /\ marks \subseteq Roles /\ {online, crashed, open, present, wireless, auto} \subseteq BOOLEAN /\ touched \subseteq Touches
  /\ flashing \in {"no", "downloading", "sent", "failed"} /\ profile \in Names \cup {0}
  /\ DOMAIN bindings \subseteq Names /\ DOMAIN profiles \subseteq Names
  /\ outbox.op \in {"none", "push", "refresh", "wifi", "ota"}
  /\ Len(editor.curve) \in 2..MaxPoints

\* One editor serves several pedals and shows a part of their configurations.
\* What it does not show (the joystick map) stays with its pedal: no slot, no
\* profile and no push has one pedal's role and another's hidden part.
Configurations ==
  {slots[r] : r \in Roles} \cup {profiles[p] : p \in DOMAIN profiles} \cup {device}
  \cup {l.cfg : l \in {up[i] : i \in {j \in DOMAIN up : up[j].op = "cfg"}}}
  \cup (IF outbox.op = "push" THEN {outbox.cfg} ELSE {})
WholeConfigs ==
  /\ TypeOK
  /\ \A c \in Configurations : c.rest[1] = c.role
  /\ \A r \in Roles : slots[r].role = r

\* However points are dragged, added and removed, the curve starts at the
\* left, ends at the right and never runs back.
CurveOrdered == Ordered(editor.curve)

\* The screen follows the cable: it shows a pedal that stays connected; when the
\* cable is gone for good, whatever question was out, it shows none and marks no
\* role as live, unless a configuration was ever asked for over WiFi.  (Which
\* role is marked is not compared with the pedal's: a push may change that.)
MarksFollow ==
  /\ <>[]open => <>[]online
  /\ <>[]~present /\ [](at # "request") => <>[](~online /\ marks = {})

\* With auto-switch on, a pedal that stays connected from some time on gets the
\* profile bound to the running car, or else game, however cars, games and the
\* switch changed before and whatever cable was pulled; unless a profile was
\* lost with the cable, the pedal restarts, or the user pushes something else
\* or edits the profiles.
Wanted == IF Resolve(detected) \in DOMAIN profiles THEN profiles[Resolve(detected)] ELSE None
AutoFollows ==
  /\ <>[](open /\ auto /\ Wanted # None)
  /\ [](touched = {})
  => <>[](device = Wanted)
=============================================================================
