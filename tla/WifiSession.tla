----------------------------- MODULE WifiSession -----------------------------
(***************************************************************************)
(* The handbrake's page over WiFi (dashboard/src/hb.rs, wifi_session),     *)
(* composed with the WiFi thread of the dashboard and those of the         *)
(* devices.  The thread asks and waits for the answer in one place, up to  *)
(* 800 ms; `pc` says which answer.                                         *)
(*                                                                         *)
(* The calibration itself is HandbrakeCal's: here a command is answered    *)
(* OK or ERR, and only @SAVE leaves a mark; @WIFI is WifiLink's            *)
(* Provision.  The session over USB is HandbrakeHost's: while the cable    *)
(* is in there is none here.                                               *)
(***************************************************************************)
EXTENDS WifiRouter, Functions

VARIABLES
  pc,         \* the answer the thread waits for, or where it is without one
  cur,        \* the command it is about
  learning,   \* AutoCal.active
  slot,       \* hb_out
  page, connected,
  cable,      \* the handbrake is on USB
  strays      \* history: an answer was or may be on its way that nobody waits for

sessionVars == <<pc, cur, learning, slot, page, connected>>
vars == <<devVars, air, budget, routerVars, enabled, outbox, answer, sessionVars, cable, strays>>

ASSUME HandbrakeAssumption == \E d \in Dev : KindOf[d] = "handbrake"

netVars == <<devVars, air, routerVars, enabled>>

Hb == CHOOSE d \in Dev : KindOf[d] = "handbrake"

Waits == {"cap", "hello", "poll", "command", "refresh", "setidle", "setmax", "learned"}
Ops   == {"start", "stop", "feel", "save", "cancel", "reset", "ota"}
NoCmd == "none"
Pages == {"Connect", "AutoCalibrate", "Deadzone", "Done", "Monitor"}

Init ==
  /\ LinkInit /\ RouterInit
  /\ pc = "scan" /\ cur = NoCmd /\ learning = FALSE /\ slot = NoCmd
  /\ page = "Connect" /\ connected = FALSE /\ cable = FALSE
  /\ strays = FALSE

\* A calibration page that comes into view asks for a learn window.
Show(p, s) ==
  /\ page' = p
  /\ slot' = IF p = "AutoCalibrate" /\ page # p THEN "start" ELSE s

------------------------------------------------------------------------------
(***************************************************************************)
(* The user, and the main loop of the handbrake.                           *)
(***************************************************************************)
Buttons(p) ==
  CASE p = "AutoCalibrate" -> {"stop"}
    [] p = "Deadzone"      -> {"save", "cancel", "feel"}
    [] p = "Monitor"       -> {"reset"}
    [] OTHER               -> {}

Press ==
  /\ Spend("press")
  /\ \E c \in Buttons(page) : slot' = c
  /\ UNCHANGED <<netVars, outbox, answer, pc, cur, learning, page, connected, cable, strays>>

\* The Update screen.
Update ==
  /\ Spend("setup") /\ connected
  /\ slot' = "ota"
  /\ UNCHANGED <<netVars, outbox, answer, pc, cur, learning, page, connected, cable, strays>>

Cable ==
  /\ Spend("cable")
  /\ cable' = ~cable
  /\ UNCHANGED <<netVars, outbox, answer, sessionVars, strays>>

\* Commands that came over WiFi are answered by the same handler as over USB.
Serve ==
  /\ rx[Hb] # <<>>
  /\ \E ok \in {0, 1} :
       /\ ok = 0 => Head(rx[Hb]) \in {"save", "reset", "setmax"}
       /\ tx' = Set(tx, Hb, Append(tx[Hb], [op |-> Head(rx[Hb]), bit |-> ok]))
  /\ rx' = Set(rx, Hb, Tail(rx[Hb]))
  /\ Free
  /\ UNCHANGED <<threadVars, nvs, fresh, row, envVars, air, routerVars, enabled, outbox, answer, pc, cur,
                 learning, slot, page, connected, cable, strays>>

------------------------------------------------------------------------------
(***************************************************************************)
(* request: the line goes to the outbox, the answer comes through a        *)
(* channel of its own.                                                     *)
(***************************************************************************)
Ask(op, w) == outbox' = outbox \cup {Entry(Hb, op)} /\ answer' = NoAnswer /\ pc' = w

Rest == UNCHANGED <<devVars, air, enabled, seen, host, cable>>

OnTheWay == rx[Hb] # <<>> \/ \E m \in air : m.dev = Hb /\ m.type \in {"line", "RE"}
Held     == tx[Hb] # <<>>

\* No answer in 800 ms; the outbox is sent long before.  An answer that is
\* still on its way, or held by a device that is off the network, comes late.
GivesUp ==
  /\ answer = NoAnswer /\ Requests = {}
  /\ pending' = Set(pending, Hb, IF pending[Hb] = "caller" THEN "gone" ELSE pending[Hb])
  /\ IF OnTheWay \/ (Held /\ Speaks(Hb)) THEN Spend("late") ELSE Free
  /\ strays' = (strays \/ OnTheWay \/ Held)

Hears == answer # NoAnswer /\ Free /\ UNCHANGED <<pending, strays>>

Received(w) == pc = w /\ (Hears \/ GivesUp) /\ Rest
IsOk        == answer.bit = 1
IsStatus    == answer.op = "status"

EndSession ==
  /\ pc' = "scan" /\ learning' = FALSE /\ connected' = FALSE
  /\ page' = "Connect"

------------------------------------------------------------------------------
(***************************************************************************)
(* wifi_session.                                                           *)
(***************************************************************************)
InLoop   == pc = "loop" /\ ~cable /\ Hb \in host.table
NoChange == UNCHANGED <<pending, strays>> /\ Free

\* wireless_hb finds the device, and none is on USB.
Begin ==
  /\ pc = "scan" /\ ~cable /\ Hb \in host.table
  /\ Ask("cap", "cap")
  /\ NoChange /\ Rest
  /\ UNCHANGED <<cur, learning, slot, page, connected>>

\* Without a session only an update goes out, to be pulled over WiFi.
DropCommand ==
  /\ pc = "scan" /\ slot # NoCmd
  /\ slot' = NoCmd
  /\ outbox' = IF slot = "ota" /\ Hb \in host.table THEN outbox \cup {Entry(Hb, "ota")} ELSE outbox
  /\ strays' = (strays \/ slot = "ota")
  /\ UNCHANGED pending /\ Free /\ Rest
  /\ UNCHANGED <<answer, pc, cur, learning, page, connected>>

Handshake ==
  /\ Received("cap")
  /\ IF IsOk THEN connected' = TRUE /\ Ask("status", "hello")
             ELSE pc' = "scan" /\ UNCHANGED <<connected, outbox, answer>>
  /\ UNCHANGED <<cur, learning, slot, page>>

\* A device that is calibrated and one that is not.
FirstStatus ==
  /\ Received("hello")
  /\ IF IsStatus THEN \E p \in {"Monitor", "AutoCalibrate"} : Show(p, slot)
                 ELSE UNCHANGED <<page, slot>>
  /\ pc' = "loop"
  /\ UNCHANGED <<outbox, answer, cur, learning, connected>>

\* The cable is in, or the device has left the network.
LeaveSession ==
  /\ pc = "loop" /\ (cable \/ Hb \notin host.table)
  /\ EndSession
  /\ NoChange /\ Rest /\ UNCHANGED <<outbox, answer, cur, slot>>

Poll ==
  /\ InLoop /\ slot = NoCmd /\ Ask("status", "poll")
  /\ NoChange /\ Rest
  /\ UNCHANGED <<cur, learning, slot, page, connected>>

\* Eight polls without a status end the session; which one is the eighth is
\* left open.  A status may be the one after the end of the learn window.
Polled ==
  /\ Received("poll")
  /\ \/ pc' = "loop" /\ UNCHANGED <<learning, connected, page, outbox, answer>>
     \/ ~IsStatus /\ EndSession /\ UNCHANGED <<outbox, answer>>
     \/ IsStatus /\ learning /\ Ask("setidle", "setidle") /\ UNCHANGED <<learning, connected, page>>
  /\ UNCHANGED <<cur, slot>>

IdleAnswered ==
  /\ Received("setidle")
  /\ IF IsOk THEN Ask("setmax", "setmax") ELSE pc' = "loop" /\ UNCHANGED <<outbox, answer>>
  /\ UNCHANGED <<cur, learning, slot, page, connected>>

\* ERR starts the window again.
MaxAnswered ==
  /\ Received("setmax")
  /\ IF IsOk THEN learning' = FALSE /\ Ask("status", "learned")
             ELSE pc' = "loop" /\ UNCHANGED <<learning, outbox, answer>>
  /\ UNCHANGED <<cur, slot, page, connected>>

Learned ==
  /\ Received("learned")
  /\ Show("Deadzone", slot) /\ pc' = "loop"
  /\ UNCHANGED <<outbox, answer, cur, learning, connected>>

------------------------------------------------------------------------------
(***************************************************************************)
(* wifi_command.                                                           *)
(***************************************************************************)
Pop(op) == InLoop /\ slot = op

StartLearning ==
  /\ Pop("start") /\ slot' = NoCmd /\ learning' = TRUE
  /\ NoChange /\ Rest /\ UNCHANGED <<outbox, answer, pc, cur, page, connected>>

StopLearning ==
  /\ Pop("stop") /\ learning' = FALSE /\ Show("Monitor", NoCmd)
  /\ NoChange /\ Rest /\ UNCHANGED <<outbox, answer, pc, cur, connected>>

SendCommand ==
  /\ \E op \in {"feel", "save", "cancel", "reset"} : Pop(op) /\ Ask(op, "command")
  /\ cur' = slot /\ slot' = NoCmd
  /\ NoChange /\ Rest /\ UNCHANGED <<learning, page, connected>>

CommandAnswered ==
  /\ Received("command")
  /\ IF cur = "save" /\ ~IsOk
     THEN pc' = "loop" /\ cur' = NoCmd /\ UNCHANGED <<outbox, answer>>
     ELSE Ask("status", "refresh") /\ UNCHANGED cur
  /\ UNCHANGED <<learning, slot, page, connected>>

PageAfter(op) ==
  CASE op = "save"   -> "Done"
    [] op = "cancel" -> "Monitor"
    [] op = "reset"  -> "AutoCalibrate"
    [] OTHER         -> page

Refreshed ==
  /\ Received("refresh")
  /\ Show(PageAfter(cur), slot)
  /\ pc' = "loop" /\ cur' = NoCmd
  /\ UNCHANGED <<outbox, answer, learning, connected>>

\* The update is called installed when it has been handed over.
Upload ==
  /\ Pop("ota") /\ slot' = NoCmd
  /\ outbox' = outbox \cup {Entry(Hb, "ota")}
  /\ strays' = TRUE
  /\ UNCHANGED pending /\ Free /\ Rest
  /\ UNCHANGED <<answer, pc, cur, learning, page, connected>>

------------------------------------------------------------------------------
Session ==
  \/ Begin \/ DropCommand \/ Handshake \/ FirstStatus \/ LeaveSession \/ Poll \/ Polled
  \/ IdleAnswered \/ MaxAnswered \/ Learned
  \/ StartLearning \/ StopLearning \/ SendCommand \/ CommandAnswered \/ Refreshed \/ Upload

LinkStep ==
  \/ \E d \in Dev : LinkThread(d) \/ Relay(d)
  \/ \E d \in Dev : Streaming(d)
  \/ \E m \in air : GetFromHost(m)
  \/ LinkEnv

RouterStep == Router \/ \E k \in {KindOf[d] : d \in Dev} : Toggle(k)

Next ==
  \/ LinkStep /\ UNCHANGED <<routerVars, enabled, outbox, answer, sessionVars, cable, strays>>
  \/ RouterStep /\ UNCHANGED <<sessionVars, cable, strays>>
  \/ Press \/ Update \/ Cable \/ Serve \/ Session

Spec == Init /\ [][Next]_vars

\* A datagram of the device's or for it arrives, or nobody is there.
Deliver(d)  == \E m \in air : m.dev = d /\ GetFromHost(m)
Fade(d)     == ~Speaks(d) /\ \E m \in air : m.dev = d /\ m.type \in ToDevice /\ Lose(m)
Arrivals(d) == \E m \in air : m.dev = d /\ (TakeBeacon(m) \/ TakeAxis(m)
                                            \/ TakeButtons(m) \/ TakeReply(m))
Expiry(d)   == TakeNothing /\ d \in host.table \ host'.table

\* Threads run and datagrams that are not lost arrive.  The user, resets, the
\* access point, losses and the calibration window are not fair.
Fairness ==
  LET link   == <<devVars, air, budget>>
      router == <<link, routerVars, enabled, outbox, answer>> IN
  /\ \A d \in Dev : /\ WF_link(LinkThread(d)) /\ WF_link(Streaming(d)) /\ WF_link(Relay(d))
                    /\ WF_link(Deliver(d)) /\ WF_link(Fade(d))
                    /\ WF_router(Arrivals(d)) /\ WF_router(Expiry(d))
  /\ WF_router(TakeNothing) /\ WF_vars(Serve) /\ WF_vars(Session)

FairSpec == Spec /\ Fairness

------------------------------------------------------------------------------
Asks == {"cap", "status", "setidle", "setmax", "feel", "save", "cancel", "reset"}   \* lines to the device

TypeOK ==
  /\ LinkTypeOK /\ RouterTypeOK
  /\ pc \in Waits \cup {"scan", "loop"} /\ cur \in Ops \cup {NoCmd} /\ slot \in Ops \cup {NoCmd}
  /\ page \in Pages
  /\ {learning, connected, cable, strays} \subseteq BOOLEAN
  /\ outbox \subseteq {Entry(Hb, o) : o \in Asks \cup {"ota"}}
  /\ rx \in [Dev -> Seq(Asks)]

\* What the caller gets is the answer to what it asked, although replies carry
\* no name: with losses, restarts and reconnections, but with no answer that
\* came after its caller gave up and no update's report (wifi.rs 366-376).
Asked == CASE pc \in {"hello", "poll", "refresh", "learned"} -> "status"
           [] pc = "command" -> cur
           [] OTHER          -> pc
ReplyIsOwn == ~strays /\ pc \in Waits /\ answer \notin {NoAnswer, Hung} => answer.op = Asked

=============================================================================
