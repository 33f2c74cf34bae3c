------------------------------ MODULE WifiLink ------------------------------
(***************************************************************************)
(* The WiFi thread every device runs (firmware/pith-fw-wifi): credentials  *)
(* and crash guard in NVS, the connection that is made again whenever it   *)
(* is lost, and the UDP loop that announces the device, streams its axis   *)
(* or buttons to the dashboard that subscribed and passes commands to the  *)
(* main loop and replies back.                                             *)
(*                                                                         *)
(* `at` is the place of the thread.  A datagram is a record in `air`; it   *)
(* arrives, in any order, or is lost.  A scenario says which devices are   *)
(* powered at the start and how often the environment may do what: it pays *)
(* from `budget`.                                                          *)
(***************************************************************************)
EXTENDS Integers, Sequences, FiniteSets, FiniteSetsExt

CONSTANTS
  Dev,         \* the devices
  KindOf,      \* what each is: "handbrake", "pedals" or "ddu"
  Creds,       \* pairs of network name and password the user types
  Good,        \* the pair that opens the network
  NoCreds,
  CrashLimit,  \* CRASH_LIMIT
  Scenarios    \* bounds: the devices and inputs on, where the devices are, and what may happen

Charges == {"crash",   \* resets by panic, watchdog or brownout
            "restart", \* power cuts and deliberate restarts
            "driver",  \* drivers that fail to initialise
            "outage",  \* times the access point goes away
            "creds",   \* @WIFI lines
            "input",   \* movements of a lever, presses of a button
            "loss",    \* datagrams lost
            "gap",     \* devices taken for gone although they send
            "late",    \* replies that come after their caller gave up
            "press",   \* buttons of the handbrake's page
            "setup",   \* updates sent to it
            "toggle",  \* wireless inputs switched on or off
            "cable",   \* times the USB cable is plugged in or pulled
            "dash"}    \* 1 where the dashboard runs; never spent

ASSUME DevAssumption    == IsFiniteSet(Dev) /\ KindOf \in [Dev -> {"handbrake", "pedals", "ddu"}]
ASSUME CredsAssumption  == Good \in Creds /\ NoCreds \notin Creds
ASSUME GuardAssumption  == CrashLimit \in 1..255
ASSUME ScenarioAssumption ==
  \A s \in Scenarios : s.on \subseteq Dev /\ s.at \in {"clean", "udp"} /\ s.may \in [Charges -> Nat]

VARIABLES
  at,      \* the place of the thread
  nvs,     \* ssid, pass and crashes in NVS
  fresh,   \* WifiShared.new_creds
  inuse,   \* the credentials the thread connects with
  tries,   \* its copy of the crash counter
  calm,    \* this start has seen STABLE_AFTER of link
  sub,     \* a dashboard has subscribed
  rx, tx,  \* WifiShared.rx and tx
  input,   \* the lever, or the buttons
  row,     \* history: starts in a row that ended before they were calm
  up,      \* the access point is there
  air,     \* datagrams in flight
  budget

threadVars == <<at, inuse, tries, calm, sub>>
linkVars   == <<at, nvs, fresh, inuse, tries, calm, sub, rx, tx, row>>
envVars    == <<input, up>>
devVars    == <<linkVars, envVars>>

None == 2   \* no mask: masks and axis values are 0 and 1

Starts  == {"clean", "abnormal"}
Armed   == {"driver", "top", "connect", "udp", "pull", "usbonly"}
Places  == Starts \cup Armed \cup {"absent", "off", "wait", "arm"}

Spend(k)  == budget[k] > 0 /\ budget' = [budget EXCEPT ![k] = @ - 1]
Free      == UNCHANGED budget
Set(f, d, v) == [f EXCEPT ![d] = v]

Msg(t, d, o, b) == [type |-> t, dev |-> d, op |-> o, bit |-> b]
ToDevice        == {"@SUB", "line", "@OTAWIFI"}
Streamed(d)     == \E m \in air : m.dev = d /\ m.type \in {"PITH", "AX", "BT"}
Speaks(d)       == at[d] = "udp" /\ up

LinkInit ==
  /\ \E s \in Scenarios : /\ budget = s.may
                         /\ at = [d \in Dev |-> IF d \in s.on THEN s.at ELSE "absent"]
  /\ nvs = [d \in Dev |-> [ssid |-> Good, pass |-> Good, crashes |-> 0]]
  /\ fresh = [d \in Dev |-> NoCreds] /\ inuse = [d \in Dev |-> IF at[d] = "udp" THEN <<Good, Good>> ELSE <<NoCreds, NoCreds>>]
  /\ tries = [d \in Dev |-> 0] /\ calm = [d \in Dev |-> at[d] = "udp"]
  /\ sub = [d \in Dev |-> FALSE]
  /\ rx = [d \in Dev |-> <<>>] /\ tx = [d \in Dev |-> <<>>]
  /\ input = [d \in Dev |-> 0] /\ row = [d \in Dev |-> 0]
  /\ up = TRUE /\ air = {}

------------------------------------------------------------------------------
(***************************************************************************)
(* Starts and resets.                                                      *)
(***************************************************************************)
Volatile(d) ==
  /\ fresh' = Set(fresh, d, NoCreds) /\ calm' = Set(calm, d, FALSE)
  /\ sub' = Set(sub, d, FALSE)
  /\ rx' = Set(rx, d, <<>>) /\ tx' = Set(tx, d, <<>>)
  /\ inuse' = Set(inuse, d, <<NoCreds, NoCreds>>) /\ tries' = Set(tries, d, 0)
  /\ UNCHANGED <<up, air>>

Ends(d) == row' = IF at[d] \in Armed /\ ~calm[d] THEN Set(row, d, row[d] + 1) ELSE row

Crash(d) ==
  /\ Spend("crash") /\ at[d] \notin {"absent", "off"}
  /\ at' = Set(at, d, "abnormal")
  /\ Ends(d)
  /\ Volatile(d) /\ UNCHANGED <<nvs, input>>

Restart(d) ==
  /\ Spend("restart") /\ at[d] # "absent"
  /\ \E p \in {"clean", "off"} : at' = Set(at, d, p)
  /\ Ends(d)
  /\ Volatile(d) /\ UNCHANGED <<nvs, input>>

\* A restart between the two keys of save_creds: the name is new, the
\* password is not.
TornSave(d) ==
  /\ Spend("restart")
  /\ at[d] \in {"wait", "top"} /\ fresh[d] # NoCreds
  /\ nvs' = [nvs EXCEPT ![d].ssid = fresh[d]]
  /\ at' = Set(at, d, "clean") /\ Ends(d)
  /\ Volatile(d) /\ UNCHANGED input

\* mutant: a clean start counts like any other
StartCounting(d) ==
  /\ at[d] \in Starts
  /\ tries' = Set(tries, d, nvs[d].crashes)
  /\ row' = IF at[d] = "clean" THEN Set(row, d, 0) ELSE row
  /\ at' = Set(at, d, "wait")
  /\ Free /\ UNCHANGED <<nvs, fresh, inuse, calm, sub, rx, tx, envVars, air>>

\* The crash guard reads its counter; a clean start clears it.
StartThread(d) ==
  /\ at[d] \in Starts
  /\ LET n == IF at[d] = "clean" THEN 0 ELSE nvs[d].crashes IN
       /\ tries' = Set(tries, d, n)
       /\ nvs' = [nvs EXCEPT ![d].crashes = n]
  /\ row' = IF at[d] = "clean" THEN Set(row, d, 0) ELSE row
  /\ at' = Set(at, d, "wait")
  /\ Free /\ UNCHANGED <<fresh, inuse, calm, sub, rx, tx, envVars, air>>

------------------------------------------------------------------------------
(***************************************************************************)
(* Credentials.                                                            *)
(***************************************************************************)
\* @WIFI over USB: the line is answered at once, the thread takes the pair
\* when it gets there.
Provision(d, c) ==
  /\ Spend("creds")
  /\ at[d] \notin Starts \cup {"absent", "off"}
  /\ fresh' = Set(fresh, d, c)
  /\ UNCHANGED <<threadVars, nvs, rx, tx, row, envVars, air>>

\* Fresh credentials are consent to try again.
TakeFresh(d) ==
  /\ at[d] = "wait" /\ fresh[d] # NoCreds
  /\ nvs' = Set(nvs, d, [ssid |-> fresh[d], pass |-> fresh[d], crashes |-> 0])
  /\ inuse' = Set(inuse, d, <<fresh[d], fresh[d]>>)
  /\ fresh' = Set(fresh, d, NoCreds)
  /\ tries' = Set(tries, d, 0) /\ row' = Set(row, d, 0)
  /\ at' = Set(at, d, "arm")
  /\ Free /\ UNCHANGED <<calm, sub, rx, tx, envVars, air>>

Stored(d) == nvs[d].ssid # NoCreds /\ nvs[d].pass # NoCreds

\* mutant: the guard trips one crash late
LoadLate(d) ==
  /\ at[d] = "wait" /\ fresh[d] = NoCreds
  /\ tries[d] <= CrashLimit /\ Stored(d)
  /\ inuse' = Set(inuse, d, <<nvs[d].ssid, nvs[d].pass>>)
  /\ at' = Set(at, d, "arm")
  /\ Free /\ UNCHANGED <<nvs, fresh, tries, calm, sub, rx, tx, row, envVars, air>>

\* The stored pair, unless the guard has tripped.
LoadStored(d) ==
  /\ at[d] = "wait" /\ fresh[d] = NoCreds
  /\ tries[d] < CrashLimit /\ Stored(d)
  /\ inuse' = Set(inuse, d, <<nvs[d].ssid, nvs[d].pass>>)
  /\ at' = Set(at, d, "arm")
  /\ Free /\ UNCHANGED <<nvs, fresh, tries, calm, sub, rx, tx, row, envVars, air>>

\* saturating_add on a u8.
Arm(d) ==
  /\ at[d] = "arm"
  /\ nvs' = [nvs EXCEPT ![d].crashes = Min({255, tries[d] + 1})]
  /\ at' = Set(at, d, "driver")
  /\ Free /\ UNCHANGED <<fresh, inuse, tries, calm, sub, rx, tx, row, envVars, air>>

\* The driver starts, or the thread ends for good.
StartDriver(d) ==
  /\ at[d] = "driver"
  /\ \/ at' = Set(at, d, "top") /\ Free
     \/ at' = Set(at, d, "usbonly") /\ Spend("driver")
  /\ UNCHANGED <<nvs, fresh, inuse, tries, calm, sub, rx, tx, row, envVars, air>>

------------------------------------------------------------------------------
(***************************************************************************)
(* The connection.                                                         *)
(***************************************************************************)
\* New credentials are looked for before every attempt.
PickUp(d) ==
  /\ at[d] = "top" /\ at' = Set(at, d, "connect")
  /\ IF fresh[d] # NoCreds
     THEN /\ nvs' = [nvs EXCEPT ![d].ssid = fresh[d], ![d].pass = fresh[d]]
          /\ inuse' = Set(inuse, d, <<fresh[d], fresh[d]>>)
          /\ fresh' = Set(fresh, d, NoCreds)
     ELSE UNCHANGED <<nvs, inuse, fresh>>
  /\ Free /\ UNCHANGED <<tries, calm, sub, rx, tx, row, envVars, air>>

Connect(d) ==
  /\ at[d] = "connect"
  /\ at' = Set(at, d, IF up /\ inuse[d] = <<Good, Good>> THEN "udp" ELSE "top")
  /\ sub' = Set(sub, d, FALSE)
  /\ Free /\ UNCHANGED <<nvs, fresh, inuse, tries, calm, rx, tx, row, envVars, air>>

Stable(d) ==
  /\ at[d] = "udp" /\ ~calm[d]
  /\ calm' = Set(calm, d, TRUE)
  /\ nvs' = [nvs EXCEPT ![d].crashes = 0] /\ row' = Set(row, d, 0)
  /\ Free /\ UNCHANGED <<at, fresh, inuse, tries, sub, rx, tx, envVars, air>>

\* mutant: fresh credentials are noticed only when the link drops
LeaveDropped(d) ==
  /\ at[d] = "udp" /\ ~up
  /\ at' = Set(at, d, "top") /\ sub' = Set(sub, d, FALSE)
  /\ Free /\ UNCHANGED <<nvs, fresh, inuse, tries, calm, rx, tx, row, envVars, air>>

\* run_udp returns: the link is lost or there are new credentials.
Leave(d) ==
  /\ at[d] = "udp" /\ (~up \/ fresh[d] # NoCreds)
  /\ at' = Set(at, d, "top") /\ sub' = Set(sub, d, FALSE)
  /\ Free /\ UNCHANGED <<nvs, fresh, inuse, tries, calm, rx, tx, row, envVars, air>>

AccessPoint ==
  /\ up' = ~up
  /\ IF up THEN Spend("outage") ELSE Free
  /\ UNCHANGED <<linkVars, input, air>>

------------------------------------------------------------------------------
(***************************************************************************)
(* run_udp.  A stream packet goes out when the one before has arrived or   *)
(* is lost.                                                                *)
(***************************************************************************)
Emit(m) == air' = air \cup {m}

Beacon(d) ==
  /\ Speaks(d) /\ ~Streamed(d)
  /\ Emit(Msg("PITH", d, "-", 0))
  /\ Free /\ UNCHANGED <<linkVars, envVars>>

StreamAxis(d) ==
  /\ Speaks(d) /\ sub[d] /\ ~Streamed(d) /\ KindOf[d] # "ddu"
  /\ Emit(Msg("AX", d, "-", input[d]))
  /\ Free /\ UNCHANGED <<linkVars, envVars>>

\* On a change, and every 250 ms.
StreamButtons(d) ==
  /\ Speaks(d) /\ sub[d] /\ ~Streamed(d) /\ KindOf[d] = "ddu"
  /\ Emit(Msg("BT", d, "-", input[d]))
  /\ Free /\ UNCHANGED <<linkVars, envVars>>

\* Replies of the main loop.
Relay(d) ==
  /\ Speaks(d) /\ sub[d] /\ tx[d] # <<>>
  /\ air' = air \cup {Msg("RE", d, tx[d][i].op, tx[d][i].bit) : i \in DOMAIN tx[d]}
  /\ tx' = Set(tx, d, <<>>)
  /\ Free /\ UNCHANGED <<at, nvs, fresh, inuse, tries, calm, sub, rx, row, envVars>>

Arrives(m) == m \in air /\ Speaks(m.dev) /\ m.type \in ToDevice

GetSubscribe(m) ==
  /\ Arrives(m) /\ m.type = "@SUB"
  /\ sub' = Set(sub, m.dev, TRUE)
  /\ air' = air \ {m}
  /\ Free /\ UNCHANGED <<at, nvs, fresh, inuse, tries, calm, rx, tx, row, envVars>>

\* mutant: what the main loop gets includes the subscriptions
GetAnyLine(m) ==
  /\ Arrives(m) /\ m.type # "@OTAWIFI"
  /\ sub' = Set(sub, m.dev, TRUE)
  /\ rx' = Set(rx, m.dev, Append(rx[m.dev], m.op))
  /\ air' = air \ {m}
  /\ Free /\ UNCHANGED <<at, nvs, fresh, inuse, tries, calm, tx, row, envVars>>

GetLine(m) ==
  /\ Arrives(m) /\ m.type = "line"
  /\ rx' = Set(rx, m.dev, Append(rx[m.dev], m.op))
  /\ air' = air \ {m}
  /\ Free /\ UNCHANGED <<at, nvs, fresh, inuse, tries, calm, sub, tx, row, envVars>>

\* handle_ota_wifi: one reply at once, then nothing until the image is in or
\* the transfer has failed.
GetOta(m) ==
  /\ Arrives(m) /\ m.type = "@OTAWIFI"
  /\ air' = (air \ {m}) \cup (IF sub[m.dev] THEN {Msg("RE", m.dev, "ota", 1)} ELSE {})
  /\ \/ at' = Set(at, m.dev, "pull") \/ UNCHANGED at     \* it may not reach the dashboard
  /\ Free /\ UNCHANGED <<nvs, fresh, inuse, tries, calm, sub, rx, tx, row, envVars>>

PullEnds(d) ==
  /\ at[d] = "pull"
  /\ at' = Set(at, d, "udp")
  /\ Free /\ UNCHANGED <<nvs, fresh, inuse, tries, calm, sub, rx, tx, row, envVars, air>>

\* The player.
Move(d) ==
  /\ Spend("input") /\ at[d] # "absent"
  /\ input' = Set(input, d, 1 - input[d])
  /\ UNCHANGED <<linkVars, up, air>>

\* A datagram is lost; one for a device that does not listen always is.
Lose(m) ==
  /\ m \in air /\ air' = air \ {m}
  /\ IF m.type \in ToDevice /\ ~Speaks(m.dev) THEN Free ELSE Spend("loss")
  /\ UNCHANGED <<linkVars, envVars>>

------------------------------------------------------------------------------
LinkThread(d) ==
  \/ StartThread(d) \/ TakeFresh(d) \/ LoadStored(d) \/ Arm(d) \/ StartDriver(d)
  \/ PickUp(d) \/ Connect(d) \/ Stable(d) \/ Leave(d) \/ PullEnds(d)

GetFromHost(m) == GetSubscribe(m) \/ GetLine(m) \/ GetOta(m)

LinkEnv ==
  \/ AccessPoint
  \/ \E m \in air : Lose(m)
  \/ \E d \in Dev : \/ Crash(d) \/ Restart(d) \/ TornSave(d) \/ Move(d)
                    \/ \E c \in Creds : Provision(d, c)

------------------------------------------------------------------------------
LinkTypeOK ==
  /\ at \in [Dev -> Places]
  /\ nvs \in [Dev -> [ssid : Creds \cup {NoCreds}, pass : Creds \cup {NoCreds}, crashes : 0..255]]
  /\ fresh \in [Dev -> Creds \cup {NoCreds}]
  /\ inuse \in [Dev -> (Creds \cup {NoCreds}) \X (Creds \cup {NoCreds})]
  /\ tries \in [Dev -> 0..255] /\ row \in [Dev -> Nat]
  /\ calm \in [Dev -> BOOLEAN] /\ sub \in [Dev -> BOOLEAN]
  /\ input \in [Dev -> {0, 1}] /\ up \in BOOLEAN
  /\ budget \in [Charges -> Nat]

\* The guard: a device that crashes on its radio is left alone after
\* CRASH_LIMIT starts in a row, whatever restarts it in between and however
\* its credentials change (lib.rs 202-224, 255-260); it counts no start it
\* has survived.
GuardHolds == \A d \in Dev : row[d] <= CrashLimit

\* Nothing keeps a device off the network for good but the guard, which trips
\* after CRASH_LIMIT crashes in a row and no fewer, a driver that failed, or
\* credentials that are missing or do not fit: no outage, no reset, no update
\* (lib.rs 202-224, 263-298).
Shut(d) ==
  \/ at[d] \in {"absent", "off", "usbonly"}
  \/ at[d] = "wait" /\ (row[d] >= CrashLimit \/ ~Stored(d))
  \/ at[d] \in {"top", "connect"} /\ inuse[d] # <<Good, Good>>
NotLockedOut == \A d \in Dev : <>[]up => <>[](at[d] \in {"udp", "pull"} \/ Shut(d))

\* Credentials that were accepted are used, without a restart (docs/pedals.md
\* 368-369), as long as the driver runs.
CredsTakeEffect ==
  \A d \in Dev : fresh[d] # NoCreds ~> (fresh[d] = NoCreds \/ at[d] = "usbonly")
=============================================================================
