------------------------------- MODULE DduBoot -------------------------------
(***************************************************************************)
(* The start of the DDU: the recovery application (pith-recovery), which   *)
(* lives in the factory partition, chain-loads the main firmware           *)
(* (firmware/ddu) from one of two OTA slots; the main firmware points the  *)
(* boot partition back at recovery.  Which slot holds the main firmware is *)
(* `mainslot` in NVS, written when an OTA update completes; `bootfail`, in *)
(* NVS too, counts the starts that did not run for 5 seconds.              *)
(*                                                                         *)
(* An update arrives over one of several transports.  `begin` runs in the  *)
(* main loop (HID, CDC) or in the WiFi thread; the bytes are fed by the    *)
(* USB task, the main loop or the WiFi thread.  A slot's content is the    *)
(* number of the complete image in it, or Partial; chunks and              *)
(* acknowledgements are those of OtaDevice and are left out here.          *)
(***************************************************************************)
EXTENDS Integers

CONSTANTS
  Transports,  \* those a host uses: of "hid", "cdc", "wifi"
  MaxU8,       \* what a u8 saturates at: 255, or less to reach it
  MaxUpdates,  \* bound: updates that begin
  Setups       \* the users and the storage a behaviour may have

FaultKinds == {"flash", "nvs"}

\* A setup: the transports the host uses, the storage calls that may fail, and
\* how many updates begin, how often the device crashes (a panic, a watchdog
\* reset, a power cut), the user enters the menu and a pin map is pushed.
Setup ==
  [via : SUBSET Transports, faults : SUBSET FaultKinds, updates : 0..MaxUpdates,
   crashes : Nat, taps : Nat, pins : Nat]

ASSUME TransportsAssumption == Transports \subseteq {"hid", "cdc", "wifi"}
ASSUME BoundsAssumption ==
  /\ MaxU8 \in 2..255 /\ MaxUpdates \in Nat
  /\ Setups \subseteq Setup

Slots == {"ota_0", "ota_1"}
Other(s) == IF s = "ota_0" THEN "ota_1" ELSE "ota_0"

Partial == 0                         \* erased, or not all of an image
Newest  == MaxUpdates + 1            \* image 1 is the one first flashed
NoOta   == [slot |-> "none", itf |-> "none", id |-> Partial, intact |-> FALSE]
Session == [slot : Slots, itf : Transports, id : 1..Newest, intact : BOOLEAN]

VARIABLES
  app, pc,     \* which application runs, and where it is
  running,     \* the slot the main firmware runs, or last ran, from
  bootsel,     \* what the OTA data selects for the next start
  flash,       \* the image in each slot
  mainslot,    \* NVS "mainslot"
  bootfail,    \* NVS "bootfail"
  chosen,      \* recovery's main_slot, read at its start
  shown,       \* recovery's prev_fails, read at its start
  ota,         \* the OTA session of the main firmware
  erasing,     \* the update each transport is in esp_ota_begin for, or Partial
  record,      \* a verified image whose slot is not in NVS yet, or NoOta
  reboot,      \* REBOOT
  cfgReboot,   \* cfg_reboot
  confirmed,   \* boot_confirmed
  served,      \* the transports whose host has sent a complete image
  setup,       \* the setup of this behaviour
  updates, crashes, taps, pins,  \* what was used of it
  failed,      \* history: starts that were counted since one ran stably
  acked        \* history: the last image OTADONE was sent for

session  == <<ota, erasing, record, served>>
main     == <<session, reboot, cfgReboot, confirmed>>
nvs      == <<mainslot, bootfail>>
recovery == <<chosen, shown>>
counters == <<setup, updates, crashes, taps, pins>>
history  == <<failed, acked>>
vars == <<app, pc, running, bootsel, flash, nvs, recovery, main, counters, history>>

RecoveryPc == {"start", "countdown", "menu"}
MainPc     == {"init", "attempt", "settle", "loop", "sleep"}

TypeOK ==
  /\ app \in {"recovery", "main"}
  /\ pc \in IF app = "main" THEN MainPc ELSE RecoveryPc
  /\ running \in Slots /\ bootsel \in Slots \cup {"factory"}
  /\ flash \in [Slots -> Partial..Newest]
  /\ mainslot \in Slots /\ bootfail \in 0..MaxU8
  /\ chosen \in Slots /\ shown \in 0..MaxU8
  /\ ota \in Session \cup {NoOta} /\ record \in Session \cup {NoOta}
  /\ erasing \in [Transports -> Partial..Newest]
  /\ reboot \in BOOLEAN /\ cfgReboot \in BOOLEAN /\ confirmed \in BOOLEAN
  /\ served \subseteq Transports
  /\ setup \in Setups /\ updates \in 0..setup.updates /\ crashes \in 0..setup.crashes
  /\ taps \in 0..setup.taps /\ pins \in 0..setup.pins
  /\ failed \in Nat /\ acked \in 1..Newest

NotErasing == [t \in Transports |-> Partial]

\* Recovery and ota_0 have been flashed from the PC; NVS is empty.
Init ==
  /\ app = "recovery" /\ pc = "start"
  /\ running = "ota_0" /\ bootsel = "factory"
  /\ flash = [s \in Slots |-> IF s = "ota_0" THEN 1 ELSE Partial]
  /\ mainslot = "ota_0" /\ bootfail = 0
  /\ chosen = "ota_0" /\ shown = 0
  /\ ota = NoOta /\ erasing = NotErasing /\ record = NoOta
  /\ reboot = FALSE /\ cfgReboot = FALSE /\ confirmed = FALSE
  /\ served = {}
  /\ setup \in Setups
  /\ updates = 0 /\ crashes = 0 /\ taps = 0 /\ pins = 0
  /\ failed = 0 /\ acked = 1

Attempt(kind) == IF kind \in setup.faults THEN BOOLEAN ELSE {TRUE}

-----------------------------------------------------------------------------
(* The boot loader.  Recovery's sdkconfig does not enable rollback, so the   *)
(* slot it selects is started again until the OTA data changes.             *)

Complete(s) == flash[s] # Partial

\* A slot that does not load is skipped: the lower slots, then factory.
Loads(sel) ==
  CASE sel = "factory"                       -> "factory"
    [] sel # "factory" /\ Complete(sel)      -> sel
    [] sel = "ota_1" /\ ~Complete("ota_1") /\ Complete("ota_0") -> "ota_0"
    [] OTHER                                 -> "factory"

Reset(sel) ==
  /\ bootsel' = sel
  /\ IF Loads(sel) = "factory"
     THEN app' = "recovery" /\ pc' = "start" /\ UNCHANGED running
     ELSE app' = "main" /\ pc' = "init" /\ running' = Loads(sel)
  /\ ota' = NoOta /\ erasing' = NotErasing /\ record' = NoOta /\ served' = {}
  /\ reboot' = FALSE /\ cfgReboot' = FALSE /\ confirmed' = FALSE
  /\ UNCHANGED <<flash, nvs, recovery>>

-----------------------------------------------------------------------------
(* Recovery                                                                 *)

RecoveryStarts ==
  /\ app = "recovery" /\ pc = "start"
  /\ \E ok \in Attempt("nvs") :
       /\ chosen' = IF ok THEN mainslot ELSE "ota_0"
       /\ shown' = IF ok /\ bootfail > 0 THEN bootfail - 1 ELSE 0
  /\ pc' = "countdown"
  /\ UNCHANGED <<app, running, bootsel, flash, nvs, main, counters, history>>

\* esp_ota_set_boot_partition refuses a slot that holds no complete image;
\* the restart happens whether it did or not.
ChainLoad ==
  \E ok \in Attempt("flash") :
    Reset(IF ok /\ Complete(chosen) THEN chosen ELSE bootsel)

CountdownEnds ==
  /\ pc = "countdown"
  /\ ChainLoad
  /\ UNCHANGED <<counters, history>>

ScreenTapped ==
  /\ pc = "countdown" /\ taps < setup.taps
  /\ pc' = "menu" /\ taps' = taps + 1
  /\ UNCHANGED <<app, running, bootsel, flash, nvs, recovery, main,
                 setup, updates, crashes, pins, history>>

\* "Boot firmware" and "Reset config" chain-load; "Reboot", the tap that ends
\* "Mount as USB drive", and the reset after "USB flash mode" start over.
MenuAction ==
  /\ pc = "menu"
  /\ ChainLoad \/ Reset(bootsel)
  /\ UNCHANGED <<counters, history>>

-----------------------------------------------------------------------------
(* The start of the main firmware                                           *)

\* Mutant: the OTA data keeps selecting the main firmware.
MainInitStays ==
  /\ pc = "init"
  /\ pc' = "attempt"
  /\ UNCHANGED <<app, running, bootsel, flash, nvs, recovery, main, counters, history>>

\* return_to_recovery_on_next_boot: selecting factory erases the OTA data.
MainInit ==
  /\ pc = "init"
  /\ \E ok \in Attempt("flash") : bootsel' = IF ok THEN "factory" ELSE bootsel
  /\ pc' = "attempt"
  /\ UNCHANGED <<app, running, flash, nvs, recovery, main, counters, history>>

Wrapped(n)   == IF n = MaxU8 THEN 0 ELSE n + 1     \* mutant: wrapping_add
Saturated(n) == IF n = MaxU8 THEN MaxU8 ELSE n + 1

BootAttemptBegin ==
  /\ pc = "attempt"
  /\ \E ok \in Attempt("nvs") :
       bootfail' = IF ok THEN Saturated(bootfail) ELSE bootfail
  /\ failed' = failed + 1
  /\ pc' = "settle"
  /\ UNCHANGED <<app, running, bootsel, flash, mainslot, recovery, main,
                 counters, acked>>

\* 1 s of settling, and mark_valid, which finds no OTA data to confirm.
Settled ==
  /\ pc = "settle"
  /\ pc' = "loop"
  /\ UNCHANGED <<app, running, bootsel, flash, nvs, recovery, main, counters,
                 history>>

BootMarkOk ==
  /\ pc = "loop" /\ ~confirmed
  /\ confirmed' = TRUE
  /\ \E ok \in Attempt("nvs") : bootfail' = IF ok THEN 0 ELSE bootfail
  /\ failed' = 0
  /\ UNCHANGED <<app, pc, running, bootsel, flash, mainslot, recovery,
                 session, reboot, cfgReboot, counters, acked>>

-----------------------------------------------------------------------------
(* Updates                                                                  *)

MainErases == \E t \in Transports \ {"wifi"} : erasing[t] # Partial

\* The thread that runs begin for this transport is free to: the main loop, or
\* the WiFi thread.  The bytes of a transport that owns the session are image.
CanBegin(t) ==
  /\ IF t = "wifi" THEN pc \in {"settle", "loop", "sleep"} /\ erasing[t] = Partial
     ELSE pc = "loop" /\ ~MainErases /\ ota.itf # t
  /\ t \notin served     \* a host that is done waits for the restart

TargetRunning == running                 \* mutant: the slot that runs
TargetSpare == Other(mainslot)           \* mutant: the slot that is not started
Target == Other(running)

EraseTarget == flash' = [flash EXCEPT ![Target] = Partial]

\* esp_ota_begin erases first, whatever session writes to the slot.
Begin(t) ==
  /\ CanBegin(t) /\ t \in setup.via /\ updates < setup.updates
  /\ erasing' = [erasing EXCEPT ![t] = updates + 2]
  /\ updates' = updates + 1
  /\ EraseTarget
  /\ ota' = IF ota = NoOta THEN ota ELSE [ota EXCEPT !.intact = FALSE]
  /\ UNCHANGED <<setup, app, pc, running, bootsel, nvs, recovery, record, served, reboot,
                 cfgReboot, confirmed, crashes, taps, pins, history>>

\* The end of the erase, and the session, which may lose what it writes while
\* another transport's erase goes on.
Opens(t) ==
  /\ erasing[t] # Partial /\ record = NoOta
  /\ erasing' = [erasing EXCEPT ![t] = Partial]
  /\ EraseTarget
  /\ \E opened \in Attempt("flash"), intact \in BOOLEAN :
       /\ intact \/ \E u \in Transports \ {t} : erasing[u] # Partial
       /\ ota' = IF opened
                 THEN [slot |-> Target, itf |-> t, id |-> erasing[t], intact |-> intact]
                 ELSE ota
  /\ UNCHANGED <<setup, app, pc, running, bootsel, nvs, recovery, record, served, reboot,
                 cfgReboot, confirmed, counters, history>>

\* The thread that feeds this transport's bytes: the USB task for HID.
CanFeed(t) ==
  /\ pc \in {"settle", "loop", "sleep"}
  /\ t = "cdc" => pc = "loop" /\ ~MainErases
  /\ t = "wifi" => erasing[t] = Partial

\* The last byte: esp_ota_end verifies the image.
FeedLast ==
  /\ ota # NoOta /\ CanFeed(ota.itf)
  /\ \E ok \in {ota.intact} \cup Attempt("flash") :
       /\ ok => ota.intact
       /\ flash' = IF ok THEN [flash EXCEPT ![ota.slot] = ota.id] ELSE flash
       /\ record' = IF ok THEN ota ELSE NoOta
  /\ ota' = NoOta /\ served' = served \cup {ota.itf}
  /\ UNCHANGED <<app, pc, running, bootsel, nvs, recovery, erasing, reboot,
                 cfgReboot, confirmed, counters, history>>

\* set_main_slot, whose result is not looked at, REBOOT, and OTADONE.
Record ==
  /\ record # NoOta
  /\ \E ok \in Attempt("nvs") : mainslot' = IF ok THEN record.slot ELSE mainslot
  /\ reboot' = TRUE
  /\ acked' = record.id
  /\ record' = NoOta
  /\ UNCHANGED <<app, pc, running, bootsel, flash, bootfail, recovery, ota, erasing,
                 served, cfgReboot, confirmed, counters, failed>>

\* check_timeout, or esp_ota_write failed.
SessionDropped ==
  /\ ota # NoOta
  /\ ota' = NoOta
  /\ UNCHANGED <<app, pc, running, bootsel, flash, nvs, recovery, erasing, record,
                 served, reboot, cfgReboot, confirmed, counters, history>>

-----------------------------------------------------------------------------
(* Restarts                                                                 *)

\* @PINS, or @DO with another colour order.
PinsPushed ==
  /\ pc = "loop" /\ ~MainErases /\ pins < setup.pins
  /\ cfgReboot' = TRUE /\ pins' = pins + 1
  /\ UNCHANGED <<app, pc, running, bootsel, flash, nvs, recovery, session, reboot,
                 confirmed, setup, updates, crashes, taps, history>>

\* The main loop sleeps 200 or 300 ms; the other threads do not.
RestartDue ==
  /\ pc = "loop" /\ ~MainErases /\ (reboot \/ cfgReboot)
  /\ pc' = "sleep"
  /\ UNCHANGED <<app, running, bootsel, flash, nvs, recovery, main, counters,
                 history>>

Restart ==
  /\ pc = "sleep"
  /\ Reset(bootsel)
  /\ UNCHANGED <<counters, history>>

\* A panic, a watchdog reset or a power cut, at any point.
Crash ==
  /\ crashes < setup.crashes
  /\ Reset(bootsel)
  /\ crashes' = crashes + 1
  /\ UNCHANGED <<setup, updates, taps, pins, history>>

-----------------------------------------------------------------------------

Recovery == RecoveryStarts \/ CountdownEnds
MainBoots == MainInit \/ BootAttemptBegin \/ Settled \/ BootMarkOk
Update(t) == Begin(t) \/ Opens(t)

Next ==
  \/ Recovery \/ ScreenTapped \/ MenuAction
  \/ MainBoots
  \/ (\E t \in Transports : Update(t))
  \/ FeedLast \/ Record \/ SessionDropped
  \/ PinsPushed \/ RestartDue \/ Restart \/ Crash

Spec == Init /\ [][Next]_vars

\* Both applications run, and so do the threads that hold a lock or erase; the
\* host, the user and the faults need not act.
Fairness ==
  /\ WF_vars(Recovery) /\ WF_vars(MainBoots)
  /\ WF_vars(\E t \in Transports : Opens(t)) /\ WF_vars(Record)
  /\ WF_vars(RestartDue) /\ WF_vars(Restart)

FairSpec == Spec /\ Fairness

-----------------------------------------------------------------------------

\* One transport, and a storage whose calls do not fail.
Plain == setup.via = {"hid"} /\ setup.faults = {}

\* With one transport, the slot recovery chain-loads holds a complete image
\* whenever the device may lose power: an update erases only the other slot,
\* and `mainslot` moves only to an image that was verified.  With two it does
\* not: a begin that follows an OTADONE erases the slot just selected, and no
\* menu entry chooses the other one.  (ota.rs begin, feed; main.rs)
MainSlotComplete == Plain => Complete(mainslot)

\* Whatever several transports and failing storage do, the slot the main
\* firmware runs from is never erased under it, even when NVS and the slot
\* that runs disagree.  (begin's esp_ota_get_next_update_partition)
RunsComplete == TypeOK /\ (app = "main" => Complete(running))

\* What recovery reports is one less than the starts in a row that did not run
\* for 5 s: a single one is not reported, more than the counter holds are
\* reported as one less than its limit, and none after a start that did.
\* (boot_attempt_begin, boot_mark_ok, prev_fails)
FailuresShow ==
  Plain /\ app = "recovery" /\ pc # "start" =>
    shown = CASE failed = 0     -> 0
              [] failed > MaxU8 -> MaxU8 - 1
              [] OTHER          -> failed - 1

\* The image of the last OTADONE runs in the end, unless the user holds the
\* device in the recovery menu.
UpdateRuns ==
  \A i \in 1..Newest :
    Plain /\ acked = i ~> pc = "menu" \/ (pc = "loop" /\ flash[running] >= i)

=============================================================================
