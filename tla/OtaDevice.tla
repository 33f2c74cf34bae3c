------------------------------ MODULE OtaDevice ------------------------------
(***************************************************************************)
(* The in-place firmware update of the handbrake and of the pedals, device *)
(* side (firmware/handbrake/src/ota.rs, the pedals' copy is the same text).*)
(*                                                                         *)
(* The flash holds two application slots.  `@OTA<size>` erases the slot    *)
(* that does not run and starts a session; the bytes that follow are       *)
(* written to it; the last one makes esp_ota_end verify the image, moves   *)
(* the boot slot and asks the main loop for a restart.  A session that     *)
(* gets no byte for 4 seconds is dropped by check_timeout.  The boot       *)
(* loader runs a new image on trial until mark_valid confirms it.          *)
(*                                                                         *)
(* Two threads use the session: the main loop, fed from USB, and the WiFi  *)
(* thread, fed from TCP (pith-fw-wifi).  Both call the same begin and feed.*)
(*                                                                         *)
(* Data abstraction: a cell stands for a run of bytes.  The image of size  *)
(* n is the sequence of the cells <<n, 1>> ... <<n, n>>, so images are     *)
(* identified by their size, and a text line written into the flash is a   *)
(* cell of no image.                                                       *)
(***************************************************************************)
EXTENDS Integers, Sequences

CONSTANTS
  Images,    \* the sizes of the images there are, in cells
  Factory,   \* the image the device was first flashed with
  Chunk,     \* ACK_CHUNK, in cells
  Faults,    \* which faults may happen: a subset of FaultKinds
  NoOta      \* no session: the None of `static OTA`

FaultKinds == {"flash", "power", "stall"}

ASSUME ImagesAssumption == Images \subseteq Nat \ {0} /\ Factory \in Images
ASSUME ChunkAssumption  == Chunk \in Nat \ {0}
ASSUME FaultsAssumption == Faults \subseteq FaultKinds

Slots == {0, 1}
Other(s) == 1 - s

\* What travels to the device and what a flash cell can hold.
CellOf(n, k) == [t |-> "cell", n |-> n, k |-> k]
OtaLine(n)   == [t |-> "ota", n |-> n, k |-> 0]     \* "@OTA<n>\n"
CmdLine      == [t |-> "cmd", n |-> 0, k |-> 0]     \* any other command line
Item == [t : {"cell", "ota"}, n : Images, k : Nat] \cup {CmdLine}

Image(n)     == [k \in 1..n |-> CellOf(n, k)]
Complete(c)  == \E n \in Images : c = Image(n)

Session == [slot : Slots, left : Nat \ {0}, acc : Nat]
ASSUME NoOtaAssumption == NoOta \notin Session

Replies == {"OTAREADY", "K", "OTADONE", "OTAERR"}

VARIABLES
  running,  \* the slot whose image runs
  boot,     \* the slot the OTA data names for the next start
  verify,   \* the running image is on trial (PENDING_VERIFY)
  flash,    \* what each slot holds
  ota,      \* the session, or NoOta
  reboot,   \* REBOOT
  quiet,    \* 4 s have passed since the session's last_us
  pc,       \* where the main loop is
  batch,    \* the text items of this iteration still to be dispatched
  junk,     \* hid_line holds the start of a line that is no command
  rx,       \* bytes from the host: in flight, then in HID_RX
  tx,       \* reply lines to the host (lines other than Replies left out)
  wifi,     \* where the WiFi thread's handle_ota_wifi is
  wsize,    \* the image it pulls
  wgot      \* and how much of it came

otaVars == <<ota, quiet, reboot>>
bootVars == <<running, boot, verify>>
loopVars == <<pc, batch, junk>>
wifiVars == <<wifi, wsize, wgot>>
devVars == <<running, boot, verify, flash, ota, quiet, reboot, pc, batch, junk,
             rx, tx, wifi, wsize, wgot>>

LoopPc == {"boot", "poll", "text", "erase", "check", "sleep"}

DevTypeOK ==
  /\ running \in Slots /\ boot \in Slots /\ verify \in BOOLEAN
  /\ flash \in [Slots -> Seq(Item)]
  /\ ota \in Session \cup {NoOta}
  /\ reboot \in BOOLEAN /\ quiet \in BOOLEAN
  /\ pc \in LoopPc /\ batch \in Seq(Item) /\ junk \in BOOLEAN
  /\ rx \in Seq(Item) /\ tx \in Seq(Replies)
  /\ wifi \in {"idle", "erase", "pull"} /\ wsize \in Nat /\ wgot \in Nat

DevInit ==
  /\ running = 0 /\ boot = 0 /\ verify = FALSE
  /\ flash = [s \in Slots |-> IF s = 0 THEN Image(Factory) ELSE <<>>]
  /\ ota = NoOta /\ reboot = FALSE /\ quiet = FALSE
  /\ pc = "boot" /\ batch = <<>> /\ junk = FALSE
  /\ rx = <<>> /\ tx = <<>>
  /\ wifi = "idle" /\ wsize = 0 /\ wgot = 0

Lesser(a, b) == IF a < b THEN a ELSE b

-----------------------------------------------------------------------------
(* begin: esp_ota_begin erases the slot that does not run, outside the      *)
(* lock, and then the session is replaced, whatever session there was.      *)

TargetBoot == Other(boot)                 \* mutant: the slot that does not boot
Target == Other(running)                  \* esp_ota_get_next_update_partition

EraseTarget == flash' = [flash EXCEPT ![Target] = <<>>]

\* Bytes that belong to no image.
Lost(items) == [i \in DOMAIN items |-> CmdLine]

\* The session writes from offset 0: what an earlier session wrote since the
\* erase is beyond this image, or spoils it.
OpenSession(n) ==
  /\ ota' = [slot |-> Target, left |-> n, acc |-> 0]
  /\ quiet' = FALSE
  /\ tx' = Append(tx, "OTAREADY")
  /\ \E rest \in {<<>>, Lost(flash[Target])} :
       flash' = [flash EXCEPT ![Target] = rest]

\* Some thread is erasing, so what another one writes may be lost.
Erasing == pc = "erase" \/ wifi = "erase"
Landed(items) == IF Erasing THEN {items, Lost(items)} ELSE {items}

-----------------------------------------------------------------------------
(* feed, called with the session's lock held.  Bytes beyond `remaining`     *)
(* are dropped and count as consumed.                                       *)

FeedFails ==
  /\ "flash" \in Faults
  /\ ota' = NoOta
  /\ tx' = Append(tx, "OTAERR")
  /\ UNCHANGED <<flash, boot, reboot>>

VerifiedAlways(c) == {TRUE}               \* mutant: the result is not looked at
\* esp_ota_end accepts only a complete image.  It may also fail by itself.
Verified(c) == {Complete(c)} \cup (IF "flash" \in Faults THEN {FALSE} ELSE {})

FeedLast(content) ==
  \E ok \in Verified(content) :
    /\ ota' = NoOta
    /\ boot' = IF ok THEN ota.slot ELSE boot
    /\ reboot' = (reboot \/ ok)
    /\ tx' = Append(tx, IF ok THEN "OTADONE" ELSE "OTAERR")

\* Mutant: the acknowledgement is due only once more than a chunk came.
FeedMoreStrict(n) ==
  LET acc == ota.acc + n IN
    /\ ota' = [slot |-> ota.slot, left |-> ota.left - n,
               acc |-> IF acc > Chunk THEN acc - Chunk ELSE acc]
    /\ tx' = IF acc > Chunk THEN Append(tx, "K") ELSE tx
    /\ UNCHANGED <<boot, reboot>>

FeedMore(n) ==
  LET acc == ota.acc + n IN
    /\ ota' = [slot |-> ota.slot, left |-> ota.left - n,
               acc |-> IF acc >= Chunk THEN acc - Chunk ELSE acc]
    /\ tx' = IF acc >= Chunk THEN Append(tx, "K") ELSE tx
    /\ UNCHANGED <<boot, reboot>>

FeedData(data) ==
  LET n == Lesser(Len(data), ota.left) IN
    \E items \in Landed(SubSeq(data, 1, n)) :
      LET content == flash[ota.slot] \o items IN
        /\ flash' = [flash EXCEPT ![ota.slot] = content]
        /\ IF n = ota.left THEN FeedLast(content) ELSE FeedMore(n)

Feed(data) ==
  /\ ota # NoOta
  /\ quiet' = FALSE
  /\ FeedData(data) \/ FeedFails
  /\ UNCHANGED <<running, verify>>

-----------------------------------------------------------------------------
(* The main loop: poll_hid, then should_reboot, then check_timeout.         *)

\* Mutant: the image is never confirmed.
BootUnconfirmed ==
  /\ pc = "boot"
  /\ pc' = "poll"
  /\ UNCHANGED <<bootVars, flash, otaVars, batch, junk, rx, tx, wifiVars>>

\* mark_valid, right after usb::init; the loop starts.
Boot ==
  /\ pc = "boot"
  /\ verify' = FALSE
  /\ pc' = "poll"
  /\ UNCHANGED <<running, boot, flash, otaVars, batch, junk, rx, tx, wifiVars>>

\* poll_hid takes the n items that have arrived.  A session takes them all
\* as image bytes; otherwise they are text.
PollNothing ==
  /\ pc' = "check"
  /\ UNCHANGED <<batch, bootVars, flash, otaVars, tx>>

PollText(data) ==
  /\ ota = NoOta
  /\ batch' = data
  /\ pc' = "text"
  /\ UNCHANGED <<bootVars, flash, otaVars, tx>>

PollImage(data) ==
  /\ Feed(data)
  /\ pc' = "check"
  /\ UNCHANGED batch

PollHid(n) ==
  /\ pc = "poll"
  /\ rx' = SubSeq(rx, n + 1, Len(rx))
  /\ LET data == SubSeq(rx, 1, n) IN
       \/ n = 0 /\ PollNothing
       \/ n > 0 /\ (PollText(data) \/ PollImage(data))
  /\ UNCHANGED <<junk, wifiVars>>

NextItem ==
  /\ batch' = Tail(batch)
  /\ pc' = IF Tail(batch) = <<>> THEN "check" ELSE "text"

\* Image bytes read as text: they may or may not end in a newline.
TextBytes ==
  /\ pc = "text" /\ batch # <<>> /\ Head(batch).t = "cell"
  /\ junk' \in BOOLEAN
  /\ NextItem
  /\ UNCHANGED <<bootVars, flash, otaVars, rx, tx, wifiVars>>

\* A command, or any line glued to junk: one OK or ERR line, not modelled.
TextLine ==
  /\ pc = "text" /\ batch # <<>> /\ Head(batch).t # "cell"
  /\ Head(batch).t = "ota" => junk
  /\ junk' = FALSE
  /\ NextItem
  /\ UNCHANGED <<bootVars, flash, otaVars, rx, tx, wifiVars>>

\* "@OTA<size>" at the start of a line: begin, up to esp_ota_begin's erase.
BeginErase ==
  /\ pc = "text" /\ batch # <<>> /\ Head(batch).t = "ota" /\ ~junk
  /\ EraseTarget
  /\ pc' = "erase"
  /\ UNCHANGED <<bootVars, otaVars, batch, junk, rx, tx, wifiVars>>

BeginOpens ==
  /\ pc = "erase"
  /\ OpenSession(Head(batch).n)
  /\ NextItem
  /\ UNCHANGED <<bootVars, reboot, junk, rx, wifiVars>>

\* esp_ota_begin failed: an earlier session stays as it was.
BeginFails ==
  /\ pc = "erase" /\ "flash" \in Faults
  /\ tx' = Append(tx, "OTAERR")
  /\ NextItem
  /\ UNCHANGED <<bootVars, flash, otaVars, junk, rx, wifiVars>>

\* should_reboot: sleep 300 ms, then restart.
WantReboot ==
  /\ pc = "check" /\ reboot
  /\ pc' = "sleep"
  /\ UNCHANGED <<bootVars, flash, otaVars, batch, junk, rx, tx, wifiVars>>

ExpiredNever == FALSE                     \* mutant: check_timeout not called
Expired == ota # NoOta /\ quiet

CheckTimeout ==
  /\ pc = "check" /\ ~reboot
  /\ ota' = IF Expired THEN NoOta ELSE ota
  /\ pc' = "poll"
  /\ UNCHANGED <<bootVars, flash, quiet, reboot, batch, junk, rx, tx, wifiVars>>

-----------------------------------------------------------------------------
(* Starting over.  The boot loader drops an image that was not confirmed,   *)
(* and runs the other slot when the boot slot holds no complete image.      *)

Bootloader ==
  CASE verify ->
         /\ running' = Other(running) /\ boot' = Other(running)
         /\ verify' = FALSE
    [] ~verify /\ Complete(flash[boot]) ->
         /\ running' = boot
         /\ verify' = (boot # running)
         /\ UNCHANGED boot
    [] ~verify /\ ~Complete(flash[boot]) ->
         /\ running' = Other(boot)
         /\ verify' = FALSE
         /\ UNCHANGED boot

\* The first `kept` reply lines had left the device.
Reset(kept) ==
  /\ Bootloader
  /\ ota' = NoOta /\ reboot' = FALSE /\ quiet' = FALSE
  /\ pc' = "boot" /\ batch' = <<>> /\ junk' = FALSE
  /\ rx' = <<>> /\ tx' = SubSeq(tx, 1, kept)
  /\ wifi' = "idle" /\ wsize' = 0 /\ wgot' = 0
  /\ UNCHANGED flash

\* The 300 ms are there for OTADONE to leave the device, and are enough
\* unless the host is stalled.
Restart ==
  /\ pc = "sleep"
  /\ \E kept \in 0..Len(tx) :
       /\ kept < Len(tx) => "stall" \in Faults
       /\ Reset(kept)

PowerCut ==
  /\ "power" \in Faults
  /\ \E kept \in 0..Len(tx) : Reset(kept)

-----------------------------------------------------------------------------
(* The WiFi thread: handle_ota_wifi, after `@OTAWIFI` and the connect.      *)

WifiErase(n) ==
  /\ wifi = "idle" /\ pc # "boot"
  /\ EraseTarget
  /\ wifi' = "erase" /\ wsize' = n /\ wgot' = 0
  /\ UNCHANGED <<bootVars, otaVars, loopVars, rx, tx>>

WifiOpens ==
  /\ wifi = "erase"
  /\ OpenSession(wsize)
  /\ wifi' = "pull"
  /\ UNCHANGED <<bootVars, reboot, loopVars, rx, wsize, wgot>>

\* begin failed.  The thread goes on if hooks.active says a session is there,
\* which may be the one USB opened.
WifiBeginFails ==
  /\ wifi = "erase" /\ "flash" \in Faults
  /\ tx' = Append(tx, "OTAERR")
  /\ wifi' = IF ota # NoOta THEN "pull" ELSE "idle"
  /\ UNCHANGED <<bootVars, flash, otaVars, loopVars, rx, wsize, wgot>>

\* One read of up to 4096 bytes, two chunks, handed to feed.
WifiFeed ==
  /\ wifi = "pull" /\ wgot < wsize /\ ota # NoOta
  /\ \E m \in 1..Lesser(2 * Chunk, wsize - wgot) :
       /\ Feed([i \in 1..m |-> CellOf(wsize, wgot + i)])
       /\ wgot' = wgot + m
  /\ UNCHANGED <<loopVars, rx, wifi, wsize>>

\* The image is in, the stream ended or failed, or feed found no session.
WifiStops ==
  /\ wifi = "pull"
  /\ wgot = wsize \/ ota = NoOta \/ "stall" \in Faults
  /\ wifi' = "idle" /\ wsize' = 0 /\ wgot' = 0
  /\ UNCHANGED <<bootVars, flash, otaVars, loopVars, rx, tx>>

-----------------------------------------------------------------------------

MainLoop ==
  \/ Boot \/ (\E n \in 0..Len(rx) : PollHid(n)) \/ TextBytes \/ TextLine
  \/ BeginErase \/ BeginOpens \/ BeginFails
  \/ WantReboot \/ CheckTimeout

WifiThread == WifiOpens \/ WifiBeginFails \/ WifiFeed \/ WifiStops

=============================================================================
