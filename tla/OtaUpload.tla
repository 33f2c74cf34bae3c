------------------------------ MODULE OtaUpload ------------------------------
(***************************************************************************)
(* The dashboard's upload of a firmware image over USB                     *)
(* (pith-device/src/handbrake.rs, ota_upload and ota_wait; the pedals'     *)
(* client is the same) composed with the device of OtaDevice, and with the *)
(* WiFi pull that the same device may be running.                          *)
(*                                                                         *)
(* The host writes `@OTA<size>`, waits for OTAREADY, writes the image one  *)
(* chunk at a time with a "K" awaited after each but the last, and waits   *)
(* for OTADONE.  Each wait has a deadline; only a missing OTADONE is not   *)
(* an error.                                                               *)
(***************************************************************************)
EXTENDS OtaDevice

CONSTANTS
  MaxUploads,  \* bound: uploads the user starts
  MaxCommands, \* bound: other command lines the dashboard writes
  MaxPulls,    \* bound: WiFi pulls
  MaxCuts      \* bound: power cuts

ASSUME BoundsAssumption ==
  /\ MaxUploads \in Nat /\ MaxCommands \in Nat
  /\ MaxPulls \in Nat /\ MaxCuts \in Nat

VARIABLES
  host,     \* what ota_upload is doing
  size,     \* the image being uploaded
  sent,     \* how many of its cells were written
  outcome,  \* how the last upload ended: "presumed" is Ok without OTADONE
  link,     \* the open HID handle still reaches the device
  uploads, commands, pulls, cuts   \* counters for the bounds

hostVars == <<host, size, sent, outcome>>
counters == <<uploads, commands, pulls, cuts>>
vars == <<devVars, hostVars, link, counters>>

HostPc == {"idle", "ready", "send", "ack", "done"}
Outcomes == {"none", "done", "presumed", "err"}

TypeOK ==
  /\ DevTypeOK
  /\ host \in HostPc /\ size \in Images \cup {0} /\ sent \in Nat
  /\ outcome \in Outcomes /\ link \in BOOLEAN
  /\ uploads \in 0..MaxUploads /\ commands \in 0..MaxCommands
  /\ pulls \in 0..MaxPulls /\ cuts \in 0..MaxCuts

Init ==
  /\ DevInit
  /\ host = "idle" /\ size = 0 /\ sent = 0 /\ outcome = "none"
  /\ link = FALSE
  /\ uploads = 0 /\ commands = 0 /\ pulls = 0 /\ cuts = 0

-----------------------------------------------------------------------------
(* The host                                                                 *)

Finish(result) ==
  /\ host' = "idle" /\ size' = 0 /\ sent' = 0 /\ outcome' = result

Write(item) ==
  /\ link
  /\ rx' = Append(rx, item)

devButChannels ==
  <<bootVars, flash, otaVars, loopVars, wifiVars>>

\* Hid::open.  Lines the operating system had buffered for an earlier handle
\* are gone; lines still in the device's FIFO come.
Connect ==
  /\ host = "idle" /\ ~link
  /\ link' = TRUE
  /\ \E gone \in 0..Len(tx) : tx' = SubSeq(tx, gone + 1, Len(tx))
  /\ UNCHANGED <<devButChannels, rx, hostVars, counters>>

\* Any other command the dashboard writes between uploads.
OtherCommand ==
  /\ host = "idle" /\ commands < MaxCommands
  /\ Write(CmdLine)
  /\ commands' = commands + 1
  /\ UNCHANGED <<devButChannels, tx, hostVars, link, uploads, pulls, cuts>>

StartUpload ==
  /\ host = "idle" /\ uploads < MaxUploads
  /\ \E n \in Images :
       /\ Write(OtaLine(n))
       /\ size' = n
  /\ host' = "ready" /\ sent' = 0 /\ outcome' = "none"
  /\ uploads' = uploads + 1
  /\ UNCHANGED <<devButChannels, tx, link, commands, pulls, cuts>>

\* Mutant: the host does not wait for acknowledgements.
AfterCellNoWait(k) == IF k = size THEN "done" ELSE "send"
AfterCell(k) ==
  IF k = size THEN "done" ELSE IF k % Chunk = 0 THEN "ack" ELSE "send"

\* The inside of hid.write(&img[sent..end]): one report.
SendCell ==
  /\ host = "send"
  /\ Write(CellOf(size, sent + 1))
  /\ sent' = sent + 1
  /\ host' = AfterCell(sent + 1)
  /\ UNCHANGED <<devButChannels, tx, size, outcome, link, counters>>

WriteError ==
  /\ host = "send" /\ ~link
  /\ Finish("err")
  /\ UNCHANGED <<devVars, link, counters>>

\* Mutant: any line but OTAERR ends the last wait.
NeedleAny == CASE host = "ready" -> "OTAREADY"
               [] host = "ack"   -> "K"
               [] host = "done"  -> Head(tx)
               [] OTHER          -> "none"

Needle == CASE host = "ready" -> "OTAREADY"
            [] host = "ack"   -> "K"
            [] host = "done"  -> "OTADONE"
            [] OTHER          -> "none"

\* ota_wait, or read_telem while no upload runs: one line.
ReadLine ==
  /\ tx # <<>> /\ host # "send"
  /\ tx' = Tail(tx)
  /\ CASE host # "idle" /\ Head(tx) = "OTAERR" ->
            /\ Finish("err")
            /\ UNCHANGED link
       [] host \in {"ready", "ack"} /\ Head(tx) = Needle ->
            /\ host' = "send"
            /\ UNCHANGED <<size, sent, outcome, link>>
       [] host = "done" /\ Head(tx) = Needle ->
            /\ Finish("done")
            /\ link' = FALSE                          \* dev.close()
       [] OTHER -> UNCHANGED <<hostVars, link>>       \* skipped
  /\ UNCHANGED <<devButChannels, rx, counters>>

\* Nothing the other side could still do would answer the host.
Silent ==
  /\ rx = <<>> /\ tx = <<>> /\ batch = <<>> /\ ~reboot
  /\ pc \in {"poll", "check"}

\* Mutant: the last wait has no deadline.
WaitNeverEnds ==
  /\ host \in {"ready", "ack"} /\ tx = <<>>
  /\ "stall" \in Faults \/ Silent
  /\ Finish("err")
  /\ UNCHANGED <<devVars, link, counters>>

\* The deadline of ota_wait: 12 s, 6 s or 8 s.
WaitTimesOut ==
  /\ host \in {"ready", "ack", "done"} /\ tx = <<>>
  /\ "stall" \in Faults \/ Silent
  /\ Finish(IF host = "done" THEN "presumed" ELSE "err")
  /\ link' = (link /\ host # "done")                  \* dev.close() after Ok
  /\ UNCHANGED <<devVars, counters>>

-----------------------------------------------------------------------------
(* The device, composed                                                     *)

DeviceLoop ==
  /\ MainLoop
  /\ UNCHANGED <<hostVars, link, counters>>

\* The handle the host held is dead once the device starts over.
DeviceRestarts ==
  /\ Restart
  /\ link' = FALSE
  /\ UNCHANGED <<hostVars, counters>>

PowerIsCut ==
  /\ cuts < MaxCuts
  /\ PowerCut
  /\ cuts' = cuts + 1
  /\ link' = FALSE
  /\ UNCHANGED <<hostVars, uploads, commands, pulls>>

\* 4 s pass without a byte for the session: at once when the host or the
\* device is stalled, otherwise only when nothing is on its way.
SessionGoesQuiet ==
  /\ ota # NoOta /\ ~quiet
  /\ "stall" \in Faults \/ (Silent /\ host # "send")
  /\ quiet' = TRUE
  /\ UNCHANGED <<bootVars, flash, ota, reboot, loopVars, rx, tx, wifiVars,
                 hostVars, link, counters>>

WifiPullStarts ==
  /\ pulls < MaxPulls
  /\ \E n \in Images : WifiErase(n)
  /\ pulls' = pulls + 1
  /\ UNCHANGED <<hostVars, link, uploads, commands, cuts>>

WifiPullGoesOn ==
  /\ WifiThread
  /\ UNCHANGED <<hostVars, link, counters>>

HostThread ==
  \/ Connect \/ SendCell \/ WriteError \/ ReadLine \/ WaitTimesOut

Next ==
  \/ HostThread \/ StartUpload \/ OtherCommand
  \/ DeviceLoop \/ DeviceRestarts \/ PowerIsCut \/ SessionGoesQuiet
  \/ WifiPullStarts \/ WifiPullGoesOn

Spec == Init /\ [][Next]_vars

\* poll_hid finds everything the host has written.
DevicePollsAll ==
  /\ PollHid(Len(rx))
  /\ UNCHANGED <<hostVars, link, counters>>

\* The threads and the clock run, and what is written arrives; the user and
\* the faults need not act.
Fairness ==
  /\ WF_vars(DeviceLoop) /\ SF_vars(DevicePollsAll) /\ WF_vars(DeviceRestarts)
  /\ WF_vars(SendCell \/ WriteError) /\ WF_vars(ReadLine)
  /\ WF_vars(WaitTimesOut) /\ WF_vars(SessionGoesQuiet)
  /\ WF_vars(WifiPullGoesOn)

FairSpec == Spec /\ Fairness

-----------------------------------------------------------------------------
(* Safety                                                                   *)

\* Whatever was uploaded, interleaved, cut or stalled, the slot that runs
\* holds a complete image, and so does the slot to fall back to while a new
\* image is on trial: the device always starts.  (ota.rs begin and feed)
AlwaysBootable ==
  /\ Complete(flash[running])
  /\ verify => Complete(flash[Other(running)])

\* With USB alone, the slot the next start takes holds a complete image: a
\* begin never erases the slot a finished update has just selected, although
\* the restart comes 300 ms later.  (ota.rs begin, main.rs should_reboot)
BootSlotComplete == Complete(flash[boot])

\* While the session holds nothing but the start of the image being sent, the
\* host is at most one chunk ahead of what is written, so HID_RX, which has no
\* limit of its own, is bounded by the acknowledgements.  (A retry that takes
\* the OTAREADY of an upload it gave up is another matter: its `@OTA` line
\* counts as image, and every "K" comes early.  With a second one, the device
\* stalled for all of them, a reply to the first may be taken for the third's,
\* so both properties of the replies are about one retry.  Command lines count
\* as image too in the session of an upload that was given up, so a chunk of
\* them is worth a "K" that the retry may take for its own: FlowControl is
\* about fewer.)  (ota_upload, feed)
OneRetry == uploads <= 2
InStep ==
  /\ ota # NoOta /\ host # "idle"
  /\ \A i \in DOMAIN flash[ota.slot] : flash[ota.slot][i] = CellOf(size, i)
FewCommands == commands < Chunk
FlowControl ==
  InStep /\ OneRetry /\ FewCommands => sent - Len(flash[ota.slot]) <= Chunk

\* The OTADONE the host takes is about the image it has just sent, never
\* about an earlier one: that image is in a slot of the device when the host
\* reports success, after one retry at most.  (ota_upload's last wait)
DoneIsAboutThisImage ==
  [][outcome' = "done" /\ outcome # "done" /\ OneRetry
       => \E s \in Slots : flash[s] = Image(size)]_vars

\* ota_upload's last comment: when OTADONE does not come the device is already
\* rebooting, so an upload reported as a success has its image in the device,
\* or bytes of it are still on their way into a session.
OnItsWay == rx # <<>> \/ batch # <<>> \/ ota # NoOta
OkMeansInstalled ==
  [][outcome' = "presumed" /\ outcome # "presumed"
       => OnItsWay \/ \E s \in Slots : flash[s] = Image(size)]_vars

-----------------------------------------------------------------------------
(* Liveness, under FairSpec                                                 *)

\* A session never lasts: it ends, is given up by check_timeout, or is lost
\* with the device, and the channel carries text again.  (check_timeout)
SessionEnds == ota # NoOta ~> ota = NoOta

\* ota_upload always returns.
UploadReturns == host # "idle" ~> host = "idle"

\* Without faults every upload that is started while no restart is pending
\* ends with OTADONE and leaves its image in the slot that boots: no size,
\* multiple of a chunk or not, makes both sides wait for each other.
UploadInstalls ==
  \A n \in Images :
    host = "ready" /\ size = n /\ rx # <<>> /\ ~reboot
      ~> outcome = "done" /\ flash[boot] = Image(n)

-----------------------------------------------------------------------------
(* What the device promises, whoever writes to it: see TrialBoot.           *)

ImageIn(s) == IF Complete(flash[s]) THEN flash[s] ELSE <<>>

Trial == INSTANCE TrialBoot WITH
  Builds <- {Image(n) : n \in Images},
  NoBuild <- <<>>,
  good  <- IF verify THEN ImageIn(Other(running)) ELSE ImageIn(running),
  trial <- IF verify THEN ImageIn(running)
           ELSE IF boot # running THEN ImageIn(boot) ELSE <<>>,
  onTrial <- verify

TrialBootSpec == Trial!Spec

=============================================================================
