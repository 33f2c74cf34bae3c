# Verification of pithsim

TLA+ models of the parts of pithsim whose correctness depends on order, crashes
and several threads or processors: TLC checks them on small instances, TLAPS
proves the central results for every instance. Sources are named relative to
`src/`.

## The system

pithsim is a set of sim-racing devices and the desktop program that serves them.

| part | source | state it keeps | operations | talks to |
|---|---|---|---|---|
| handbrake firmware | `firmware/handbrake`, `pith-hb-core` | calibration (pending, saved, NVS), idle tracker, OTA session, boot slots | calibration commands, axis and telemetry reports, `@OTA` | host over HID report 2, dashboard over WiFi |
| pedal firmware | `firmware/pedals`, `pith-pedals-core` | configuration, homed, armed, servo state, control filters, OTA session | `@CFG @ACT @HOME @ARM @DISARM @OTA`, control tick | host over HID, servo over Modbus RTU |
| DDU firmware | `firmware/ddu` | pages and layout blobs in NVS, LED profile, button mask, OTA session, `mainslot`, `bootfail` | telemetry frames, layout and pin commands, `@OTA` | host over CDC and HID, dashboard over WiFi |
| recovery | `pith-recovery`, `pith-bios` | slot and counter read from NVS, menu | countdown, chain load, config wipe, USB drive | the same flash and NVS as the DDU firmware |
| WiFi link | `firmware/pith-fw-wifi`, `pith-core/src/net.rs` | credentials, crash guard, peer address | connect, beacon, axis and button stream, command relay, `@OTAWIFI` | dashboard over UDP, TCP for images |
| device library | `pith-device` | open handle, reply buffer | command, read telemetry, upload | the firmwares |
| dashboard threads | `dashboard/src/{hb,pedals,wifi,loops}.rs`, `net/cardata.rs` | outboxes, connection state, pending WiFi commands, virtual joystick axes | connect, forward, flash, expire | device library, user interface |
| dashboard application | `dashboard/src/{app,callbacks,state,persist}.rs`, `ui_bridge`, `ui` | settings, layouts, user interface state | callbacks, save and load | the threads, through outboxes and shared state |
| telemetry | `pith-sim`, `pith-core`, `dashboard/src/telemetry` | last samples | decode, derive, format | dashboard |
| tools | `pith-flash`, `pith-shm-bridge`, `simhub-plugin`, `dashboard/src/{firmware,net}` | - | flash, build, download, bridge | espflash, GitHub, games |

What is hard in it: updates that may be cut at any point; two threads of one
device that share an update session; two programs (recovery and the main
firmware) that share a boot record; request and reply over a channel that also
carries telemetry and image bytes; deadlines on both ends of that channel; UDP
for commands. `PROJECT.json` lists the hazards, each at its line.

What makes each part correct:

- *Updates.* The device always starts; a finished update is the one that runs;
  host and device never wait for each other forever; nothing is reported as
  installed that is not.
- *DDU start.* Recovery can always start a main firmware; an acknowledged update
  is not lost; failed starts are shown.
- *Handbrake calibration.* What the game sees stays monotonic and inside the
  range; what is saved is what was tuned; the dashboard's picture is the
  device's.
- *WiFi.* A reply belongs to its command; a device that goes away leaves nothing
  pressed; a bad credential or a crashing radio does not take the device away.
- *Pedals.* The motor is moved only when homed and armed, and only with targets
  inside the travel; effects end; a configuration belongs to one pedal; marks and
  automatic profile follow what is connected and played.
- *Layout.* What the user edits stays drawable and with its tab, reaches the device whole, and
  survives power cuts; no button is pressed or stays pressed by itself.
- *Telemetry.* The frame is the strongest source's, derived values belong to the
  session, and the device ends up with the frame and the car that are current.

## Modules

| module | models | used by |
|---|---|---|
| `OtaDevice` | the in-place update of handbrake and pedals: `ota.rs`, the main loop and USB channel around it, `handle_ota_wifi`, and the ESP-IDF flash and boot loader they rely on | `OtaUpload` |
| `OtaUpload` | `OtaDevice` composed with the dashboard's upload (`ota_upload`, `ota_wait`, `Hid`) | `OtaUpload_proofs` |
| `TrialBoot` | the abstract promise: a good image at all times, a new one on trial until it confirms itself | refined by `OtaUpload` |
| `DduBoot` | recovery, the start of the DDU's main firmware, its update sessions and the two NVS cells they share | `DduBoot_proofs` |
| `HandbrakeCal` | the handbrake's calibration: every line of the command channel, NVS, the idle tracking | `HandbrakeHost` |
| `HandbrakeHost` | `HandbrakeCal` composed with the dashboard's handbrake page, outbox and USB thread | `HandbrakeHost_proofs` |
| `WifiLink` | the WiFi thread of every device: credentials, crash guard, connection, UDP loop | `WifiRouter` |
| `WifiRouter` | the dashboard's WiFi thread and the virtual joystick, over the devices of `WifiLink` | `WifiSession` |
| `WifiSession` | the handbrake's page over WiFi, on top of both | `WifiSession_proofs` |
| `PedalForce` | one control step of the pedal: force, effects, virtual mass, target, axis | `PedalMotion` |
| `PedalMotion` | the pedal's main loop, commands, homing, arming, servo driver and drive | `PedalMotion_proofs` |
| `PedalCurve` | the points of the force curve as the editor and a configuration hold them | `PedalHost` |
| `PedalHost` | the dashboard's pedal page, profiles, device thread and automatic switch, with a pedal | `PedalHost_proofs` |
| `DduStore` | the DDU's configuration: memory, the two NVS partitions, starts | `DduPanel` |
| `DduPanel` | the loop of the display task: touch, tabs, buttons, sleep, update screen, configuration screen; HID reports | `DduLink` |
| `LayoutEditor` | the freeform layout editor, presets and the dashboard's files | `DduLink` |
| `DduLink` | editor, device thread, command channel, store and panels composed | `DduLink_proofs` |
| `FrameCodec` | the text frame: writer and parser | `FrameMerge` |
| `DerivedFields` | best lap, burn per lap, laps left | `FrameMerge` |
| `FrameMerge` | sources, priorities, the merged frame, the outbox and the writer | `TelemetryFeed` |
| `Ranking` | what a stable sort and a filter do to a list | `FrameMerge`, `Relatives` |
| `Relatives` | which cars are in the frame | `TelemetryFeed` |
| `CarProfiles` | game scan, library, and the car's light profile | `TelemetryFeed` |
| `Connectors` | games that have to be asked for telemetry | `TelemetryFeed` |
| `TelemetryFeed` | the senders, and the modules from `FrameCodec` on composed | `TelemetryFeed_proofs` |
| `MC...` | the instances TLC checks | - |
| `..._proofs` | the theorems about a component, and the lemmas they rest on | - |

The compositions are along `EXTENDS`: a module adds its variables and conjoins
its actions with what the one below does. Scenarios: most instances start in one of
several setups, each a set of initial states with a budget for what the environment
may do; a run checks all of them, so that a hazard is met with the
actors it takes and without the product of all others.

### OtaDevice and OtaUpload

State: `running`, `boot`, `verify` are what the boot loader and the OTA data
know; `flash` is what the two slots hold; `ota`, `reboot`, `quiet` are the
statics of `ota.rs` (`quiet` is "4 s since `last_us`"); `pc`, `batch`, `junk`
the place of the main loop, the bytes of its iteration and `hid_line`; `rx` and
`tx` the two directions of the HID channel; `wifi`, `wsize`, `wgot` the WiFi
thread inside `handle_ota_wifi`. The host's `host`, `size`, `sent`, `outcome`
are the locals of `ota_upload`.

Actions follow the code's critical sections. `begin` is two steps, because
`esp_ota_begin` erases outside the lock; `feed` is one step, because it holds the
lock from the first to the last line (its reply goes out after the release, and
only the thread that called it writes replies of that session). `poll_hid` takes
any prefix of what was written, the lines it contains are dispatched one by one,
and the restart waits in a state of its own (`sleep`) for the 300 ms in which the
other threads still run.

Images are sequences of cells and are named by their size; a chunk
(`ACK_CHUNK`, 2048 bytes) is `Chunk` cells. A text line that is written into a
slot is a cell of no image. What another thread erases while a session writes
may or may not be lost.

Outside `src/` and therefore assumptions: `esp_ota_end` accepts exactly complete
images; `esp_ota_get_next_update_partition` is the slot that does not run; the
boot loader has rollback enabled, as the handbrake's and pedals'
`sdkconfig.defaults` set it, so an image that did not call `mark_valid` is dropped
at the next start. A device that was flashed with a boot loader without
rollback keeps no such promise. Sizes of zero or less are refused by `begin` and
are not modelled. The board's first partition table (a single factory slot) is
not modelled.

### DduBoot

`app` and `pc` say which program runs and where it is. `bootsel` is the OTA data,
`mainslot` and `bootfail` are the NVS cells, `chosen` and `shown` what recovery
read from them. `ota`, `erasing`, `record` are the update session, a `begin` that
erases, and a `feed` between the verified image and its record in NVS; chunks
and acknowledgements are those of `OtaDevice` and are left out. `failed` and
`acked` are history: starts since one ran for 5 s, and the last image `OTADONE`
was sent for; `setup` is the scenario. Recovery does not enable rollback, so what it selects is started
again until the OTA data changes.

### HandbrakeCal and HandbrakeHost

`pending`, `saved` and `nvs` are the three calibrations of the device, `cmds` and
`lines` the channel. Each command is one action, as `dispatch` runs to its end
and answers with one line; `set_raw` may fail. `AutoZero` is a nudge of the idle
tracking; which samples end a run of quiet readings is left open, so any
reading in `Resting` may. The numbers keep the code's ratios (a twelfth of the
span, a quarter of the residue, division towards zero). Telemetry is not in the
channel: `read_reply` skips it, and in `read_telem` only its order relative to a
stray reply matters (`DropStray` before `Sample`).

The thread that owns the handle (`hb_device_loop`) blocks for each reply; `pc`
names the wait and `cur` the `HbOutbound` it is about. `slot` is the one-place
outbox, which user, views and download task write and the thread takes.
`page`, `viewed`, `connected`, `shown`, `flashing` are the UI. A calibration page
that comes into view queues a learn window; that is part of each action that
brings it into view (`ShowOver`, `LeaveOrReturn`). `live` is false from the
moment the cable is pulled until the thread opens the device again: reads and
writes in between fail. Pulling the cable also takes the power.

Simplified: a page set by the thread appears at once (`ui_run` is a queue to the
UI's event loop); deadzones and inversion are one value of `Feel`; raw value
and percentage are not shown; the idle point is not part of what the UI shows,
because the device moves it by itself; `ota_upload` is one step with two
outcomes, its protocol is `OtaUpload`'s. The timers are not counted; a window
ends only when no reply is due, since it lasts 8 s and 0.8 s of silence already
make the thread ask whether the device is there.

### WifiLink, WifiRouter, WifiSession

`at` is the place of a device's WiFi thread, `nvs` its stored credentials and crash
counter, `fresh` and `inuse` the credentials handed over and in use; `row` is
history: the starts in a row that ended before they were stable. A datagram is a
record in `air` that arrives in any order or is lost. `host` is the dashboard's
table of devices with their axes, button masks and the joystick; `pending`,
`outbox` and `answer` connect a caller to the thread. In `WifiSession`, `pc` names
the answer `wifi_session` waits for.

One step of the router goes from `recv_from` to `recv_from`: datagram, outbox,
expiry, switches. Simplified: the joystick can always be created; telemetry that is
forwarded changes nothing; 8 misses, 5 s and 800 ms may pass whenever nothing
arrived; `@WIFI` through a session is `Provision`.

### PedalForce and PedalMotion

A pass of the loop is `usb`, `wifi`, `tick`, then `lo`, `hi`, `move`: the three
register writes, each with its answer. The WiFi thread may begin an update between any
two of these steps (`PullBegins`; `pull` says that it is in `handle_ota_wifi` and reads no
lines); the loop looks at `ota` where the code does, before a line from USB is taken and
before the tick, so a pass that is past that point sends its target. `env` is the travel
homing found, `act` the last `@ACT`, `fx` the ages of the effects, `model` the virtual mass,
`servo` what the driver believes, `drive` what the drive holds, `stale` an answer that
comes during the next exchange. `moved` is history: what the registers said when a move
began and what the loop asked for. A move is relative, as the drive's default has it
and no code changes (finding 11); `Rail` bounds how far the drive gets. The loop never
reads the position back: what it takes for the motor's is the last target.

Positions, forces and speeds are small integers. Clamps, their order, branches and resets
are the code's; the real-valued dynamics between the clamps (filters, springs, oscillators)
are kept as whole numbers or choices within the bounds the code puts on the result.
Filters of order 0 and 1 are one; kinematics, the load cell and custom vibration are left
out. Homing's result, and the driver's identification and arming, come from the
environment: no code calls `probe_identity` or the driver's `arm`.

### PedalCurve and PedalHost

`editor`, `marks`, `status` are what the window shows, `slots` the configurations of
the roles, `uiq` the closures queued for the UI thread, `outbox` the one-place
request to the thread, `at` and `job` its place. A configuration is its role, one
number the editor shows, its curve, and the `rest` the editor does not show: the
role it was made for and one of the values `Hidden`. `up`
and `down` are the two directions of the cable. The user acts only when no closure
is queued. A drag may end the dashboard (`crashed`), hence `CHECK_DEADLOCK FALSE`.
`wireless` is a pedal that is heard over WiFi; a request made while no cable is there goes
to it (`at = "request"` while its answer is out). `touched` is history and collects
what the automatic switch is not answerable for: "push" (the user pushed another
configuration), "files" (profiles or bindings were edited), "restart" (the pedal forgot
its configuration), "lost" (a profile was sent into a cable that had been pulled).

### DduStore, DduPanel, LayoutEditor, DduLink

`ram` is the memory of `state.rs`, `blob` and `nvs` are the two partitions, `work` the
entries a handler still has to write: power may go between any two. `pending` and
`shown` are the document the display task has to parse and the one it draws. `finger`, `task`, `mask`,
`hid` are the touch controllers, the locals of `display_task`, the buttons and
what the host was told; a step of the panel is one iteration (`Frame` awake,
`Doze` asleep). The 8 s of the configuration screen, the sleep timeout and the 400 ms cool-down
are kept as what has passed. `lay`, `view`, `presets`, `active` are the editor's state, `file` and
`pfile` its two files. `loop`, `line`, `tasks` and `ui` are the device thread, the
line the device handles, the reads under way and a callback that talks to the device.

One axis stands for x and y; labels are plain, contain a `$`, or are too long for
a line; a read of the device is one step; the user gives buttons numbers that are
free. When a layout of the device is taken over, the boxes of the widgets are made
anew, which ends a drag. Zones cannot be edited in this version of the dashboard
and are one widget. The device starts with layouts this editor has made or with
none (`FlashAssumption`), and the settings that are cells of their own are none of
the documents that have a partition (`SettingsAssumption`).
Drawing, the strip's colours and brightness are left out.

### Telemetry

`srcs` are the frames by source, `quiet` the sources that have been silent, `derived`
the state of `derive.rs`, `line` the merged frame, `out` and `writer` the outbox and
the thread that writes it; `telem` is what the DDU shows. `key`, `tasks`, `profile`
belong to the car's lights; `con`, `peer`, `wire` to a game that is asked. A thread
that pushes holds the lock while it merges and queues the frame afterwards, so two
threads may queue in the other order (`pend`). A datagram is received when it is
sent; the thresholds of 1.5, 2 and 3 s of silence are one; a source falls quiet only
when nobody feeds it, and a label that its sender has left before the one it has now. `sent`, `origin`, `laps`, `seen` are history; `astray` marks a
push that went wrong for good (finding 21). The preview's drawing, text fields and
units are left out.

## Runs

| run | question | bounds | result |
|---|---|---|---|
| `ota_usb` | does the device survive, and does neither side hang, with USB uploads, flash errors, a power cut and stalls at any point? | images of 1, 3 and 4 cells (below a chunk, between, a whole number of chunks), 2 uploads, 1 other command, 1 cut | holds, 70 thousand states |
| `ota_nominal` | without faults, does every upload install? | images of 1 to 6 cells: every position relative to a chunk up to three chunks, 2 uploads in a row | holds |
| `ota_wifi` | does the slot that runs survive USB and WiFi updating at once? | images of 1 and 3 cells, 1 upload, 1 pull, 1 cut | holds, 297 thousand states |
| `ota_ok` | is an upload that is reported as done installed? | stalls only | violated: finding 1 |
| `ddu_boot` | does recovery always find a complete image, is the image that runs ever erased, is an acknowledged update never lost, are failed starts counted? | one transport: 2 updates, 4 crashes (a u8 that saturates at 3 is overrun), a visit to the menu, a pin change; two transports: 3 updates, 2 crashes, failing flash and NVS | holds, 189 thousand states |
| `handbrake` | does the page show what is in effect, and does "saved" mean stored? | 3 user actions, 1 update, 1 unplugging, 1 late reply; lever ends 48 apart, a resting point 4 off | holds, 1.3 million states |
| `wifi` | is a crashing radio switched off and nobody else locked out, does a reply answer its command, does a button stay pressed? | 11 scenarios of 1 or 2 devices; limit 3, 5 crashes, 2 credentials, 2 outages, 3 button changes, 3 presses of the user | holds, 71 thousand states |
| `pedals` | are moves started only towards whole targets inside the travel and while allowed, also when an update begins in between; do effects end; is `@DISARM` heard? | 8 scenarios; travel of 4 steps and 2 to the hard stops, one below zero; 2 lost or late frames, 2 homings, 2 configurations, 1 update over USB and 1 over WiFi | holds, 171 thousand states |
| `pedals_host` | does a configuration stay one role's, the curve ordered, do marks and automatic profile follow? | 15 scenarios; 2 roles, 2 profiles, 2 games, curve of up to 5 points on a grid of 8, 2 unpluggings | holds, 106 thousand states |
| `ddu_link` | does the layout stay drawable, its buttons distinct and its tabs together, does a stored document survive, do the panels draw it, are buttons pressed or held by themselves? | 23 scenarios; canvas of 12, 3 joystick numbers, 3 tabs, up to 4 edits, 3 starts, 1 power cut, 4 touches | holds, 205 thousand states |
| `telemetry` | is the frame the strongest source's, the best lap the session's, the player listed, and do frame and lights reach the device? | 24 scenarios of 1 or 2 of 9 senders; up to 5 points of a race, 2 sessions, 5 cars for 4 rows, 1 reconnection, 2 changes of car, game or page | holds, 106 thousand states |
| `editor_kept` | does a reconnection keep edits that are marked as unsaved? | the scenarios of `ddu_link` | violated: finding 6 |

Two uploads suffice for the interesting cases of a retry: only one earlier
upload can leave a session, bytes or replies behind, because a new session
replaces the old one. One power cut meets every state of the first upload and
is followed by a full second one. In `ddu_boot` two updates alternate the slots
once and return, so every image but the first is both target and survivor.
With two transports `MainSlotComplete` and `UpdateRuns` do not hold (finding 4),
so they are stated for the first setup.

Three user actions are one more than the longest race of one slot needs (one
command in progress, one in the slot, one that overwrites it); calibrating,
drift, retries of a window and reconnections take none. `ShowsInEffect` and
`DoneIsSaved` say "while no reply came late": after one, the thread takes each
reply for that of the next command until telemetry is read, and the two do not
hold. The late reply is in the run for what it does to the
bounds on the channel.

In `wifi`, five crashes are one more than a limit of three and one fresh start
need; two outages and two restarts let a connection be lost in and out of its stable
period. In `pedals`, `Rail` is 1, as no property of that run
is about where the drive is; four steps of travel are the least in which a 16-bit half of
a target (here `Word = 4`) wraps inside the travel, so that a torn target differs
from both whole ones. In `ddu_link`, three touches are the longest the sleep guard needs
(SLEEP NOW, its release, the tap that wakes), and one power cut meets each state
between two writes. In `telemetry`, two senders suffice, as priorities order sources
in pairs; three parts of a lap (`Buckets = 2`, from 0) are one before, at and after
a sample.

Conditions that a property carries are part of what it says, and each has a
reason in the code. Without them the code does not keep them; see the findings.

- `ReplyIsOwn` excepts answers that come after their caller gave up and reports of an
  update; `HidsDistinct` changes of a button's kind.
- `PagesExist` and `TabsStayWhole` except layouts of presets and of the device and two
  widgets that share an id (finding 16); `TabsStayWhole` also the widget the user sends
  to another tab. The removal of a tab keeps the edited page's number in range, not the
  tab it names: remove the tab before it and the next one is edited.
- `WithinEnvelope` is about the target that is sent; where the drive gets to is finding 11.
- `EffectsEnd` is about ABS and wheel slip. The others do not end when the host falls
  silent: the last offset of RPM is held, and the last action's g force and road impact
  go on acting.
- `MarksFollow` is about the cable: no configuration is asked for over WiFi (finding 22).
- `AutoFollows` excepts a push by the user, an edit of profiles or bindings, a pedal that
  forgets its configuration in a restart, and a profile that was sent into a cable that
  had been pulled (finding 23). Deleting profiles under it is therefore not covered.
- `Authoritative` excepts labels shared by two senders; `BestOfSession` has one sender
  that counts laps; `ProfileLands` has one sender that repeats the car's name, and
  excepts what `astray` marks: tasks that overtake one another, refused or unreadable
  profiles, and a choice of the user's (finding 21).

`CHECK_DEADLOCK FALSE` is set where the system may rest or stop: when the budget of
the environment is used up a device or a page that waits for the user is idle, and
the pedals' editor may end.

### Fairness

`OtaUpload`: weak fairness of the device's loop, its restart, the WiFi thread,
the host's write and read and the two deadlines (threads and clocks run); strong
fairness of a poll that takes everything, since bytes that were written arrive,
although the loop often polls before they do. The user, other commands, power
cuts and pulls are not fair. `DduBoot`: weak fairness of recovery, of the start
of the main firmware, of a `begin` and a `feed` under way and of the restart.
The finger in the menu is not fair, so `UpdateRuns` allows for it. Crashes are
bounded: a device that crashes forever runs nothing.

`WifiSession`: weak fairness of each device's thread, its stream and its relay of
commands, of the network (a datagram arrives or is lost), of the router and
the page's thread. `PedalMotion`: the loop runs, and it looks infinitely often for the
end of an update. `PedalHost`: weak fairness of the UI thread, download, device
thread and pedal; strong fairness of a scan that opens the pedal, and of an action and
a status question that succeed, as the thread repeats them and the cable fails only
finitely often. `DduLink`: the device writes, answers, draws and polls, each
host thread's step is eventually taken. `TelemetryFeed`: the loops run, and a sender
that repeats the car's name does so. Where a step disables itself, fairness is
written as `[]<>~Ready`, which says the same as `WF` and is cheaper to check.
No fairness is assumed of users, power, cables or games.

## Proofs

33 theorems in eight modules, of every value of the constants that the named
`ASSUME`s admit, so of any number of devices, images, widgets, senders, starts and
faults where TLC has a few. Every invariant of a passing run, and every
action property but `TabsStayWhole`, is the conclusion of one. Except for types and `RunsComplete` no property is inductive
as it stands; what makes it so is the argument below. Where a property is a
refinement or an action property, the theorem says of each step what it may do,
from the same invariant.

| module | theorem | property | inductive invariant |
|---|---|---|---|
| `OtaUpload_proofs` | `TypeCorrect`, `Bootable` | `TypeOK`, `AlwaysBootable` | `IInv` |
| | `BootSlotAlwaysComplete` | `BootSlotComplete`, with `MaxPulls = 0` | `UsbInv` |
| | `Acknowledged`, `SuccessIsOurs` | `FlowControl`, `DoneIsAboutThisImage`, with `MaxPulls = 0` | `FlowInv` |
| | `Refinement` | `TrialBootSpec` | `IInv`, one step per action |
| `DduBoot_proofs` | `TypeCorrect`, `RunningSlotComplete` | `TypeOK`, `RunsComplete` | themselves |
| | `FailedStartsShow` | `FailuresShow` | `CountInv` |
| | `RecoveryHasImage` | `MainSlotComplete` | `MainInv`, `IdleEarly` |
| `WifiSession_proofs` | `LinkTyped`, `RouterTyped`, `TypeCorrect` | the type invariants | `LinesOK`, `PageOK` |
| | `GuardTrips` | `GuardHolds` | `GuardOf`, of each device |
| | `ButtonsHaveOwners` | `NoGhostButton` | `Sound`, of the host |
| | `RepliesMatch` | `ReplyIsOwn` | `OneQuestion` |
| `HandbrakeHost_proofs` | `TrackingKeepsRange` | one step of the idle tracking | - |
| | `TypeCorrect`, `PageShowsEffect`, `SavedIsStored` | `TypeOK`, `ShowsInEffect`, `DoneIsSaved` | `IInv` with `InStep` |
| `PedalHost_proofs` | `PedalsWhole`, `CurveKept` | `WholeConfigs`, `CurveOrdered` | `IInv` over `Whole`, `Curves` |
| `PedalMotion_proofs` | `TargetsWhole`, `MovesAllowed` | `MovesWhole`, `WithinEnvelope` | `RegistersInv`, `StaleInv`, `TargetInv` |
| | `NumbersInRange` | `TypeOK`, a part of `WithinEnvelope` | `NumbersInv` |
| `DduLink_proofs` | `DocumentsSurvive` | `StoredSurvives` | `WorkInv`, `KeptInv` |
| | `WakesInSilence` | `WakeTapSilent` | `TaskInv` |
| | `WidgetsOnCanvas`, `ButtonsDistinct`, `NoWidgetLost` | `OnCanvas`, `HidsDistinct`, `PagesExist` | `EditorInv`, `DocInv` |
| `TelemetryFeed_proofs` | `PlayerMarked` | `PlayerShown` | `ListInv` |
| | `FrameOfSenders` | `Authoritative` | `FeedInv` |
| | `BestIsSessions` | `BestOfSession` | `BestInv`, over `FeedInv` |

The assumptions on the constants are about what the code is configured with:
sizes are positive, bounds are natural numbers, sets of devices are finite, and the
files, presets and pedals a scenario starts with are ones this program has made.
Two theorems about all behaviours have a hypothesis of their own, named below;
`TrackingKeepsRange` is about one step and assumes that step.

*Updates.* Nothing in `AlwaysBootable` says that a session, or an erase under way,
is aimed at the slot that does not run, nor that the slot selected for the next start
is complete when it differs from the running one while an image is on trial. `IInv`
adds that: every session writes to `Target`; the start of the loop (`boot`) is the
only place where an image is on trial, and then nothing erases or writes; and the
boot loader's choice follows from it. `BootSlotAlwaysComplete` is about USB alone
(`MaxPulls = 0`): a pull over WiFi beside it may erase the selected slot, from
which the boot loader then falls back. It needs that between the selection and the
restart no line is dispatched (`Selected`).

What the host may make of a reply (`FlowControl`, `DoneIsAboutThisImage`) is hard
because a retry meets what an upload that was given up has left: lines not yet
dispatched, replies not yet read, a session still open. `FlowInv` accounts for all of
it. Before the retry, what is left amounts to at most one OTAREADY (`OneOut`:
either the line is on the way or its reply is). While the host waits, its own line is
the last on the way, or it has been answered (`Waiting`). While it sends, one of five
things holds: its line is still undispatched and the cells are queued behind it
(`Early`), the session was opened with cells still in the dispatched batch (`Missed`),
every cell lands where it should (`InOrder`, with the pace that the acknowledgements
set), the image is spoiled for good (`Ruined`), or there is no session (`Over`); an
OTADONE can be there to read only in the last, and then the image is in a slot. The
device's actions enter this argument only as seven moves (`DevMove`: what leaves
the way, what is replied, what the session gets). The attempt showed that `FlowControl`
needs its third condition: command lines count as image in the session of an upload
that was given up, so a chunk of them earns a "K" that the retry takes for its own.

The refinement takes one step per action
that changes the boot record or the image in a slot; the others stutter.

*DDU start.* An erase hits the slot that does not run, which is enough for
`RunsComplete`. That recovery never finds its slot erased needs more: what runs was
started because NVS named it, and only an update moves NVS on (`StartedFromMain`); the
one transport erases, then has a session, then a record, and the host sends no
second image before the restart (`OneUpdate`); nothing of an update outlives a reset
(`IdleEarly`); and the OTA data names the main firmware only until its first line
has run (`BootPath`). `CountInv` follows the counter until it saturates, and says of
every state what recovery made of it, from which the exact number shown follows.

*WiFi.* `GuardHolds` says how many starts in a row may fail, and says nothing about
the next: `GuardOf` relates that number to the counter in NVS, to the copy the thread
has read, and to its place. `Sound` says that a pressed button of the virtual
joystick is held by a device in the table, after each half of a turn of the loop. For
`ReplyIsOwn`, `OneQuestion` says that while no report or reply has strayed, the
question the page's thread waits for, or its answer, is in exactly one of five
places: outbox, device, on its way back, in the air, or taken.

*Handbrake.* `InStep` relates thread and device: the line that is out is the one the
place of the thread and its command make due (`Dialogue`), what is shown lags
behind the device at most where the thread is about to ask (`ShownInv`), between the
answer to SAVE and the end of the refresh flash and memory agree (`SavedInv`), and
a connected handbrake has left the Connect page (`PageInv`). It holds while no reply
came late; type correctness and the bound on the channel hold always. `PageShowsEffect`
and `SavedIsStored` follow. `TrackingKeepsRange`: for every calibration and every
reading, one nudge keeps the orientation of the range and at least 47/48 of it, so
the idle tracking never empties a range; only `@SETIDLE` does (finding 5).

*Pedals.* `Whole` is the set of configurations whose role and hidden part belong
together; slots, profiles, closures, requests, lines and answers carry nothing else.
The lemmas about the curve say that dragging, adding and removing keep the
points ordered from end to end, and that rounding for the device and back does not
swap them. In the motor's loop, the halves in the drive's registers are
those of the target the loop asked for, according to its place (`RegistersInv`), also
when a late answer acknowledges an earlier write (`StaleInv`: it acknowledges what the
register still holds). Between the tick and the last write nothing takes back what
allowed the move, and the target lies within the limits (`TargetInv`); as the limits are
32-bit numbers, the registers then hold the target itself. An update that the WiFi
thread begins there changes none of it, so the pass ends with a target that was allowed. `NumbersInv` keeps the numbers of the control step in their
ranges for every curve, amplitude and re-homing the host may send: no division is by
zero (the mass is positive, a travel is not negative, braking has a speed), the curve
is read within its table, and speed, added mass and axis end within their limits. The
sum of a filter's samples, a recursive function, is a number by the smallest
counterexample (`SumsExist`, `MeanInt`).

*DDU store.* `WorkInv` says what a handler has still to write: the new copy before the
removal of the old one, of documents the memory already has, and more than one
document only in the default partition, where a failing write does not end the handler.
`KeptInv` says what the flash has meanwhile: a document still to be written has
its old copy, one that is only to be removed has its new one. `DocumentsSurvive` has
the hypothesis `NilIsNoRecord`, that the value for "nothing stored" is no document: a
model value cannot be asked for that by TLC. `WakesInSilence`: as long as a finger
that touched a dark panel is on the glass, the task remembers it or sleeps.

*Layout editor.* Any layout may come back: from a preset, from a file, from the device.
So the three properties are kept only if they hold of every layout the system has.
`EditorInv` says so of the layout, the presets and the file; `DocInv` of the
documents in both partitions, in memory, among entries still to be written, lines
still to be sent, reads under way and closures queued. A drag keeps the
geometry it started with, which must be that of the widget (`GestureInv`), and a
change of pages the selection, which must be on the display whose pages are counted
(`ViewInv`). Lemmas about free numbers, about sequences with an element replaced,
removed or added, and about the grid and snapping carry the arithmetic.

*Telemetry.* The list the DDU shows may be an old one, so `ListInv` says of the outbox,
of what the writer took and of the DDU that they hold what was selected from some
grid; the rest is arithmetic on selection. The player is among the leaders or, with
a gap of 0, among the nearest, and the number on the line is his row's after the
sort. That a sort by key has exactly one element with n - 1 before it (`RankedSorts`)
is a smallest-counterexample argument, as induction is out of reach.

A frame is right because of what the cache holds. `FeedInv`: one entry by label; where
a label is one sender's, the entry has what that sender said last and at least the
computed fields it ever gave; a label is silent just when nobody was heard under it.
A sender that changes its label leaves an entry behind, and `Left` (it falls silent
first, since it is older) is what keeps the new entry in the cache while the sender
streams. `MergedFills` says what the chain of overlays leaves of each field: the value
of an entry that fills it, such that none of a higher priority does. `UpdateFields` says
what the trackers keep and fill in. That a frame is built when it is handed on, of
entries none of which is silent (`HandedOver`), joins the two.

For the best lap, `BestInv` relates the tracker to the race: if the tracker's lap count
is above the race's its best no longer counts, if not, it is the fastest of the
session. A session starts with fewer laps, or before one of the last was timed
(`RaceAssumption`): it is by this that `derive.rs` notices one, and a session that starts
with as many laps as the last one had would inherit its best lap.
The lines of the list read (`Cars`: names are cleaned by `set_name`), the player's gap
is 0 (`GridsAssumption`), and a sender's line reaches the fields it is said to
fill (`SendersAssumption`).

Only model-checked: the liveness properties, since fairness and `ENABLED` are out of
the prover's reach, and so far `TabsStayWhole`.

## Findings

Runs show 1 and 6; the others were met while modelling, the model contains them,
and the properties are stated so that they hold beside them.

1. `ota_upload` reports success when `OTADONE` does not come, for the comment says
   the device is already rebooting; a host that stalls for 4 s before the last
   chunk meets a device that has dropped the session (`ota_ok`).
2. One failed start of the DDU is not shown, and N are shown as N-1: recovery
   still subtracts the start that the main firmware no longer shows
   (`FailuresShow` states what holds).
3. A crash of the main firmware before it selects recovery starts the same
   firmware again; the comments say that recovery comes first on every reset.
4. A `begin` over a second transport between `OTADONE` and the restart erases the
   slot recovery will start, and recovery has no way to start the other one.
5. A learn window that is queued while another one finishes runs under the
   deadzone page. The device takes its `@SETIDLE` without looking at the span,
   refuses its `@SETMAX`, and SAVE stores a calibration with an empty range that
   is marked as calibrated.
6. A reconnection reads the DDU's layout over unsaved edits: the guard's flag is
   never set (`editor_kept`).
7. Two wireless devices get one axis of the virtual joystick after one of them
   expired; a lost device's axis keeps its last value.
8. Over WiFi an update is reported as installed when it has been handed over.
9. One lost status reply at the start of a WiFi session leaves a connected
   handbrake on the Connect page.
10. `@DISARM` over USB is swallowed during an update, although it "always works".
11. The drive's register that selects absolute moves is never written: moves documented as
    absolute are relative, and add up. `PedalMotion` has them relative (`Executed`).
12. A G byte of 0, documented as hard braking, is taken for "no data".
13. Loading a pedal profile does not push it, although a comment says so.
14. Dragging a curve point between neighbours closer than 0.02 ends the dashboard.
15. `BLOB_KEYS` lists a key for the buttons that nobody writes.
16. Widgets added after two restarts may share an id, edits reach both, and a move of
    pages may leave one on a page that is gone.
17. A button held when SLEEP NOW is tapped, or an update starts, stays pressed at the
    host meanwhile.
18. A button that was customised in the editor never presses.
19. `ve_per_lap` of a source that provides it is overwritten.
20. A game that ends within 3 s of its last frame is never noticed.
21. The key that stands for "what is on the device" is set before the profile is
    pushed; tasks overtake each other and failures leave it set.
22. A role marked as live by an answer over WiFi stays marked when its pedal has left the
    network. Modelled in `PedalHost`
    (`Requested`); `MarksFollow` is stated for the cable.
23. An automatic profile counts as handled before it is pushed; one that is lost with the
    cable is not pushed again. Modelled in `PedalHost` (`AutoSwitch`, `touched`).

Also seen, without an entry of their own: an `OtaFile` overwritten in the slot leaves
`flashing` set for good (handbrake and pedals); CANCEL followed at once by SAVE shows
"Calibration saved" for a device that is not calibrated; adopting a pedal's
configuration posts two closures, and the outgoing role's edits are lost; two
curve points of one travel fall back to a linear curve; a preset selected
on a display without its page leaves widgets on no page, and a restart forgets
the freeform widgets of presets; a `$` in a label tears the line and is still
answered with OK; "Saved to device" is shown when one of two documents arrived;
one release of a button drawn on both panels frees both; a delta reference
outlives session and track; lines that come over USB while an update arrives over WiFi are
fed into its image; an update begun over WiFi lets the pass under way send its target; a
push of another role's configuration changes the pedal's role while the mark stays where
it was; `adopt_device_config` is documented to serve the automatic switch, which does not
call it; `parse_line` is documented to refuse a line for its first four fields only and
refuses it for any token that is no number; removing a tab before the edited one moves
the editor to the next tab.

## Plan

Done: 1. updates of handbrake and pedals, refinement, proofs; 2. DDU start and
update; 3. handbrake over USB and WiFi; 4. WiFi link and router; 5. pedals, firmware and
dashboard; 6. DDU store, link, panels and layout editor; 7. telemetry, cars,
connectors.

8. proofs of the safety properties the runs check.

Next: a proof of `TabsStayWhole`; pin map and brightness settings of the DDU; zones; the flashing of an empty board;
a property for learn windows that start or end after their page was left.

## Not modelled

Packet decoders (fixed offsets, no state), drawing and colours, real-valued signal
processing below the clamps, kinematics and load cell, downloads, builds and
flashing (linear sequences of other programs), recovery's USB drive, the
shared-memory bridge. Reasons by component are in `PROJECT.json`.
