------------------------------ MODULE DduStore ------------------------------
(***************************************************************************)
(* The configuration of the DDU (firmware/ddu/src/state.rs, the commands   *)
(* of usb.rs, the restart of main.rs): what a command does to the memory   *)
(* and to the flash, and what a start finds.                               *)
(*                                                                         *)
(* A document is a record with a field `text`: "plain", or "torn" when a   *)
(* '$' inside it ended the line early.  A handler changes the memory at    *)
(* once and then writes the flash entry by entry (`work`); the power can   *)
(* go between two entries.                                                 *)
(***************************************************************************)
EXTENDS Naturals, Sequences

CONSTANTS
  Nil,          \* nothing stored
  Settings      \* the settings of a device that stored none, by key

BlobKeys == {"race", "ui", "ed", "car"}
Pages    == "pages"
Panel    == {"orient", "flip", "colour"}
Keys     == BlobKeys \cup {"btn", Pages, "pins"} \cup Panel

\* There is no document before one was stored.
ASSUME SettingsAssumption == DOMAIN Settings \cap BlobKeys = {}

VARIABLES
  table,        \* partition table: "new" has the partition for large documents
  blob, nvs,    \* that partition, the default one
  ram,          \* AppState
  strip,        \* the car profile of the LED task
  pending,      \* a UiDoc for the display task to parse
  shown,        \* the UiDoc it draws
  work,         \* the command being handled: [todo, answer, restart]
  reboot,       \* cfg_reboot
  on,
  kept,         \* history: what the flash holds of each key, before `work`
  failed        \* history: the keys of which a write failed

flash  == <<table, blob, nvs>>
memory == <<ram, strip, pending, shown>>
store  == <<flash, memory, work, reboot, on, kept, failed>>

NoWork == [todo |-> <<>>, answer |-> "none", restart |-> FALSE]

-----------------------------------------------------------------------------
(* The two partitions                                                      *)

InBlob(k) == table = "new" /\ k \in BlobKeys

Stored(k) == IF InBlob(k) /\ blob[k] # Nil THEN blob[k] ELSE nvs[k]

Put(k, v) == [op |-> "put", key |-> k, val |-> v]
Retire(k) == [op |-> "retire", key |-> k, val |-> Nil]

\* set_str with the old copy removed first.
RetireFirst(k, v) == IF InBlob(k) THEN <<Retire(k), Put(k, v)>> ELSE <<Put(k, v)>>

SetStr(k, v) == IF InBlob(k) THEN <<Put(k, v), Retire(k)>> ELSE <<Put(k, v)>>

-----------------------------------------------------------------------------
(* The commands                                                            *)

Key(cmd) == CASE cmd = "RS" -> "race" [] cmd = "EL" -> "ed" [] cmd = "UI" -> "ui"
              [] cmd = "C" -> "car" [] cmd = "BS" -> "btn" [] cmd = "PINS" -> "pins"

Validated == {"RS", "C", "BS", "PINS", "DO"}

Refuse ==
  /\ work' = [NoWork EXCEPT !.answer = "ERR"]
  /\ UNCHANGED <<flash, memory, reboot, on, kept, failed>>

Accept(values, writes, restart) ==
  /\ ram' = [k \in Keys |-> IF k \in DOMAIN values THEN values[k] ELSE ram[k]]
  /\ work' = [todo |-> writes, answer |-> "OK", restart |-> restart]
  /\ UNCHANGED <<flash, shown, reboot, on, kept, failed>>

One(k, v) == [x \in {k} |-> v]

HandleUi(v) == Accept(One("ui", v), SetStr("ui", v), FALSE) /\ pending' = v /\ UNCHANGED strip

HandleCar(v) ==
  /\ strip' = v /\ UNCHANGED pending
  /\ IF ram["car"] = v THEN Accept(<<>>, <<>>, FALSE)
     ELSE Accept(One("car", v), SetStr("car", v), FALSE)

HandleButtons(v) ==
  /\ Accept([k \in {"btn", Pages} |-> IF k = "btn" THEN v ELSE v.n], Append(SetStr("btn", v), Put(Pages, v.n)), FALSE)
  /\ UNCHANGED <<strip, pending>>

HandlePanel(v) ==
  /\ Accept([k \in Panel |-> v[k]], <<Put("orient", v.orient), Put("flip", v.flip), Put("colour", v.colour)>>,
            v.colour # ram["colour"])
  /\ UNCHANGED <<strip, pending>>

\* dispatch, for the commands that change something.
Handle(cmd, v) ==
  IF v.text = "torn" /\ cmd \in Validated THEN Refuse
  ELSE CASE cmd = "UI" -> HandleUi(v)
         [] cmd = "C"  -> HandleCar(v)
         [] cmd = "BS" -> HandleButtons(v)
         [] cmd = "DO" -> HandlePanel(v)
         [] OTHER      -> /\ Accept(One(Key(cmd), v), SetStr(Key(cmd), v), cmd = "PINS")
                          /\ UNCHANGED <<strip, pending>>

\* The main task reads lines between two of them, and not while it waits to
\* restart.
Listening == on /\ work = NoWork /\ ~reboot

-----------------------------------------------------------------------------
(* The flash, entry by entry                                               *)

FlashOp == Head(work.todo)

WriteDone ==
  /\ work.todo # <<>>
  /\ blob' = IF FlashOp.op = "put" /\ InBlob(FlashOp.key) THEN [blob EXCEPT ![FlashOp.key] = FlashOp.val] ELSE blob
  /\ nvs' = IF FlashOp.op = "put" /\ InBlob(FlashOp.key) THEN nvs ELSE [nvs EXCEPT ![FlashOp.key] = FlashOp.val]
  /\ work' = [work EXCEPT !.todo = Tail(@)]
  /\ UNCHANGED <<table, memory, reboot, on, kept, failed>>

\* The partition is full: the handler goes on, and keeps the old copy.
WriteFails ==
  /\ work.todo # <<>> /\ FlashOp.op = "put"
  /\ failed' = failed \cup {FlashOp.key}
  /\ work' = [work EXCEPT !.todo = IF InBlob(FlashOp.key) THEN <<>> ELSE Tail(@)]
  /\ UNCHANGED <<flash, memory, reboot, on, kept>>

\* The handler returns; the answer goes to the host.
Return ==
  /\ work # NoWork /\ work.todo = <<>>
  /\ work' = NoWork /\ reboot' = (reboot \/ work.restart)
  /\ kept' = [k \in Keys |-> Stored(k)]
  /\ UNCHANGED <<flash, memory, on, failed>>

-----------------------------------------------------------------------------
(* Starts and stops                                                        *)

Fresh(k)  == IF k \in DOMAIN Settings THEN Settings[k] ELSE Nil
Found(k)  == IF Stored(k) # Nil THEN Stored(k) ELSE Fresh(k)
Loaded    == [k \in Keys |-> Found(k)]

\* load that leaves the UiDoc to the next push.
LoadQuiet == ram' = Loaded /\ pending' = Nil

Load == ram' = Loaded /\ pending' = Stored("ui")

Boot ==
  /\ ~on /\ on' = TRUE
  /\ Load
  /\ strip' = IF Stored("car") # Nil /\ Stored("car").text = "plain" THEN Stored("car") ELSE Nil
  /\ shown' = Nil /\ reboot' = FALSE
  /\ UNCHANGED <<flash, work, kept, failed>>

Stop ==
  /\ on' = FALSE /\ work' = NoWork
  /\ kept' = [k \in Keys |-> Stored(k)]
  /\ UNCHANGED <<flash, memory, reboot, failed>>

PowerLoss == on /\ Stop
Restart   == on /\ reboot /\ work = NoWork /\ Stop

-----------------------------------------------------------------------------
\* A start at any moment finds, of every document, what the last command left
\* or what the one being handled brings, and a command that has been answered
\* has been stored: writing the new copy in one partition and removing the old
\* one from the other never leaves neither or an older one (set_str,
\* get_str_owned).  Not of an entry whose write failed, which is answered "OK"
\* all the same.
StoredSurvives ==
  \A k \in Keys \ failed :
    /\ Stored(k) = kept[k] \/ (on /\ work # NoWork /\ Stored(k) = ram[k])
    /\ on /\ work = NoWork => ram[k] = Found(k)
=============================================================================
