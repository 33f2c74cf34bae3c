--------------------------- MODULE OtaUpload_proofs ---------------------------
(***************************************************************************)
(* Proofs about OtaUpload, for every set of images, chunk size, set of     *)
(* faults and bound: type correctness, that the device always has an image *)
(* to start (with USB alone, in the very slot it selected), and that       *)
(* device and host together implement TrialBoot.                           *)
(*                                                                         *)
(* AlwaysBootable is not inductive: that feed leaves the running slot      *)
(* alone follows from where the session's slot came from, and that begin   *)
(* leaves the fallback slot alone while an image is on trial follows from  *)
(* the order of mark_valid and the first poll.  DevInv adds both.          *)
(*                                                                         *)
(* What the host may believe of its replies (FlowControl,                  *)
(* DoneIsAboutThisImage) rests on FlowInv: for every stage of an upload,   *)
(* which lines and cells are still on their way, which replies, and what   *)
(* the session has made of the bytes that left.                            *)
(***************************************************************************)
EXTENDS OtaUpload, SequenceTheorems, TLAPS

\* A batch is being dispatched, and `erase` is about its first line.
LoopOK ==
  /\ pc \in {"text", "erase"} => batch # <<>>
  /\ pc = "erase" => Head(batch).t = "ota"

\* The session writes to the slot that does not run.
SlotOK == ota # NoOta => ota.slot = Target

\* Nobody can begin before mark_valid, so while an image is on trial.
TrialOK == verify => pc = "boot" /\ boot = running
BootOK == pc = "boot" => ota = NoOta /\ wifi = "idle"

WifiOK == wifi # "idle" => wsize \in Images

DevInv ==
  /\ DevTypeOK
  /\ LoopOK /\ SlotOK /\ TrialOK /\ BootOK /\ WifiOK
  /\ AlwaysBootable

HostTypeOK ==
  /\ host \in HostPc /\ size \in Images \cup {0} /\ sent \in Nat
  /\ outcome \in Outcomes /\ link \in BOOLEAN
  /\ uploads \in 0..MaxUploads /\ commands \in 0..MaxCommands
  /\ pulls \in 0..MaxPulls /\ cuts \in 0..MaxCuts

HostInv == HostTypeOK /\ (host # "idle" => size \in Images)

IInv == DevInv /\ HostInv

-----------------------------------------------------------------------------
(* Lemmas about the operators                                               *)

LEMMA FunctionIsSeq ==
  ASSUME NEW S, NEW n \in Nat, NEW f \in [1..n -> S]
  PROVE  f \in Seq(S)
<1>1. [1..n -> S] \in {[1..m -> S] : m \in Nat}
  OBVIOUS
<1>2. f \in UNION {[1..m -> S] : m \in Nat}
  BY <1>1
<1> QED
  BY <1>2, SeqDef, Zenon

\* Images are sequences of items, and each of their cells is one.
LEMMA CellsAreItems ==
  ASSUME NEW n \in Images, NEW k \in Nat
  PROVE  CellOf(n, k) \in Item /\ OtaLine(n) \in Item /\ CmdLine \in Item
BY DEF CellOf, OtaLine, CmdLine, Item

LEMMA ImagesAreSeqs ==
  ASSUME NEW n \in Images, NEW from \in Nat, NEW m \in Nat
  PROVE  /\ [i \in 1..m |-> CellOf(n, from + i)] \in Seq(Item)
         /\ Image(n) \in Seq(Item)
<1>1. \A k \in Nat : CellOf(n, k) \in Item
  BY CellsAreItems
<1>2. [i \in 1..m |-> CellOf(n, from + i)] \in [1..m -> Item]
  BY <1>1
<1>3. n \in Nat
  BY ImagesAssumption
<1>4. Image(n) \in [1..n -> Item]
  BY <1>1, <1>3 DEF Image
<1>5. [i \in 1..m |-> CellOf(n, from + i)] \in Seq(Item)
  BY <1>2, FunctionIsSeq
<1>6. Image(n) \in Seq(Item)
  BY <1>3, <1>4, FunctionIsSeq
<1> QED
  BY <1>5, <1>6

\* The two slots are each other's other.
LEMMA OtherSlot ==
  ASSUME NEW s \in Slots
  PROVE  Other(s) \in Slots /\ Other(s) # s /\ Other(Other(s)) = s
BY DEF Slots, Other

\* What lands in the flash is a sequence of items.
LEMMA LostItems ==
  ASSUME NEW items \in Seq(Item)
  PROVE  Lost(items) \in Seq(Item)
<1>1. DOMAIN items = 1..Len(items) /\ Len(items) \in Nat
  BY LenProperties
<1>2. Lost(items) \in [1..Len(items) -> Item]
  BY <1>1 DEF Lost, Item
<1> QED
  BY <1>1, <1>2, FunctionIsSeq

LEMMA LandedItems ==
  ASSUME NEW items \in Seq(Item), NEW got \in Landed(items)
  PROVE  got \in Seq(Item)
BY LostItems DEF Landed

\* Taking a prefix, or dropping one, of a sequence of items.
LEMMA Prefixes ==
  ASSUME NEW S, NEW s \in Seq(S), NEW n \in 0..Len(s)
  PROVE  SubSeq(s, 1, n) \in Seq(S) /\ SubSeq(s, n + 1, Len(s)) \in Seq(S)
<1>1. Len(s) \in Nat /\ \A i \in 1..Len(s) : s[i] \in S
  BY LenProperties, ElementOfSeq
<1>2. \A i \in 1..n : s[i] \in S
  BY <1>1
<1>3. \A i \in n + 1..Len(s) : s[i] \in S
  BY <1>1
<1>4. SubSeq(s, 1, n) \in Seq(S)
  BY <1>1, <1>2, SubSeqProperties
<1>5. SubSeq(s, n + 1, Len(s)) \in Seq(S)
  BY <1>1, <1>3, SubSeqProperties
<1> QED
  BY <1>4, <1>5

-----------------------------------------------------------------------------
(* What begin and feed do to the flash and to the session                   *)

\* begin's erase leaves the running slot as it is.
LEMMA EraseKeepsRunning ==
  ASSUME DevTypeOK, EraseTarget
  PROVE  /\ flash' \in [Slots -> Seq(Item)]
         /\ flash'[running] = flash[running]
<1>1. Target \in Slots /\ Target # running
  BY OtherSlot DEF Target, DevTypeOK
<1>2. <<>> \in Seq(Item)
  BY EmptySeq
<1> QED
  BY <1>1, <1>2 DEF EraseTarget, DevTypeOK

\* A session that is opened is on the slot that does not run.
LEMMA SessionOpened ==
  ASSUME DevTypeOK, NEW n \in Images, OpenSession(n)
  PROVE  /\ ota' \in Session /\ ota'.slot = Target
         /\ quiet' \in BOOLEAN /\ tx' \in Seq(Replies)
         /\ flash' \in [Slots -> Seq(Item)]
         /\ flash'[running] = flash[running]
<1>1. Target \in Slots /\ Target # running /\ n \in Nat \ {0}
  BY OtherSlot, ImagesAssumption DEF Target, DevTypeOK
<1>2. tx' \in Seq(Replies)
  BY AppendProperties DEF OpenSession, DevTypeOK, Replies
<1>3. ota' \in Session /\ ota'.slot = Target /\ quiet' \in BOOLEAN
  BY <1>1 DEF OpenSession, Session
<1>4. PICK rest \in {<<>>, Lost(flash[Target])} :
        flash' = [flash EXCEPT ![Target] = rest]
  BY DEF OpenSession
<1>5. rest \in Seq(Item)
  <2>1. flash[Target] \in Seq(Item)
    BY <1>1 DEF DevTypeOK
  <2> QED
    BY <2>1, LostItems, EmptySeq
<1>6. flash' \in [Slots -> Seq(Item)] /\ flash'[running] = flash[running]
  BY <1>1, <1>4, <1>5 DEF DevTypeOK
<1> QED
  BY <1>2, <1>3, <1>6

\* feed writes to the session's slot only, and moves the boot slot there only.
LEMMA FeedKeepsRunning ==
  ASSUME DevTypeOK, SlotOK, NEW data \in Seq(Item), data # <<>>, Feed(data)
  PROVE  /\ flash' \in [Slots -> Seq(Item)]
         /\ flash'[running] = flash[running]
         /\ ota' \in Session \cup {NoOta}
         /\ ota' # NoOta => ota'.slot = Target
         /\ boot' \in Slots /\ reboot' \in BOOLEAN /\ quiet' \in BOOLEAN
         /\ tx' \in Seq(Replies)
         /\ UNCHANGED <<running, verify>>
<1>1. ota \in Session /\ ota.slot = Target /\ Target \in Slots /\ Target # running
  BY OtherSlot DEF Feed, DevTypeOK, SlotOK, Target
<1>2. \A r \in Replies : Append(tx, r) \in Seq(Replies)
  BY AppendProperties DEF DevTypeOK
<1>3. CASE FeedFails
  BY <1>1, <1>2, <1>3 DEF FeedFails, Feed, DevTypeOK, Replies
<1>4. CASE FeedData(data)
  <2> DEFINE n == Lesser(Len(data), ota.left)
  <2>1. Len(data) \in Nat \ {0} /\ n \in 0..Len(data) /\ n \in 1..ota.left
    BY <1>1, EmptySeq DEF Lesser, Session
  <2>2. PICK items \in Landed(SubSeq(data, 1, n)) :
          LET content == flash[ota.slot] \o items IN
            /\ flash' = [flash EXCEPT ![ota.slot] = content]
            /\ IF n = ota.left THEN FeedLast(content) ELSE FeedMore(n)
    BY <1>4 DEF FeedData
  <2> DEFINE content == flash[ota.slot] \o items
  <2>3. items \in Seq(Item)
    BY <2>1, Prefixes, LandedItems
  <2>4. content \in Seq(Item)
    BY <1>1, <2>3, ConcatProperties DEF DevTypeOK
  <2>5. /\ flash' \in [Slots -> Seq(Item)]
        /\ flash'[running] = flash[running]
    BY <1>1, <2>2, <2>4 DEF DevTypeOK
  <2>6. CASE n = ota.left
    <3>1. FeedLast(content)
      BY <2>2, <2>6
    <3>2. PICK ok \in Verified(content) :
            /\ ota' = NoOta
            /\ boot' = IF ok THEN ota.slot ELSE boot
            /\ reboot' = (reboot \/ ok)
            /\ tx' = Append(tx, IF ok THEN "OTADONE" ELSE "OTAERR")
      BY <3>1 DEF FeedLast
    <3>3. tx' \in Seq(Replies)
      BY <1>2, <3>2 DEF Replies
    <3>4. boot' \in Slots
      BY <1>1, <3>2 DEF DevTypeOK
    <3> QED
      BY <2>5, <3>2, <3>3, <3>4 DEF Feed
  <2>7. CASE n # ota.left
    <3>1. FeedMore(n)
      BY <2>2, <2>7
    <3> DEFINE acc == ota.acc + n
    <3>2. /\ ota' = [slot |-> ota.slot, left |-> ota.left - n,
                     acc |-> IF acc >= Chunk THEN acc - Chunk ELSE acc]
          /\ tx' = IF acc >= Chunk THEN Append(tx, "K") ELSE tx
          /\ UNCHANGED <<boot, reboot>>
      BY <3>1 DEF FeedMore
    <3>3. ota' \in Session /\ ota'.slot = Target
      BY <1>1, <2>1, <2>7, <3>2, ChunkAssumption DEF Session
    <3>4. tx' \in Seq(Replies)
      BY <1>2, <3>2 DEF Replies, DevTypeOK
    <3> QED
      BY <2>5, <3>2, <3>3, <3>4 DEF Feed, DevTypeOK
  <2> QED
    BY <2>6, <2>7
<1> QED
  BY <1>3, <1>4 DEF Feed

-----------------------------------------------------------------------------
(* Each step of the device keeps DevInv                                     *)

\* What a batch is once its first line has been dispatched.
LEMMA NextItemTypes ==
  ASSUME DevTypeOK, LoopOK, pc \in {"text", "erase"}, NextItem
  PROVE  /\ batch' \in Seq(Item) /\ pc' \in {"text", "check"}
         /\ pc' = "text" => batch' # <<>>
BY HeadTailProperties DEF DevTypeOK, LoopOK, NextItem

\* The size in the `@OTA` line that is being erased for.
LEMMA LineSize ==
  ASSUME DevTypeOK, LoopOK, pc = "erase"
  PROVE  Head(batch).n \in Images
<1>1. Head(batch) \in Item /\ Head(batch).t = "ota"
  BY HeadTailProperties DEF DevTypeOK, LoopOK
<1> QED
  BY <1>1 DEF Item, CmdLine

LEMMA BootStep ==
  ASSUME DevInv, Boot
  PROVE  DevInv'
BY DEF DevInv, DevTypeOK, LoopOK, SlotOK, TrialOK, BootOK, WifiOK, AlwaysBootable,
       Boot, LoopPc, otaVars, wifiVars, Target, Other

LEMMA PollStep ==
  ASSUME DevInv, NEW n \in 0..Len(rx), PollHid(n)
  PROVE  DevInv'
<1> DEFINE data == SubSeq(rx, 1, n)
<1>1. /\ rx' \in Seq(Item) /\ data \in Seq(Item)
      /\ n > 0 => data # <<>>
  <2>1. rx \in Seq(Item) /\ rx' = SubSeq(rx, n + 1, Len(rx))
    BY DEF PollHid, DevInv, DevTypeOK
  <2>2. rx' \in Seq(Item) /\ data \in Seq(Item)
    BY <2>1, Prefixes
  <2>3. Len(rx) \in Nat /\ \A i \in 1..n : rx[i] \in Item
    BY <2>1, LenProperties, ElementOfSeq
  <2>4. n > 0 => Len(data) = n
    BY <2>1, <2>3, SubSeqProperties
  <2>5. n > 0 => data # <<>>
    BY <2>3, <2>4
  <2> QED
    BY <2>2, <2>5
<1>2. ~verify /\ pc = "poll" /\ UNCHANGED <<junk, wifi, wsize, wgot>>
  BY DEF DevInv, TrialOK, PollHid, wifiVars
<1>3. CASE PollNothing
  BY <1>1, <1>2, <1>3 DEF PollNothing, DevInv, DevTypeOK, LoopOK, SlotOK, TrialOK,
     BootOK, WifiOK, AlwaysBootable, LoopPc, otaVars, bootVars, Target
<1>4. CASE n > 0 /\ PollText(data)
  BY <1>1, <1>2, <1>4 DEF PollText, DevInv, DevTypeOK, LoopOK, SlotOK, TrialOK,
     BootOK, WifiOK, AlwaysBootable, LoopPc, otaVars, bootVars, Target
<1>5. CASE n > 0 /\ PollImage(data)
  <2>1. /\ flash' \in [Slots -> Seq(Item)]
        /\ flash'[running] = flash[running]
        /\ ota' \in Session \cup {NoOta}
        /\ ota' # NoOta => ota'.slot = Target
        /\ boot' \in Slots /\ reboot' \in BOOLEAN /\ quiet' \in BOOLEAN
        /\ tx' \in Seq(Replies)
        /\ UNCHANGED <<running, verify>>
    BY <1>1, <1>5, FeedKeepsRunning DEF PollImage, DevInv
  <2>2. pc' = "check" /\ UNCHANGED batch
    BY <1>5 DEF PollImage
  <2> QED
    BY <1>1, <1>2, <2>1, <2>2 DEF DevInv, DevTypeOK, LoopOK, SlotOK, TrialOK,
       BootOK, WifiOK, AlwaysBootable, LoopPc, Target
<1> QED
  BY <1>3, <1>4, <1>5 DEF PollHid

LEMMA TextStep ==
  ASSUME DevInv, TextBytes \/ TextLine
  PROVE  DevInv'
<1>1. /\ batch' \in Seq(Item) /\ pc' \in {"text", "check"}
      /\ pc' = "text" => batch' # <<>>
      /\ junk' \in BOOLEAN /\ ~verify
      /\ UNCHANGED <<running, boot, verify, flash, ota, quiet, reboot, rx, tx,
                     wifi, wsize, wgot>>
  BY NextItemTypes DEF TextBytes, TextLine, DevInv, TrialOK,
     bootVars, otaVars, wifiVars
<1> QED
  BY <1>1 DEF DevInv, DevTypeOK, LoopOK, SlotOK, TrialOK, BootOK, WifiOK,
     AlwaysBootable, LoopPc, Target

LEMMA BeginEraseStep ==
  ASSUME DevInv, BeginErase
  PROVE  DevInv'
<1>1. flash' \in [Slots -> Seq(Item)] /\ flash'[running] = flash[running]
  BY EraseKeepsRunning DEF DevInv, BeginErase
<1>2. ~verify
  BY DEF DevInv, TrialOK, BeginErase
<1> QED
  BY <1>1, <1>2 DEF DevInv, DevTypeOK, LoopOK, SlotOK, TrialOK, BootOK, WifiOK,
     AlwaysBootable, LoopPc, Target, BeginErase, bootVars, otaVars, wifiVars

LEMMA BeginOpensStep ==
  ASSUME DevInv, BeginOpens
  PROVE  DevInv'
<1>1. /\ batch' \in Seq(Item) /\ pc' \in {"text", "check"}
      /\ pc' = "text" => batch' # <<>>
  BY NextItemTypes DEF BeginOpens, DevInv
<1>2. Head(batch).n \in Images
  BY LineSize DEF BeginOpens, DevInv
<1>3. /\ ota' \in Session /\ ota'.slot = Target
      /\ quiet' \in BOOLEAN /\ tx' \in Seq(Replies)
      /\ flash' \in [Slots -> Seq(Item)] /\ flash'[running] = flash[running]
  BY <1>2, SessionOpened DEF BeginOpens, DevInv
<1>4. ~verify
  BY DEF DevInv, TrialOK, BeginOpens
<1> QED
  BY <1>1, <1>3, <1>4 DEF DevInv, DevTypeOK, LoopOK, SlotOK, TrialOK, BootOK,
     WifiOK, AlwaysBootable, LoopPc, Target, BeginOpens, bootVars, wifiVars

LEMMA BeginFailsStep ==
  ASSUME DevInv, BeginFails
  PROVE  DevInv'
<1>1. /\ batch' \in Seq(Item) /\ pc' \in {"text", "check"}
      /\ pc' = "text" => batch' # <<>>
  BY NextItemTypes DEF BeginFails, DevInv
<1>2. tx' \in Seq(Replies)
  BY AppendProperties DEF BeginFails, DevInv, DevTypeOK, Replies
<1>3. ~verify
  BY DEF DevInv, TrialOK, BeginFails
<1> QED
  BY <1>1, <1>2, <1>3 DEF DevInv, DevTypeOK, LoopOK, SlotOK, TrialOK, BootOK,
     WifiOK, AlwaysBootable, LoopPc, Target, BeginFails, bootVars, otaVars, wifiVars

LEMMA CheckStep ==
  ASSUME DevInv, WantReboot \/ CheckTimeout
  PROVE  DevInv'
<1>1. /\ ~verify /\ pc' \in {"sleep", "poll"}
      /\ ota' \in {ota, NoOta}
      /\ UNCHANGED <<running, boot, verify, flash, quiet, reboot, batch, junk,
                     rx, tx, wifi, wsize, wgot>>
  BY DEF DevInv, TrialOK, WantReboot, CheckTimeout, bootVars, otaVars, wifiVars
<1> QED
  BY <1>1 DEF DevInv, DevTypeOK, LoopOK, SlotOK, TrialOK, BootOK, WifiOK,
     AlwaysBootable, LoopPc, Target

LEMMA ResetStep ==
  ASSUME DevInv, NEW kept \in 0..Len(tx), Reset(kept)
  PROVE  DevInv'
<1>1. tx' \in Seq(Replies)
  BY Prefixes DEF Reset, DevInv, DevTypeOK
<1>2. <<>> \in Seq(Item)
  BY EmptySeq
<1>3. running \in Slots /\ boot \in Slots
      /\ Other(running) \in Slots /\ Other(Other(running)) = running
      /\ (boot # running => Other(boot) = running)
  BY DEF DevInv, DevTypeOK, Slots, Other
<1>4. /\ running' \in Slots /\ boot' \in Slots /\ verify' \in BOOLEAN
      /\ Complete(flash[running'])
      /\ verify' => boot' = running' /\ Complete(flash[Other(running')])
  BY <1>3 DEF Reset, Bootloader, DevInv, TrialOK, AlwaysBootable
<1>5. Complete(flash'[running']) /\ (verify' => Complete(flash'[Other(running')]))
  BY <1>4 DEF Reset
<1>6. AlwaysBootable'
  BY <1>5 DEF AlwaysBootable
<1> QED
  BY <1>1, <1>2, <1>4, <1>6 DEF DevInv, DevTypeOK, LoopOK, SlotOK, TrialOK, BootOK,
     WifiOK, LoopPc, Reset

LEMMA WifiStep ==
  ASSUME DevInv, WifiThread \/ \E n \in Images : WifiErase(n)
  PROVE  DevInv'
<1>1. ASSUME NEW n \in Images, WifiErase(n) PROVE DevInv'
  <2>1. flash' \in [Slots -> Seq(Item)] /\ flash'[running] = flash[running]
    BY <1>1, EraseKeepsRunning DEF DevInv, WifiErase
  <2>2. ~verify /\ n \in Nat
    BY <1>1, ImagesAssumption DEF DevInv, TrialOK, WifiErase
  <2> QED
    BY <1>1, <2>1, <2>2 DEF DevInv, DevTypeOK, LoopOK, SlotOK, TrialOK, BootOK,
       WifiOK, AlwaysBootable, LoopPc, Target, WifiErase, bootVars, otaVars, loopVars
<1>2. CASE WifiOpens
  <2>1. ~verify /\ pc # "boot" /\ wsize \in Images
    BY <1>2 DEF DevInv, TrialOK, BootOK, WifiOK, WifiOpens
  <2>2. /\ ota' \in Session /\ ota'.slot = Target
        /\ quiet' \in BOOLEAN /\ tx' \in Seq(Replies)
        /\ flash' \in [Slots -> Seq(Item)] /\ flash'[running] = flash[running]
    BY <1>2, <2>1, SessionOpened DEF WifiOpens, DevInv
  <2> QED
    BY <1>2, <2>1, <2>2 DEF DevInv, DevTypeOK, LoopOK, SlotOK, TrialOK, BootOK,
       WifiOK, AlwaysBootable, LoopPc, Target, WifiOpens, bootVars, loopVars
<1>3. CASE WifiBeginFails
  <2>1. ~verify /\ pc # "boot"
    BY <1>3 DEF DevInv, TrialOK, BootOK, WifiBeginFails
  <2>2. tx' \in Seq(Replies)
    BY <1>3, AppendProperties DEF WifiBeginFails, DevInv, DevTypeOK, Replies
  <2> QED
    BY <1>3, <2>1, <2>2 DEF DevInv, DevTypeOK, LoopOK, SlotOK, TrialOK, BootOK, WifiOK,
       AlwaysBootable, LoopPc, Target, WifiBeginFails, bootVars, otaVars, loopVars
<1>4. CASE WifiFeed
  <2>1. /\ ~verify /\ pc # "boot" /\ wsize \in Images /\ wsize \in Nat
        /\ wgot \in Nat /\ wgot < wsize
    BY <1>4, ImagesAssumption
       DEF DevInv, DevTypeOK, TrialOK, BootOK, WifiOK, WifiFeed
  <2>2. PICK m \in 1..Lesser(2 * Chunk, wsize - wgot) :
          /\ Feed([i \in 1..m |-> CellOf(wsize, wgot + i)])
          /\ wgot' = wgot + m
    BY <1>4 DEF WifiFeed
  <2> DEFINE data == [i \in 1..m |-> CellOf(wsize, wgot + i)]
  <2>3. m \in Nat \ {0}
    BY <2>1, ChunkAssumption DEF Lesser
  <2>4. data \in Seq(Item) /\ data # <<>>
    <3>1. data \in Seq(Item)
      BY <2>1, <2>3, ImagesAreSeqs
    <3>2. data[1] = CellOf(wsize, wgot + 1) /\ DOMAIN data = 1..m /\ 1 \in 1..m
      BY <2>3
    <3>3. DOMAIN <<>> = {}
      BY EmptySeq
    <3> QED
      BY <3>1, <3>2, <3>3
  <2>5. /\ flash' \in [Slots -> Seq(Item)]
        /\ flash'[running] = flash[running]
        /\ ota' \in Session \cup {NoOta}
        /\ ota' # NoOta => ota'.slot = Target
        /\ boot' \in Slots /\ reboot' \in BOOLEAN /\ quiet' \in BOOLEAN
        /\ tx' \in Seq(Replies)
        /\ UNCHANGED <<running, verify>>
    BY <2>2, <2>4, FeedKeepsRunning DEF DevInv
  <2>6. UNCHANGED <<pc, batch, junk, rx, wifi, wsize>> /\ wgot' \in Nat
    BY <1>4, <2>1, <2>2, <2>3 DEF WifiFeed, loopVars
  <2> QED
    BY <2>1, <2>5, <2>6 DEF DevInv, DevTypeOK, LoopOK, SlotOK, TrialOK, BootOK,
       WifiOK, AlwaysBootable, LoopPc, Target
<1>5. CASE WifiStops
  BY <1>5 DEF DevInv, DevTypeOK, LoopOK, SlotOK, TrialOK, BootOK, WifiOK,
     AlwaysBootable, LoopPc, Target, WifiStops, bootVars, otaVars, loopVars
<1> QED
  BY <1>1, <1>2, <1>3, <1>4, <1>5 DEF WifiThread

-----------------------------------------------------------------------------
(* The host's steps, and the invariant                                      *)

\* The host does nothing to the device but fill rx and empty tx.
LEMMA ChannelStep ==
  ASSUME DevInv, UNCHANGED devButChannels,
         rx' \in Seq(Item), tx' \in Seq(Replies)
  PROVE  DevInv'
BY DEF devButChannels, DevInv, DevTypeOK, LoopOK, SlotOK, TrialOK, BootOK, WifiOK,
   AlwaysBootable, LoopPc, Target, bootVars, otaVars, loopVars, wifiVars

LEMMA DevStutter ==
  ASSUME DevInv, UNCHANGED devVars
  PROVE  DevInv'
BY DEF devVars, DevInv, DevTypeOK, LoopOK, SlotOK, TrialOK, BootOK, WifiOK,
   AlwaysBootable, LoopPc, Target

LEMMA HostStutter ==
  ASSUME HostInv, UNCHANGED <<hostVars, link, counters>>
  PROVE  HostInv'
BY DEF HostInv, HostTypeOK, hostVars, counters

\* What the host writes is an item.
LEMMA Written ==
  ASSUME DevInv, NEW item \in Item, Write(item)
  PROVE  rx' \in Seq(Item)
BY AppendProperties DEF Write, DevInv, DevTypeOK

LEMMA Finished ==
  ASSUME HostInv, NEW result \in Outcomes, Finish(result),
         link' \in BOOLEAN, UNCHANGED counters
  PROVE  HostInv'
BY DEF HostInv, HostTypeOK, HostPc, Finish, counters

LEMMA InitInv == Init => IInv
<1> SUFFICES ASSUME Init PROVE IInv
  OBVIOUS
<1>1. Image(Factory) \in Seq(Item) /\ Complete(Image(Factory))
  BY ImagesAreSeqs, ImagesAssumption DEF Complete
<1>2. /\ <<>> \in Seq(Item) /\ <<>> \in Seq(Replies)
  BY EmptySeq
<1>3. DevTypeOK
  BY <1>1, <1>2 DEF Init, DevInit, DevTypeOK, Slots, LoopPc
<1>4. AlwaysBootable
  BY <1>1 DEF Init, DevInit, AlwaysBootable, Slots
<1>5. LoopOK /\ SlotOK /\ TrialOK /\ BootOK /\ WifiOK
  BY DEF Init, DevInit, LoopOK, SlotOK, TrialOK, BootOK, WifiOK
<1>6. HostInv
  <2>1. /\ host \in HostPc /\ outcome \in Outcomes /\ link \in BOOLEAN
        /\ size \in Images \cup {0} /\ sent \in Nat /\ host = "idle"
    BY DEF Init, HostPc, Outcomes
  <2>2. /\ uploads \in 0..MaxUploads /\ commands \in 0..MaxCommands
        /\ pulls \in 0..MaxPulls /\ cuts \in 0..MaxCuts
    <3>1. uploads = 0 /\ commands = 0 /\ pulls = 0 /\ cuts = 0
      BY DEF Init
    <3> QED
      BY <3>1, BoundsAssumption
  <2> QED
    BY <2>1, <2>2 DEF HostInv, HostTypeOK
<1> QED
  BY <1>3, <1>4, <1>5, <1>6 DEF IInv, DevInv

LEMMA HostStep ==
  ASSUME IInv, HostThread \/ StartUpload \/ OtherCommand
  PROVE  IInv'
<1> USE DEF IInv
<1>1. CASE Connect
  <2>1. PICK gone \in 0..Len(tx) : tx' = SubSeq(tx, gone + 1, Len(tx))
    BY <1>1 DEF Connect
  <2>2. tx' \in Seq(Replies)
    BY <2>1, Prefixes DEF DevInv, DevTypeOK
  <2>3. DevInv'
    BY <1>1, <2>2, ChannelStep DEF Connect, DevInv, DevTypeOK
  <2>4. HostInv'
    BY <1>1 DEF Connect, HostInv, HostTypeOK, hostVars, counters
  <2> QED
    BY <2>3, <2>4
<1>2. CASE OtherCommand
  <2>1. rx' \in Seq(Item)
    BY <1>2, Written DEF OtherCommand, Item
  <2>2. DevInv'
    BY <1>2, <2>1, ChannelStep DEF OtherCommand, DevInv, DevTypeOK
  <2>3. HostInv'
    BY <1>2, BoundsAssumption DEF OtherCommand, HostInv, HostTypeOK, hostVars
  <2> QED
    BY <2>2, <2>3
<1>3. CASE StartUpload
  <2>1. PICK n \in Images : Write(OtaLine(n)) /\ size' = n
    BY <1>3 DEF StartUpload
  <2>2. OtaLine(n) \in Item
    BY DEF OtaLine, Item
  <2>3. rx' \in Seq(Item)
    BY <2>1, <2>2, Written
  <2>4. DevInv'
    BY <1>3, <2>3, ChannelStep DEF StartUpload, DevInv, DevTypeOK
  <2>5. HostInv'
    BY <1>3, <2>1, BoundsAssumption
       DEF StartUpload, HostInv, HostTypeOK, HostPc, Outcomes
  <2> QED
    BY <2>4, <2>5
<1>4. CASE SendCell
  <2>1. size \in Images /\ sent + 1 \in Nat
    BY <1>4 DEF SendCell, HostInv, HostTypeOK
  <2>2. CellOf(size, sent + 1) \in Item
    BY <2>1, CellsAreItems
  <2>3. rx' \in Seq(Item)
    BY <1>4, <2>2, Written DEF SendCell
  <2>4. DevInv'
    BY <1>4, <2>3, ChannelStep DEF SendCell, DevInv, DevTypeOK
  <2>5. HostInv'
    BY <1>4, <2>1 DEF SendCell, AfterCell, HostInv, HostTypeOK, HostPc, counters
  <2> QED
    BY <2>4, <2>5
<1>5. CASE WriteError
  <2>1. HostInv'
    BY <1>5, Finished DEF WriteError, HostInv, HostTypeOK, Outcomes
  <2> QED
    BY <1>5, <2>1, DevStutter DEF WriteError
<1>6. CASE ReadLine
  <2>1. tx' \in Seq(Replies)
    BY <1>6, HeadTailProperties DEF ReadLine, DevInv, DevTypeOK
  <2>2. DevInv'
    BY <1>6, <2>1, ChannelStep DEF ReadLine, DevInv, DevTypeOK
  <2>3. HostInv'
    <3>1. CASE Finish("err") /\ UNCHANGED link
      BY <1>6, <3>1, Finished DEF ReadLine, HostInv, HostTypeOK, Outcomes
    <3>2. CASE Finish("done") /\ link' = FALSE
      BY <1>6, <3>2, Finished DEF ReadLine, Outcomes
    <3>3. CASE host \in {"ready", "ack"} /\ host' = "send"
               /\ UNCHANGED <<size, sent, outcome, link>>
      BY <1>6, <3>3 DEF ReadLine, HostInv, HostTypeOK, HostPc, counters
    <3>4. CASE UNCHANGED <<hostVars, link>>
      BY <1>6, <3>4, HostStutter DEF ReadLine
    <3> QED
      BY <1>6, <3>1, <3>2, <3>3, <3>4 DEF ReadLine
  <2> QED
    BY <2>2, <2>3
<1>7. CASE WaitTimesOut
  <2>1. link' \in BOOLEAN
    BY <1>7 DEF WaitTimesOut, HostInv, HostTypeOK
  <2>2. HostInv'
    BY <1>7, <2>1, Finished DEF WaitTimesOut, Outcomes
  <2> QED
    BY <1>7, <2>2, DevStutter DEF WaitTimesOut
<1> QED
  BY <1>1, <1>2, <1>3, <1>4, <1>5, <1>6, <1>7 DEF HostThread

\* The steps of the device as OtaUpload composes them.
LEMMA DeviceStep ==
  ASSUME IInv, \/ DeviceLoop \/ DeviceRestarts \/ PowerIsCut \/ SessionGoesQuiet
               \/ WifiPullStarts \/ WifiPullGoesOn
  PROVE  IInv'
<1> USE DEF IInv
<1>1. CASE DeviceLoop
  <2>1. MainLoop /\ HostInv'
    BY <1>1, HostStutter DEF DeviceLoop
  <2> QED
    BY <2>1, BootStep, PollStep, TextStep, BeginEraseStep, BeginOpensStep,
       BeginFailsStep, CheckStep DEF MainLoop
<1>2. CASE DeviceRestarts
  <2>1. HostInv'
    BY <1>2 DEF DeviceRestarts, HostInv, HostTypeOK, hostVars, counters
  <2> QED
    BY <1>2, <2>1, ResetStep DEF DeviceRestarts, Restart
<1>3. CASE PowerIsCut
  <2>1. HostInv'
    <3>1. /\ link' \in BOOLEAN
          /\ UNCHANGED <<host, size, sent, outcome, uploads, commands, pulls>>
      BY <1>3 DEF PowerIsCut, hostVars
    <3>2. cuts' \in 0..MaxCuts
      <4>1. cuts < MaxCuts /\ cuts' = cuts + 1 /\ cuts \in 0..MaxCuts
        BY <1>3 DEF PowerIsCut, HostInv, HostTypeOK
      <4> QED
        BY <4>1, BoundsAssumption
    <3> QED
      BY <3>1, <3>2 DEF HostInv, HostTypeOK
  <2> QED
    BY <1>3, <2>1, ResetStep DEF PowerIsCut, PowerCut
<1>4. CASE SessionGoesQuiet
  <2>1. HostInv'
    BY <1>4, HostStutter DEF SessionGoesQuiet
  <2>2. DevInv'
    BY <1>4 DEF SessionGoesQuiet, DevInv, DevTypeOK, LoopOK, SlotOK, TrialOK, BootOK,
       WifiOK, AlwaysBootable, LoopPc, Target, bootVars, loopVars, wifiVars
  <2> QED
    BY <2>1, <2>2
<1>5. CASE WifiPullStarts
  <2>1. HostInv'
    BY <1>5, BoundsAssumption DEF WifiPullStarts, HostInv, HostTypeOK, hostVars
  <2> QED
    BY <1>5, <2>1, WifiStep DEF WifiPullStarts
<1>6. CASE WifiPullGoesOn
  <2>1. HostInv'
    BY <1>6, HostStutter DEF WifiPullGoesOn
  <2> QED
    BY <1>6, <2>1, WifiStep DEF WifiPullGoesOn
<1> QED
  BY <1>1, <1>2, <1>3, <1>4, <1>5, <1>6

LEMMA NextInv == IInv /\ [Next]_vars => IInv'
<1>1. ASSUME IInv, Next PROVE IInv'
  BY <1>1, HostStep, DeviceStep DEF Next
<1>2. ASSUME IInv, UNCHANGED vars PROVE IInv'
  BY <1>2, DevStutter, HostStutter DEF IInv, vars
<1> QED
  BY <1>1, <1>2

-----------------------------------------------------------------------------
(* The theorems                                                             *)

\* The invariant, in every reachable state.  (OtaDevice and OtaUpload)
THEOREM Invariance == Spec => []IInv
BY InitInv, NextInv, PTL DEF Spec

\* Every variable keeps its type, the session and the two channels included.
THEOREM TypeCorrect == Spec => []TypeOK
<1>1. IInv => TypeOK
  BY DEF IInv, DevInv, HostInv, HostTypeOK, TypeOK
<1> QED
  BY <1>1, Invariance, PTL

\* Whatever is uploaded, over USB and over WiFi at once, cut or stalled
\* wherever it is, the slot that runs and the slot to fall back to hold
\* complete images.  (ota.rs begin and feed, main.rs mark_valid)
THEOREM Bootable == Spec => []AlwaysBootable
<1>1. IInv => AlwaysBootable
  BY DEF IInv, DevInv
<1> QED
  BY <1>1, Invariance, PTL

-----------------------------------------------------------------------------
(* With USB alone                                                           *)

\* A finished update holds the loop at its restart: between the boot slot's
\* move and the restart no line is dispatched.  (main.rs should_reboot)
Selected ==
  /\ reboot => pc \in {"check", "sleep"}
  /\ boot # running => reboot

UsbInv == wifi = "idle" /\ Selected /\ BootSlotComplete

\* An update that moves the boot slot has verified what the slot holds.
LEMMA FeedSelects ==
  ASSUME DevInv, BootSlotComplete, boot = running,
         NEW data \in Seq(Item), data # <<>>, Feed(data)
  PROVE  /\ BootSlotComplete'
         /\ boot' # running' => reboot'
<1>1. /\ flash'[running] = flash[running] /\ UNCHANGED running
  BY FeedKeepsRunning DEF DevInv
<1>2. CASE FeedFails
  <2>1. UNCHANGED <<flash, boot, reboot>>
    BY <1>2 DEF FeedFails
  <2> QED
    BY <1>1, <2>1 DEF BootSlotComplete
<1>3. CASE FeedData(data)
  <2>1. PICK items : LET content == flash[ota.slot] \o items IN
           /\ flash' = [flash EXCEPT ![ota.slot] = content]
           /\ IF Lesser(Len(data), ota.left) = ota.left THEN FeedLast(content)
              ELSE FeedMore(Lesser(Len(data), ota.left))
    BY <1>3 DEF FeedData
  <2> DEFINE content == flash[ota.slot] \o items
  <2>2. flash' = [flash EXCEPT ![ota.slot] = content] /\ (FeedLast(content) \/ UNCHANGED <<boot, reboot>>)
    BY <2>1 DEF FeedMore
  <2>3. ota.slot \in Slots /\ flash \in [Slots -> Seq(Item)]
    BY DEF Feed, DevInv, DevTypeOK, Session
  <2> HIDE DEF content
  <2>4. flash'[ota.slot] = content
    BY <2>2, <2>3
  <2>5. CASE UNCHANGED <<boot, reboot>>
    BY <1>1, <2>5 DEF BootSlotComplete
  <2>6. CASE FeedLast(content)
    <3>1. PICK ok \in Verified(content) :
            boot' = (IF ok THEN ota.slot ELSE boot) /\ reboot' = (reboot \/ ok)
      BY <2>6 DEF FeedLast
    <3>2. CASE ok = TRUE
      <4>1. Complete(content)
        BY <3>1, <3>2 DEF Verified
      <4>2. boot' = ota.slot /\ reboot' = TRUE
        BY <3>1, <3>2
      <4> QED
        BY <2>4, <4>1, <4>2 DEF BootSlotComplete
    <3>3. CASE ok = FALSE
      <4>1. boot' = boot
        BY <3>1, <3>3
      <4> QED
        BY <1>1, <4>1 DEF BootSlotComplete
    <3>4. ok \in BOOLEAN
      BY <3>1 DEF Verified, Complete
    <3> QED
      BY <3>2, <3>3, <3>4
  <2> QED
    BY <2>2, <2>5, <2>6
<1> QED
  BY <1>2, <1>3 DEF Feed

LEMMA UsbLoopStep ==
  ASSUME DevInv, UsbInv, MainLoop
  PROVE  UsbInv'
<1> USE DEF UsbInv, Selected
<1>1. CASE Boot
  BY <1>1 DEF Boot, BootSlotComplete, otaVars, wifiVars
<1>2. ASSUME NEW n \in 0..Len(rx), PollHid(n) PROVE UsbInv'
  <2> DEFINE data == SubSeq(rx, 1, n)
  <2>1. /\ pc = "poll" /\ ~reboot /\ boot = running /\ wifi' = "idle"
    BY <1>2 DEF PollHid, wifiVars, DevInv, DevTypeOK
  <2>2. CASE PollNothing \/ PollText(data)
    BY <2>1, <2>2 DEF PollNothing, PollText, BootSlotComplete, bootVars, otaVars
  <2>3. CASE n > 0 /\ PollImage(data)
    <3>1. rx \in Seq(Item) /\ Len(rx) \in Nat
      BY LenProperties DEF DevInv, DevTypeOK
    <3>2. data \in Seq(Item)
      BY <3>1, Prefixes
    <3>3. \A i \in 1..n : rx[i] \in Item
      BY <3>1, ElementOfSeq
    <3>4. data # <<>>
      BY <2>3, <3>1, <3>3, SubSeqProperties
    <3>5. Feed(data) /\ pc' = "check"
      BY <2>3 DEF PollImage
    <3> QED
      BY <2>1, <3>2, <3>4, <3>5, FeedSelects
  <2> QED
    BY <1>2, <2>2, <2>3 DEF PollHid
<1>3. CASE TextBytes \/ TextLine
  BY <1>3 DEF TextBytes, TextLine, NextItem, BootSlotComplete, bootVars, otaVars, wifiVars
<1>4. CASE BeginErase
  <2>1. flash'[running] = flash[running]
    BY <1>4, EraseKeepsRunning DEF DevInv, BeginErase
  <2> QED
    BY <1>4, <2>1 DEF BeginErase, BootSlotComplete, bootVars, otaVars, wifiVars
<1>5. CASE BeginOpens
  <2>1. Head(batch).n \in Images
    BY <1>5, LineSize DEF DevInv, BeginOpens
  <2>2. flash'[running] = flash[running]
    BY <1>5, <2>1, SessionOpened DEF DevInv, BeginOpens
  <2> QED
    BY <1>5, <2>2 DEF BeginOpens, NextItem, BootSlotComplete, bootVars, wifiVars
<1>6. CASE BeginFails
  BY <1>6 DEF BeginFails, NextItem, BootSlotComplete, bootVars, otaVars, wifiVars
<1>7. CASE WantReboot \/ CheckTimeout
  BY <1>7 DEF WantReboot, CheckTimeout, BootSlotComplete, bootVars, otaVars, wifiVars
<1> QED
  BY <1>1, <1>2, <1>3, <1>4, <1>5, <1>6, <1>7 DEF MainLoop

\* Every start runs the slot that was selected, or the one before it.
LEMMA UsbResetStep ==
  ASSUME DevInv, UsbInv, NEW kept \in 0..Len(tx), Reset(kept)
  PROVE  UsbInv'
<1>1. /\ running \in Slots /\ flash' = flash /\ Complete(flash[boot])
      /\ verify => Complete(flash[Other(running)])
  BY DEF DevInv, DevTypeOK, AlwaysBootable, UsbInv, BootSlotComplete, Reset
<1>2. running' = boot' /\ Complete(flash[boot'])
  BY <1>1 DEF Reset, Bootloader
<1> QED
  BY <1>1, <1>2 DEF UsbInv, Selected, BootSlotComplete, Reset

LEMMA UsbStep ==
  ASSUME MaxPulls = 0, IInv, UsbInv, [Next]_vars
  PROVE  UsbInv'
<1>1. CASE \/ HostThread \/ StartUpload \/ OtherCommand \/ SessionGoesQuiet
           \/ UNCHANGED vars
  <2>1. UNCHANGED <<wifi, reboot, pc, running, boot, flash>>
    BY <1>1 DEF HostThread, Connect, SendCell, WriteError, ReadLine,
       WaitTimesOut, StartUpload, OtherCommand, SessionGoesQuiet, devButChannels,
       devVars, vars, bootVars, otaVars, loopVars, wifiVars
  <2> QED
    BY <2>1 DEF UsbInv, Selected, BootSlotComplete
<1>2. CASE DeviceLoop
  BY <1>2, UsbLoopStep DEF IInv, DeviceLoop
<1>3. CASE DeviceRestarts \/ PowerIsCut
  BY <1>3, UsbResetStep DEF IInv, DeviceRestarts, PowerIsCut, Restart, PowerCut
<1>4. ~WifiPullStarts
  BY DEF IInv, HostInv, HostTypeOK, WifiPullStarts
<1>5. ~WifiPullGoesOn
  BY DEF UsbInv, WifiPullGoesOn, WifiThread, WifiOpens, WifiBeginFails, WifiFeed, WifiStops
<1> QED
  BY <1>1, <1>2, <1>3, <1>4, <1>5 DEF Next

\* Without a WiFi pull beside it, no begin ever erases the slot a finished
\* update has selected, and no update selects a slot whose image is not
\* complete, wherever the power fails and whatever the host writes: the next
\* start never needs the fallback.  (ota.rs begin, main.rs should_reboot)
THEOREM BootSlotAlwaysComplete ==
  ASSUME MaxPulls = 0
  PROVE  Spec => []BootSlotComplete
<1>1. Init => UsbInv
  <2> SUFFICES ASSUME Init PROVE UsbInv
    OBVIOUS
  <2>1. flash[0] = Image(Factory) /\ Complete(flash[0])
    BY ImagesAssumption DEF Init, DevInit, Slots, Complete
  <2> QED
    BY <2>1 DEF Init, DevInit, UsbInv, Selected, BootSlotComplete
<1>2. IInv /\ UsbInv /\ [Next]_vars => UsbInv'
  BY UsbStep
<1>3. UsbInv => BootSlotComplete
  BY DEF UsbInv
<1> QED
  BY <1>1, <1>2, <1>3, Invariance, PTL DEF Spec

-----------------------------------------------------------------------------
(* The host and its replies, with USB alone.                                *)
(*                                                                          *)
(* What the host has written and no session has taken is one sequence: the  *)
(* lines being dispatched, then the bytes that follow.                      *)

Way == batch \o rx

Told(r)     == \E i \in 1..Len(tx) : tx[i] = r
ToldOnce(r) == \A i, j \in 1..Len(tx) : tx[i] = r /\ tx[j] = r => i = j

\* What a slot may hold besides the start of the image being sent.
NoCell(c)  == \A i \in 1..Len(c) : c[i].t # "cell"
Spoiled(c) == c # <<>> /\ (c[1].k # 1 \/ \E i \in 1..Len(c) : c[i].t # "cell")
Clean(c)   == \A i \in 1..Len(c) : c[i] = CellOf(size, i)

\* An OTAREADY may still come from the first m items of the way, or none.
NoneOut(m) == (\A i \in 1..m : Way[i].t # "ota") /\ ~Told("OTAREADY")

LineOut(m) ==
  /\ ota = NoOta /\ ~Told("OTAREADY")
  /\ m <= commands + 1
  /\ \E p \in 1..m : Way[p].t = "ota" /\ \A i \in 1..m : Way[i].t = "ota" => i = p

ReadyOut(m) ==
  /\ Told("OTAREADY") /\ ToldOnce("OTAREADY")
  /\ \A i \in 1..m : Way[i].t # "ota"
  /\ ota = NoOta \/ /\ NoCell(flash[ota.slot])
                    /\ ota.acc <= Len(flash[ota.slot])
                    /\ ota.acc + m <= commands

OneOut(m) ==
  /\ \A i \in 1..m : Way[i].t # "cell"
  /\ ~Told("OTADONE") /\ (FewCommands => ~Told("K")) /\ ~junk
  /\ LineOut(m) \/ ReadyOut(m)

Known(m) == OneOut(m) \/ NoneOut(m)

Fresh ==
  /\ \A i \in 1..Len(Way) : Way[i].t = "cmd"
  /\ Len(Way) <= commands
  /\ tx = <<>> /\ ota = NoOta /\ ~junk

\* The host's line is still to be dispatched, the last on the way.
Asked ==
  \E m \in 0..Len(Way) :
    Len(Way) = m + 1 /\ Way[m + 1].t = "ota" /\ Known(m)

\* It was, and nothing else is on the way.
Answered ==
  /\ Way = <<>>
  /\ \/ ota = NoOta
     \/ Spoiled(flash[ota.slot])
     \/ (flash[ota.slot] = <<>> /\ ota.acc = 0)
  /\ \/ /\ tx # <<>>
        /\ \A i \in 1..Len(tx) : tx[i] = "OTAREADY" <=> i = Len(tx)
     \/ /\ ~Told("OTADONE")
        /\ FewCommands /\ Told("K") => ota = NoOta \/ Spoiled(flash[ota.slot])

\* The host is sending: to a session that is not open yet, ...
FirstChunk ==
  FewCommands => ~Told("K") /\ sent <= Chunk /\ (host = "send" => sent < Chunk)

Early ==
  /\ ~Told("OTADONE") /\ ~Told("OTAREADY") /\ ~junk
  /\ \E p \in 0..Len(Way) :
       /\ Len(Way) = p + 1 + sent
       /\ \A i \in 1..p : Way[i].t = "cmd"
       /\ Way[p + 1].t = "ota"
       /\ \A i \in 1..sent : Way[p + 1 + i] = CellOf(size, i)
       /\ ota = NoOta \/ (NoCell(flash[ota.slot]) /\ ota.acc + p <= commands)
  /\ FirstChunk

\* ... to one that was opened in the middle of the dispatch, ...
Missed ==
  /\ ota # NoOta /\ flash[ota.slot] = <<>> /\ ota.acc = 0
  /\ ~Told("OTADONE")
  /\ \E k \in 0..sent :
       /\ Len(Way) = sent - k
       /\ \A i \in 1..Len(Way) : Way[i] = CellOf(size, k + i)
       /\ batch # <<>> \/ k > 0
  /\ FirstChunk

\* ... to one that gets every byte, ...
Paced ==
  LET got == Len(flash[ota.slot]) IN
    /\ host = "send" => /\ ~Told("K")
                        /\ got >= sent - (sent % Chunk)
                        /\ ota.acc = got - (sent - (sent % Chunk))
    /\ host = "ack" => /\ got >= sent - Chunk
                       /\ got < sent => ~Told("K") /\ ota.acc = got - (sent - Chunk)
                       /\ got = sent => ToldOnce("K") /\ ota.acc = 0
    /\ host = "done" => sent - got <= Chunk

InOrder ==
  /\ ota # NoOta /\ batch = <<>>
  /\ ~Told("OTADONE")
  /\ Clean(flash[ota.slot])
  /\ Len(flash[ota.slot]) + Len(Way) = sent
  /\ \A i \in 1..Len(Way) : Way[i] = CellOf(size, Len(flash[ota.slot]) + i)
  /\ FewCommands => Paced

\* ... to one whose image is spoiled, ...
Ruined ==
  /\ ota # NoOta /\ Spoiled(flash[ota.slot])
  /\ ~Told("OTADONE")
  /\ \A i \in 1..Len(Way) : Way[i].t # "ota"

\* ... or to none.
Over ==
  /\ ota = NoOta
  /\ \A i \in 1..Len(Way) : Way[i].t # "ota"
  /\ Told("OTADONE") => \E s \in Slots : flash[s] = Image(size)

Sending == host \in {"send", "ack", "done"}

Place ==
  /\ host = "send" => sent < size
  /\ host = "ack"  => 0 < sent /\ sent < size /\ sent % Chunk = 0
  /\ host = "done" => sent = size
  /\ host = "ready" => sent = 0

\* Text is dispatched while there is a batch, and the erase has emptied the
\* slot the session is about to be opened on.
TextOK ==
  /\ pc \notin {"text", "erase"} => batch = <<>>
  /\ pc = "erase" => flash[Target] = <<>> /\ ~junk
  /\ batch # <<>> /\ ota # NoOta => ota.acc = 0

Sent == Early \/ Missed \/ InOrder \/ Ruined \/ Over

Waiting == Asked \/ Answered \/ NoneOut(Len(Way))

Left == \E m \in 0..Len(Way) : Len(Way) = m /\ Known(m)

FlowInv ==
  /\ Place
  /\ uploads = 0 => host = "idle" /\ Fresh
  /\ uploads = 1 /\ ~Sending => Left
  /\ uploads = 1 /\ Sending => NoneOut(Len(Way))
  /\ host = "ready" /\ uploads <= 2 => Waiting
  /\ Sending /\ uploads <= 2 => Sent

\* What a step does to the way: the first n items leave, or one is written.
Drops(n) == /\ Len(Way') = Len(Way) - n
            /\ \A i \in 1..Len(Way') : Way'[i] = Way[n + i]

\* The device's steps, as the way, the replies and the session see them.
Rests ==
  /\ Drops(0) /\ UNCHANGED <<tx, flash, junk>> /\ ota' \in {ota, NoOta}
  /\ ota # NoOta => UNCHANGED batch
  /\ batch # <<>> => UNCHANGED batch

Reads ==
  /\ Len(Way) > 0 /\ Drops(1) /\ UNCHANGED <<tx, flash, ota>>
  /\ batch # <<>>
  /\ \/ Way[1].t = "cell"
     \/ ~junk' /\ (Way[1].t = "ota" => junk)

AtLine == Len(Way) > 0 /\ Way[1].t = "ota" /\ ~junk /\ ~junk'

Erases ==
  /\ AtLine /\ Drops(0) /\ UNCHANGED <<tx, ota, batch>>
  /\ ota # NoOta => flash'[ota.slot] = <<>> /\ ota.acc = 0

Opens ==
  /\ AtLine /\ Drops(1) /\ UNCHANGED flash
  /\ tx' = Append(tx, "OTAREADY")
  /\ ota' # NoOta /\ ota'.acc = 0 /\ flash[ota'.slot] = <<>>

Fails ==
  /\ AtLine /\ Drops(1) /\ UNCHANGED <<flash, ota>>
  /\ tx' = Append(tx, "OTAERR")
  /\ ota # NoOta => flash[ota.slot] = <<>> /\ ota.acc = 0

\* c is b with the first m items of the way after it.
Gets(c, b, m) ==
  /\ Len(c) = Len(b) + m
  /\ \A i \in 1..Len(b) : c[i] = b[i]
  /\ \A i \in 1..m : c[Len(b) + i] = Way[i]

Ends(n) ==
  /\ ota' = NoOta
  /\ \/ tx' = Append(tx, "OTAERR")
     \/ /\ tx' = Append(tx, "OTADONE")
        /\ Complete(flash'[ota.slot])
        /\ \E m \in 1..n : Gets(flash'[ota.slot], flash[ota.slot], m)

Takes(n) ==
  /\ ota' # NoOta /\ ota'.slot = ota.slot
  /\ Gets(flash'[ota.slot], flash[ota.slot], n)
  /\ IF ota.acc + n >= Chunk
       THEN ota'.acc = ota.acc + n - Chunk /\ tx' = Append(tx, "K")
       ELSE ota'.acc = ota.acc + n /\ tx' = tx

Feeds ==
  /\ batch = <<>> /\ batch' = <<>> /\ ota # NoOta /\ UNCHANGED junk
  /\ \E n \in 1..Len(Way) : Drops(n) /\ (Ends(n) \/ Takes(n))

Resets ==
  /\ Len(Way') = 0 /\ ota' = NoOta /\ ~junk' /\ UNCHANGED flash
  /\ \E kept \in 0..Len(tx) : tx' = SubSeq(tx, 1, kept)

DevMove == Rests \/ Reads \/ Erases \/ Opens \/ Fails \/ Feeds \/ Resets

-----------------------------------------------------------------------------

LEMMA WayFacts ==
  ASSUME batch \in Seq(Item), rx \in Seq(Item)
  PROVE  /\ Way \in Seq(Item) /\ Len(Way) \in Nat
         /\ Len(batch) \in Nat /\ Len(rx) \in Nat
         /\ Len(Way) = Len(batch) + Len(rx)
         /\ \A i \in 1..Len(batch) : Way[i] = batch[i]
         /\ \A i \in 1..Len(rx) : Way[Len(batch) + i] = rx[i]
         /\ \A i \in 1..Len(Way) : Way[i] \in Item
         /\ Way = <<>> <=> Len(Way) = 0
         /\ batch = <<>> <=> Len(batch) = 0
<1>1. Way \in Seq(Item) /\ Len(Way) = Len(batch) + Len(rx)
  BY ConcatProperties DEF Way
<1>2. /\ \A i \in 1..Len(batch) : Way[i] = batch[i]
      /\ \A i \in 1..Len(rx) : Way[Len(batch) + i] = rx[i]
  <2>1. \A i \in 1..Len(batch) + Len(rx) :
          Way[i] = IF i <= Len(batch) THEN batch[i] ELSE rx[i - Len(batch)]
    BY ConcatProperties DEF Way
  <2>2. Len(batch) \in Nat /\ Len(rx) \in Nat
    BY LenProperties
  <2>3. ASSUME NEW i \in 1..Len(batch) PROVE Way[i] = batch[i]
    <3>1. i \in 1..Len(batch) + Len(rx) /\ i <= Len(batch)
      BY <2>2
    <3> QED
      BY <2>1, <3>1
  <2>4. ASSUME NEW i \in 1..Len(rx) PROVE Way[Len(batch) + i] = rx[i]
    <3>1. /\ Len(batch) + i \in 1..Len(batch) + Len(rx)
          /\ ~(Len(batch) + i <= Len(batch))
          /\ (Len(batch) + i) - Len(batch) = i
      BY <2>2
    <3>2. Way[Len(batch) + i] = rx[(Len(batch) + i) - Len(batch)]
      BY <2>1, <3>1
    <3> QED
      BY <3>1, <3>2
  <2> QED
    BY <2>3, <2>4
<1>3. \A i \in 1..Len(Way) : Way[i] \in Item
  BY <1>1, ElementOfSeq
<1> QED
  BY <1>1, <1>2, <1>3, LenProperties, EmptySeq

\* The same about the next state.
LEMMA WayFactsNext ==
  ASSUME batch' \in Seq(Item), rx' \in Seq(Item)
  PROVE  /\ Way' \in Seq(Item) /\ Len(Way') \in Nat
         /\ Len(batch') \in Nat /\ Len(rx') \in Nat
         /\ Len(Way') = Len(batch') + Len(rx')
         /\ \A i \in 1..Len(batch') : Way'[i] = batch'[i]
         /\ \A i \in 1..Len(rx') : Way'[Len(batch') + i] = rx'[i]
         /\ \A i \in 1..Len(Way') : Way'[i] \in Item
         /\ Way' = <<>> <=> Len(Way') = 0
         /\ batch' = <<>> <=> Len(batch') = 0
<1>1. Way' \in Seq(Item) /\ Len(Way') = Len(batch') + Len(rx')
  BY ConcatProperties DEF Way
<1>2. /\ \A i \in 1..Len(batch') : Way'[i] = batch'[i]
      /\ \A i \in 1..Len(rx') : Way'[Len(batch') + i] = rx'[i]
  <2>1. \A i \in 1..Len(batch') + Len(rx') :
          Way'[i] = IF i <= Len(batch') THEN batch'[i] ELSE rx'[i - Len(batch')]
    BY ConcatProperties DEF Way
  <2>2. Len(batch') \in Nat /\ Len(rx') \in Nat
    BY LenProperties
  <2>3. ASSUME NEW i \in 1..Len(batch') PROVE Way'[i] = batch'[i]
    <3>1. i \in 1..Len(batch') + Len(rx') /\ i <= Len(batch')
      BY <2>2
    <3> QED
      BY <2>1, <3>1
  <2>4. ASSUME NEW i \in 1..Len(rx') PROVE Way'[Len(batch') + i] = rx'[i]
    <3>1. /\ Len(batch') + i \in 1..Len(batch') + Len(rx')
          /\ ~(Len(batch') + i <= Len(batch'))
          /\ (Len(batch') + i) - Len(batch') = i
      BY <2>2
    <3>2. Way'[Len(batch') + i] = rx'[(Len(batch') + i) - Len(batch')]
      BY <2>1, <3>1
    <3> QED
      BY <3>1, <3>2
  <2> QED
    BY <2>3, <2>4
<1>3. \A i \in 1..Len(Way') : Way'[i] \in Item
  BY <1>1, ElementOfSeq
<1> QED
  BY <1>1, <1>2, <1>3, LenProperties, EmptySeq

LEMMA SameWay ==
  ASSUME DevTypeOK, UNCHANGED <<batch, rx>>
  PROVE  Drops(0)
<1>1. Way' = Way /\ Len(Way) \in Nat
  BY WayFacts DEF Way, DevTypeOK
<1> QED
  BY <1>1 DEF Drops

\* A line is dispatched.
LEMMA LineDropped ==
  ASSUME DevTypeOK, batch # <<>>, batch' = Tail(batch), rx' = rx
  PROVE  Len(Way) > 0 /\ Drops(1) /\ Way[1] = Head(batch)
<1>1. /\ batch \in Seq(Item) /\ rx \in Seq(Item)
      /\ batch' \in Seq(Item) /\ rx' \in Seq(Item)
      /\ Len(batch') = Len(batch) - 1
      /\ \A i \in 1..Len(batch') : batch'[i] = batch[i + 1]
      /\ Head(batch) = batch[1]
  BY HeadTailProperties DEF DevTypeOK
<1>2. /\ Len(batch) \in Nat \ {0} /\ Len(rx) \in Nat
      /\ Len(Way) = Len(batch) + Len(rx)
      /\ Len(Way') = Len(batch') + Len(rx)
      /\ \A i \in 1..Len(batch) : Way[i] = batch[i]
      /\ \A i \in 1..Len(rx) : Way[Len(batch) + i] = rx[i]
      /\ \A i \in 1..Len(batch') : Way'[i] = batch'[i]
      /\ \A i \in 1..Len(rx) : Way'[Len(batch') + i] = rx[i]
  BY <1>1, WayFacts, WayFactsNext
<1>3. ASSUME NEW i \in 1..Len(Way') PROVE Way'[i] = Way[1 + i]
  <2>1. CASE i <= Len(batch')
    BY <1>1, <1>2, <2>1
  <2>2. CASE i > Len(batch')
    <3>1. i - Len(batch') \in 1..Len(rx)
      BY <1>1, <1>2, <2>2
    <3>2. Way'[i] = rx[i - Len(batch')]
      BY <1>1, <1>2, <3>1
    <3>3. Way[1 + i] = rx[i - Len(batch')]
      BY <1>1, <1>2, <3>1
    <3> QED
      BY <3>2, <3>3
  <2> QED
    BY <1>1, <1>2, <2>1, <2>2
<1> QED
  BY <1>1, <1>2, <1>3 DEF Drops

\* The n items that have arrived become the batch, or go to a session.
LEMMA Polled ==
  ASSUME DevTypeOK, batch = <<>>, NEW n \in 0..Len(rx),
         rx' = SubSeq(rx, n + 1, Len(rx))
  PROVE  /\ Way = rx
         /\ batch' = SubSeq(rx, 1, n) => Drops(0)
         /\ batch' = <<>> => Drops(n)
<1>1. rx \in Seq(Item) /\ Len(rx) \in Nat /\ \A i \in 1..Len(rx) : rx[i] \in Item
  BY LenProperties, ElementOfSeq DEF DevTypeOK
<1>2. Way = rx
  BY <1>1, ConcatEmptySeq DEF Way
<1>3. /\ SubSeq(rx, 1, n) \in Seq(Item) /\ Len(SubSeq(rx, 1, n)) = n
      /\ \A i \in 1..n : SubSeq(rx, 1, n)[i] = rx[i]
  BY <1>1, SubSeqProperties
<1>4. /\ rx' \in Seq(Item) /\ Len(rx') = Len(rx) - n
      /\ \A i \in 1..Len(rx) - n : rx'[i] = rx[n + i]
  BY <1>1, SubSeqProperties
<1>5. ASSUME batch' = SubSeq(rx, 1, n) PROVE Drops(0)
  <2>1. /\ batch' \in Seq(Item) /\ Len(batch') = n
        /\ Len(Way') = n + Len(rx')
        /\ \A i \in 1..n : Way'[i] = batch'[i]
        /\ \A i \in 1..Len(rx') : Way'[n + i] = rx'[i]
    <3>1. batch' \in Seq(Item) /\ Len(batch') = n
      BY <1>3, <1>5
    <3> QED
      BY <1>4, <3>1, WayFactsNext
  <2>2. \A i \in 1..Len(rx) : Way'[i] = rx[i]
    <3> TAKE i \in 1..Len(rx)
    <3>1. CASE i <= n
      BY <1>1, <1>3, <1>5, <2>1, <3>1
    <3>2. CASE i > n
      <4>1. i - n \in 1..Len(rx')
        BY <1>1, <1>4, <3>2
      <4>2. Way'[n + (i - n)] = rx'[i - n] /\ rx'[i - n] = rx[n + (i - n)]
        BY <1>4, <2>1, <4>1
      <4>3. n + (i - n) = i
        BY <1>1
      <4> QED
        BY <4>2, <4>3
    <3> QED
      BY <1>1, <3>1, <3>2
  <2> QED
    BY <1>1, <1>2, <1>4, <2>1, <2>2 DEF Drops
<1>6. ASSUME batch' = <<>> PROVE Drops(n)
  <2>1. Way' = rx'
    BY <1>4, <1>6, ConcatEmptySeq DEF Way
  <2> QED
    BY <1>1, <1>2, <1>4, <2>1 DEF Drops
<1> QED
  BY <1>2, <1>5, <1>6, Zenon

-----------------------------------------------------------------------------
(* Every step of the device is one of the moves                             *)

\* What a session does with the bytes it is given.
LEMMA FedMove ==
  ASSUME DevInv, wifi = "idle", pc = "poll", batch = <<>>, UNCHANGED <<batch, junk>>,
         NEW n \in 1..Len(rx), Feed(SubSeq(rx, 1, n)),
         rx' = SubSeq(rx, n + 1, Len(rx))
  PROVE  Feeds
<1> DEFINE data == SubSeq(rx, 1, n)
           b == flash[ota.slot]
<1>1. rx \in Seq(Item) /\ Len(rx) \in Nat /\ \A i \in 1..Len(rx) : rx[i] \in Item
  BY LenProperties, ElementOfSeq DEF DevInv, DevTypeOK
<1>2. data \in Seq(Item) /\ Len(data) = n /\ \A i \in 1..n : data[i] = rx[i]
  BY <1>1, SubSeqProperties
<1>3. Way = rx /\ Drops(n) /\ n \in 1..Len(Way) /\ n \in Nat \ {0}
  BY <1>1, Polled DEF DevInv
<1>4. /\ ota \in Session /\ ota # NoOta /\ ota.slot \in Slots
      /\ ota.left \in Nat \ {0} /\ ota.acc \in Nat
      /\ b \in Seq(Item) /\ Len(b) \in Nat
      /\ flash \in [Slots -> Seq(Item)]
  BY LenProperties DEF Feed, DevInv, DevTypeOK, Session
<1> SUFFICES Ends(n) \/ Takes(n)
  BY <1>3, <1>4 DEF Feeds
<1> HIDE DEF data, b
<1>5. CASE FeedFails
  BY <1>5 DEF FeedFails, Ends
<1>6. CASE FeedData(data)
  <2> DEFINE k == Lesser(Len(data), ota.left)
             items == SubSeq(data, 1, k)
             content == flash[ota.slot] \o items
  <2>1. k \in 1..n /\ k <= ota.left /\ (k # ota.left => k = n)
    BY <1>2, <1>3, <1>4 DEF Lesser
  <2>2. /\ flash' = [flash EXCEPT ![ota.slot] = content]
        /\ IF k = ota.left THEN FeedLast(content) ELSE FeedMore(k)
    <3>1. Landed(items) = {items}
      BY DEF Landed, Erasing
    <3> QED
      BY <1>6, <3>1 DEF FeedData
  <2>3. items \in Seq(Item) /\ Len(items) = k /\ \A i \in 1..k : items[i] = Way[i]
    <3>1. /\ items \in Seq(Item) /\ Len(items) = k
          /\ \A i \in 1..k : items[i] = data[i]
      <4>1. Len(data) \in Nat /\ \A i \in 1..Len(data) : data[i] \in Item
        BY <1>2, LenProperties, ElementOfSeq
      <4>2. \A i \in 1..k : data[i] \in Item
        BY <1>2, <2>1, <4>1
      <4> HIDE DEF k
      <4> QED
        BY <1>2, <1>3, <2>1, <4>1, <4>2, SubSeqProperties
    <3> QED
      BY <1>2, <1>3, <2>1, <3>1
  <2> HIDE DEF items, k
  <2>4. Gets(content, b, k)
    <3>1. Len(content) = Len(b) + k
      BY <1>4, <2>3, ConcatProperties DEF b
    <3>2. \A i \in 1..Len(b) + k : content[i] = IF i <= Len(b) THEN b[i] ELSE items[i - Len(b)]
      BY <1>4, <2>3, ConcatProperties DEF b
    <3> HIDE DEF content
    <3>3. \A i \in 1..Len(b) : content[i] = b[i]
      BY <1>3, <1>4, <2>1, <3>2
    <3>4. ASSUME NEW i \in 1..k PROVE content[Len(b) + i] = Way[i]
      <4>1. Len(b) + i \in 1..Len(b) + k /\ ~(Len(b) + i <= Len(b)) /\ (Len(b) + i) - Len(b) = i
        BY <1>3, <1>4, <2>1
      <4>2. content[Len(b) + i] = items[(Len(b) + i) - Len(b)]
        BY <3>2, <4>1
      <4> QED
        BY <2>3, <4>1, <4>2
    <3> QED
      BY <3>1, <3>3, <3>4 DEF Gets
  <2>5. flash'[ota.slot] = content
    BY <1>4, <2>2
  <2> HIDE DEF content
  <2>6. CASE k = ota.left
    <3>1. FeedLast(content)
      BY <2>2, <2>6
    <3>2. PICK ok \in Verified(content) :
            ota' = NoOta /\ tx' = Append(tx, IF ok THEN "OTADONE" ELSE "OTAERR")
      BY <3>1 DEF FeedLast
    <3>3. ok \in BOOLEAN /\ (ok => Complete(content))
      BY <3>2 DEF Verified, Complete
    <3>4. CASE ok = TRUE
      BY <2>1, <2>4, <2>5, <3>2, <3>3, <3>4 DEF Ends, b
    <3>5. CASE ok = FALSE
      BY <3>2, <3>5 DEF Ends
    <3> QED
      BY <3>3, <3>4, <3>5
  <2>7. CASE k # ota.left
    <3>1. k = n
      BY <2>1, <2>7
    <3>5. FeedMore(n)
      BY <2>2, <2>7, <3>1
    <3> DEFINE acc == ota.acc + n
    <3>6. /\ ota' = [slot |-> ota.slot, left |-> ota.left - n,
                     acc |-> IF acc >= Chunk THEN acc - Chunk ELSE acc]
          /\ tx' = IF acc >= Chunk THEN Append(tx, "K") ELSE tx
      BY <3>5 DEF FeedMore
    <3>2. Gets(flash'[ota.slot], flash[ota.slot], n)
      BY <2>4, <2>5, <3>1 DEF b
    <3>3. ota' # NoOta /\ ota'.slot = ota.slot
      <4>2. ota.left - n \in Nat \ {0}
        BY <1>3, <1>4, <2>1, <2>7, <3>1
      <4>3. (IF acc >= Chunk THEN acc - Chunk ELSE acc) \in Nat
        BY <1>3, <1>4, ChunkAssumption
      <4>4. ota' \in Session /\ ota'.slot = ota.slot
        BY <1>4, <3>6, <4>2, <4>3 DEF Session
      <4> QED
        BY <4>4, NoOtaAssumption
    <3>4. CASE acc >= Chunk
      <4>1. ota'.acc = ota.acc + n - Chunk /\ tx' = Append(tx, "K")
        BY <1>3, <1>4, <3>4, <3>6, ChunkAssumption
      <4> QED
        BY <3>2, <3>3, <3>4, <4>1 DEF Takes
    <3>7. CASE ~(acc >= Chunk)
      <4>1. ota'.acc = ota.acc + n /\ tx' = tx
        BY <3>7, <3>6
      <4> QED
        BY <3>2, <3>3, <3>7, <4>1 DEF Takes
    <3> QED
      BY <3>4, <3>7
  <2> QED
    BY <2>6, <2>7
<1> QED
  BY <1>5, <1>6 DEF Feed, data

LEMMA LoopMoves ==
  ASSUME DevInv, wifi = "idle", TextOK, MainLoop
  PROVE  DevMove /\ TextOK'
<1> USE DEF DevInv, DevTypeOK
<1>1. CASE Boot \/ WantReboot \/ CheckTimeout
  <2>1. /\ UNCHANGED <<batch, rx, tx, flash, junk, running>> /\ ota' \in {ota, NoOta}
        /\ pc' \notin {"text", "erase"} /\ pc \notin {"text", "erase"}
    BY <1>1 DEF Boot, WantReboot, CheckTimeout, bootVars, otaVars, wifiVars
  <2>2. Rests
    BY <2>1, SameWay DEF Rests
  <2> QED
    BY <2>1, <2>2 DEF TextOK, DevMove
<1>2. ASSUME NEW n \in 0..Len(rx), PollHid(n) PROVE DevMove /\ TextOK'
  <2>1. /\ pc = "poll" /\ batch = <<>> /\ UNCHANGED junk
        /\ rx' = SubSeq(rx, n + 1, Len(rx))
    BY <1>2 DEF PollHid, TextOK
  <2>2. Len(rx) \in Nat
    BY LenProperties
  <2>3. CASE n = 0 /\ PollNothing
    <3>1. UNCHANGED <<batch, tx, flash, ota>> /\ pc' = "check"
      BY <2>3 DEF PollNothing, otaVars
    <3>2. Drops(0)
      BY <2>1, <2>3, <3>1, Polled
    <3> QED
      BY <2>1, <3>1, <3>2 DEF Rests, DevMove, TextOK
  <2>4. CASE n > 0 /\ PollText(SubSeq(rx, 1, n))
    <3>1. /\ UNCHANGED <<tx, flash, ota, junk>> /\ pc' = "text" /\ ota = NoOta
          /\ batch' = SubSeq(rx, 1, n)
      BY <2>1, <2>4 DEF PollText, otaVars
    <3>2. Drops(0)
      BY <2>1, <3>1, Polled
    <3> QED
      BY <2>1, <3>1, <3>2 DEF Rests, DevMove, TextOK
  <2>5. CASE n > 0 /\ PollImage(SubSeq(rx, 1, n))
    <3>1. /\ Feed(SubSeq(rx, 1, n)) /\ pc' = "check" /\ UNCHANGED batch
          /\ n \in 1..Len(rx)
      BY <2>2, <2>5 DEF PollImage
    <3>2. Feeds
      BY <2>1, <3>1, FedMove
    <3> QED
      BY <2>1, <3>1, <3>2 DEF DevMove, TextOK
  <2> QED
    BY <1>2, <2>3, <2>4, <2>5 DEF PollHid
<1>3. CASE TextBytes \/ TextLine
  <2>1. /\ batch # <<>> /\ batch' = Tail(batch) /\ UNCHANGED <<rx, tx, flash, ota>>
        /\ \/ Head(batch).t = "cell"
           \/ ~junk' /\ (Head(batch).t = "ota" => junk)
        /\ pc' = IF Tail(batch) = <<>> THEN "check" ELSE "text"
    BY <1>3 DEF TextBytes, TextLine, NextItem, otaVars
  <2>2. Len(Way) > 0 /\ Drops(1) /\ Way[1] = Head(batch)
    BY <2>1, LineDropped
  <2> QED
    BY <2>1, <2>2 DEF Reads, DevMove, TextOK
<1>4. CASE BeginErase
  <2>1. /\ batch # <<>> /\ Head(batch).t = "ota" /\ ~junk /\ pc' = "erase"
        /\ UNCHANGED <<ota, batch, junk, rx, tx, running>> /\ EraseTarget
    BY <1>4 DEF BeginErase, bootVars, otaVars
  <2>2. Len(Way) > 0 /\ Way[1] = Head(batch)
    <3>1. Head(batch) = batch[1] /\ Len(batch) \in Nat \ {0}
      BY <2>1, HeadTailProperties, EmptySeq, LenProperties
    <3>2. Len(Way) = Len(batch) + Len(rx) /\ Len(rx) \in Nat /\ \A i \in 1..Len(batch) : Way[i] = batch[i]
      BY WayFacts
    <3> QED
      BY <3>1, <3>2
  <2>3. Drops(0)
    BY <2>1, SameWay
  <2>4. Target \in Slots /\ flash'[Target] = <<>> /\ Target' = Target
    BY <2>1, OtherSlot DEF Target, EraseTarget
  <2>5. ota # NoOta => flash'[ota.slot] = <<>> /\ ota.acc = 0
    BY <2>1, <2>4 DEF SlotOK, TextOK
  <2>6. Erases
    BY <2>1, <2>2, <2>3, <2>5 DEF Erases, AtLine
  <2> QED
    BY <2>1, <2>4, <2>6 DEF DevMove, TextOK
<1>5. CASE BeginOpens \/ BeginFails
  <2>1. /\ pc = "erase" /\ batch # <<>> /\ Head(batch).t = "ota" /\ ~junk
        /\ flash[Target] = <<>>
    BY <1>5 DEF BeginOpens, BeginFails, LoopOK, TextOK
  <2>2. /\ batch' = Tail(batch) /\ UNCHANGED <<rx, junk, running>>
        /\ pc' = IF Tail(batch) = <<>> THEN "check" ELSE "text"
    BY <1>5 DEF BeginOpens, BeginFails, NextItem, bootVars
  <2>3. Len(Way) > 0 /\ Drops(1) /\ Way[1] = Head(batch)
    BY <2>1, <2>2, LineDropped
  <2>4. AtLine
    BY <2>1, <2>2, <2>3 DEF AtLine
  <2>5. CASE BeginFails
    <3>1. UNCHANGED <<flash, ota>> /\ tx' = Append(tx, "OTAERR")
      BY <2>5 DEF BeginFails, otaVars
    <3>2. ota # NoOta => flash[ota.slot] = <<>> /\ ota.acc = 0
      BY <2>1 DEF SlotOK, TextOK
    <3> QED
      BY <2>2, <2>3, <2>4, <3>1, <3>2 DEF Fails, DevMove, TextOK
  <2>6. CASE BeginOpens
    <3>1. OpenSession(Head(batch).n)
      BY <2>6 DEF BeginOpens
    <3>2. Head(batch).n \in Images
      BY <2>6, LineSize DEF BeginOpens
    <3>3. /\ tx' = Append(tx, "OTAREADY") /\ ota' \in Session
          /\ ota'.acc = 0 /\ ota'.slot = Target
      BY <3>1, <3>2, SessionOpened DEF OpenSession
    <3>4. Lost(<<>>) = <<>>
      BY DEF Lost
    <3>5. flash' = flash
      <4>1. flash' = [flash EXCEPT ![Target] = <<>>]
        BY <2>1, <3>1, <3>4 DEF OpenSession
      <4> QED
        BY <2>1, <4>1
    <3>6. ota' # NoOta
      BY <3>3, NoOtaAssumption
    <3>7. Opens
      BY <2>1, <2>3, <2>4, <3>3, <3>5, <3>6 DEF Opens
    <3> QED
      BY <2>2, <3>3, <3>7 DEF DevMove, TextOK
  <2> QED
    BY <1>5, <2>5, <2>6
<1> QED
  BY <1>1, <1>2, <1>3, <1>4, <1>5 DEF MainLoop

LEMMA ResetMoves ==
  ASSUME DevInv, NEW kept \in 0..Len(tx), Reset(kept)
  PROVE  Resets /\ TextOK'
<1>1. /\ batch' = <<>> /\ rx' = <<>> /\ ota' = NoOta /\ ~junk' /\ flash' = flash
      /\ tx' = SubSeq(tx, 1, kept) /\ pc' = "boot"
  BY DEF Reset
<1>2. Way' = <<>> /\ Len(Way') = 0
  BY <1>1, ConcatEmptySeq, EmptySeq DEF Way
<1> QED
  BY <1>1, <1>2 DEF Resets, TextOK

\* The device's steps, and the clock's.
LEMMA DeviceMoves ==
  ASSUME IInv, UsbInv, TextOK,
         DeviceLoop \/ DeviceRestarts \/ PowerIsCut \/ SessionGoesQuiet
  PROVE  /\ DevMove /\ TextOK'
         /\ UNCHANGED <<host, size, sent, uploads, commands>>
<1>1. DevInv /\ wifi = "idle"
  BY DEF IInv, UsbInv
<1>2. UNCHANGED <<host, size, sent, uploads, commands>>
  BY DEF DeviceLoop, DeviceRestarts, PowerIsCut, SessionGoesQuiet, hostVars, counters
<1>3. CASE DeviceLoop
  BY <1>1, <1>2, <1>3, LoopMoves DEF DeviceLoop
<1>4. CASE DeviceRestarts \/ PowerIsCut
  BY <1>1, <1>2, <1>4, ResetMoves DEF DeviceRestarts, PowerIsCut, Restart, PowerCut, DevMove
<1>5. CASE SessionGoesQuiet
  <2>1. UNCHANGED <<batch, rx, tx, flash, junk, ota, pc, running>>
    BY <1>5 DEF SessionGoesQuiet, bootVars, loopVars
  <2>2. Drops(0)
    BY <1>1, <2>1, SameWay DEF DevInv
  <2> QED
    BY <1>2, <2>1, <2>2 DEF Rests, DevMove, TextOK, Target
<1> QED
  BY <1>3, <1>4, <1>5

-----------------------------------------------------------------------------
(* What is said about the replies, as they come and go                      *)

LEMMA ToldAppend ==
  ASSUME tx \in Seq(Replies), NEW r \in Replies, tx' = Append(tx, r), NEW x
  PROVE  /\ Told(x)' <=> Told(x) \/ x = r
         /\ ToldOnce(x) /\ (x = r => ~Told(x)) => ToldOnce(x)'
<1>1. /\ Len(tx) \in Nat /\ Len(tx') = Len(tx) + 1 /\ tx'[Len(tx) + 1] = r
      /\ \A i \in 1..Len(tx) : tx'[i] = tx[i]
  BY LenProperties, AppendProperties
<1>2. \A i \in 1..Len(tx') : i \in 1..Len(tx) \/ i = Len(tx) + 1
  BY <1>1
<1>3. \A i \in 1..Len(tx) : i \in 1..Len(tx')
  BY <1>1
<1>4. Len(tx) + 1 \in 1..Len(tx')
  BY <1>1
<1>5. Told(x)' <=> Told(x) \/ x = r
  BY <1>1, <1>2, <1>3, <1>4 DEF Told
<1>6. ASSUME ToldOnce(x), x = r => ~Told(x) PROVE ToldOnce(x)'
  <2>1. SUFFICES ASSUME NEW i \in 1..Len(tx'), NEW j \in 1..Len(tx'),
                        tx'[i] = x, tx'[j] = x
                 PROVE  i = j
    BY DEF ToldOnce
  <2> QED
    BY <1>1, <1>2, <1>6, <2>1 DEF Told, ToldOnce
<1> QED
  BY <1>5, <1>6

LEMMA ToldSome ==
  ASSUME tx \in Seq(Replies), NEW a \in 1..Len(tx) + 1, NEW b \in 0..Len(tx),
         a <= b + 1, tx' = SubSeq(tx, a, b), NEW x
  PROVE  /\ Told(x)' => Told(x)
         /\ ToldOnce(x) => ToldOnce(x)'
         /\ Len(tx') = b + 1 - a
         /\ \A i \in 1..Len(tx') : a + i - 1 \in 1..Len(tx) /\ tx'[i] = tx[a + i - 1]
<1>1. Len(tx) \in Nat /\ \A i \in 1..Len(tx) : tx[i] \in Replies
  BY LenProperties, ElementOfSeq
<1>2. \A i \in a..b : tx[i] \in Replies
  BY <1>1
<1>3. Len(tx') = b + 1 - a /\ \A i \in 1..b + 1 - a : tx'[i] = tx[a + i - 1]
  BY <1>1, <1>2, SubSeqProperties
<1>4. \A i \in 1..Len(tx') : a + i - 1 \in 1..Len(tx) /\ tx'[i] = tx[a + i - 1]
  BY <1>1, <1>3
<1>5. Told(x)' => Told(x)
  BY <1>4 DEF Told
<1>6. ASSUME ToldOnce(x) PROVE ToldOnce(x)'
  <2>1. SUFFICES ASSUME NEW i \in 1..Len(tx'), NEW j \in 1..Len(tx'),
                        tx'[i] = x, tx'[j] = x
                 PROVE  i = j
    BY DEF ToldOnce
  <2>2. a + i - 1 = a + j - 1
    BY <1>4, <1>6, <2>1 DEF ToldOnce
  <2> QED
    BY <1>1, <1>3, <2>2
<1> QED
  BY <1>3, <1>4, <1>5, <1>6

LEMMA ToldTail ==
  ASSUME tx \in Seq(Replies), tx # <<>>, tx' = Tail(tx), NEW x
  PROVE  /\ Told(x)' => Told(x)
         /\ ToldOnce(x) => ToldOnce(x)'
         /\ Told(x) => Told(x)' \/ Head(tx) = x
         /\ ToldOnce(x) /\ Head(tx) = x => Told(x) /\ ~Told(x)'
         /\ Len(tx) \in Nat \ {0} /\ Len(tx') = Len(tx) - 1 /\ Head(tx) = tx[1]
         /\ \A i \in 1..Len(tx') : tx'[i] = tx[i + 1]
<1>1. /\ Len(tx) \in Nat \ {0} /\ Len(tx') = Len(tx) - 1 /\ Head(tx) = tx[1]
      /\ \A i \in 1..Len(tx') : tx'[i] = tx[i + 1]
  BY HeadTailProperties, LenProperties, EmptySeq
<1>2. \A i \in 1..Len(tx') : i + 1 \in 1..Len(tx) /\ i + 1 # 1
  BY <1>1
<1>3. Told(x)' => Told(x)
  BY <1>1, <1>2 DEF Told
<1>4. ASSUME Told(x), Head(tx) # x PROVE Told(x)'
  <2>1. PICK i \in 1..Len(tx) : tx[i] = x
    BY <1>4 DEF Told
  <2>2. i - 1 \in 1..Len(tx') /\ (i - 1) + 1 = i
    BY <1>1, <1>4, <2>1
  <2>3. tx'[i - 1] = x
    BY <1>1, <2>1, <2>2
  <2> QED
    BY <2>2, <2>3 DEF Told
<1>5. ASSUME ToldOnce(x), Head(tx) = x PROVE Told(x) /\ ~Told(x)'
  <2>1. 1 \in 1..Len(tx) /\ tx[1] = x
    BY <1>1, <1>5
  <2>2. ASSUME NEW i \in 1..Len(tx'), tx'[i] = x PROVE FALSE
    BY <1>1, <1>2, <1>5, <2>1, <2>2 DEF ToldOnce
  <2> QED
    BY <2>1, <2>2 DEF Told
<1>6. ASSUME ToldOnce(x) PROVE ToldOnce(x)'
  <2>1. SUFFICES ASSUME NEW i \in 1..Len(tx'), NEW j \in 1..Len(tx'),
                        tx'[i] = x, tx'[j] = x
                 PROVE  i = j
    BY DEF ToldOnce
  <2>2. i + 1 = j + 1
    BY <1>1, <1>2, <1>6, <2>1 DEF ToldOnce
  <2> QED
    BY <1>1, <2>2
<1> QED
  BY <1>1, <1>3, <1>4, <1>5, <1>6

-----------------------------------------------------------------------------
(* What may still come from an earlier upload                               *)

LEMMA KnownRests ==
  ASSUME IInv, Rests, UNCHANGED commands, NEW m \in 0..Len(Way), Known(m)
  PROVE  Known(m)'
<1>1. Len(Way) \in Nat
  BY WayFacts DEF IInv, DevInv, DevTypeOK
<1>2. \A i \in 1..m : Way'[i] = Way[i]
  BY <1>1 DEF Rests, Drops
<1>3. \A x : Told(x)' = Told(x) /\ ToldOnce(x)' = ToldOnce(x)
  BY DEF Rests, Told, ToldOnce
<1>4. CASE NoneOut(m)
  BY <1>2, <1>3, <1>4 DEF NoneOut, Known
<1>5. CASE OneOut(m)
  <2>1. CASE LineOut(m)
    BY <1>2, <1>3, <1>5, <2>1 DEF OneOut, LineOut, Known, Rests, FewCommands
  <2>2. CASE ReadyOut(m)
    BY <1>2, <1>3, <1>5, <2>2 DEF OneOut, ReadyOut, Known, Rests, FewCommands
  <2> QED
    BY <1>5, <2>1, <2>2 DEF OneOut
<1> QED
  BY <1>4, <1>5 DEF Known

LEMMA KnownErases ==
  ASSUME IInv, Erases, UNCHANGED commands, NEW m \in 0..Len(Way), Known(m)
  PROVE  Known(m)'
<1>1. Len(Way) \in Nat
  BY WayFacts DEF IInv, DevInv, DevTypeOK
<1>2. \A i \in 1..m : Way'[i] = Way[i]
  BY <1>1 DEF Erases, Drops
<1>3. \A x : Told(x)' = Told(x) /\ ToldOnce(x)' = ToldOnce(x)
  BY DEF Erases, Told, ToldOnce
<1>4. CASE NoneOut(m)
  BY <1>2, <1>3, <1>4 DEF NoneOut, Known
<1>5. CASE OneOut(m)
  <2>1. CASE LineOut(m)
    BY <1>2, <1>3, <1>5, <2>1 DEF OneOut, LineOut, Known, Erases, AtLine, FewCommands
  <2>2. CASE ReadyOut(m)
    <3>1. ota # NoOta => NoCell(flash'[ota.slot]) /\ Len(flash'[ota.slot]) = 0
      BY EmptySeq DEF Erases, NoCell
    <3> QED
      BY <1>2, <1>3, <1>5, <2>2, <3>1 DEF OneOut, ReadyOut, Known, Erases, AtLine, FewCommands
  <2> QED
    BY <1>5, <2>1, <2>2 DEF OneOut
<1> QED
  BY <1>4, <1>5 DEF Known

LEMMA KnownReads ==
  ASSUME IInv, Reads, UNCHANGED commands, NEW m \in 1..Len(Way), Known(m)
  PROVE  Known(m - 1)'
<1>1. Len(Way) \in Nat /\ commands \in Nat
  BY WayFacts, BoundsAssumption DEF IInv, DevInv, DevTypeOK, HostInv, HostTypeOK
<1>2. \A i \in 1..m - 1 : Way'[i] = Way[i + 1] /\ i + 1 \in 1..m
  BY <1>1 DEF Reads, Drops
<1>3. \A x : Told(x)' = Told(x) /\ ToldOnce(x)' = ToldOnce(x)
  BY DEF Reads, Told, ToldOnce
<1>4. CASE NoneOut(m)
  BY <1>2, <1>3, <1>4 DEF NoneOut, Known
<1>5. CASE OneOut(m)
  <2>1. Way[1].t # "cell" /\ Way[1].t # "ota" /\ ~junk'
    BY <1>1, <1>5 DEF OneOut, Reads
  <2>2. CASE LineOut(m)
    <3>1. PICK p \in 1..m : Way[p].t = "ota" /\ \A i \in 1..m : Way[i].t = "ota" => i = p
      BY <2>2 DEF LineOut
    <3>2. p - 1 \in 1..m - 1 /\ (p - 1) + 1 = p
      BY <2>1, <3>1
    <3>3. Way'[p - 1].t = "ota"
      BY <1>2, <3>1, <3>2
    <3>4. \A i \in 1..m - 1 : Way'[i].t = "ota" => i = p - 1
      BY <1>2, <3>1
    <3>5. LineOut(m - 1)'
      BY <1>1, <1>3, <2>2, <3>2, <3>3, <3>4 DEF LineOut, Reads
    <3> QED
      BY <1>2, <1>3, <1>5, <2>1, <3>5 DEF OneOut, Known, FewCommands
  <2>3. CASE ReadyOut(m)
    <3>1. ota = NoOta \/ ota.acc \in Nat
      BY DEF IInv, DevInv, DevTypeOK, Session
    <3>2. ReadyOut(m - 1)'
      BY <1>1, <1>2, <1>3, <2>3, <3>1 DEF ReadyOut, Reads
    <3> QED
      BY <1>2, <1>3, <1>5, <2>1, <3>2 DEF OneOut, Known, FewCommands
  <2> QED
    BY <1>5, <2>2, <2>3 DEF OneOut
<1> QED
  BY <1>4, <1>5 DEF Known

\* The line an earlier upload left behind is dispatched.
LEMMA KnownBegins ==
  ASSUME IInv, Opens \/ Fails, UNCHANGED commands, NEW m \in 1..Len(Way), Known(m)
  PROVE  Known(m - 1)'
<1>1. Len(Way) \in Nat /\ commands \in Nat /\ tx \in Seq(Replies)
  BY WayFacts, BoundsAssumption DEF IInv, DevInv, DevTypeOK, HostInv, HostTypeOK
<1>2. \A i \in 1..m - 1 : Way'[i] = Way[i + 1] /\ i + 1 \in 1..m
  BY <1>1 DEF Opens, Fails, Drops
<1>3. Way[1].t = "ota" /\ 1 \in 1..m /\ ~junk'
  BY <1>1 DEF Opens, Fails, AtLine
<1>4. OneOut(m) /\ LineOut(m)
  BY <1>3 DEF Known, NoneOut, OneOut, ReadyOut
<1>5. PICK p \in 1..m : Way[p].t = "ota" /\ \A i \in 1..m : Way[i].t = "ota" => i = p
  BY <1>4 DEF LineOut
<1>6. \A i \in 1..m - 1 : Way'[i].t # "ota"
  BY <1>2, <1>3, <1>5
<1>7. CASE Opens
  <2>1. \A x : Told(x)' <=> Told(x) \/ x = "OTAREADY"
    BY <1>1, <1>7, ToldAppend DEF Opens, Replies
  <2>2. ToldOnce("OTAREADY")'
    <3>1. ~Told("OTAREADY") /\ ToldOnce("OTAREADY")
      BY <1>4 DEF LineOut, Told, ToldOnce
    <3> QED
      BY <1>1, <1>7, <3>1, ToldAppend DEF Opens, Replies
  <2>3. NoCell(flash'[ota'.slot]) /\ ota'.acc <= Len(flash'[ota'.slot])
    BY <1>7, EmptySeq DEF NoCell, Opens
  <2>4. ota'.acc + (m - 1) <= commands
    BY <1>1, <1>4, <1>7 DEF LineOut, Opens
  <2>5. ReadyOut(m - 1)'
    BY <1>6, <2>1, <2>2, <2>3, <2>4 DEF ReadyOut
  <2>6. ~Told("OTADONE")' /\ (FewCommands' => ~Told("K")')
    BY <1>4, <2>1 DEF OneOut, FewCommands
  <2> QED
    BY <1>2, <1>3, <1>4, <2>5, <2>6 DEF OneOut, Known
<1>8. CASE Fails
  <2>1. \A x : Told(x)' <=> Told(x) \/ x = "OTAERR"
    BY <1>1, <1>8, ToldAppend DEF Fails, Replies
  <2> QED
    BY <1>4, <1>6, <2>1 DEF LineOut, NoneOut, Known
<1> QED
  BY <1>7, <1>8

\* A session takes items, none of them the line that is awaited.
LEMMA KnownFeeds ==
  ASSUME IInv, UNCHANGED <<commands, junk>>, ota # NoOta,
         NEW m \in 0..Len(Way), NEW n \in 1..m, Drops(n), Ends(n) \/ Takes(n), Known(m)
  PROVE  Known(m - n)'
<1>1. /\ Len(Way) \in Nat /\ commands \in Nat /\ tx \in Seq(Replies)
      /\ ota.acc \in Nat /\ ota.slot \in Slots /\ flash[ota.slot] \in Seq(Item)
      /\ Chunk \in Nat \ {0}
  BY WayFacts, BoundsAssumption, ChunkAssumption
     DEF IInv, DevInv, DevTypeOK, HostInv, HostTypeOK, Session
<1>2. \A i \in 1..m - n : Way'[i] = Way[n + i] /\ n + i \in 1..m
  BY <1>1 DEF Drops
<1>3. Len(flash[ota.slot]) \in Nat
  BY <1>1, LenProperties
<1>4. PICK r \in {"K", "OTADONE", "OTAERR"} : tx' = Append(tx, r) \/ tx' = tx
  BY DEF Ends, Takes
<1>5. /\ Told("OTAREADY")' <=> Told("OTAREADY")
      /\ ToldOnce("OTAREADY") => ToldOnce("OTAREADY")'
  <2>1. CASE tx' = tx
    BY <2>1 DEF Told, ToldOnce
  <2>2. CASE tx' = Append(tx, r)
    BY <1>1, <1>4, <2>2, ToldAppend DEF Replies
  <2> QED
    BY <1>4, <2>1, <2>2
<1>6. CASE NoneOut(m)
  BY <1>2, <1>5, <1>6 DEF NoneOut, Known
<1>7. CASE OneOut(m)
  <2>1. ReadyOut(m)
    BY <1>7 DEF OneOut, LineOut
  <2>2. ASSUME NEW c, NEW k \in 1..n, Gets(c, flash[ota.slot], k)
        PROVE  /\ NoCell(c) /\ Len(c) = Len(flash[ota.slot]) + k
    <3>1. \A i \in 1..Len(c) : i \in 1..Len(flash[ota.slot])
                 \/ (i - Len(flash[ota.slot]) \in 1..k /\ Len(flash[ota.slot]) + (i - Len(flash[ota.slot])) = i)
      BY <1>1, <1>3, <2>2 DEF Gets
    <3>2. \A i \in 1..k : Way[i].t # "cell"
      BY <1>1, <1>7 DEF OneOut
    <3>3. \A i \in 1..Len(flash[ota.slot]) : c[i].t # "cell"
      BY <2>1, <2>2 DEF ReadyOut, NoCell, Gets
    <3>4. ASSUME NEW i \in 1..Len(c), i - Len(flash[ota.slot]) \in 1..k PROVE c[i].t # "cell"
      <4>1. c[Len(flash[ota.slot]) + (i - Len(flash[ota.slot]))] = Way[i - Len(flash[ota.slot])]
        BY <2>2, <3>4 DEF Gets
      <4> QED
        BY <1>3, <3>1, <3>2, <3>4, <4>1
    <3> QED
      BY <2>2, <3>1, <3>3, <3>4 DEF NoCell, Gets
  <2>3. CASE Ends(n)
    <3>1. ~(\E k \in 1..n : Gets(flash'[ota.slot], flash[ota.slot], k) /\ Complete(flash'[ota.slot]))
      <4>1. SUFFICES ASSUME NEW k \in 1..n, Gets(flash'[ota.slot], flash[ota.slot], k),
                            NEW s \in Images, flash'[ota.slot] = Image(s)
                     PROVE FALSE
        BY DEF Complete
      <4>2. s \in Nat \ {0}
        BY ImagesAssumption
      <4>3. 1 \in 1..Len(Image(s)) /\ Image(s)[1].t = "cell"
        BY <4>2 DEF Image, CellOf
      <4> QED
        BY <2>2, <4>1, <4>3 DEF NoCell
    <3>2. tx' = Append(tx, "OTAERR") /\ ota' = NoOta
      BY <2>3, <3>1 DEF Ends
    <3>3. \A x : Told(x)' <=> Told(x) \/ x = "OTAERR"
      BY <1>1, <3>2, ToldAppend DEF Replies
    <3>4. ReadyOut(m - n)'
      BY <1>2, <1>5, <2>1, <3>2 DEF ReadyOut
    <3> QED
      BY <1>2, <1>7, <3>3, <3>4 DEF OneOut, Known, FewCommands
  <2>4. CASE Takes(n)
    <3>1. NoCell(flash'[ota'.slot]) /\ Len(flash'[ota'.slot]) = Len(flash[ota.slot]) + n
      <4>1. Gets(flash'[ota.slot], flash[ota.slot], n) /\ ota'.slot = ota.slot
        BY <2>4 DEF Takes
      <4>2. n \in 1..n
        BY <1>1
      <4>3. NoCell(flash'[ota.slot]) /\ Len(flash'[ota.slot]) = Len(flash[ota.slot]) + n
        BY <2>2, <4>1, <4>2
      <4> QED
        BY <4>1, <4>3 DEF NoCell
    <3>2. /\ ota.acc <= Len(flash[ota.slot]) /\ ota.acc + m <= commands
      BY <2>1 DEF ReadyOut
    <3>3. CASE ota.acc + n >= Chunk
      <4>1. ota'.acc = ota.acc + n - Chunk /\ tx' = Append(tx, "K")
        BY <2>4, <3>3 DEF Takes
      <4>2. ~FewCommands
        BY <1>1, <3>2, <3>3 DEF FewCommands
      <4>3. \A x : Told(x)' <=> Told(x) \/ x = "K"
        BY <1>1, <4>1, ToldAppend DEF Replies
      <4>4. ota'.acc <= Len(flash'[ota'.slot]) /\ ota'.acc + (m - n) <= commands
        <5>1. ota'.acc <= ota.acc + n /\ ota'.acc \in Int
          BY <1>1, <1>3, <4>1
        <5> QED
          BY <1>1, <1>3, <3>1, <3>2, <5>1
      <4>5. ReadyOut(m - n)'
        BY <1>2, <1>5, <2>1, <3>1, <4>4 DEF ReadyOut
      <4> QED
        BY <1>2, <1>7, <4>2, <4>3, <4>5 DEF OneOut, Known, FewCommands
    <3>4. CASE ~(ota.acc + n >= Chunk)
      <4>1. ota'.acc = ota.acc + n /\ tx' = tx
        BY <2>4, <3>4 DEF Takes
      <4>2. \A x : Told(x)' <=> Told(x)
        BY <4>1 DEF Told
      <4>3. ota'.acc <= Len(flash'[ota'.slot]) /\ ota'.acc + (m - n) <= commands
        BY <1>1, <1>3, <3>1, <3>2, <4>1
      <4>4. ReadyOut(m - n)'
        BY <1>2, <1>5, <2>1, <3>1, <4>3 DEF ReadyOut
      <4> QED
        BY <1>2, <1>7, <4>2, <4>4 DEF OneOut, Known, FewCommands
    <3> QED
      BY <3>3, <3>4
  <2> QED
    BY <2>3, <2>4
<1> QED
  BY <1>6, <1>7 DEF Known

LEMMA KnownResets ==
  ASSUME IInv, Resets, UNCHANGED commands, NEW m \in 0..Len(Way), Known(m)
  PROVE  /\ Known(0)'
         /\ NoneOut(m) => NoneOut(0)'
<1>1. Len(Way) \in Nat /\ commands \in Nat /\ tx \in Seq(Replies) /\ Len(tx) \in Nat
  BY WayFacts, BoundsAssumption, LenProperties DEF IInv, DevInv, DevTypeOK, HostInv, HostTypeOK
<1>2. PICK kept \in 0..Len(tx) : tx' = SubSeq(tx, 1, kept)
  BY DEF Resets
<1>3. \A x : (Told(x)' => Told(x)) /\ (ToldOnce(x) => ToldOnce(x)')
  <2>1. 1 \in 1..Len(tx) + 1 /\ 1 <= kept + 1
    BY <1>1
  <2> QED
    BY <1>1, <1>2, <2>1, ToldSome
<1>4. ota' = NoOta /\ ~junk'
  BY DEF Resets
<1>5. NoneOut(m) => NoneOut(0)'
  BY <1>3 DEF NoneOut
<1>6. ASSUME OneOut(m) PROVE Known(0)'
  <2>1. CASE ~Told("OTAREADY")'
    BY <2>1 DEF NoneOut, Known
  <2>2. CASE Told("OTAREADY")'
    <3>1. ReadyOut(m)
      BY <1>3, <1>6, <2>2 DEF OneOut, LineOut
    <3>2. ReadyOut(0)'
      BY <1>3, <1>4, <2>2, <3>1 DEF ReadyOut
    <3> QED
      BY <1>3, <1>4, <1>6, <3>2 DEF OneOut, Known, FewCommands
  <2> QED
    BY <2>1, <2>2
<1> QED
  BY <1>5, <1>6 DEF Known

-----------------------------------------------------------------------------
(* What the host may be waiting for                                         *)

LEMMA NoneMoves ==
  ASSUME IInv, IInv', DevMove, NoneOut(Len(Way))
  PROVE  NoneOut(Len(Way))'
<1>1. Len(Way) \in Nat /\ Len(Way') \in Nat /\ tx \in Seq(Replies) /\ Len(tx) \in Nat
  BY WayFacts, WayFactsNext, LenProperties DEF IInv, DevInv, DevTypeOK
<1>2. ~(Erases \/ Opens \/ Fails)
  BY <1>1 DEF Erases, Opens, Fails, AtLine, NoneOut
<1>3. CASE Rests
  BY <1>1, <1>3 DEF Rests, Drops, NoneOut, Told
<1>4. CASE Reads
  BY <1>1, <1>4 DEF Reads, Drops, NoneOut, Told
<1>5. CASE Feeds
  <2>1. PICK n \in 1..Len(Way) : Drops(n) /\ (Ends(n) \/ Takes(n))
    BY <1>5 DEF Feeds
  <2>2. \A i \in 1..Len(Way') : Way'[i] = Way[n + i] /\ n + i \in 1..Len(Way)
    BY <1>1, <2>1 DEF Drops
  <2>3. \A r \in {"K", "OTADONE", "OTAERR"} :
          tx' = Append(tx, r) => (Told("OTAREADY")' => Told("OTAREADY"))
    BY <1>1, ToldAppend DEF Replies
  <2>4. Told("OTAREADY")' => Told("OTAREADY")
    <3>1. tx' = tx \/ \E r \in {"K", "OTADONE", "OTAERR"} : tx' = Append(tx, r)
      BY <2>1 DEF Ends, Takes
    <3>2. CASE tx' = tx
      BY <3>2 DEF Told
    <3> QED
      BY <2>3, <3>1, <3>2
  <2> QED
    BY <2>2, <2>4 DEF NoneOut
<1>6. CASE Resets
  <2>1. NoneOut(0)' \/ Told("OTAREADY")'
    BY DEF NoneOut
  <2>2. Told("OTAREADY")' => Told("OTAREADY")
    <3>1. PICK kept \in 0..Len(tx) : tx' = SubSeq(tx, 1, kept)
      BY <1>6 DEF Resets
    <3>2. 1 \in 1..Len(tx) + 1 /\ 1 <= kept + 1
      BY <1>1
    <3> QED
      BY <1>1, <3>1, <3>2, ToldSome
  <2> QED
    BY <1>1, <1>6, <2>2 DEF NoneOut, Resets
<1> QED
  BY <1>2, <1>3, <1>4, <1>5, <1>6 DEF DevMove

\* The line awaited is dispatched, the last on the way.
LEMMA AskedBegins ==
  ASSUME IInv, IInv', UNCHANGED commands, Asked, Opens \/ Fails
  PROVE  Waiting'
<1>m. PICK m \in 0..Len(Way) : Len(Way) = m + 1 /\ Way[m + 1].t = "ota" /\ Known(m)
  BY DEF Asked
<1>1. /\ Len(Way) \in Nat \ {0} /\ Len(Way') \in Nat /\ tx \in Seq(Replies)
      /\ Way' = <<>> <=> Len(Way') = 0
      /\ Known(m) /\ m \in 0..Len(Way) /\ Way[Len(Way)].t = "ota"
      /\ m \in Nat /\ Len(Way) = m + 1
      /\ Len(tx) \in Nat
  BY <1>m, WayFacts, WayFactsNext, LenProperties DEF IInv, DevInv, DevTypeOK
<1>2. Drops(1) /\ Len(Way') = m
  BY <1>1 DEF Opens, Fails, Drops
<1>3. CASE m > 0
  <2>1. Known(m - 1)'
    BY <1>1, <1>3, KnownBegins
  <2>2. /\ m - 1 \in 0..Len(Way') /\ Len(Way') = (m - 1) + 1
        /\ Way'[(m - 1) + 1].t = "ota"
    BY <1>1, <1>2, <1>3 DEF Drops
  <2> QED
    BY <2>1, <2>2 DEF Asked, Waiting
<1>4. CASE m = 0
  <2>1. Way' = <<>> /\ Len(Way') = 0
    BY <1>1, <1>2, <1>4
  <2>2. CASE Fails /\ NoneOut(0)
    <3>1. ~Told("OTAREADY")'
      BY <1>1, <2>2, ToldAppend DEF Fails, Replies, NoneOut
    <3> QED
      BY <2>1, <3>1 DEF NoneOut, Waiting
  <2>3. CASE Fails /\ OneOut(0)
    <3>1. \A x : Told(x)' <=> Told(x) \/ x = "OTAERR"
      BY <1>1, <2>3, ToldAppend DEF Fails, Replies
    <3> QED
      BY <2>1, <2>3, <3>1 DEF OneOut, Fails, Answered, Waiting, FewCommands
  <2>4. CASE Opens /\ NoneOut(0)
    <3>1. /\ tx' # <<>> /\ Len(tx') = Len(tx) + 1 /\ tx'[Len(tx')] = "OTAREADY"
          /\ \A i \in 1..Len(tx) : tx'[i] = tx[i]
      BY <1>1, <2>4, AppendProperties, EmptySeq DEF Opens, Replies
    <3>2. \A i \in 1..Len(tx') : tx'[i] = "OTAREADY" <=> i = Len(tx')
      <4>1. \A i \in 1..Len(tx') : i = Len(tx') \/ i \in 1..Len(tx)
        BY <1>1, <3>1
      <4>2. \A i \in 1..Len(tx) : tx'[i] # "OTAREADY" /\ i # Len(tx')
        BY <1>1, <2>4, <3>1 DEF NoneOut, Told
      <4> QED
        BY <3>1, <4>1, <4>2
    <3> QED
      BY <2>1, <2>4, <3>1, <3>2 DEF Opens, Answered, Waiting
  <2>5. CASE Opens /\ OneOut(0)
    <3>1. \A x : Told(x)' <=> Told(x) \/ x = "OTAREADY"
      BY <1>1, <2>5, ToldAppend DEF Opens, Replies
    <3>2. ~Told("OTADONE")' /\ (FewCommands' => ~Told("K")')
      BY <2>5, <3>1 DEF OneOut, FewCommands
    <3> QED
      BY <2>1, <2>5, <3>2 DEF Opens, Answered, Waiting
  <2> QED
    BY <1>1, <1>4, <2>2, <2>3, <2>4, <2>5 DEF Known
<1> QED
  BY <1>1, <1>3, <1>4

\* A session of an earlier upload takes items, perhaps the line itself.
LEMMA AskedFeeds ==
  ASSUME IInv, IInv', UNCHANGED commands, Asked, Feeds
  PROVE  Waiting'
<1>m. PICK m \in 0..Len(Way) : Len(Way) = m + 1 /\ Way[m + 1].t = "ota" /\ Known(m)
  BY DEF Asked
<1>1. /\ Len(Way) \in Nat \ {0} /\ Len(Way') \in Nat /\ tx \in Seq(Replies)
      /\ Way' = <<>> <=> Len(Way') = 0
      /\ Known(m) /\ m \in 0..Len(Way) /\ Way[Len(Way)].t = "ota"
      /\ m \in Nat /\ Len(Way) = m + 1
      /\ flash[ota.slot] \in Seq(Item) /\ Len(flash[ota.slot]) \in Nat
  <2>1. /\ Len(Way) \in Nat /\ Len(Way') \in Nat /\ tx \in Seq(Replies)
        /\ Way' = <<>> <=> Len(Way') = 0
    BY WayFacts, WayFactsNext DEF IInv, DevInv, DevTypeOK
  <2>2. ota \in Session /\ flash \in [Slots -> Seq(Item)]
    BY DEF IInv, DevInv, DevTypeOK, Feeds
  <2>3. flash[ota.slot] \in Seq(Item)
    BY <2>2 DEF Session
  <2>4. Len(flash[ota.slot]) \in Nat
    BY <2>3, LenProperties
  <2> QED
    BY <1>m, <2>1, <2>3, <2>4
<1>2. ota # NoOta /\ UNCHANGED junk
  BY DEF Feeds
<1>3. PICK n \in 1..Len(Way) : Drops(n) /\ (Ends(n) \/ Takes(n))
  BY DEF Feeds
<1>4. Len(Way') = Len(Way) - n /\ \A i \in 1..Len(Way') : Way'[i] = Way[n + i]
  BY <1>3 DEF Drops
<1>5. CASE n <= m
  <2>1. Known(m - n)'
    BY <1>1, <1>2, <1>3, <1>5, KnownFeeds
  <2>2. /\ m - n \in 0..Len(Way') /\ Len(Way') = (m - n) + 1
        /\ Way'[(m - n) + 1].t = "ota"
    BY <1>1, <1>4, <1>5
  <2> QED
    BY <2>1, <2>2 DEF Asked, Waiting
<1>6. CASE n > m
  <2>1. n = Len(Way) /\ Len(Way') = 0 /\ Way' = <<>> /\ n \in 1..n /\ n \in Nat
    BY <1>1, <1>4, <1>6
  <2>2. PICK r \in {"K", "OTADONE", "OTAERR"} : tx' = Append(tx, r) \/ tx' = tx
    BY <1>3 DEF Ends, Takes
  <2>3. \A x : Told(x)' => Told(x) \/ x = r
    <3>1. CASE tx' = tx
      BY <3>1 DEF Told
    <3>2. CASE tx' = Append(tx, r)
      BY <1>1, <3>2, ToldAppend DEF Replies
    <3> QED
      BY <2>2, <3>1, <3>2
  <2>4. CASE NoneOut(m)
    <3>1. ~Told("OTAREADY")'
      BY <2>2, <2>3, <2>4 DEF NoneOut
    <3> QED
      BY <2>1, <3>1 DEF NoneOut, Waiting
  <2>5. CASE OneOut(m)
    <3>1. ReadyOut(m)
      BY <1>2, <2>5 DEF OneOut, LineOut
    <3>2. ASSUME NEW c, NEW k \in 1..n, Gets(c, flash[ota.slot], k)
          PROVE  Len(c) > 0 /\ c[1].t # "cell"
      <4>1. CASE Len(flash[ota.slot]) > 0
        <5>1. 1 \in 1..Len(flash[ota.slot]) /\ k \in Nat
          BY <1>1, <4>1
        <5>2. Len(c) = Len(flash[ota.slot]) + k /\ c[1] = flash[ota.slot][1]
          BY <3>2, <5>1 DEF Gets
        <5>3. flash[ota.slot][1].t # "cell"
          BY <1>2, <3>1, <5>1 DEF ReadyOut, NoCell
        <5> QED
          BY <1>1, <4>1, <5>1, <5>2, <5>3
      <4>2. CASE Len(flash[ota.slot]) = 0
        <5>1. Way[1].t # "cell"
          BY <1>1, <2>5 DEF OneOut
        <5> QED
          BY <1>1, <2>1, <3>2, <4>2, <5>1 DEF Gets
      <4>3. Len(flash[ota.slot]) > 0 \/ Len(flash[ota.slot]) = 0
        BY <1>1
      <4> QED
        BY <4>1, <4>2, <4>3
    <3>3. CASE Ends(n)
      <4>1. ~(\E k \in 1..n : Gets(flash'[ota.slot], flash[ota.slot], k) /\ Complete(flash'[ota.slot]))
        <5>1. SUFFICES ASSUME NEW k \in 1..n, Gets(flash'[ota.slot], flash[ota.slot], k),
                              NEW s \in Images, flash'[ota.slot] = Image(s)
                       PROVE FALSE
          BY DEF Complete
        <5>2. s \in Nat \ {0}
          BY ImagesAssumption
        <5>3. Image(s)[1].t = "cell"
          BY <5>2 DEF Image, CellOf
        <5> QED
          BY <3>2, <5>1, <5>3
      <4>2. tx' = Append(tx, "OTAERR") /\ ota' = NoOta
        BY <3>3, <4>1 DEF Ends
      <4>3. ~Told("OTADONE")'
        BY <1>1, <2>5, <4>2, ToldAppend DEF Replies, OneOut
      <4> QED
        BY <2>1, <4>2, <4>3 DEF Answered, Waiting
    <3>4. CASE Takes(n)
      <4>1. /\ Gets(flash'[ota'.slot], flash[ota.slot], n)
            /\ \E i \in 1..Len(flash'[ota'.slot]) : flash'[ota'.slot][i].t # "cell"
        <5>1. Gets(flash'[ota'.slot], flash[ota.slot], n)
          BY <3>4 DEF Takes
        <5>2. /\ Len(flash'[ota'.slot]) = Len(flash[ota.slot]) + n
              /\ flash'[ota'.slot][Len(flash[ota.slot]) + n] = Way[n]
          BY <2>1, <5>1 DEF Gets
        <5>3. Len(flash[ota.slot]) + n \in 1..Len(flash[ota.slot]) + n /\ Way[n].t # "cell"
          <6>1. Way[n].t = "ota"
            BY <1>1, <2>1
          <6>2. Len(flash[ota.slot]) + n \in 1..Len(flash[ota.slot]) + n
            <7>1. Len(flash[ota.slot]) \in Nat /\ n \in Nat /\ n >= 1
              BY <1>1, <2>1
            <7> QED
              BY <7>1
          <6> QED
            BY <6>1, <6>2
        <5> QED
          BY <5>1, <5>2, <5>3
      <4>2. Spoiled(flash[ota.slot])'
        <5>1. Len(flash'[ota'.slot]) > 0
          BY <2>1, <3>2, <4>1
        <5>2. flash'[ota'.slot] # <<>>
          BY <5>1, EmptySeq
        <5> QED
          BY <4>1, <5>2 DEF Spoiled
      <4>3. ~Told("OTADONE")'
        <5>1. tx' = tx \/ tx' = Append(tx, "K")
          BY <3>4 DEF Takes
        <5>2. ~Told("OTADONE")
          BY <2>5 DEF OneOut
        <5>3. CASE tx' = tx
          BY <5>2, <5>3 DEF Told
        <5>4. CASE tx' = Append(tx, "K")
          BY <1>1, <5>2, <5>4, ToldAppend DEF Replies
        <5> QED
          BY <5>1, <5>3, <5>4
      <4> QED
        BY <2>1, <4>2, <4>3 DEF Answered, Waiting
    <3> QED
      BY <1>3, <3>3, <3>4
  <2> QED
    BY <1>1, <2>4, <2>5 DEF Known
<1> QED
  BY <1>1, <1>5, <1>6

LEMMA AskedMoves ==
  ASSUME IInv, IInv', UNCHANGED commands, Asked, DevMove
  PROVE  Waiting'
<1>m. PICK m \in 0..Len(Way) : Len(Way) = m + 1 /\ Way[m + 1].t = "ota" /\ Known(m)
  BY DEF Asked
<1>1. /\ Len(Way) \in Nat \ {0} /\ Len(Way') \in Nat
      /\ Way' = <<>> <=> Len(Way') = 0
      /\ Known(m) /\ m \in 0..Len(Way) /\ Way[Len(Way)].t = "ota"
      /\ m \in Nat /\ Len(Way) = m + 1
  BY <1>m, WayFacts, WayFactsNext DEF IInv, DevInv, DevTypeOK
<1>2. CASE Rests \/ Erases
  <2>1. Len(Way') = Len(Way) /\ Way'[Len(Way)].t = "ota"
    BY <1>1, <1>2 DEF Rests, Erases, Drops
  <2>2. Known(m)'
    BY <1>1, <1>2, KnownRests, KnownErases
  <2> QED
    BY <1>1, <2>1, <2>2 DEF Asked, Waiting
<1>3. CASE Reads
  <2>1. Len(Way') = m /\ \A i \in 1..m : Way'[i] = Way[1 + i]
    BY <1>1, <1>3 DEF Reads, Drops
  <2>2. CASE m > 0
    <3>1. Known(m - 1)'
      BY <1>1, <1>3, <2>2, KnownReads
    <3>2. /\ m - 1 \in 0..Len(Way') /\ Len(Way') = (m - 1) + 1
          /\ Way'[(m - 1) + 1].t = "ota"
      BY <1>1, <2>1, <2>2
    <3> QED
      BY <3>1, <3>2 DEF Asked, Waiting
  <2>3. CASE m = 0
    <3>1. NoneOut(0)
      BY <1>1, <1>3, <2>3 DEF Known, OneOut, Reads
    <3>2. ~Told("OTAREADY")'
      BY <1>3, <3>1 DEF Reads, NoneOut, Told
    <3> QED
      BY <2>1, <2>3, <3>2 DEF NoneOut, Waiting
  <2> QED
    BY <1>1, <2>2, <2>3
<1>4. CASE Opens \/ Fails
  BY <1>4, AskedBegins
<1>5. CASE Feeds
  BY <1>5, AskedFeeds
<1>6. CASE Resets
  <2>1. Known(0)' /\ Way' = <<>> /\ Len(Way') = 0 /\ ota' = NoOta
    BY <1>1, <1>6, KnownResets DEF Resets
  <2>2. CASE NoneOut(0)'
    BY <2>1, <2>2 DEF NoneOut, Waiting
  <2>3. CASE OneOut(0)'
    BY <2>1, <2>3 DEF OneOut, Answered, Waiting
  <2> QED
    BY <2>1, <2>2, <2>3 DEF Known
<1> QED
  BY <1>2, <1>3, <1>4, <1>5, <1>6 DEF DevMove

LEMMA AnsweredMoves ==
  ASSUME IInv, IInv', UNCHANGED commands, Answered, DevMove
  PROVE  Waiting'
<1>1. /\ Len(Way) = 0 /\ Len(Way') \in Nat /\ tx \in Seq(Replies) /\ Len(tx) \in Nat
      /\ Way' = <<>> <=> Len(Way') = 0
  BY WayFacts, WayFactsNext, LenProperties DEF IInv, DevInv, DevTypeOK, Answered
<1>2. Rests \/ Resets
  BY <1>1 DEF DevMove, Reads, Erases, Opens, Fails, AtLine, Feeds
<1>3. CASE Rests
  <2>1. Way' = <<>> /\ UNCHANGED <<tx, flash>> /\ ota' \in {ota, NoOta}
    BY <1>1, <1>3 DEF Rests, Drops
  <2>2. \A x : Told(x)' <=> Told(x)
    BY <2>1 DEF Told
  <2>3. CASE ota' = ota
    BY <2>1, <2>2, <2>3 DEF Answered, Waiting, FewCommands, Spoiled
  <2>4. CASE ota' = NoOta
    BY <2>1, <2>2, <2>4 DEF Answered, Waiting, FewCommands
  <2> QED
    BY <2>1, <2>3, <2>4
<1>4. CASE Resets
  <2>1. Way' = <<>> /\ Len(Way') = 0 /\ ota' = NoOta
    BY <1>1, <1>4 DEF Resets
  <2>2. PICK kept \in 0..Len(tx) : tx' = SubSeq(tx, 1, kept)
    BY <1>4 DEF Resets
  <2>3. /\ Told("OTADONE")' => Told("OTADONE")
        /\ Len(tx') = kept
        /\ \A i \in 1..kept : tx'[i] = tx[i]
    <3>1. 1 \in 1..Len(tx) + 1 /\ 1 <= kept + 1
      BY <1>1
    <3> QED
      BY <1>1, <2>2, <3>1, ToldSome
  <2>4. CASE ~Told("OTADONE")
    BY <2>1, <2>3, <2>4 DEF Answered, Waiting
  <2>5. CASE /\ tx # <<>>
             /\ \A i \in 1..Len(tx) : tx[i] = "OTAREADY" <=> i = Len(tx)
    <3>1. CASE kept = Len(tx)
      <4>1. tx' # <<>>
        BY <1>1, <2>3, <2>5, <3>1, EmptySeq
      <4> QED
        BY <2>1, <2>3, <2>5, <3>1, <4>1 DEF Answered, Waiting
    <3>2. CASE kept < Len(tx)
      <4>1. ~Told("OTAREADY")'
        BY <1>1, <2>3, <2>5, <3>2 DEF Told
      <4> QED
        BY <2>1, <4>1 DEF NoneOut, Waiting
    <3> QED
      BY <1>1, <3>1, <3>2
  <2> QED
    BY <2>4, <2>5 DEF Answered
<1> QED
  BY <1>2, <1>3, <1>4

LEMMA WaitingMoves ==
  ASSUME IInv, IInv', UNCHANGED commands, Waiting, DevMove
  PROVE  Waiting'
BY AskedMoves, AnsweredMoves, NoneMoves DEF Waiting

-----------------------------------------------------------------------------
(* A host that is sending                                                   *)

\* What every lemma below needs of the types, in both states.
Typed ==
  /\ Len(Way) \in Nat /\ tx \in Seq(Replies)
  /\ batch = <<>> \/ batch # <<>>
  /\ size \in Nat \ {0} /\ sent \in Nat /\ commands \in Nat
  /\ ota # NoOta => /\ ota.acc \in Nat /\ ota.slot \in Slots
                    /\ flash[ota.slot] \in Seq(Item) /\ Len(flash[ota.slot]) \in Nat

LEMMA Types ==
  ASSUME IInv, host # "idle"
  PROVE  Typed /\ Chunk \in Nat \ {0} /\ size \in Images
BY WayFacts, LenProperties, BoundsAssumption, ChunkAssumption, ImagesAssumption
   DEF Typed, IInv, DevInv, DevTypeOK, HostInv, HostTypeOK, Session

\* What a session holds of an image is an image only if it starts like one.
LEMMA FirstCell ==
  ASSUME NEW c, Complete(c)
  PROVE  Len(c) > 0 /\ \E n \in Images : c[1] = CellOf(n, 1) /\ c = Image(n) /\ Len(c) = n
<1>1. PICK n \in Images : c = Image(n)
  BY DEF Complete
<1>2. n \in Nat \ {0}
  BY ImagesAssumption
<1>3. Len(Image(n)) = n /\ Image(n)[1] = CellOf(n, 1)
  BY <1>2 DEF Image
<1> QED
  BY <1>1, <1>2, <1>3

LEMMA SpoiledIsNoImage ==
  ASSUME NEW c, Spoiled(c)
  PROVE  ~Complete(c)
<1>1. SUFFICES ASSUME NEW n \in Images, c = Image(n) PROVE FALSE
  BY DEF Complete
<1>2. n \in Nat \ {0}
  BY ImagesAssumption
<1>3. Len(c) = n /\ \A i \in 1..n : c[i] = CellOf(n, i)
  BY <1>1, <1>2 DEF Image
<1>4. \A i \in 1..n : c[i].t = "cell" /\ c[i].k = i
  BY <1>3 DEF CellOf
<1>5. 1 \in 1..n
  BY <1>2
<1> QED
  BY <1>3, <1>4, <1>5 DEF Spoiled

\* A session that takes more stays spoiled.
LEMMA SpoiledGets ==
  ASSUME NEW b \in Seq(Item), NEW c \in Seq(Item), NEW m \in Nat,
         Gets(c, b, m), Spoiled(b)
  PROVE  Spoiled(c)
<1>1. Len(b) \in Nat \ {0} /\ Len(c) = Len(b) + m
  BY LenProperties, EmptySeq DEF Gets, Spoiled
<1>2. 1 \in 1..Len(b) /\ c # <<>>
  BY <1>1, EmptySeq
<1>3. c[1] = b[1]
  BY <1>2 DEF Gets
<1>4. CASE b[1].k # 1
  BY <1>2, <1>3, <1>4 DEF Spoiled
<1>5. CASE \E i \in 1..Len(b) : b[i].t # "cell"
  <2>1. PICK i \in 1..Len(b) : b[i].t # "cell"
    BY <1>5
  <2>2. c[i] = b[i] /\ i \in 1..Len(c)
    BY <1>1, <2>1 DEF Gets
  <2> QED
    BY <1>2, <2>1, <2>2 DEF Spoiled
<1> QED
  BY <1>4, <1>5 DEF Spoiled

\* An upload whose session is gone, with no line on the way.
LEMMA NowOver ==
  ASSUME ota' = NoOta, ~Told("OTADONE")',
         \A i \in 1..Len(Way') : Way'[i].t # "ota"
  PROVE  Sent'
BY DEF Over, Sent

LEMMA NowReset ==
  ASSUME IInv, Resets, ~Told("OTADONE")
  PROVE  Sent'
<1>1. tx \in Seq(Replies) /\ Len(tx) \in Nat
  BY LenProperties DEF IInv, DevInv, DevTypeOK
<1>2. PICK kept \in 0..Len(tx) : tx' = SubSeq(tx, 1, kept)
  BY DEF Resets
<1>3. 1 \in 1..Len(tx) + 1 /\ 1 <= kept + 1
  BY <1>1
<1>4. ~Told("OTADONE")'
  BY <1>1, <1>2, <1>3, ToldSome
<1> QED
  BY <1>4, NowOver DEF Resets

LEMMA OverMoves ==
  ASSUME IInv, IInv', DevMove, UNCHANGED size, host # "idle", Over
  PROVE  Sent'
<1>1. Typed /\ Len(Way') \in Nat /\ Len(tx) \in Nat
  BY Types, WayFactsNext, LenProperties DEF IInv, DevInv, DevTypeOK, Typed
<1>2. Rests \/ Reads \/ Resets
  BY <1>1 DEF DevMove, Erases, Opens, Fails, AtLine, Feeds, Over, Typed
<1>3. UNCHANGED flash /\ ota' = NoOta
  BY <1>2 DEF Rests, Reads, Resets, Over
<1>4. \A i \in 1..Len(Way') : Way'[i].t # "ota"
  <2>1. CASE Rests \/ Reads
    <3>1. \E n \in 0..1 : \A i \in 1..Len(Way') : n + i \in 1..Len(Way) /\ Way'[i] = Way[n + i]
      BY <1>1, <2>1 DEF Rests, Reads, Drops, Typed
    <3> QED
      BY <3>1 DEF Over
  <2>2. CASE Resets
    BY <2>2 DEF Resets
  <2> QED
    BY <1>2, <2>1, <2>2
<1>5. Told("OTADONE")' => Told("OTADONE")
  <2>1. CASE Rests \/ Reads
    BY <2>1 DEF Rests, Reads, Told
  <2>2. CASE Resets
    <3>1. PICK kept \in 0..Len(tx) : tx' = SubSeq(tx, 1, kept)
      BY <2>2 DEF Resets
    <3>2. 1 \in 1..Len(tx) + 1 /\ 1 <= kept + 1
      BY <1>1
    <3> QED
      BY <1>1, <3>1, <3>2, ToldSome DEF Typed
  <2> QED
    BY <1>2, <2>1, <2>2
<1>6. Image(size)' = Image(size)
  BY DEF Image
<1> QED
  BY <1>3, <1>4, <1>5, <1>6 DEF Over, Sent

LEMMA RuinedMoves ==
  ASSUME IInv, IInv', DevMove, host # "idle", Ruined
  PROVE  Sent'
<1>1. Typed /\ Len(Way') \in Nat
  BY Types, WayFactsNext DEF IInv, DevInv, DevTypeOK
<1>2. Rests \/ Reads \/ Feeds \/ Resets
  BY <1>1 DEF DevMove, Erases, Opens, Fails, AtLine, Ruined, Typed
<1>3. CASE Rests \/ Reads
  <2>1. \A i \in 1..Len(Way') : Way'[i].t # "ota"
    BY <1>1, <1>3 DEF Rests, Reads, Drops, Ruined, Typed
  <2>2. ~Told("OTADONE")'
    BY <1>3 DEF Rests, Reads, Told, Ruined
  <2>3. CASE ota' = NoOta
    BY <2>1, <2>2, <2>3, NowOver
  <2>4. CASE ota' = ota
    <3>1. Spoiled(flash[ota.slot])'
      BY <1>3, <2>4 DEF Rests, Reads, Ruined, Spoiled
    <3> QED
      BY <2>1, <2>2, <2>4, <3>1 DEF Ruined, Sent
  <2> QED
    BY <1>3, <2>3, <2>4 DEF Rests, Reads
<1>4. CASE Feeds
  <2>1. PICK n \in 1..Len(Way) : Drops(n) /\ (Ends(n) \/ Takes(n))
    BY <1>4 DEF Feeds
  <2>2. \A i \in 1..Len(Way') : Way'[i].t # "ota"
    BY <1>1, <2>1 DEF Drops, Ruined, Typed
  <2>3. flash'[ota.slot] \in Seq(Item) /\ flash[ota.slot] \in Seq(Item)
    BY <1>1 DEF IInv, DevInv, DevTypeOK, Typed, Ruined
  <2>4. \A m \in 1..n : Gets(flash'[ota.slot], flash[ota.slot], m) => Spoiled(flash'[ota.slot])
    <3>1. ASSUME NEW m \in 1..n, Gets(flash'[ota.slot], flash[ota.slot], m)
          PROVE  Spoiled(flash'[ota.slot])
      <4>1. m \in Nat
        BY <1>1 DEF Typed
      <4>2. Spoiled(flash[ota.slot])
        BY DEF Ruined
      <4> QED
        BY <2>3, <3>1, <4>1, <4>2, SpoiledGets
    <3> QED
      BY <3>1
  <2>5. CASE Ends(n)
    <3>1. tx' = Append(tx, "OTAERR") /\ ota' = NoOta
      BY <2>4, <2>5, SpoiledIsNoImage DEF Ends
    <3>2. ~Told("OTADONE")'
      BY <1>1, <3>1, ToldAppend DEF Ruined, Replies, Typed
    <3> QED
      BY <2>2, <3>1, <3>2, NowOver
  <2>6. CASE Takes(n)
    <3>1. n \in 1..n
      BY <1>1 DEF Typed
    <3>2. Spoiled(flash'[ota.slot]) /\ ota'.slot = ota.slot /\ ota' # NoOta
      BY <2>4, <2>6, <3>1 DEF Takes
    <3>3. Spoiled(flash[ota.slot])'
      BY <3>2 DEF Spoiled
    <3>4. ~Told("OTADONE")'
      <4>1. CASE tx' = tx
        BY <4>1 DEF Told, Ruined
      <4>2. CASE tx' = Append(tx, "K")
        BY <1>1, <4>2, ToldAppend DEF Ruined, Replies, Typed
      <4> QED
        BY <2>6, <4>1, <4>2 DEF Takes
    <3> QED
      BY <2>2, <3>2, <3>3, <3>4 DEF Ruined, Sent
  <2> QED
    BY <2>1, <2>5, <2>6
<1>5. CASE Resets
  BY <1>5, NowReset DEF Ruined
<1> QED
  BY <1>2, <1>3, <1>4, <1>5

\* The session takes the image from its middle on.
LEMMA MissedMoves ==
  ASSUME IInv, IInv', DevMove, UNCHANGED <<host, size, sent, commands>>,
         host # "idle", Missed
  PROVE  Sent'
<1>1. Typed /\ Len(Way') \in Nat
  BY Types, WayFactsNext DEF IInv, DevInv, DevTypeOK
<1>2. PICK k \in 0..sent :
        /\ Len(Way) = sent - k
        /\ \A i \in 1..Len(Way) : Way[i] = CellOf(size, k + i)
        /\ batch # <<>> \/ k > 0
  BY DEF Missed
<1>3. \A i \in 1..Len(Way) : Way[i].t = "cell" /\ Way[i].k = k + i
  BY <1>2 DEF CellOf
<1>4. Rests \/ Reads \/ Feeds \/ Resets
  BY <1>1, <1>3 DEF DevMove, Erases, Opens, Fails, AtLine, Typed
<1>5. CASE Rests \/ Reads
  <2>1. \A i \in 1..Len(Way') : Way'[i].t # "ota"
    <3>1. PICK n \in {0, 1} : Drops(n)
      BY <1>5 DEF Rests, Reads
    <3>2. \A i \in 1..Len(Way') : n + i \in 1..Len(Way) /\ Way'[i] = Way[n + i]
      BY <1>1, <3>1 DEF Drops, Typed
    <3> QED
      BY <1>3, <3>2
  <2>2. \A x : Told(x)' = Told(x)
    BY <1>5 DEF Rests, Reads, Told
  <2>3. CASE ota' = NoOta
    BY <2>1, <2>2, <2>3, NowOver DEF Missed
  <2>4. CASE ota' = ota /\ ota' # NoOta
    <3>1. FirstChunk'
      BY <2>2 DEF FirstChunk, Missed, FewCommands
    <3>2. CASE Rests
      <4>1. /\ Len(Way') = sent - k /\ batch' = batch
            /\ \A i \in 1..Len(Way') : Way'[i] = CellOf(size, k + i)
        BY <1>1, <1>2, <2>4, <3>2 DEF Rests, Drops, Typed
      <4>2. Missed'
        BY <1>2, <2>2, <2>4, <3>1, <3>2, <4>1 DEF Missed, Rests
      <4> QED
        BY <4>2 DEF Sent
    <3>3. CASE Reads
      <4>1. k + 1 \in 0..sent /\ k + 1 > 0 /\ Len(Way') = sent - (k + 1)
        BY <1>1, <1>2, <3>3 DEF Reads, Drops, Typed
      <4>2. \A i \in 1..Len(Way') : Way'[i] = CellOf(size, (k + 1) + i)
        <5>1. \A i \in 1..Len(Way') : 1 + i \in 1..Len(Way) /\ k + (1 + i) = (k + 1) + i
          BY <1>1, <1>2, <4>1 DEF Typed
        <5> QED
          BY <1>2, <3>3, <5>1 DEF Reads, Drops
      <4>3. Missed'
        BY <2>2, <2>4, <3>1, <3>3, <4>1, <4>2 DEF Missed, Reads
      <4> QED
        BY <4>3 DEF Sent
    <3> QED
      BY <1>5, <3>2, <3>3
  <2> QED
    BY <1>5, <2>3, <2>4 DEF Rests, Reads
<1>6. CASE Feeds
  <2>1. PICK n \in 1..Len(Way) : Drops(n) /\ (Ends(n) \/ Takes(n))
    BY <1>6 DEF Feeds
  <2>2. \A i \in 1..Len(Way') : Way'[i].t # "ota"
    <3>1. \A i \in 1..Len(Way') : n + i \in 1..Len(Way) /\ Way'[i] = Way[n + i]
      BY <1>1, <2>1 DEF Drops, Typed
    <3> QED
      BY <1>3, <3>1
  <2>3. k > 0 /\ flash[ota.slot] = <<>> /\ Len(flash[ota.slot]) = 0
    BY <1>2, <1>6, EmptySeq DEF Feeds, Missed
  <2>4. \A m \in 1..n : Gets(flash'[ota.slot], flash[ota.slot], m) => Spoiled(flash'[ota.slot])
    <3>1. ASSUME NEW m \in 1..n, Gets(flash'[ota.slot], flash[ota.slot], m)
          PROVE  Spoiled(flash'[ota.slot])
      <4>1. m \in Nat \ {0} /\ 1 \in 1..m /\ 1 \in 1..Len(Way)
        BY <1>1, <2>1 DEF Typed
      <4>2. Len(flash'[ota.slot]) = m /\ flash'[ota.slot][1] = Way[1]
        BY <2>3, <3>1, <4>1 DEF Gets
      <4>3. Way[1].k # 1
        BY <1>2, <1>3, <2>3, <4>1
      <4>4. flash'[ota.slot] # <<>>
        BY <4>1, <4>2, EmptySeq
      <4> QED
        BY <4>2, <4>3, <4>4 DEF Spoiled
    <3> QED
      BY <3>1
  <2>5. CASE Ends(n)
    <3>1. tx' = Append(tx, "OTAERR") /\ ota' = NoOta
      BY <2>4, <2>5, SpoiledIsNoImage DEF Ends
    <3>2. ~Told("OTADONE")'
      BY <1>1, <3>1, ToldAppend DEF Missed, Replies, Typed
    <3> QED
      BY <2>2, <3>1, <3>2, NowOver
  <2>6. CASE Takes(n)
    <3>1. n \in 1..n
      BY <1>1 DEF Typed
    <3>2. Spoiled(flash'[ota.slot]) /\ ota'.slot = ota.slot /\ ota' # NoOta
      BY <2>4, <2>6, <3>1 DEF Takes
    <3>3. Spoiled(flash[ota.slot])'
      BY <3>2 DEF Spoiled
    <3>4. ~Told("OTADONE")'
      <4>1. CASE tx' = tx
        BY <4>1 DEF Told, Missed
      <4>2. CASE tx' = Append(tx, "K")
        BY <1>1, <4>2, ToldAppend DEF Missed, Replies, Typed
      <4> QED
        BY <2>6, <4>1, <4>2 DEF Takes
    <3> QED
      BY <2>2, <3>2, <3>3, <3>4 DEF Ruined, Sent
  <2> QED
    BY <2>1, <2>5, <2>6
<1>7. CASE Resets
  BY <1>7, NowReset DEF Missed
<1> QED
  BY <1>4, <1>5, <1>6, <1>7

\* Counting in chunks.
LEMMA Remainder ==
  ASSUME NEW C \in Nat \ {0}, NEW q \in Nat, NEW r \in 0..C - 1
  PROVE  (C * q + r) % C = r
<1> DEFINE x == C * q + r
<1>1. x \in Nat
  <2>1. C * q \in Nat
    OBVIOUS
  <2> QED
    BY <2>1
<1> HIDE DEF x
<1>2. PICK p \in Nat : x = C * p + (x % C) /\ x % C \in 0..C - 1
  <2>1. x \div C \in Nat /\ x = C * (x \div C) + (x % C) /\ x % C \in 0..C - 1
    BY <1>1
  <2> QED
    BY <2>1
<1>3. ASSUME NEW a \in Nat, NEW b \in Nat, NEW u \in 0..C - 1, NEW v \in 0..C - 1,
             C * a + u = C * b + v
      PROVE  a <= b
  <2>1. SUFFICES ASSUME a >= b + 1 PROVE FALSE
    OBVIOUS
  <2>2. C * a >= C * (b + 1)
    BY <2>1
  <2>3. C * (b + 1) = C * b + C
    OBVIOUS
  <2>4. C * a \in Nat /\ C * b \in Nat
    OBVIOUS
  <2> QED
    BY <1>3, <2>2, <2>3, <2>4
<1>4. p = q
  <2>1. C * p + (x % C) = C * q + r
    BY <1>2 DEF x
  <2>2. p <= q
    BY <1>2, <1>3, <2>1
  <2>3. q <= p
    BY <1>2, <1>3, <2>1
  <2> QED
    BY <2>2, <2>3
<1>5. C * q \in Nat /\ C * q + r = C * q + (x % C)
  BY <1>2, <1>4 DEF x
<1>6. x % C = r
  BY <1>2, <1>5
<1> QED
  BY <1>6 DEF x

LEMMA NextRemainder ==
  ASSUME NEW s \in Nat, NEW C \in Nat \ {0}
  PROVE  /\ s % C \in 0..C - 1 /\ s % C <= s
         /\ s < C => s % C = s
         /\ s = C => s % C = 0
         /\ (s + 1) % C = IF s % C = C - 1 THEN 0 ELSE (s % C) + 1
<1>1. /\ s % C \in 0..C - 1 /\ (s < C => s % C = s) /\ (s = C => s % C = 0)
  OBVIOUS
<1>2. PICK q \in Nat : s = C * q + (s % C)
  <2>1. s \div C \in Nat /\ s = C * (s \div C) + (s % C)
    OBVIOUS
  <2> QED
    BY <2>1
<1>3. C * q \in Nat /\ C * (q + 1) = C * q + C
  OBVIOUS
<1>4. CASE s % C = C - 1
  <2>1. s + 1 = C * (q + 1) + 0
    BY <1>2, <1>3, <1>4
  <2>2. 0 \in 0..C - 1 /\ q + 1 \in Nat
    OBVIOUS
  <2>3. (C * (q + 1) + 0) % C = 0
    BY <2>2, Remainder
  <2> QED
    BY <1>1, <1>2, <1>3, <1>4, <2>1, <2>3
<1>5. CASE s % C # C - 1
  <2>1. s + 1 = C * q + ((s % C) + 1)
    BY <1>1, <1>2, <1>3
  <2>2. (s % C) + 1 \in 0..C - 1
    BY <1>1, <1>5
  <2>3. (C * q + ((s % C) + 1)) % C = (s % C) + 1
    BY <2>2, Remainder
  <2> QED
    BY <1>1, <1>2, <1>3, <1>5, <2>1, <2>3
<1> QED
  BY <1>1, <1>2, <1>3, <1>4, <1>5

\* The first bytes of the image are those the session is about to get.
LEMMA NowOpen ==
  ASSUME IInv', Typed, Place, UNCHANGED <<host, size, sent>>,
         ota' # NoOta, flash'[ota'.slot] = <<>>, ota'.acc = 0,
         ~Told("OTADONE")', FirstChunk', Chunk \in Nat \ {0},
         Len(Way') = sent,
         \A i \in 1..Len(Way') : Way'[i] = CellOf(size, i)
  PROVE  Sent'
<1>1. Len(flash'[ota'.slot]) = 0 /\ sent \in Nat
  BY EmptySeq DEF Typed
<1>2. \A i \in 1..Len(Way') : 0 + i = i
  BY <1>1
<1>3. \A i \in 1..Len(Way') : Way'[i] = CellOf(size, 0 + i)
  BY <1>2
<1>4. CASE batch' # <<>>
  <2>1. 0 \in 0..sent /\ Len(Way') = sent - 0
    BY <1>1
  <2>2. Missed'
    BY <1>3, <1>4, <2>1 DEF Missed
  <2> QED
    BY <2>2 DEF Sent
<1>5. CASE batch' = <<>>
  <2>1. Clean(flash[ota.slot])'
    BY <1>1 DEF Clean
  <2>2. Len(flash'[ota'.slot]) + Len(Way') = sent
    BY <1>1
  <2>3. \A i \in 1..Len(Way') : Way'[i] = CellOf(size, Len(flash'[ota'.slot]) + i)
    BY <1>1, <1>3
  <2>4. ASSUME FewCommands' PROVE Paced'
    <3>1. ~Told("K")' /\ sent <= Chunk /\ (host = "send" => sent < Chunk)
      BY <2>4 DEF FirstChunk
    <3>2. host = "send" => sent % Chunk = sent
      BY <1>1, <3>1, NextRemainder
    <3>3. host = "ack" => sent = Chunk
      <4>1. sent < Chunk => sent % Chunk = sent
        BY <1>1, NextRemainder
      <4> QED
        BY <1>1, <3>1, <4>1 DEF Place
    <3>4. CASE host = "send"
      BY <1>1, <3>1, <3>2, <3>4 DEF Paced
    <3>5. CASE host = "ack"
      BY <1>1, <3>1, <3>3, <3>5 DEF Paced
    <3>6. CASE host = "done"
      BY <1>1, <3>1, <3>6 DEF Paced
    <3>7. CASE host \notin {"send", "ack", "done"}
      BY <3>7 DEF Paced
    <3> QED
      BY <3>4, <3>5, <3>6, <3>7
  <2>5. InOrder'
    BY <1>5, <2>1, <2>2, <2>3, <2>4 DEF InOrder
  <2> QED
    BY <2>5 DEF Sent
<1> QED
  BY <1>4, <1>5

LEMMA InOrderMoves ==
  ASSUME IInv, IInv', DevMove, UNCHANGED <<host, size, sent, commands>>, Place,
         host # "idle", InOrder
  PROVE  Sent'
<1>1. Typed /\ Len(Way') \in Nat /\ size \in Images /\ Chunk \in Nat \ {0}
  BY Types, WayFactsNext DEF IInv, DevInv, DevTypeOK
<1> DEFINE b == flash[ota.slot]
<1>2. /\ Len(b) \in Nat /\ Len(b) + Len(Way) = sent
      /\ \A i \in 1..Len(b) : b[i] = CellOf(size, i)
      /\ \A i \in 1..Len(Way) : Way[i] = CellOf(size, Len(b) + i)
  BY <1>1 DEF InOrder, Typed, Clean
<1> HIDE DEF b
<1>3. \A i \in 1..Len(Way) : Way[i].t = "cell"
  <2>1. \A k : CellOf(size, k).t = "cell"
    BY DEF CellOf
  <2> QED
    BY <1>2, <2>1
<1>4. Rests \/ Feeds \/ Resets
  BY <1>1, <1>3 DEF DevMove, Reads, Erases, Opens, Fails, AtLine, Typed, InOrder
<1>5. CASE Rests
  <2>1. Len(Way') = Len(Way) /\ \A i \in 1..Len(Way') : Way'[i] = Way[i]
    BY <1>1, <1>5 DEF Rests, Drops, Typed
  <2>2. \A x : Told(x)' = Told(x) /\ ToldOnce(x)' = ToldOnce(x)
    BY <1>5 DEF Rests, Told, ToldOnce
  <2>3. CASE ota' = NoOta
    <3>1. \A i \in 1..Len(Way') : Way'[i].t # "ota"
      BY <1>3, <2>1
    <3> QED
      BY <2>2, <2>3, <3>1, NowOver DEF InOrder
  <2>4. CASE ota' = ota
    <3>1. batch' = <<>> /\ UNCHANGED flash /\ ota # NoOta
      BY <1>5 DEF Rests, InOrder
    <3>2. Paced => Paced'
      BY <2>2, <2>4, <3>1 DEF Paced
    <3>3. InOrder'
      BY <2>1, <2>2, <2>4, <3>1, <3>2 DEF InOrder, Clean, FewCommands
    <3> QED
      BY <3>3 DEF Sent
  <2> QED
    BY <1>5, <2>3, <2>4 DEF Rests
<1>6. CASE Feeds
  <2>1. PICK n \in 1..Len(Way) : Drops(n) /\ (Ends(n) \/ Takes(n))
    BY <1>6 DEF Feeds
  <2>2. /\ Len(Way') = Len(Way) - n /\ n \in Nat \ {0} /\ n <= Len(Way)
        /\ \A i \in 1..Len(Way') : n + i \in 1..Len(Way) /\ Way'[i] = Way[n + i]
    BY <1>1, <2>1 DEF Drops, Typed
  <2>3. \A i \in 1..Len(Way') : Way'[i].t # "ota"
    BY <1>3, <2>2
  <2>4. ASSUME NEW c, NEW m \in 1..n, Gets(c, b, m)
        PROVE  Len(c) = Len(b) + m /\ \A i \in 1..Len(c) : c[i] = CellOf(size, i)
    <3>1. Len(c) = Len(b) + m
      BY <2>4 DEF Gets
    <3>2. ASSUME NEW i \in 1..Len(c) PROVE c[i] = CellOf(size, i)
      <4>1. CASE i <= Len(b)
        BY <1>2, <2>4, <3>1, <3>2, <4>1 DEF Gets
      <4>2. CASE i > Len(b)
        <5>1. i - Len(b) \in 1..m /\ i - Len(b) \in 1..Len(Way) /\ Len(b) + (i - Len(b)) = i
          BY <1>1, <1>2, <2>2, <3>1, <4>2
        <5>2. c[Len(b) + (i - Len(b))] = Way[i - Len(b)]
          BY <2>4, <5>1 DEF Gets
        <5>3. Way[i - Len(b)] = CellOf(size, Len(b) + (i - Len(b)))
          BY <1>2, <5>1
        <5> QED
          BY <5>1, <5>2, <5>3
      <4> QED
        BY <1>2, <3>1, <4>1, <4>2
    <3> QED
      BY <3>1, <3>2
  <2>5. CASE Ends(n)
    <3>1. CASE tx' = Append(tx, "OTAERR")
      <4>1. ~Told("OTADONE")'
        BY <1>1, <3>1, ToldAppend DEF InOrder, Replies, Typed
      <4> QED
        BY <2>3, <2>5, <4>1, NowOver DEF Ends
    <3>2. CASE \E m \in 1..n : Complete(flash'[ota.slot]) /\ Gets(flash'[ota.slot], b, m)
      <4> DEFINE c == flash'[ota.slot]
      <4>1. Complete(c) /\ \A i \in 1..Len(c) : c[i] = CellOf(size, i)
        BY <2>4, <3>2
      <4>2. PICK s \in Images : Len(c) > 0 /\ c[1] = CellOf(s, 1) /\ c = Image(s)
        BY <4>1, FirstCell
      <4>3. CellOf(s, 1) = CellOf(size, 1)
        <5>1. s \in Nat \ {0} /\ Len(Image(s)) = s
          BY ImagesAssumption DEF Image
        <5> QED
          BY <4>1, <4>2, <5>1
      <4>4. s = size
        BY <4>3 DEF CellOf
      <4>5. flash'[ota.slot] = Image(size)' /\ ota.slot \in Slots
        BY <1>1, <4>2, <4>4 DEF Image, InOrder, Typed
      <4> QED
        BY <2>3, <2>5, <4>5 DEF Ends, Over, Sent
    <3> QED
      BY <2>5, <3>1, <3>2 DEF Ends, b
  <2>6. CASE Takes(n)
    <3>1. /\ ota' # NoOta /\ ota'.slot = ota.slot /\ batch' = <<>>
          /\ Gets(flash'[ota.slot], b, n) /\ n \in 1..n
      BY <1>6, <2>2, <2>6 DEF Takes, Feeds, b
    <3>2. flash'[ota'.slot] = flash'[ota.slot]
      BY <3>1
    <3>3. /\ Len(flash'[ota'.slot]) = Len(b) + n
          /\ \A i \in 1..Len(flash'[ota'.slot]) : flash'[ota'.slot][i] = CellOf(size, i)
      BY <2>4, <3>1, <3>2
    <3>4. Clean(flash[ota.slot])'
      BY <3>3 DEF Clean
    <3>5. Len(flash'[ota'.slot]) + Len(Way') = sent'
      <4>1. (Len(b) + n) + (Len(Way) - n) = Len(b) + Len(Way)
        BY <1>1, <1>2, <2>2 DEF Typed
      <4> QED
        BY <1>2, <2>2, <3>3, <4>1
    <3>6. \A i \in 1..Len(Way') : Way'[i] = CellOf(size', Len(flash'[ota'.slot]) + i)
      <4>1. \A i \in 1..Len(Way') : Len(b) + (n + i) = (Len(b) + n) + i
        BY <1>2, <2>2
      <4>2. \A i \in 1..Len(Way') : n + i \in 1..Len(Way) /\ Way'[i] = Way[n + i]
        BY <1>1, <2>2 DEF Drops, Typed
      <4>3. \A i \in 1..Len(Way') : Way'[i] = CellOf(size, Len(b) + (n + i))
        BY <1>2, <4>2
      <4>4. size' = size
        OBVIOUS
      <4> QED
        BY <3>3, <4>1, <4>3, <4>4
    <3>7. \A x : Told(x)' => Told(x) \/ (x = "K" /\ tx' = Append(tx, "K"))
      <4>1. CASE tx' = tx
        BY <4>1 DEF Told
      <4>2. CASE tx' = Append(tx, "K")
        BY <1>1, <4>2, ToldAppend DEF Replies, Typed
      <4> QED
        BY <2>6, <4>1, <4>2 DEF Takes
    <3>8. ASSUME FewCommands' PROVE Paced'
      <4>1. Paced /\ ota.acc \in Nat /\ sent \in Nat
        BY <1>1, <3>8 DEF InOrder, FewCommands, Typed
      <4> DEFINE got == Len(flash'[ota'.slot])
      <4>2. got = Len(b) + n /\ got <= sent /\ got \in Nat /\ Len(b) < sent
        BY <1>1, <1>2, <2>2, <3>3 DEF Typed
      <4> HIDE DEF got
      <4>3. CASE host = "send"
        <5> DEFINE r == sent % Chunk
        <5>1. r \in Nat /\ r < Chunk
          BY <1>1, <4>1
        <5>2. /\ ~Told("K") /\ Len(b) >= sent - r
              /\ ota.acc = Len(b) - (sent - r)
          BY <4>1, <4>3 DEF Paced, b
        <5> HIDE DEF r
        <5>3. ota.acc + n < Chunk
          <6>1. Len(b) + n <= sent /\ Len(b) \in Nat /\ n \in Nat
            BY <1>2, <2>2, <4>2
          <6> QED
            BY <1>1, <4>1, <5>1, <5>2, <6>1
        <5>4. ota'.acc = ota.acc + n /\ tx' = tx
          BY <1>1, <2>2, <2>6, <4>1, <5>3 DEF Takes
        <5>5. ota'.acc = got - (sent - r) /\ got >= sent - r
          BY <1>2, <2>2, <4>1, <4>2, <5>1, <5>2, <5>4
        <5>6. ~Told("K")'
          BY <5>2, <5>4 DEF Told
        <5> QED
          BY <4>3, <5>5, <5>6 DEF Paced, got, r
      <4>4. CASE host = "ack"
        <5>1. ~Told("K") /\ ota.acc = Len(b) - (sent - Chunk) /\ Len(b) >= sent - Chunk
          BY <4>1, <4>2, <4>4 DEF Paced, b
        <5>2. CASE got = sent
          <6>1. ota.acc + n = Chunk
            <7>1. Len(b) + n = sent /\ Len(b) \in Nat /\ n \in Nat
              BY <1>2, <2>2, <4>2, <5>2
            <7> QED
              BY <1>1, <4>1, <5>1, <7>1
          <6>2. ota'.acc = 0 /\ tx' = Append(tx, "K")
            BY <1>1, <2>2, <2>6, <4>1, <6>1 DEF Takes
          <6>3. ToldOnce("K")'
            <7>1. ToldOnce("K")
              BY <5>1 DEF Told, ToldOnce
            <7> QED
              BY <1>1, <5>1, <6>2, <7>1, ToldAppend DEF Replies, Typed
          <6>4. got >= sent - Chunk /\ ~(got < sent)
            BY <1>1, <4>1, <4>2, <5>2
          <6> QED
            BY <4>4, <5>2, <6>2, <6>3, <6>4 DEF Paced, got
        <5>3. CASE got < sent
          <6>1. ota.acc + n < Chunk
            BY <1>1, <1>2, <2>2, <4>1, <4>2, <5>1, <5>3
          <6>2. ota'.acc = ota.acc + n /\ tx' = tx
            BY <1>1, <2>2, <2>6, <4>1, <6>1 DEF Takes
          <6>3. ~Told("K")'
            BY <5>1, <6>2 DEF Told
          <6>4. ota'.acc = got - (sent - Chunk) /\ got >= sent - Chunk /\ got # sent
            BY <1>1, <1>2, <2>2, <4>1, <4>2, <5>1, <5>3, <6>2
          <6> QED
            BY <4>4, <6>3, <6>4 DEF Paced, got
        <5> QED
          BY <4>1, <4>2, <5>2, <5>3
      <4>5. CASE host = "done"
        <5>1. sent - Len(b) <= Chunk
          BY <4>1, <4>5 DEF Paced, b
        <5>2. sent - got <= Chunk
          BY <1>1, <1>2, <2>2, <4>1, <4>2, <5>1
        <5> QED
          BY <4>5, <5>2 DEF Paced, got
      <4>6. CASE host \notin {"send", "ack", "done"}
        BY <4>6 DEF Paced
      <4> QED
        BY <4>3, <4>4, <4>5, <4>6
    <3>9. InOrder'
      BY <3>1, <3>4, <3>5, <3>6, <3>7, <3>8 DEF InOrder
    <3> QED
      BY <3>9 DEF Sent
  <2> QED
    BY <2>1, <2>5, <2>6
<1>7. CASE Resets
  BY <1>7, NowReset DEF InOrder
<1> QED
  BY <1>4, <1>5, <1>6, <1>7

\* The line of this upload is behind p command lines.
LEMMA EarlyMoves ==
  ASSUME IInv, IInv', DevMove, UNCHANGED <<host, size, sent, commands>>, Place,
         host # "idle", Early
  PROVE  Sent'
<1>1. /\ Typed /\ Len(Way) \in Nat /\ Len(Way') \in Nat /\ sent \in Nat /\ commands \in Nat
      /\ Chunk \in Nat \ {0} /\ tx \in Seq(Replies)
      /\ ota # NoOta => ota.acc \in Nat
  BY Types, WayFactsNext DEF IInv, DevInv, DevTypeOK, Typed
<1>2. PICK p \in 0..Len(Way) :
        /\ Len(Way) = p + 1 + sent
        /\ \A i \in 1..p : Way[i].t = "cmd"
        /\ Way[p + 1].t = "ota"
        /\ \A i \in 1..sent : Way[p + 1 + i] = CellOf(size, i)
        /\ ota = NoOta \/ (NoCell(flash[ota.slot]) /\ ota.acc + p <= commands)
  BY DEF Early
<1>3. p \in Nat /\ Way[1].t # "cell" /\ (Way[1].t = "ota" => p = 0)
  BY <1>1, <1>2
\* What is left once the line itself is gone are cells.
<1>4. ASSUME NEW n \in p + 1..Len(Way), Drops(n)
      PROVE  \A i \in 1..Len(Way') : Way'[i].t = "cell"
  <2>1. \A i \in 1..Len(Way') : n - (p + 1) + i \in 1..sent /\ p + 1 + (n - (p + 1) + i) = n + i
    BY <1>1, <1>2, <1>3, <1>4 DEF Drops
  <2>2. \A i \in 1..Len(Way') : Way'[i] = CellOf(size, n - (p + 1) + i)
    BY <1>2, <1>4, <2>1 DEF Drops
  <2>3. \A k : CellOf(size, k).t = "cell"
    BY DEF CellOf
  <2> QED
    BY <2>2, <2>3
\* Before that, the same line is behind fewer commands.
<1>5. ASSUME NEW n \in 0..p, Drops(n), ~junk',
             ~Told("OTADONE")', ~Told("OTAREADY")', FirstChunk',
             ota' = NoOta \/ (NoCell(flash'[ota'.slot]) /\ ota'.acc + (p - n) <= commands)
      PROVE  Sent'
  <2>1. /\ p - n \in 0..Len(Way') /\ Len(Way') = (p - n) + 1 + sent
        /\ \A i \in 1..Len(Way') : Way'[i] = Way[n + i]
    BY <1>1, <1>2, <1>3, <1>5 DEF Drops
  <2>2. \A i \in 1..p - n : Way'[i].t = "cmd"
    <3>1. \A i \in 1..p - n : n + i \in 1..p /\ i \in 1..Len(Way')
      BY <1>1, <1>3, <2>1
    <3> QED
      BY <1>2, <2>1, <3>1
  <2>3. Way'[(p - n) + 1].t = "ota"
    <3>1. n + ((p - n) + 1) = p + 1 /\ (p - n) + 1 \in 1..Len(Way')
      BY <1>1, <1>3, <2>1
    <3> QED
      BY <1>2, <2>1, <3>1
  <2>4. \A i \in 1..sent : Way'[(p - n) + 1 + i] = CellOf(size, i)
    <3>1. \A i \in 1..sent : n + ((p - n) + 1 + i) = p + 1 + i /\ (p - n) + 1 + i \in 1..Len(Way')
      BY <1>1, <1>3, <2>1
    <3> QED
      BY <1>2, <2>1, <3>1
  <2>5. Early'
    BY <1>5, <2>1, <2>2, <2>3, <2>4 DEF Early
  <2> QED
    BY <2>5 DEF Sent
<1>6. CASE Rests \/ Reads
  <2>1. \A x : Told(x)' = Told(x)
    BY <1>6 DEF Rests, Reads, Told
  <2>2. ~Told("OTADONE")' /\ ~Told("OTAREADY")' /\ FirstChunk'
    BY <2>1 DEF Early, FirstChunk, FewCommands
  <2>3. CASE Rests
    <3>1. Drops(0) /\ ~junk' /\ 0 \in 0..p
      BY <1>3, <2>3 DEF Rests, Early
    <3>2. ota' = NoOta \/ (NoCell(flash'[ota'.slot]) /\ ota'.acc + (p - 0) <= commands)
      BY <1>1, <1>2, <1>3, <2>3 DEF Rests
    <3> QED
      BY <1>5, <2>2, <3>1, <3>2
  <2>4. CASE Reads
    <3>1. Drops(1) /\ ~junk' /\ p # 0
      BY <1>2, <1>3, <2>4 DEF Reads, Early
    <3>2. 1 \in 0..p
      BY <1>3, <3>1
    <3>3. ota' = NoOta \/ (NoCell(flash'[ota'.slot]) /\ ota'.acc + (p - 1) <= commands)
      BY <1>1, <1>2, <1>3, <2>4 DEF Reads
    <3> QED
      BY <1>5, <2>2, <3>1, <3>2, <3>3
  <2> QED
    BY <1>6, <2>3, <2>4
<1>7. CASE Erases
  <2>1. Drops(0) /\ ~junk' /\ p = 0 /\ UNCHANGED <<tx, ota>>
    BY <1>3, <1>7 DEF Erases, AtLine
  <2>2. ota' = NoOta \/ (NoCell(flash'[ota'.slot]) /\ ota'.acc + (p - 0) <= commands)
    <3>1. ota # NoOta => NoCell(flash'[ota.slot]) /\ ota.acc = 0
      BY <1>7, EmptySeq DEF Erases, NoCell
    <3> QED
      BY <1>1, <1>2, <2>1, <3>1 DEF NoCell
  <2>3. \A x : Told(x)' = Told(x)
    BY <2>1 DEF Told
  <2>4. ~Told("OTADONE")' /\ ~Told("OTAREADY")' /\ FirstChunk'
    BY <2>3 DEF Early, FirstChunk, FewCommands
  <2>5. 0 \in 0..p
    BY <1>3
  <2> QED
    BY <1>5, <2>1, <2>2, <2>4, <2>5
<1>8. CASE Opens \/ Fails
  <2>1. Drops(1) /\ p = 0 /\ 1 \in p + 1..Len(Way) /\ Len(Way') = sent
    BY <1>1, <1>2, <1>3, <1>8 DEF Opens, Fails, AtLine, Drops
  <2>2. \A i \in 1..Len(Way') : Way'[i] = CellOf(size, i)
    <3>1. \A i \in 1..Len(Way') : i \in 1..sent /\ p + 1 + i = 1 + i
      BY <1>1, <2>1
    <3> QED
      BY <1>2, <2>1, <3>1 DEF Drops
  <2>3. /\ Told("OTADONE")' => Told("OTADONE")
        /\ Told("K")' => Told("K")
    BY <1>1, <1>8, ToldAppend DEF Opens, Fails, Replies
  <2>4. ~Told("OTADONE")' /\ FirstChunk'
    BY <2>3 DEF Early, FirstChunk, FewCommands
  <2>5. CASE ota' = NoOta
    <3>1. \A i \in 1..Len(Way') : Way'[i].t # "ota"
      BY <1>4, <2>1
    <3> QED
      BY <2>4, <2>5, <3>1, NowOver
  <2>6. CASE ota' # NoOta
    <3>1. flash'[ota'.slot] = <<>> /\ ota'.acc = 0
      BY <1>8, <2>6 DEF Opens, Fails
    <3> QED
      BY <1>1, <2>1, <2>2, <2>4, <2>6, <3>1, NowOpen
  <2> QED
    BY <2>5, <2>6
<1>9. CASE Feeds
  <2>1. /\ ota # NoOta /\ ~junk'
        /\ NoCell(flash[ota.slot]) /\ ota.acc + p <= commands /\ ota.acc \in Nat
        /\ Len(flash[ota.slot]) \in Nat
    BY <1>1, <1>2, <1>9 DEF Feeds, Early, Typed
  <2>2. PICK n \in 1..Len(Way) : Drops(n) /\ (Ends(n) \/ Takes(n))
    BY <1>9 DEF Feeds
  <2>3. n \in Nat \ {0} /\ n \in 1..n
    BY <1>1
  <2>4. ASSUME NEW c, NEW m \in 1..n, Gets(c, flash[ota.slot], m)
        PROVE  Len(c) > 0 /\ c[1].t # "cell"
    <3>1. m \in Nat \ {0} /\ Len(c) = Len(flash[ota.slot]) + m
      BY <2>3, <2>4 DEF Gets
    <3>2. CASE Len(flash[ota.slot]) = 0
      <4>1. 1 \in 1..m /\ c[Len(flash[ota.slot]) + 1] = Way[1]
        BY <2>4, <3>1 DEF Gets
      <4> QED
        BY <1>3, <3>1, <3>2, <4>1
    <3>3. CASE Len(flash[ota.slot]) > 0
      <4>1. 1 \in 1..Len(flash[ota.slot]) /\ c[1] = flash[ota.slot][1]
        BY <2>1, <2>4, <3>3 DEF Gets
      <4> QED
        BY <2>1, <3>1, <4>1 DEF NoCell
    <3> QED
      BY <2>1, <3>2, <3>3
  <2>5. CASE Ends(n)
    <3>1. tx' = Append(tx, "OTAERR") /\ ota' = NoOta
      <4>1. \A m \in 1..n : Gets(flash'[ota.slot], flash[ota.slot], m) => ~Complete(flash'[ota.slot])
        <5>1. ASSUME NEW m \in 1..n, Gets(flash'[ota.slot], flash[ota.slot], m),
                     Complete(flash'[ota.slot])
              PROVE  FALSE
          <6>1. Len(flash'[ota.slot]) > 0 /\ flash'[ota.slot][1].t # "cell"
            BY <2>4, <5>1
          <6>2. PICK k : flash'[ota.slot][1] = CellOf(k, 1)
            BY <5>1, FirstCell
          <6>3. CellOf(k, 1).t = "cell"
            BY DEF CellOf
          <6> QED
            BY <6>1, <6>2, <6>3
        <5> QED
          BY <5>1
      <4> QED
        BY <2>5, <4>1 DEF Ends
    <3>2. \A x : Told(x)' <=> Told(x) \/ x = "OTAERR"
      BY <1>1, <3>1, ToldAppend DEF Replies
    <3>3. ~Told("OTADONE")' /\ ~Told("OTAREADY")' /\ FirstChunk'
      BY <3>2 DEF Early, FirstChunk, FewCommands
    <3>4. CASE n <= p
      <4>1. n \in 0..p
        BY <1>3, <2>3, <3>4
      <4> QED
        BY <1>5, <2>1, <2>2, <3>1, <3>3, <4>1
    <3>5. CASE n > p
      <4>1. n \in p + 1..Len(Way)
        BY <1>1, <1>3, <3>5
      <4>2. \A i \in 1..Len(Way') : Way'[i].t # "ota"
        BY <1>4, <2>2, <4>1
      <4> QED
        BY <3>1, <3>3, <4>2, NowOver
    <3> QED
      BY <1>3, <2>3, <3>4, <3>5
  <2>6. CASE Takes(n)
    <3>1. /\ Gets(flash'[ota.slot], flash[ota.slot], n)
          /\ ota'.slot = ota.slot /\ ota' # NoOta
      BY <2>6 DEF Takes
    <3>2. /\ tx' = tx \/ tx' = Append(tx, "K")
          /\ Told("OTADONE")' => Told("OTADONE")
          /\ Told("OTAREADY")' => Told("OTAREADY")
      <4>1. CASE tx' = tx
        BY <4>1 DEF Told
      <4>2. CASE tx' = Append(tx, "K")
        BY <1>1, <4>2, ToldAppend DEF Replies
      <4> QED
        BY <2>6, <4>1, <4>2 DEF Takes
    <3>3. CASE n <= p
      <4>1. n \in 0..p
        BY <1>3, <2>3, <3>3
      <4>2. NoCell(flash'[ota.slot])
        <5>1. ASSUME NEW i \in 1..Len(flash'[ota.slot]) PROVE flash'[ota.slot][i].t # "cell"
          <6>1. CASE i <= Len(flash[ota.slot])
            <7>1. i \in 1..Len(flash[ota.slot]) /\ flash'[ota.slot][i] = flash[ota.slot][i]
              BY <2>1, <3>1, <5>1, <6>1 DEF Gets
            <7> QED
              BY <2>1, <7>1 DEF NoCell
          <6>2. CASE i > Len(flash[ota.slot])
            <7> DEFINE j == i - Len(flash[ota.slot])
            <7>1. j \in 1..n /\ Len(flash[ota.slot]) + j = i /\ j \in 1..p
              BY <1>3, <2>1, <2>3, <3>1, <3>3, <5>1, <6>2 DEF Gets
            <7> HIDE DEF j
            <7>2. flash'[ota.slot][Len(flash[ota.slot]) + j] = Way[j]
              BY <3>1, <7>1 DEF Gets
            <7> QED
              BY <1>2, <7>1, <7>2
          <6> QED
            BY <2>1, <6>1, <6>2
        <5> QED
          BY <5>1 DEF NoCell
      <4>3. NoCell(flash'[ota'.slot])
        BY <3>1, <4>2 DEF NoCell
      <4>4. CASE ota.acc + n >= Chunk
        <5>1. ota'.acc = ota.acc + n - Chunk /\ ~FewCommands
          BY <1>1, <1>3, <2>1, <2>3, <2>6, <3>3, <4>4 DEF Takes, FewCommands
        <5>2. ota'.acc + (p - n) <= commands
          BY <1>1, <1>3, <2>1, <2>3, <5>1
        <5>3. FirstChunk'
          BY <5>1 DEF FirstChunk, FewCommands
        <5> QED
          BY <1>5, <2>1, <2>2, <3>2, <4>1, <4>3, <5>2, <5>3 DEF Early
      <4>5. CASE ~(ota.acc + n >= Chunk)
        <5>1. ota'.acc = ota.acc + n /\ tx' = tx
          BY <2>6, <4>5 DEF Takes
        <5>2. ota'.acc + (p - n) <= commands
          BY <1>1, <1>3, <2>1, <2>3, <5>1
        <5>3. FirstChunk'
          BY <5>1 DEF FirstChunk, FewCommands, Early, Told
        <5> QED
          BY <1>5, <2>1, <2>2, <3>2, <4>1, <4>3, <5>2, <5>3 DEF Early
      <4> QED
        BY <4>4, <4>5
    <3>4. CASE n > p
      <4>1. n \in p + 1..Len(Way) /\ p + 1 \in 1..n
        BY <1>1, <1>3, <2>3, <3>4
      <4>2. \A i \in 1..Len(Way') : Way'[i].t # "ota"
        BY <1>4, <2>2, <4>1
      <4>3. Spoiled(flash'[ota.slot])
        <5>1. /\ Len(flash'[ota.slot]) = Len(flash[ota.slot]) + n
              /\ flash'[ota.slot][Len(flash[ota.slot]) + (p + 1)] = Way[p + 1]
          BY <3>1, <4>1 DEF Gets
        <5>2. Len(flash[ota.slot]) + (p + 1) \in 1..Len(flash[ota.slot]) + n
          <6>1. Len(flash[ota.slot]) \in Nat /\ p \in Nat /\ n \in Nat /\ n > p
            BY <1>3, <2>1, <2>3, <3>4
          <6>2. \A a, x, y \in Nat : y > x => a + (x + 1) \in 1..a + y
            OBVIOUS
          <6> QED
            BY <6>1, <6>2
        <5>3. flash'[ota.slot] # <<>>
          BY <2>1, <2>3, <5>1, EmptySeq
        <5> QED
          BY <1>2, <5>1, <5>2, <5>3 DEF Spoiled
      <4>4. Spoiled(flash[ota.slot])'
        BY <3>1, <4>3 DEF Spoiled
      <4>5. Ruined'
        BY <3>1, <3>2, <4>2, <4>4 DEF Ruined, Early
      <4> QED
        BY <4>5 DEF Sent
    <3> QED
      BY <1>3, <2>3, <3>3, <3>4
  <2> QED
    BY <2>2, <2>5, <2>6
<1>10. CASE Resets
  BY <1>10, NowReset DEF Early
<1> QED
  BY <1>6, <1>7, <1>8, <1>9, <1>10 DEF DevMove

LEMMA SentMoves ==
  ASSUME IInv, IInv', DevMove, UNCHANGED <<host, size, sent, commands>>, Place,
         host # "idle", Sent
  PROVE  Sent'
BY EarlyMoves, MissedMoves, InOrderMoves, RuinedMoves, OverMoves DEF Sent

-----------------------------------------------------------------------------
(* The device keeps the invariant                                           *)

LEMMA FreshMoves ==
  ASSUME IInv, IInv', DevMove, UNCHANGED commands, Fresh
  PROVE  Fresh'
<1>1. /\ Len(Way) \in Nat /\ Len(Way') \in Nat /\ Len(tx) = 0 /\ tx \in Seq(Replies)
      /\ tx' \in Seq(Replies) /\ commands \in Nat
  BY WayFacts, WayFactsNext, EmptySeq
     DEF IInv, DevInv, DevTypeOK, HostInv, HostTypeOK, Fresh
<1>2. Rests \/ Reads \/ Resets
  BY <1>1 DEF DevMove, Erases, Opens, Fails, AtLine, Feeds, Fresh
<1>3. CASE Rests
  BY <1>1, <1>3 DEF Rests, Drops, Fresh
<1>4. CASE Reads
  <2>1. Len(Way') = Len(Way) - 1 /\ \A i \in 1..Len(Way') : Way'[i] = Way[1 + i]
    BY <1>4 DEF Reads, Drops
  <2>2. \A i \in 1..Len(Way') : Way'[i].t = "cmd"
    <3>1. \A i \in 1..Len(Way') : 1 + i \in 1..Len(Way)
      BY <1>1, <2>1
    <3> QED
      BY <2>1, <3>1 DEF Fresh
  <2>3. Way[1].t = "cmd" /\ ~junk'
    BY <1>1, <1>4 DEF Reads, Fresh
  <2> QED
    BY <1>1, <1>4, <2>1, <2>2, <2>3 DEF Reads, Fresh
<1>5. CASE Resets
  <2>1. PICK kept \in 0..Len(tx) : tx' = SubSeq(tx, 1, kept)
    BY <1>5 DEF Resets
  <2>2. kept = 0
    BY <1>1, <2>1
  <2>3. Len(tx') = 0
    BY <1>1, <2>1, <2>2, ToldSome
  <2>4. tx' = <<>>
    BY <1>1, <2>3, EmptySeq
  <2> QED
    BY <1>1, <1>5, <2>4 DEF Resets, Fresh
<1> QED
  BY <1>2, <1>3, <1>4, <1>5

LEMMA LeftMoves ==
  ASSUME IInv, IInv', DevMove, UNCHANGED commands, Left
  PROVE  Left'
<1>1. PICK m \in 0..Len(Way) : Len(Way) = m /\ Known(m)
  BY DEF Left
<1>2. Len(Way) \in Nat /\ Len(Way') \in Nat
  BY WayFacts, WayFactsNext DEF IInv, DevInv, DevTypeOK
<1>3. CASE Rests \/ Erases
  <2>1. Len(Way') = m
    BY <1>1, <1>2, <1>3 DEF Rests, Erases, Drops
  <2>2. Known(m)'
    BY <1>1, <1>3, KnownRests, KnownErases
  <2> QED
    BY <1>1, <1>2, <2>1, <2>2 DEF Left
<1>4. CASE Reads \/ Opens \/ Fails
  <2>1. Len(Way') = m - 1 /\ m \in 1..Len(Way) /\ m - 1 \in 0..Len(Way')
    BY <1>1, <1>2, <1>4 DEF Reads, Opens, Fails, AtLine, Drops
  <2>2. Known(m - 1)'
    BY <1>1, <1>4, <2>1, KnownReads, KnownBegins
  <2> QED
    BY <2>1, <2>2 DEF Left
<1>5. CASE Feeds
  <2>1. PICK n \in 1..Len(Way) : Drops(n) /\ (Ends(n) \/ Takes(n))
    BY <1>5 DEF Feeds
  <2>2. n \in 1..m /\ Len(Way') = m - n /\ m - n \in 0..Len(Way')
    BY <1>1, <1>2, <2>1 DEF Drops
  <2>3. Known(m - n)'
    BY <1>1, <1>5, <2>1, <2>2, KnownFeeds DEF Feeds
  <2> QED
    BY <2>2, <2>3 DEF Left
<1>6. CASE Resets
  <2>1. Len(Way') = 0 /\ 0 \in 0..Len(Way')
    BY <1>2, <1>6 DEF Resets
  <2>2. Known(0)'
    BY <1>1, <1>6, KnownResets
  <2> QED
    BY <2>1, <2>2 DEF Left
<1> QED
  BY <1>3, <1>4, <1>5, <1>6 DEF DevMove

LEMMA DeviceKeepsFlow ==
  ASSUME IInv, IInv', UsbInv, TextOK, FlowInv,
         DeviceLoop \/ DeviceRestarts \/ PowerIsCut \/ SessionGoesQuiet
  PROVE  FlowInv' /\ TextOK'
<1>1. /\ DevMove /\ TextOK'
      /\ UNCHANGED <<host, size, sent, uploads, commands>>
  BY DeviceMoves
<1>2. Place'
  BY <1>1 DEF FlowInv, Place
<1>3. uploads' = 0 => host' = "idle" /\ Fresh'
  BY <1>1, FreshMoves DEF FlowInv
<1>4. uploads' = 1 /\ ~Sending' => Left'
  BY <1>1, LeftMoves DEF FlowInv, Sending
<1>5. uploads' = 1 /\ Sending' => NoneOut(Len(Way))'
  BY <1>1, NoneMoves DEF FlowInv, Sending
<1>6. host' = "ready" /\ uploads' <= 2 => Waiting'
  BY <1>1, WaitingMoves DEF FlowInv
<1>7. Sending' /\ uploads' <= 2 => Sent'
  BY <1>1, SentMoves DEF FlowInv, Sending
<1> QED
  BY <1>1, <1>2, <1>3, <1>4, <1>5, <1>6, <1>7 DEF FlowInv

-----------------------------------------------------------------------------
(* The host keeps it                                                        *)

\* A host's step leaves the session alone.  It writes an item, or takes lines
\* of the replies.
Still   == UNCHANGED <<batch, flash, ota, junk>>
Writes(item) == Still /\ UNCHANGED tx /\ rx' = Append(rx, item)
Hears   == /\ Still /\ UNCHANGED rx
           /\ \A x : (Told(x)' => Told(x)) /\ (ToldOnce(x) => ToldOnce(x)')

LEMMA WayGrows ==
  ASSUME DevTypeOK, NEW item \in Item, Writes(item)
  PROVE  /\ Len(Way) \in Nat /\ Len(Way') = Len(Way) + 1
         /\ Way'[Len(Way) + 1] = item
         /\ \A i \in 1..Len(Way) : Way'[i] = Way[i]
<1>1. /\ batch \in Seq(Item) /\ rx \in Seq(Item)
      /\ batch' \in Seq(Item) /\ rx' \in Seq(Item) /\ batch' = batch
      /\ Len(rx) \in Nat /\ Len(rx') = Len(rx) + 1 /\ rx'[Len(rx) + 1] = item
      /\ \A i \in 1..Len(rx) : rx'[i] = rx[i]
  BY AppendProperties, LenProperties DEF Writes, Still, DevTypeOK
<1>2. /\ Len(batch) \in Nat
      /\ Len(Way) = Len(batch) + Len(rx) /\ Len(Way') = Len(batch) + Len(rx')
      /\ \A i \in 1..Len(batch) : Way[i] = batch[i] /\ Way'[i] = batch[i]
      /\ \A i \in 1..Len(rx) : Way[Len(batch) + i] = rx[i]
      /\ \A i \in 1..Len(rx') : Way'[Len(batch) + i] = rx'[i]
  BY <1>1, WayFacts, WayFactsNext
<1>3. Way'[Len(Way) + 1] = item
  <2>1. Len(rx) + 1 \in 1..Len(rx') /\ Len(batch) + (Len(rx) + 1) = Len(Way) + 1
    BY <1>1, <1>2
  <2>2. Way'[Len(batch) + (Len(rx) + 1)] = rx'[Len(rx) + 1]
    BY <1>2, <2>1
  <2> QED
    BY <1>1, <2>1, <2>2
<1>4. ASSUME NEW i \in 1..Len(Way) PROVE Way'[i] = Way[i]
  <2>1. CASE i <= Len(batch)
    BY <1>2, <2>1
  <2>2. CASE i > Len(batch)
    <3>1. PICK j \in 1..Len(rx) : i = Len(batch) + j
      <4>1. i - Len(batch) \in 1..Len(rx) /\ i = Len(batch) + (i - Len(batch))
        BY <1>1, <1>2, <2>2
      <4> QED
        BY <4>1
    <3>2. j \in 1..Len(rx')
      BY <1>1
    <3>3. Way'[Len(batch) + j] = rx'[j] /\ Way[Len(batch) + j] = rx[j]
      BY <1>2, <3>2
    <3> QED
      BY <1>1, <3>1, <3>3
  <2> QED
    BY <1>2, <2>1, <2>2
<1> QED
  BY <1>1, <1>2, <1>3, <1>4

LEMMA WaySame ==
  ASSUME Hears
  PROVE  Way' = Way
BY DEF Hears, Still, Way

\* What was known of the first m items is known when more follow them.
LEMMA KnownWrites ==
  ASSUME IInv, NEW item \in Item, Writes(item), NEW m \in 0..Len(Way), Known(m),
         UNCHANGED commands
  PROVE  Known(m)'
<1>1. \A i \in 1..m : Way'[i] = Way[i]
  BY WayGrows DEF IInv, DevInv
<1>2. UNCHANGED <<tx, ota, flash, junk, commands>>
  BY DEF Writes, Still
<1>3. \A x : Told(x)' = Told(x) /\ ToldOnce(x)' = ToldOnce(x)
  BY <1>2 DEF Told, ToldOnce
<1>4. NoneOut(m) => NoneOut(m)'
  BY <1>1, <1>3 DEF NoneOut
<1>5. LineOut(m) => LineOut(m)'
  BY <1>1, <1>2, <1>3 DEF LineOut
<1>6. ReadyOut(m) => ReadyOut(m)'
  BY <1>1, <1>2, <1>3 DEF ReadyOut, NoCell
<1>7. OneOut(m) => OneOut(m)'
  BY <1>1, <1>2, <1>3, <1>5, <1>6 DEF OneOut, FewCommands
<1> QED
  BY <1>4, <1>7 DEF Known

LEMMA KnownHears ==
  ASSUME IInv, Hears, NEW m \in 0..Len(Way), Known(m), UNCHANGED commands
  PROVE  Known(m)'
<1>1. /\ Way' = Way /\ UNCHANGED <<ota, flash, junk, commands>>
      /\ \A x : (Told(x)' => Told(x)) /\ (ToldOnce(x) => ToldOnce(x)')
  BY WaySame DEF Hears, Still
<1>2. NoneOut(m) => NoneOut(m)'
  BY <1>1 DEF NoneOut
<1>3. LineOut(m) => LineOut(m)'
  BY <1>1 DEF LineOut
<1>4. ReadyOut(m) => ReadyOut(m)' \/ NoneOut(m)'
  BY <1>1 DEF ReadyOut, NoneOut, NoCell
<1>5. OneOut(m) => OneOut(m)' \/ NoneOut(m)'
  BY <1>1, <1>3, <1>4 DEF OneOut, FewCommands
<1> QED
  BY <1>2, <1>5 DEF Known

LEMMA LeftHears ==
  ASSUME IInv, Hears, Left, UNCHANGED commands
  PROVE  Left'
<1>1. PICK m \in 0..Len(Way) : Len(Way) = m /\ Known(m)
  BY DEF Left
<1>2. Known(m)' /\ Way' = Way
  BY <1>1, KnownHears, WaySame
<1> QED
  BY <1>1, <1>2 DEF Left

LEMMA NoneHears ==
  ASSUME Hears, NoneOut(Len(Way))
  PROVE  NoneOut(Len(Way))'
BY WaySame DEF Hears, NoneOut

LEMMA SentHears ==
  ASSUME Hears, UNCHANGED <<host, size, sent, commands>>, Sent
  PROVE  Sent'
<1>1. /\ Way' = Way /\ UNCHANGED <<batch, ota, flash, junk>>
      /\ \A x : (Told(x)' => Told(x)) /\ (ToldOnce(x) => ToldOnce(x)')
  BY WaySame DEF Hears, Still
<1>2. FirstChunk => FirstChunk'
  BY <1>1 DEF FirstChunk, FewCommands
<1>3. Early => Early'
  BY <1>1, <1>2 DEF Early, NoCell
<1>4. Missed => Missed'
  BY <1>1, <1>2 DEF Missed
<1>5. InOrder => InOrder'
  <2>1. Paced => Paced'
    BY <1>1 DEF Paced
  <2> QED
    BY <1>1, <2>1 DEF InOrder, Clean, FewCommands
<1>6. Ruined => Ruined'
  BY <1>1 DEF Ruined, Spoiled
<1>7. Over => Over'
  BY <1>1 DEF Over
<1> QED
  BY <1>3, <1>4, <1>5, <1>6, <1>7 DEF Sent

\* One line is taken.
LEMMA HeadTaken ==
  ASSUME IInv, ReadLine
  PROVE  /\ Hears /\ tx \in Seq(Replies) /\ tx # <<>> /\ tx' = Tail(tx)
         /\ UNCHANGED <<uploads, commands>>
<1>1. /\ tx \in Seq(Replies) /\ tx # <<>> /\ tx' = Tail(tx)
      /\ UNCHANGED <<rx, uploads, commands>> /\ Still
  BY DEF ReadLine, Still, devButChannels, otaVars, loopVars, counters,
     IInv, DevInv, DevTypeOK
<1>2. \A x : (Told(x)' => Told(x)) /\ (ToldOnce(x) => ToldOnce(x)')
  BY <1>1, ToldTail
<1> QED
  BY <1>1, <1>2 DEF Hears

\* An upload ends, well or not.
LEMMA EndKeepsFlow ==
  ASSUME IInv, FlowInv, Hears, host # "idle", host' = "idle",
         UNCHANGED <<uploads, commands>>
  PROVE  FlowInv'
<1>1. uploads # 0
  BY DEF FlowInv
<1>2. ASSUME uploads = 1 PROVE Left'
  <2>1. CASE Sending
    <3>1. NoneOut(Len(Way))
      BY <1>2, <2>1 DEF FlowInv
    <3>2. Len(Way) \in Nat
      BY WayFacts DEF IInv, DevInv, DevTypeOK
    <3>3. Left
      BY <3>1, <3>2 DEF Left, Known
    <3> QED
      BY <3>3, LeftHears
  <2>2. CASE ~Sending
    BY <1>2, <2>2, LeftHears DEF FlowInv
  <2> QED
    BY <2>1, <2>2
<1> QED
  BY <1>1, <1>2 DEF FlowInv, Place, Sending

LEMMA ConnectKeepsFlow ==
  ASSUME IInv, IInv', FlowInv, Connect
  PROVE  FlowInv'
<1>1. PICK gone \in 0..Len(tx) : tx' = SubSeq(tx, gone + 1, Len(tx))
  BY DEF Connect
<1>2. /\ tx \in Seq(Replies) /\ tx' \in Seq(Replies) /\ Len(tx) \in Nat
      /\ gone + 1 \in 1..Len(tx) + 1 /\ Len(tx) \in 0..Len(tx) /\ gone + 1 <= Len(tx) + 1
  BY <1>1, LenProperties DEF IInv, DevInv, DevTypeOK
<1>3. /\ \A x : (Told(x)' => Told(x)) /\ (ToldOnce(x) => ToldOnce(x)')
      /\ Len(tx') = Len(tx) + 1 - (gone + 1)
  BY <1>1, <1>2, ToldSome
<1>4. /\ Still /\ UNCHANGED rx /\ host = "idle" /\ host' = "idle"
      /\ UNCHANGED <<uploads, commands>>
  BY DEF Connect, Still, devButChannels, otaVars, loopVars, hostVars, counters
<1>5. Hears
  BY <1>3, <1>4 DEF Hears
<1>6. ASSUME Fresh PROVE Fresh'
  <2>1. Len(tx) = 0 /\ gone = 0
    BY <1>2, <1>6, EmptySeq DEF Fresh
  <2>2. Len(tx') = 0
    BY <1>3, <2>1
  <2>3. tx' = <<>>
    BY <1>2, <2>2, EmptySeq
  <2>4. Way' = Way
    BY <1>5, WaySame
  <2> QED
    BY <1>4, <1>6, <2>3, <2>4 DEF Fresh, Still
<1> QED
  BY <1>4, <1>5, <1>6, LeftHears DEF FlowInv, Place, Sending

LEMMA CommandKeepsFlow ==
  ASSUME IInv, FlowInv, OtherCommand
  PROVE  FlowInv'
<1>1. /\ Writes(CmdLine) /\ CmdLine \in Item /\ CmdLine.t = "cmd"
      /\ host = "idle" /\ host' = "idle" /\ uploads' = uploads /\ commands' = commands + 1
      /\ UNCHANGED <<batch, flash, ota, junk, tx>>
  BY DEF OtherCommand, Write, Writes, Still, CmdLine, Item,
     devButChannels, otaVars, loopVars, hostVars
<1>2. /\ Len(Way) \in Nat /\ Len(Way') = Len(Way) + 1
      /\ Way'[Len(Way) + 1] = CmdLine
      /\ \A i \in 1..Len(Way) : Way'[i] = Way[i]
  BY <1>1, WayGrows DEF IInv, DevInv
<1>3. commands \in Nat /\ Chunk \in Nat
  BY BoundsAssumption, ChunkAssumption DEF IInv, HostInv, HostTypeOK
<1>4. \A i \in 1..Len(Way') : (i \in 1..Len(Way) /\ Way'[i] = Way[i]) \/ Way'[i].t = "cmd"
  BY <1>1, <1>2
<1>5. ASSUME Fresh PROVE Fresh'
  <2>1. \A i \in 1..Len(Way') : Way'[i].t = "cmd"
    BY <1>4, <1>5 DEF Fresh
  <2> QED
    BY <1>1, <1>2, <1>3, <1>5, <2>1 DEF Fresh
<1>6. ASSUME Left PROVE Left'
  <2>1. PICK m \in 0..Len(Way) : Len(Way) = m /\ Known(m)
    BY <1>6 DEF Left
  <2>2. m + 1 \in 0..Len(Way') /\ Len(Way') = m + 1
    BY <1>2, <2>1
  <2>3. \A x : Told(x)' = Told(x) /\ ToldOnce(x)' = ToldOnce(x)
    BY <1>1 DEF Told, ToldOnce
  <2>4. \A i \in 1..m + 1 : (i \in 1..m /\ Way'[i] = Way[i]) \/ Way'[i].t = "cmd"
    BY <1>4, <2>1, <2>2
  <2>5. ASSUME NoneOut(m) PROVE NoneOut(m + 1)'
    BY <2>3, <2>4, <2>5 DEF NoneOut
  <2>6. ASSUME LineOut(m) PROVE LineOut(m + 1)'
    <3>1. PICK p \in 1..m : Way[p].t = "ota" /\ \A i \in 1..m : Way[i].t = "ota" => i = p
      BY <2>6 DEF LineOut
    <3>2. p \in 1..m + 1 /\ Way'[p].t = "ota" /\ m + 1 <= commands' + 1
      BY <1>1, <1>2, <1>3, <2>1, <2>6, <3>1 DEF LineOut
    <3>3. \A i \in 1..m + 1 : Way'[i].t = "ota" => i = p
      BY <2>4, <3>1
    <3> QED
      BY <1>1, <2>3, <2>6, <3>2, <3>3 DEF LineOut
  <2>7. ASSUME ReadyOut(m) PROVE ReadyOut(m + 1)'
    <3>1. \A i \in 1..m + 1 : Way'[i].t # "ota"
      BY <2>4, <2>7 DEF ReadyOut
    <3>2. ota # NoOta => ota.acc + (m + 1) <= commands'
      <4>1. ota # NoOta => ota.acc \in Nat
        BY DEF IInv, DevInv, DevTypeOK, Session
      <4> QED
        BY <1>1, <1>3, <2>1, <2>7, <4>1 DEF ReadyOut
    <3> QED
      BY <1>1, <2>3, <2>7, <3>1, <3>2 DEF ReadyOut, NoCell
  <2>8. ASSUME OneOut(m) PROVE OneOut(m + 1)'
    <3>1. \A i \in 1..m + 1 : Way'[i].t # "cell"
      BY <2>4, <2>8 DEF OneOut
    <3>2. FewCommands' => FewCommands
      BY <1>1, <1>3 DEF FewCommands
    <3> QED
      BY <1>1, <2>3, <2>6, <2>7, <2>8, <3>1, <3>2 DEF OneOut
  <2>9. Known(m + 1)'
    BY <2>1, <2>5, <2>8 DEF Known
  <2> QED
    BY <2>2, <2>9 DEF Left
<1> QED
  BY <1>1, <1>5, <1>6 DEF FlowInv, Place, Sending

LEMMA StartKeepsFlow ==
  ASSUME IInv, FlowInv, StartUpload
  PROVE  FlowInv'
<1>1. PICK n \in Images : Write(OtaLine(n)) /\ size' = n
  BY DEF StartUpload
<1>2. /\ Writes(OtaLine(n)) /\ OtaLine(n) \in Item /\ OtaLine(n).t = "ota"
      /\ host = "idle" /\ host' = "ready" /\ sent' = 0
      /\ uploads' = uploads + 1 /\ commands' = commands
      /\ UNCHANGED <<batch, flash, ota, junk, tx>>
  BY <1>1 DEF StartUpload, Write, Writes, Still, OtaLine, Item,
     devButChannels, otaVars, loopVars
<1>3. /\ Len(Way) \in Nat /\ Len(Way') = Len(Way) + 1
      /\ Way'[Len(Way) + 1] = OtaLine(n)
      /\ \A i \in 1..Len(Way) : Way'[i] = Way[i]
  BY <1>2, WayGrows DEF IInv, DevInv
<1>4. uploads \in Nat /\ commands \in Nat
  BY BoundsAssumption DEF IInv, HostInv, HostTypeOK
<1>5. PICK m \in 0..Len(Way) : Len(Way) = m
  BY <1>3
<1>6. m \in 0..Len(Way') /\ m + 1 \in 0..Len(Way') /\ Len(Way') = m + 1 /\ Way'[m + 1].t = "ota"
  BY <1>2, <1>3, <1>5
<1>7. ASSUME Known(m) PROVE Waiting'
  <2>1. Known(m)'
    BY <1>2, <1>7, KnownWrites
  <2>2. Asked'
    BY <1>6, <2>1 DEF Asked
  <2> QED
    BY <2>2 DEF Waiting
<1>8. ASSUME Fresh PROVE Known(m) /\ Left'
  <2>1. \A r : ~Told(r) /\ ~Told(r)'
    <3>1. Len(tx) = 0 /\ tx' = tx
      BY <1>2, <1>8, EmptySeq DEF Fresh
    <3> QED
      BY <3>1 DEF Told
  <2>2. NoneOut(m)
    BY <1>5, <1>8, <2>1 DEF Fresh, NoneOut
  <2>3. \A i \in 1..m + 1 : i = m + 1 \/ Way'[i].t = "cmd"
    BY <1>3, <1>5, <1>8 DEF Fresh
  <2>4. LineOut(m + 1)'
    <3>1. m + 1 \in 1..m + 1 /\ \A i \in 1..m + 1 : Way'[i].t = "ota" => i = m + 1
      BY <1>3, <1>5, <2>3
    <3>2. m + 1 <= commands' + 1
      BY <1>2, <1>4, <1>5, <1>8 DEF Fresh
    <3> QED
      BY <1>2, <1>6, <1>8, <2>1, <3>1, <3>2 DEF LineOut, Fresh
  <2>5. OneOut(m + 1)'
    BY <1>2, <1>6, <1>8, <2>1, <2>3, <2>4 DEF OneOut, Fresh
  <2>6. Left'
    BY <1>6, <2>5 DEF Left, Known
  <2> QED
    BY <2>2, <2>6 DEF Known
<1>9. uploads' = 1 /\ ~Sending' => Left'
  BY <1>2, <1>4, <1>8 DEF FlowInv
<1>10. uploads' <= 2 => Waiting'
  <2>1. uploads = 0 => Known(m)
    BY <1>8 DEF FlowInv
  <2>2. uploads = 1 => Known(m)
    BY <1>2, <1>5 DEF FlowInv, Left, Sending
  <2> QED
    BY <1>2, <1>4, <1>7, <2>1, <2>2
<1>11. Place' /\ ~Sending' /\ uploads' # 0
  BY <1>2, <1>4 DEF Place, Sending
<1> QED
  BY <1>2, <1>9, <1>10, <1>11 DEF FlowInv

LEMMA CellKeepsFlow ==
  ASSUME IInv, FlowInv, SendCell
  PROVE  FlowInv'
<1> DEFINE item == CellOf(size, sent + 1)
<1>1. /\ Writes(item) /\ host = "send" /\ sent' = sent + 1 /\ host' = AfterCell(sent + 1)
      /\ UNCHANGED <<batch, flash, ota, junk, tx, size, uploads, commands>>
  BY DEF SendCell, Write, Writes, Still, devButChannels, otaVars, loopVars, counters
<1>2. Typed /\ Chunk \in Nat \ {0} /\ size \in Images
  BY <1>1, Types
<1>3. item \in Item /\ item.t = "cell"
  <2>1. sent + 1 \in Nat
    BY <1>2 DEF Typed
  <2>2. CellOf(size, sent + 1).t = "cell"
    BY DEF CellOf
  <2> QED
    BY <1>2, <2>1, <2>2, CellsAreItems
<1>4. /\ Len(Way) \in Nat /\ Len(Way') = Len(Way) + 1
      /\ Way'[Len(Way) + 1] = item
      /\ \A i \in 1..Len(Way) : Way'[i] = Way[i]
  BY <1>1, <1>3, WayGrows DEF IInv, DevInv
<1>5. \A i \in 1..Len(Way') : (i \in 1..Len(Way) /\ Way'[i] = Way[i]) \/ Way'[i].t = "cell"
  BY <1>3, <1>4
<1> HIDE DEF item
<1>6. /\ sent \in Nat /\ sent < size /\ size \in Nat
      /\ \A r : Told(r)' = Told(r) /\ ToldOnce(r)' = ToldOnce(r)
  BY <1>1, <1>2 DEF FlowInv, Place, Typed, Told, ToldOnce
<1>n. /\ sent \in Nat /\ sent' = sent + 1
      /\ Len(Way) \in Nat /\ Len(Way') = Len(Way) + 1
  BY <1>1, <1>4, <1>6
<1>7. /\ sent % Chunk \in 0..Chunk - 1 /\ sent % Chunk <= sent
      /\ sent < Chunk => sent % Chunk = sent
      /\ (sent + 1) % Chunk = IF sent % Chunk = Chunk - 1 THEN 0 ELSE (sent % Chunk) + 1
  BY <1>2, <1>6, NextRemainder
<1>8. /\ host' \in {"send", "ack", "done"}
      /\ host' = "done" => sent' = size
      /\ host' = "ack"  => sent' < size /\ sent' % Chunk = 0
      /\ host' = "send" => sent' < size /\ sent' % Chunk # 0
  BY <1>1, <1>6 DEF AfterCell
<1>9. Place' /\ Sending' /\ Sending
  BY <1>1, <1>6, <1>8 DEF Place, Sending
<1>10. NoneOut(Len(Way)) => NoneOut(Len(Way))'
  BY <1>5, <1>6 DEF NoneOut
<1>11. FirstChunk => FirstChunk'
  <2>1. ASSUME sent < Chunk PROVE sent' <= Chunk /\ (host' = "send" => sent' < Chunk)
    BY <1>1, <1>2, <1>6, <1>7, <1>8, <2>1
  <2> QED
    BY <1>1, <1>6, <2>1 DEF FirstChunk, FewCommands
<1>12. Early => Early'
  <2> SUFFICES ASSUME Early PROVE Early'
    OBVIOUS
  <2>1. PICK p \in 0..Len(Way) :
          /\ Len(Way) = p + 1 + sent
          /\ \A i \in 1..p : Way[i].t = "cmd"
          /\ Way[p + 1].t = "ota"
          /\ \A i \in 1..sent : Way[p + 1 + i] = CellOf(size, i)
          /\ ota = NoOta \/ (NoCell(flash[ota.slot]) /\ ota.acc + p <= commands)
    BY DEF Early
  <2>2. p \in 0..Len(Way') /\ Len(Way') = p + 1 + sent'
    BY <1>n, <2>1
  <2>3. (\A i \in 1..p : Way'[i].t = "cmd") /\ Way'[p + 1].t = "ota"
    <3>1. (\A i \in 1..p : i \in 1..Len(Way)) /\ p + 1 \in 1..Len(Way)
      BY <1>4, <1>6, <2>1
    <3> QED
      BY <1>4, <2>1, <3>1
  <2>4. \A i \in 1..sent' : Way'[p + 1 + i] = CellOf(size, i)
    <3> TAKE i \in 1..sent'
    <3>1. CASE i <= sent
      <4>1. i \in 1..sent /\ p + 1 + i \in 1..Len(Way)
        BY <1>1, <1>4, <1>6, <2>1, <3>1
      <4> QED
        BY <1>4, <2>1, <4>1
    <3>2. CASE i = sent + 1
      <4>1. p + 1 + i = Len(Way) + 1
        BY <1>n, <2>1, <3>2
      <4> QED
        BY <1>4, <3>2, <4>1 DEF item
    <3> QED
      BY <1>1, <1>6, <3>1, <3>2
  <2>5. \A i \in 1..sent' : Way'[p + 1 + i] = CellOf(size', i)
    BY <1>1, <2>4
  <2> QED
    BY <1>1, <1>6, <1>11, <2>1, <2>2, <2>3, <2>5 DEF Early, NoCell
<1>13. Missed => Missed'
  <2> SUFFICES ASSUME Missed PROVE Missed'
    OBVIOUS
  <2>1. PICK k \in 0..sent :
          /\ Len(Way) = sent - k
          /\ \A i \in 1..Len(Way) : Way[i] = CellOf(size, k + i)
          /\ batch # <<>> \/ k > 0
    BY DEF Missed
  <2>2. k \in 0..sent' /\ Len(Way') = sent' - k
    BY <1>1, <1>4, <1>6, <2>1
  <2>3. ASSUME NEW i \in 1..Len(Way') PROVE Way'[i] = CellOf(size', k + i)
    <3>1. CASE i \in 1..Len(Way)
      BY <1>1, <1>4, <2>1, <3>1
    <3>2. CASE i = Len(Way) + 1
      <4>1. k + i = sent + 1
        BY <1>n, <2>1, <3>2
      <4> QED
        BY <1>1, <1>4, <3>2, <4>1 DEF item
    <3> QED
      BY <1>4, <3>1, <3>2
  <2> QED
    BY <1>1, <1>6, <1>11, <2>1, <2>2, <2>3 DEF Missed
<1>14. InOrder => InOrder'
  <2> SUFFICES ASSUME InOrder PROVE InOrder'
    OBVIOUS
  <2> DEFINE got == Len(flash[ota.slot])
  <2>1. /\ got \in Nat /\ got + Len(Way) = sent /\ ota.acc \in Nat
        /\ \A i \in 1..Len(Way) : Way[i] = CellOf(size, got + i)
    BY <1>2 DEF InOrder, Typed
  <2> HIDE DEF got
  <2>2. got + Len(Way') = sent' /\ got <= sent
    BY <1>n, <2>1
  <2>3. ASSUME NEW i \in 1..Len(Way') PROVE Way'[i] = CellOf(size', got + i)
    <3>1. CASE i \in 1..Len(Way)
      BY <1>1, <1>4, <2>1, <3>1
    <3>2. CASE i = Len(Way) + 1
      <4>1. got + i = sent + 1
        BY <1>n, <2>1, <3>2
      <4> QED
        BY <1>1, <1>4, <3>2, <4>1 DEF item
    <3> QED
      BY <1>4, <3>1, <3>2
  <2>4. ASSUME FewCommands PROVE Paced'
    <3>1. ~Told("K") /\ got >= sent - (sent % Chunk) /\ ota.acc = got - (sent - (sent % Chunk))
      BY <1>1, <2>4 DEF InOrder, Paced, got
    <3>2. ASSUME host' = "send"
          PROVE  got >= sent' - (sent' % Chunk) /\ ota.acc = got - (sent' - (sent' % Chunk))
      <4>1. sent' % Chunk = (sent % Chunk) + 1
        BY <1>1, <1>7, <1>8, <3>2
      <4>2. sent' - (sent' % Chunk) = sent - (sent % Chunk)
        BY <1>1, <1>6, <1>7, <4>1
      <4> QED
        BY <3>1, <4>2
    <3>3. ASSUME host' = "ack"
          PROVE  got >= sent' - Chunk /\ ota.acc = got - (sent' - Chunk) /\ got < sent'
      <4>1. sent % Chunk = Chunk - 1
        BY <1>1, <1>7, <1>8, <3>3
      <4>2. sent' - Chunk = sent - (sent % Chunk)
        BY <1>1, <1>2, <1>6, <4>1
      <4> QED
        <5>1. got < sent'
          BY <1>n, <2>1, <2>2
        <5> QED
          BY <3>1, <4>2, <5>1
    <3>4. ASSUME host' = "done" PROVE sent' - got <= Chunk
      <4>1. sent' - got <= (sent % Chunk) + 1
        BY <1>n, <1>7, <2>1, <3>1
      <4> QED
        BY <1>2, <1>n, <1>7, <2>1, <4>1
    <3>5. ~Told("K")' /\ flash'[ota'.slot] = flash[ota.slot] /\ ota' = ota
      BY <1>1, <1>6, <3>1
    <3>6. got < sent' => got # sent'
      BY <1>n, <2>1, <2>2
    <3> QED
      BY <3>2, <3>3, <3>4, <3>5, <3>6 DEF Paced, got
  <2>5. Clean(flash[ota.slot])'
    BY <1>1 DEF InOrder, Clean
  <2> QED
    BY <1>1, <1>6, <2>2, <2>3, <2>4, <2>5 DEF InOrder, FewCommands, got
<1>15. Ruined => Ruined'
  BY <1>1, <1>5, <1>6 DEF Ruined, Spoiled
<1>16. Over => Over'
  BY <1>1, <1>5, <1>6 DEF Over
<1>17. Sent => Sent'
  BY <1>12, <1>13, <1>14, <1>15, <1>16 DEF Sent
<1>18. uploads # 0 /\ host' # "idle" /\ host' # "ready"
  BY <1>1, <1>8 DEF FlowInv
<1> QED
  BY <1>1, <1>9, <1>10, <1>17, <1>18 DEF FlowInv

\* The OTAREADY the host takes opens the stream.
LEMMA ReadyKeepsFlow ==
  ASSUME IInv, FlowInv, ReadLine, host = "ready", Head(tx) = "OTAREADY",
         host' = "send", UNCHANGED <<size, sent>>
  PROVE  FlowInv'
<1>1. /\ Hears /\ tx \in Seq(Replies) /\ tx # <<>> /\ tx' = Tail(tx)
      /\ UNCHANGED <<uploads, commands>>
  BY HeadTaken
<1>2. Typed /\ Chunk \in Nat \ {0} /\ size \in Images
  BY Types
<1>3. /\ Way' = Way /\ UNCHANGED <<batch, ota, flash, junk>>
      /\ \A x : (Told(x)' => Told(x)) /\ (ToldOnce(x) => ToldOnce(x)')
  BY <1>1, WaySame DEF Hears, Still
<1>4. /\ Told("OTAREADY") /\ tx[1] = "OTAREADY" /\ Len(tx) \in Nat \ {0}
      /\ ToldOnce("OTAREADY") => ~Told("OTAREADY")'
      /\ Len(tx') = Len(tx) - 1
  <2>1. Head(tx) = tx[1] /\ Len(tx) \in Nat \ {0} /\ Len(tx') = Len(tx) - 1
    BY <1>1, ToldTail
  <2>2. Told("OTAREADY")
    BY <2>1 DEF Told
  <2>3. ToldOnce("OTAREADY") => ~Told("OTAREADY")'
    BY <1>1, ToldTail
  <2> QED
    BY <2>1, <2>2, <2>3
<1>5. sent = 0 /\ sent' = 0 /\ 0 < size
  BY <1>2 DEF FlowInv, Place, Typed
<1>6. Place' /\ Sending' /\ ~Sending
  BY <1>5 DEF Place, Sending
<1>7. ASSUME NEW m \in 0..Len(Way), Known(m)
      PROVE  ReadyOut(m) /\ OneOut(m)
  BY <1>4, <1>7 DEF Known, OneOut, NoneOut, LineOut
<1>8. ASSUME uploads = 1 PROVE NoneOut(Len(Way))'
  <2>1. PICK m \in 0..Len(Way) : Len(Way) = m /\ Known(m)
    BY <1>6, <1>8 DEF FlowInv, Left
  <2>2. ReadyOut(m)
    BY <1>7, <2>1
  <2> QED
    BY <1>3, <1>4, <2>1, <2>2 DEF ReadyOut, NoneOut
<1>9. ASSUME Asked PROVE Early'
  <2>1. PICK m \in 0..Len(Way) : Len(Way) = m + 1 /\ Way[m + 1].t = "ota" /\ Known(m)
    BY <1>9 DEF Asked
  <2>2. ReadyOut(m) /\ OneOut(m)
    BY <1>7, <2>1
  <2>3. \A i \in 1..m : Way'[i].t = "cmd"
    <3>1. \A i \in 1..m : Way[i] \in Item
      BY WayFacts DEF IInv, DevInv, DevTypeOK
    <3>2. \A x \in Item : x.t \in {"cell", "ota", "cmd"}
      BY DEF Item, CmdLine
    <3>3. \A i \in 1..m : Way[i].t # "cell" /\ Way[i].t # "ota"
      BY <2>2 DEF ReadyOut, OneOut
    <3> QED
      BY <1>3, <3>1, <3>2, <3>3
  <2>4. ~Told("OTADONE")' /\ ~Told("OTAREADY")' /\ ~junk'
    BY <1>3, <1>4, <2>2 DEF ReadyOut, OneOut
  <2>5. FirstChunk'
    BY <1>1, <1>2, <1>3, <1>5, <2>2 DEF OneOut, FirstChunk, FewCommands
  <2>6. /\ m \in 0..Len(Way') /\ Len(Way') = m + 1 + sent' /\ Way'[m + 1].t = "ota"
        /\ \A i \in 1..sent' : Way'[m + 1 + i] = CellOf(size', i)
    BY <1>3, <1>5, <2>1
  <2>7. ota' = NoOta \/ (NoCell(flash'[ota'.slot]) /\ ota'.acc + m <= commands')
    BY <1>1, <1>3, <2>2 DEF ReadyOut, NoCell
  <2> QED
    BY <2>3, <2>4, <2>5, <2>6, <2>7 DEF Early
<1>10. ASSUME Answered PROVE Sent'
  <2>1. /\ ~Told("OTADONE")'
        /\ FewCommands /\ Told("K")' => ota = NoOta \/ Spoiled(flash[ota.slot])
    <3>1. ASSUME \A i \in 1..Len(tx) : tx[i] = "OTAREADY" <=> i = Len(tx)
          PROVE  \A x : ~Told(x)'
      <4>1. Len(tx) = 1
        BY <1>4, <3>1
      <4>2. Len(tx') = 0
        BY <1>4, <4>1
      <4> QED
        BY <4>2 DEF Told
    <3> QED
      BY <1>3, <1>10, <3>1 DEF Answered
  <2>2. Way = <<>> /\ Len(Way') = 0 /\ batch = <<>>
    <3>1. Way = <<>> /\ Len(Way) = 0
      BY <1>10, EmptySeq DEF Answered
    <3>2. Len(batch) = 0
      BY <3>1, WayFacts DEF IInv, DevInv, DevTypeOK
    <3> QED
      BY <1>3, <3>1, <3>2, WayFacts DEF IInv, DevInv, DevTypeOK
  <2>3. CASE ota = NoOta
    <3>1. Over'
      BY <1>3, <2>1, <2>2, <2>3 DEF Over
    <3> QED
      BY <3>1 DEF Sent
  <2>4. CASE ota # NoOta /\ Spoiled(flash[ota.slot])
    <3>1. Ruined'
      BY <1>3, <2>1, <2>2, <2>4 DEF Ruined, Spoiled
    <3> QED
      BY <3>1 DEF Sent
  <2>5. CASE ota # NoOta /\ flash[ota.slot] = <<>> /\ ota.acc = 0
    <3>1. Len(flash'[ota'.slot]) = 0 /\ ota' = ota
      BY <1>3, <2>5, EmptySeq
    <3>2. ~Spoiled(flash[ota.slot])
      BY <2>5 DEF Spoiled
    <3>3. sent' % Chunk = 0
      BY <1>2, <1>5, NextRemainder
    <3>4. FewCommands => Paced'
      BY <1>5, <2>1, <2>5, <3>1, <3>2, <3>3 DEF Paced
    <3>5. Clean(flash[ota.slot])'
      BY <3>1 DEF Clean
    <3>6. InOrder'
      BY <1>1, <1>3, <1>5, <2>1, <2>2, <2>5, <3>1, <3>4, <3>5 DEF InOrder, FewCommands
    <3> QED
      BY <3>6 DEF Sent
  <2> QED
    BY <1>10, <2>3, <2>4, <2>5 DEF Answered
<1>11. uploads <= 2 => Sent'
  <2>1. ~NoneOut(Len(Way))
    BY <1>4 DEF NoneOut
  <2> QED
    BY <1>9, <1>10, <2>1 DEF FlowInv, Waiting, Sent
<1>12. uploads # 0
  BY DEF FlowInv
<1> QED
  BY <1>1, <1>6, <1>8, <1>11, <1>12 DEF FlowInv

\* The "K" the host takes lets it go on.
LEMMA AckKeepsFlow ==
  ASSUME IInv, FlowInv, ReadLine, host = "ack", Head(tx) = "K",
         host' = "send", UNCHANGED <<size, sent>>
  PROVE  FlowInv'
<1>1. /\ Hears /\ tx \in Seq(Replies) /\ tx # <<>> /\ tx' = Tail(tx)
      /\ UNCHANGED <<uploads, commands>>
  BY HeadTaken
<1>2. Typed /\ Chunk \in Nat \ {0}
  BY Types
<1>3. /\ Way' = Way /\ UNCHANGED <<batch, ota, flash, junk>>
      /\ \A x : (Told(x)' => Told(x)) /\ (ToldOnce(x) => ToldOnce(x)')
  BY <1>1, WaySame DEF Hears, Still
<1>4. Told("K") /\ (ToldOnce("K") => ~Told("K")')
  <2>1. Head(tx) = tx[1] /\ Len(tx) \in Nat \ {0}
    BY <1>1, ToldTail
  <2>2. Told("K")
    BY <2>1 DEF Told
  <2> QED
    BY <1>1, <2>2, ToldTail
<1>5. 0 < sent /\ sent < size /\ sent % Chunk = 0 /\ sent \in Nat /\ size \in Nat
  BY <1>2 DEF FlowInv, Place, Typed
<1>6. Place' /\ Sending' /\ Sending /\ uploads # 0
  BY <1>5 DEF FlowInv, Place, Sending
<1>7. FirstChunk => FirstChunk'
  BY <1>1, <1>4 DEF FirstChunk, FewCommands
<1>8. Early => Early'
  BY <1>1, <1>3, <1>7 DEF Early, NoCell
<1>9. Missed => Missed'
  BY <1>3, <1>7 DEF Missed
<1>10. ASSUME InOrder PROVE InOrder'
  <2> DEFINE got == Len(flash[ota.slot])
  <2>1. /\ got \in Nat /\ got + Len(Way) = sent /\ Len(Way) \in Nat
        /\ flash'[ota'.slot] = flash[ota.slot] /\ ota' = ota
    BY <1>2, <1>3, <1>10 DEF InOrder, Typed
  <2>2. ASSUME FewCommands PROVE Paced'
    <3>1. /\ got < sent => ~Told("K")
          /\ got = sent => ToldOnce("K") /\ ota.acc = 0
      BY <1>10, <2>2 DEF InOrder, Paced
    <3> HIDE DEF got
    <3>2. got = sent
      BY <1>4, <1>5, <2>1, <3>1
    <3>3. sent' = sent /\ sent' - (sent' % Chunk) = sent
      BY <1>5
    <3>4. ~Told("K")' /\ got >= sent' - (sent' % Chunk) /\ ota.acc = got - (sent' - (sent' % Chunk))
      BY <1>4, <1>5, <3>1, <3>2, <3>3
    <3> QED
      BY <2>1, <3>4 DEF Paced, got
  <2>3. Clean(flash[ota.slot])'
    BY <1>3, <1>10 DEF InOrder, Clean
  <2> QED
    BY <1>1, <1>3, <1>10, <2>1, <2>2, <2>3 DEF InOrder, FewCommands
<1>11. Ruined => Ruined'
  BY <1>3 DEF Ruined, Spoiled
<1>12. Over => Over'
  BY <1>3 DEF Over
<1>13. Sent => Sent'
  BY <1>8, <1>9, <1>10, <1>11, <1>12 DEF Sent
<1>14. NoneOut(Len(Way)) => NoneOut(Len(Way))'
  BY <1>1, NoneHears
<1> QED
  BY <1>1, <1>6, <1>13, <1>14 DEF FlowInv

\* Any other line is skipped.
LEMMA SkipKeepsFlow ==
  ASSUME IInv, FlowInv, ReadLine, UNCHANGED hostVars,
         host = "ready" => Head(tx) # "OTAREADY"
  PROVE  FlowInv'
<1>1. /\ Hears /\ tx \in Seq(Replies) /\ tx # <<>> /\ tx' = Tail(tx)
      /\ UNCHANGED <<host, size, sent, uploads, commands>>
  BY HeadTaken DEF hostVars
<1>2. /\ Way' = Way /\ UNCHANGED <<batch, ota, flash, junk>>
      /\ \A x : (Told(x)' => Told(x)) /\ (ToldOnce(x) => ToldOnce(x)')
  BY <1>1, WaySame DEF Hears, Still
<1>3. /\ Len(tx) \in Nat \ {0} /\ Len(tx') = Len(tx) - 1 /\ Head(tx) = tx[1]
      /\ \A i \in 1..Len(tx') : tx'[i] = tx[i + 1]
  BY <1>1, ToldTail
<1>4. uploads # 0
  BY <1>1 DEF FlowInv, Fresh
<1>5. Place'
  BY <1>1 DEF FlowInv, Place
<1>6. Asked => Asked'
  <2> SUFFICES ASSUME Asked PROVE Asked'
    OBVIOUS
  <2>1. PICK m \in 0..Len(Way) : Len(Way) = m + 1 /\ Way[m + 1].t = "ota" /\ Known(m)
    BY DEF Asked
  <2>2. Known(m)'
    BY <1>1, <2>1, KnownHears
  <2> QED
    BY <1>2, <2>1, <2>2 DEF Asked
<1>7. host = "ready" /\ Answered => Answered'
  <2> SUFFICES ASSUME host = "ready", Answered PROVE Answered'
    OBVIOUS
  <2>1. ASSUME \A i \in 1..Len(tx) : tx[i] = "OTAREADY" <=> i = Len(tx)
        PROVE  /\ tx' # <<>>
               /\ \A i \in 1..Len(tx') : tx'[i] = "OTAREADY" <=> i = Len(tx')
    <3>1. Len(tx) # 1
      BY <1>3, <2>1
    <3>2. Len(tx') \in Nat \ {0}
      BY <1>3, <3>1
    <3>3. \A i \in 1..Len(tx') : i + 1 \in 1..Len(tx) /\ (i + 1 = Len(tx) <=> i = Len(tx'))
      BY <1>3
    <3>4. \A i \in 1..Len(tx') : tx'[i] = "OTAREADY" <=> i = Len(tx')
      BY <1>3, <2>1, <3>3
    <3> QED
      BY <3>2, <3>4, EmptySeq
  <2> QED
    BY <1>1, <1>2, <2>1 DEF Answered, Spoiled, FewCommands
<1>8. host = "ready" /\ Waiting => Waiting'
  BY <1>1, <1>6, <1>7, NoneHears DEF Waiting
<1>9. Sent => Sent'
  BY <1>1, SentHears
<1> QED
  BY <1>1, <1>4, <1>5, <1>8, <1>9, LeftHears, NoneHears DEF FlowInv, Sending

LEMMA LineKeepsFlow ==
  ASSUME IInv, FlowInv, ReadLine
  PROVE  FlowInv'
<1>1. Hears /\ UNCHANGED <<uploads, commands>> /\ host # "send"
  BY HeadTaken DEF ReadLine
<1>2. CASE host # "idle" /\ host' = "idle"
  BY <1>1, <1>2, EndKeepsFlow
<1>3. CASE host = "ready" /\ Head(tx) = "OTAREADY" /\ host' = "send" /\ UNCHANGED <<size, sent>>
  BY <1>3, ReadyKeepsFlow
<1>4. CASE host = "ack" /\ Head(tx) = "K" /\ host' = "send" /\ UNCHANGED <<size, sent>>
  BY <1>4, AckKeepsFlow
<1>5. CASE UNCHANGED hostVars /\ (host = "ready" => Head(tx) # "OTAREADY")
  BY <1>5, SkipKeepsFlow
<1> QED
  BY <1>2, <1>3, <1>4, <1>5 DEF ReadLine, Needle, Finish

LEMMA HostKeepsFlow ==
  ASSUME IInv, IInv', TextOK, FlowInv, HostThread \/ StartUpload \/ OtherCommand
  PROVE  FlowInv' /\ TextOK'
<1>1. TextOK'
  <2>1. UNCHANGED <<pc, batch, flash, ota, junk, running>>
    BY DEF HostThread, Connect, SendCell, WriteError, ReadLine, WaitTimesOut,
       StartUpload, OtherCommand, devButChannels, devVars, bootVars, otaVars, loopVars
  <2> QED
    BY <2>1 DEF TextOK, Target
<1>2. CASE WriteError \/ WaitTimesOut
  <2>1. /\ UNCHANGED <<batch, rx, tx, flash, ota, junk, uploads, commands>>
        /\ host # "idle" /\ host' = "idle"
    BY <1>2 DEF WriteError, WaitTimesOut, Finish, devVars, counters
  <2>2. Hears
    BY <2>1 DEF Hears, Still, Told, ToldOnce
  <2> QED
    BY <1>1, <2>1, <2>2, EndKeepsFlow
<1> QED
  BY <1>1, <1>2, ConnectKeepsFlow, CommandKeepsFlow, StartKeepsFlow, CellKeepsFlow,
     LineKeepsFlow DEF HostThread

LEMMA FlowStep ==
  ASSUME MaxPulls = 0, IInv, IInv', UsbInv, TextOK, FlowInv, [Next]_vars
  PROVE  FlowInv' /\ TextOK'
<1>1. CASE HostThread \/ StartUpload \/ OtherCommand
  BY <1>1, HostKeepsFlow
<1>2. CASE DeviceLoop \/ DeviceRestarts \/ PowerIsCut \/ SessionGoesQuiet
  BY <1>2, DeviceKeepsFlow
<1>3. ~WifiPullStarts
  BY DEF IInv, HostInv, HostTypeOK, WifiPullStarts
<1>4. ~WifiPullGoesOn
  BY DEF UsbInv, WifiPullGoesOn, WifiThread, WifiOpens, WifiBeginFails, WifiFeed, WifiStops
<1>5. CASE UNCHANGED vars
  <2>1. /\ UNCHANGED <<pc, batch, rx, tx, flash, ota, junk, running,
                       host, size, sent, uploads, commands>>
        /\ Way' = Way
    BY <1>5 DEF vars, devVars, hostVars, counters, Way
  <2>2. TextOK'
    BY <2>1 DEF TextOK, Target
  <2>3. Hears
    BY <2>1 DEF Hears, Still, Told, ToldOnce
  <2>4. Place' /\ (Fresh => Fresh') /\ (Sending' <=> Sending)
    BY <2>1 DEF FlowInv, Place, Fresh, Sending
  <2>5. Waiting => Waiting'
    BY <2>1 DEF Waiting, Asked, Answered, NoneOut, Known, OneOut, LineOut, ReadyOut,
       Told, ToldOnce, NoCell, Spoiled, FewCommands
  <2>6. (Sent => Sent') /\ (Left => Left') /\ (NoneOut(Len(Way)) => NoneOut(Len(Way))')
    BY <2>1, <2>3, SentHears, LeftHears, NoneHears
  <2> QED
    BY <2>1, <2>2, <2>4, <2>5, <2>6 DEF FlowInv
<1> QED
  BY <1>1, <1>2, <1>3, <1>4, <1>5 DEF Next

LEMMA FlowInit == Init => FlowInv /\ TextOK /\ UsbInv
<1> SUFFICES ASSUME Init PROVE FlowInv /\ TextOK /\ UsbInv
  OBVIOUS
<1>1. /\ pc = "boot" /\ batch = <<>> /\ rx = <<>> /\ tx = <<>> /\ ota = NoOta /\ ~junk
      /\ host = "idle" /\ uploads = 0 /\ commands = 0
  BY DEF Init, DevInit
<1>2. Len(Way) = 0
  BY <1>1, ConcatEmptySeq, EmptySeq DEF Way
<1>3. Fresh
  BY <1>1, <1>2 DEF Fresh
<1>4. FlowInv
  BY <1>1, <1>3 DEF FlowInv, Place, Sending
<1>5. TextOK
  BY <1>1 DEF TextOK
<1>6. UsbInv
  <2>1. flash[0] = Image(Factory) /\ Complete(flash[0])
    BY ImagesAssumption DEF Init, DevInit, Slots, Complete
  <2> QED
    BY <2>1 DEF Init, DevInit, UsbInv, Selected, BootSlotComplete
<1> QED
  BY <1>4, <1>5, <1>6

\* With USB alone, after one retry at most and fewer command lines than a
\* chunk has reports: while the session holds nothing but the start of the
\* image being sent, the host is at most one chunk ahead of it, whatever the
\* stalls, the restarts and the lines left over from an upload that was given
\* up.  (ota_upload, feed)
THEOREM Acknowledged ==
  ASSUME MaxPulls = 0
  PROVE  Spec => []FlowControl
<1>1. IInv /\ UsbInv /\ TextOK /\ FlowInv /\ [Next]_vars => FlowInv' /\ TextOK' /\ UsbInv'
  BY NextInv, UsbStep, FlowStep
<1>2. IInv /\ FlowInv => FlowControl
  <2> SUFFICES ASSUME IInv, FlowInv, InStep, OneRetry, FewCommands
               PROVE  sent - Len(flash[ota.slot]) <= Chunk
    BY DEF FlowControl
  <2> DEFINE c == flash[ota.slot]
  <2>1. Typed /\ Chunk \in Nat \ {0} /\ ota # NoOta /\ host # "idle"
    BY Types DEF InStep
  <2>2. c \in Seq(Item) /\ Len(c) \in Nat /\ sent \in Nat /\ DOMAIN c = 1..Len(c)
    BY <2>1, LenProperties DEF Typed
  <2>3. \A i \in 1..Len(c) : c[i] = CellOf(size, i)
    BY <2>2 DEF InStep
  <2>4. \A i \in 1..Len(c) : c[i].t = "cell" /\ c[i].k = i
    <3>1. \A k : CellOf(size, k).t = "cell" /\ CellOf(size, k).k = k
      BY DEF CellOf
    <3> QED
      BY <2>3, <3>1
  <2> HIDE DEF c
  <2>5. CASE host = "ready"
    <3>1. sent = 0
      BY <2>5 DEF FlowInv, Place
    <3> QED
      BY <2>1, <2>2, <3>1 DEF c
  <2>6. CASE host # "ready"
    <3>1. Sent /\ Sending
      BY <2>1, <2>6 DEF FlowInv, OneRetry, Sending, IInv, HostInv, HostTypeOK, HostPc
    <3>2. CASE Early \/ Missed
      <4>1. sent <= Chunk
        BY <3>2 DEF Early, Missed, FirstChunk
      <4> QED
        BY <2>1, <2>2, <4>1 DEF c
    <3>3. CASE InOrder
      <4>1. Paced
        BY <3>3 DEF InOrder
      <4>2. sent % Chunk \in 0..Chunk - 1
        BY <2>1, <2>2, NextRemainder
      <4>3. \/ Len(c) >= sent - (sent % Chunk)
            \/ Len(c) >= sent - Chunk
            \/ sent - Len(c) <= Chunk
        BY <3>1, <4>1 DEF Paced, Sending, c
      <4> QED
        BY <2>1, <2>2, <4>2, <4>3 DEF c
    <3>4. ~Ruined
      <4>1. ~Spoiled(c)
        <5>1. ASSUME c # <<>> PROVE c[1].k = 1
          BY <2>2, <2>4, <5>1, EmptySeq
        <5> QED
          BY <2>4, <5>1 DEF Spoiled
      <4> QED
        BY <4>1 DEF Ruined, c
    <3>5. ~Over
      BY <2>1 DEF Over
    <3> QED
      BY <3>1, <3>2, <3>3, <3>4, <3>5 DEF Sent
  <2> QED
    BY <2>5, <2>6
<1> QED
  BY <1>1, <1>2, FlowInit, Invariance, PTL DEF Spec

\* With USB alone and after one retry at most, the OTADONE the host takes is
\* never one of an earlier upload: the image it has just sent is in a slot of
\* the device when it reports success.  (ota_upload's last wait)
THEOREM SuccessIsOurs ==
  ASSUME MaxPulls = 0
  PROVE  Spec => DoneIsAboutThisImage
<1>1. IInv /\ UsbInv /\ TextOK /\ FlowInv /\ [Next]_vars => FlowInv' /\ TextOK' /\ UsbInv'
  BY NextInv, UsbStep, FlowStep
<1>2. IInv /\ FlowInv /\ [Next]_vars =>
        [outcome' = "done" /\ outcome # "done" /\ OneRetry
           => \E s \in Slots : flash[s] = Image(size)]_vars
  <2> SUFFICES ASSUME IInv, FlowInv, Next, outcome' = "done", outcome # "done", OneRetry
               PROVE  \E s \in Slots : flash[s] = Image(size)
    OBVIOUS
  <2>1. ReadLine /\ host = "done" /\ Head(tx) = "OTADONE"
    BY DEF Next, HostThread, Connect, SendCell, WriteError, ReadLine, WaitTimesOut,
       StartUpload, OtherCommand, DeviceLoop, DeviceRestarts, PowerIsCut,
       SessionGoesQuiet, WifiPullStarts, WifiPullGoesOn, Finish, Needle, hostVars
  <2>2. Told("OTADONE")
    <3>1. tx \in Seq(Replies) /\ tx # <<>>
      BY <2>1, HeadTaken
    <3>2. Len(tx) \in Nat \ {0} /\ Head(tx) = tx[1]
      BY <3>1, HeadTailProperties, EmptySeq
    <3> QED
      BY <2>1, <3>2 DEF Told
  <2>3. Sent
    BY <2>1 DEF FlowInv, OneRetry, Sending
  <2> QED
    BY <2>2, <2>3 DEF Sent, Early, Missed, InOrder, Ruined, Over
<1> QED
  BY <1>1, <1>2, FlowInit, Invariance, PTL DEF Spec, DoneIsAboutThisImage

-----------------------------------------------------------------------------
(* Refinement: device and host implement TrialBoot.  The images TrialBoot   *)
(* speaks of are what the slots hold, so a step counts only if it changes   *)
(* the boot variables or the flash.                                         *)

good    == IF verify THEN ImageIn(Other(running)) ELSE ImageIn(running)
trial   == IF verify THEN ImageIn(running)
           ELSE IF boot # running THEN ImageIn(boot) ELSE <<>>
Step    == [Trial!Next]_<<good, trial, verify>>

\* What is complete is an image, and never the empty sequence.
LEMMA CompleteIsBuild ==
  ASSUME NEW c
  PROVE  /\ Complete(c) <=> c \in {Image(n) : n \in Images}
         /\ Complete(c) => c # <<>>
<1>1. ASSUME NEW n \in Images PROVE Image(n) # <<>>
  <2>1. n \in Nat \ {0}
    BY ImagesAssumption
  <2>2. DOMAIN Image(n) = 1..n /\ 1 \in 1..n
    BY <2>1 DEF Image
  <2>3. DOMAIN <<>> = {}
    BY EmptySeq
  <2> QED
    BY <2>2, <2>3
<1> QED
  BY <1>1 DEF Complete

\* A step that touches neither flash nor boot variables is a stutter.
LEMMA SameStep ==
  ASSUME UNCHANGED <<running, boot, verify, flash>>
  PROVE  Step
BY DEF Step, good, trial, ImageIn

\* With no image on trial, all a step does is to stage an image, or to drop
\* the staged one, as long as the running slot stays as it is.
LEMMA StageStep ==
  ASSUME DevInv, ~verify, verify' = verify, running' = running,
         flash'[running] = flash[running]
  PROVE  Step
<1>1. good' = good
  BY DEF good, ImageIn
<1>2. trial' = <<>> \/ trial' \in {Image(n) : n \in Images}
  BY CompleteIsBuild DEF trial, ImageIn
<1>3. CASE trial' \in {Image(n) : n \in Images}
  BY <1>1, <1>3 DEF Step, good, trial, Trial!Next, Trial!Stage
<1>4. CASE trial' = <<>>
  BY <1>1, <1>4 DEF Step, good, trial, Trial!Next, Trial!Drop
<1> QED
  BY <1>2, <1>3, <1>4

LEMMA BootConfirms ==
  ASSUME DevInv, Boot
  PROVE  Step
<1>1. verify' = FALSE /\ UNCHANGED <<running, boot, flash>>
  BY DEF Boot
<1>2. CASE verify = FALSE
  BY <1>1, <1>2, SameStep
<1>3. CASE verify = TRUE
  <2>1. good' = trial /\ trial' = <<>>
    BY <1>1, <1>3 DEF DevInv, TrialOK, good, trial, ImageIn
  <2> QED
    BY <1>1, <1>3, <2>1 DEF Step, good, trial, Trial!Next, Trial!Confirm
<1> QED
  BY <1>2, <1>3 DEF DevInv, DevTypeOK

\* A restart drops the image on trial, or starts the staged one, or neither.
LEMMA ResetTries ==
  ASSUME DevInv, NEW kept \in 0..Len(tx), Reset(kept)
  PROVE  Step
<1>1. /\ running \in Slots /\ boot \in Slots /\ flash' = flash
      /\ Other(Other(running)) = running
      /\ boot # running => Other(boot) = running
      /\ Complete(flash[running])
      /\ verify => Complete(flash[Other(running)])
  BY DEF DevInv, DevTypeOK, AlwaysBootable, Reset, Slots, Other
<1>2. CASE verify
  <2>1. running' = Other(running) /\ boot' = running' /\ ~verify'
    BY <1>2 DEF Reset, Bootloader
  <2>2. trial # <<>> /\ trial' = <<>> /\ good' = good
    BY <1>1, <1>2, <2>1, CompleteIsBuild DEF trial, good, ImageIn
  <2> QED
    BY <2>1, <2>2 DEF Step, good, trial, Trial!Next, Trial!Drop
<1>3. CASE ~verify /\ Complete(flash[boot])
  <2>1. running' = boot /\ boot' = boot /\ verify' = (boot # running)
    BY <1>3 DEF Reset, Bootloader
  <2>2. CASE boot = running
    <3>1. verify' = verify
      BY <1>3, <2>1, <2>2 DEF DevInv, DevTypeOK
    <3> QED
      BY <1>1, <2>1, <2>2, <3>1, SameStep
  <2>3. CASE boot # running
    <3>1. verify' = TRUE /\ trial' = trial /\ good' = good /\ trial # <<>>
      BY <1>1, <1>3, <2>1, <2>3, CompleteIsBuild DEF trial, good, ImageIn
    <3> QED
      BY <1>3, <3>1 DEF Step, good, trial, Trial!Next, Trial!Try
  <2> QED
    BY <2>2, <2>3
<1>4. CASE ~verify /\ ~Complete(flash[boot])
  <2>1. running' = Other(boot) /\ boot' = boot /\ verify' = verify
    BY <1>4 DEF Reset, Bootloader, DevInv, DevTypeOK
  <2>2. running' = running
    BY <1>1, <1>4, <2>1
  <2> QED
    BY <1>1, <1>4, <2>1, <2>2, StageStep
<1> QED
  BY <1>2, <1>3, <1>4

LEMMA LoopStages ==
  ASSUME DevInv, MainLoop
  PROVE  Step
<1>1. ASSUME NEW n \in 0..Len(rx), PollHid(n) PROVE Step
  <2> DEFINE data == SubSeq(rx, 1, n)
  <2>1. CASE PollNothing \/ PollText(data)
    BY <2>1, SameStep DEF PollNothing, PollText, bootVars
  <2>2. CASE n > 0 /\ PollImage(data)
    <3>1. rx \in Seq(Item) /\ Len(rx) \in Nat
      BY LenProperties DEF DevInv, DevTypeOK
    <3>2. data \in Seq(Item)
      BY <3>1, Prefixes
    <3>3. \A i \in 1..n : rx[i] \in Item
      BY <3>1, ElementOfSeq
    <3>4. data # <<>>
      BY <2>2, <3>1, <3>3, SubSeqProperties
    <3>5. flash'[running] = flash[running] /\ UNCHANGED <<running, verify>>
      BY <2>2, <3>2, <3>4, FeedKeepsRunning DEF PollImage, DevInv
    <3>6. ~verify
      BY <1>1 DEF PollHid, DevInv, TrialOK
    <3> QED
      BY <3>5, <3>6, StageStep
  <2> QED
    BY <1>1, <2>1, <2>2 DEF PollHid
<1>2. CASE BeginErase
  <2>1. flash'[running] = flash[running]
    BY <1>2, EraseKeepsRunning DEF DevInv, BeginErase
  <2> QED
    BY <1>2, <2>1, StageStep DEF BeginErase, DevInv, TrialOK, bootVars
<1>3. CASE BeginOpens
  <2>1. Head(batch).n \in Images
    BY <1>3, LineSize DEF DevInv, BeginOpens
  <2>2. flash'[running] = flash[running]
    BY <1>3, <2>1, SessionOpened DEF DevInv, BeginOpens
  <2> QED
    BY <1>3, <2>2, StageStep DEF BeginOpens, DevInv, TrialOK, bootVars
<1>4. CASE \/ TextBytes \/ TextLine \/ BeginFails \/ WantReboot \/ CheckTimeout
  BY <1>4, SameStep DEF TextBytes, TextLine, BeginFails, WantReboot,
     CheckTimeout, bootVars
<1> QED
  BY <1>1, <1>2, <1>3, <1>4, BootConfirms DEF MainLoop

LEMMA WifiStages ==
  ASSUME DevInv, WifiThread \/ \E n \in Images : WifiErase(n)
  PROVE  Step
<1>1. ASSUME NEW n \in Images, WifiErase(n) PROVE Step
  <2>1. flash'[running] = flash[running]
    BY <1>1, EraseKeepsRunning DEF DevInv, WifiErase
  <2> QED
    BY <1>1, <2>1, StageStep DEF WifiErase, DevInv, TrialOK, bootVars
<1>2. CASE WifiFeed
  <2>1. /\ ~verify /\ wsize \in Images /\ wsize \in Nat
        /\ wgot \in Nat /\ wgot < wsize
    BY <1>2, ImagesAssumption
       DEF DevInv, DevTypeOK, TrialOK, BootOK, WifiOK, WifiFeed
  <2>2. PICK m \in 1..Lesser(2 * Chunk, wsize - wgot) :
          Feed([i \in 1..m |-> CellOf(wsize, wgot + i)])
    BY <1>2 DEF WifiFeed
  <2> DEFINE data == [i \in 1..m |-> CellOf(wsize, wgot + i)]
  <2>3. m \in Nat \ {0}
    BY <2>1, ChunkAssumption DEF Lesser
  <2>4. data \in Seq(Item)
    BY <2>1, <2>3, ImagesAreSeqs
  <2>5. data # <<>>
    <3>1. DOMAIN data = 1..m /\ 1 \in 1..m /\ DOMAIN <<>> = {}
      BY <2>3, EmptySeq
    <3> QED
      BY <3>1
  <2>6. flash'[running] = flash[running] /\ UNCHANGED <<running, verify>>
    BY <2>2, <2>4, <2>5, FeedKeepsRunning DEF DevInv
  <2> QED
    BY <2>1, <2>6, StageStep
<1>3. CASE WifiOpens
  <2>1. flash'[running] = flash[running]
    BY <1>3, SessionOpened DEF DevInv, WifiOK, WifiOpens
  <2> QED
    BY <1>3, <2>1, StageStep DEF WifiOpens, DevInv, TrialOK, BootOK, bootVars
<1>4. CASE WifiBeginFails \/ WifiStops
  BY <1>4, SameStep DEF WifiBeginFails, WifiStops, bootVars
<1> QED
  BY <1>1, <1>2, <1>3, <1>4 DEF WifiThread

\* Each step of the composition is a step of TrialBoot, or a stutter.
LEMMA NextImplements == IInv /\ [Next]_vars => Step
<1> SUFFICES ASSUME DevInv, [Next]_vars PROVE Step
  BY DEF IInv
<1>1. CASE \/ HostThread \/ StartUpload \/ OtherCommand \/ SessionGoesQuiet
           \/ UNCHANGED vars
  BY <1>1, SameStep DEF HostThread, Connect, SendCell, WriteError, ReadLine,
     WaitTimesOut, StartUpload, OtherCommand, SessionGoesQuiet, devButChannels,
     devVars, vars, bootVars
<1>2. CASE DeviceLoop
  BY <1>2, LoopStages DEF DeviceLoop
<1>3. CASE DeviceRestarts \/ PowerIsCut
  BY <1>3, ResetTries DEF DeviceRestarts, PowerIsCut, Restart, PowerCut
<1>4. CASE WifiPullStarts \/ WifiPullGoesOn
  BY <1>4, WifiStages DEF WifiPullStarts, WifiPullGoesOn
<1> QED
  BY <1>1, <1>2, <1>3, <1>4 DEF Next

LEMMA InitImplements == Init => Trial!Init
<1> SUFFICES ASSUME Init PROVE Trial!Init
  OBVIOUS
<1>1. flash[0] = Image(Factory) /\ Complete(flash[0])
  BY ImagesAssumption DEF Init, DevInit, Slots, Complete
<1>2. running = 0 /\ boot = 0 /\ verify = FALSE
  BY DEF Init, DevInit
<1> QED
  BY <1>1, <1>2, CompleteIsBuild DEF Trial!Init, ImageIn

\* The dual slots, the trial start and its confirmation are what the
\* partition tables promise: the device implements TrialBoot.
THEOREM Refinement == Spec => TrialBootSpec
<1>1. [Trial!Next]_<<good, trial, verify>> <=> Step
  BY DEF Step
<1>2. IInv /\ [Next]_vars => Step
  BY NextImplements
<1> QED
  BY <1>2, InitImplements, Invariance, PTL
     DEF Spec, TrialBootSpec, Trial!Spec, Step, good, trial

=============================================================================
