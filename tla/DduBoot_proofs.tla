---------------------------- MODULE DduBoot_proofs ----------------------------
(***************************************************************************)
(* Proofs about DduBoot, for every set of transports, every setup and every *)
(* bound: type correctness; that the slot that runs is never erased; and,   *)
(* for one transport and a storage that does not fail, that recovery always *)
(* has a complete image to start and counts failed starts.                  *)
(*                                                                         *)
(* RunsComplete is inductive: an erase hits the other slot, and a start     *)
(* finds a complete image.  MainSlotComplete is not: that the slot about to *)
(* be erased is not the one recovery will start follows from what the       *)
(* program that runs was started from (StartedFromMain), and from the host, *)
(* which sends no second image before the restart (OneUpdate).              *)
(***************************************************************************)
EXTENDS DduBoot, TLAPS

\* Nothing of an update outlives a reset, and none begins before the loop.
NoSession == ota = NoOta /\ erasing = NotErasing /\ record = NoOta /\ served = {}
IdleEarly == app = "recovery" \/ pc \in {"init", "attempt"} => NoSession

\* The one transport erases, then has a session, then a record, and is served.
OneUpdate ==
  /\ served \subseteq {"hid"} /\ \A t \in Transports : erasing[t] # Partial => t = "hid"
  /\ ota # NoOta => ota.itf = "hid" /\ ota.slot = Target /\ erasing = NotErasing
  /\ record # NoOta => served # {} /\ record.slot = Target /\ Complete(Target)
  /\ served # {} => erasing = NotErasing /\ ota = NoOta

\* What runs was started because NVS names it; an update moves NVS on.
StartedFromMain ==
  app = "main" => mainslot = running \/ (served # {} /\ Complete(mainslot))

\* The OTA data names the main firmware only until it has run its first line.
BootPath ==
  /\ app = "main" /\ pc = "init" => bootsel = running
  /\ app = "recovery" \/ pc # "init" => bootsel = "factory"
  /\ app = "recovery" /\ pc # "start" => chosen = mainslot

MainInv == Plain => /\ Complete(mainslot)
                    /\ OneUpdate /\ StartedFromMain /\ BootPath

IInv == TypeOK /\ IdleEarly /\ MainInv

\* The counter in NVS and what recovery makes of it.
Counted == IF failed > MaxU8 THEN MaxU8 ELSE failed
CountInv ==
  Plain => /\ bootfail = Counted
           /\ app = "recovery" /\ pc # "start" => shown = IF bootfail > 0 THEN bootfail - 1 ELSE 0

-----------------------------------------------------------------------------
(* Type correctness                                                         *)

LEMMA SetupFields ==
  ASSUME TypeOK
  PROVE  /\ setup.updates \in 0..MaxUpdates /\ setup.crashes \in Nat
         /\ setup.taps \in Nat /\ setup.pins \in Nat
         /\ setup.via \subseteq Transports /\ setup.faults \subseteq FaultKinds
BY BoundsAssumption DEF TypeOK, Setup

\* What the boot loader starts is recovery, or a slot with a complete image.
LEMMA LoadsComplete ==
  ASSUME NEW sel \in Slots \cup {"factory"}
  PROVE  Loads(sel) = "factory" \/ (Loads(sel) \in Slots /\ Complete(Loads(sel)))
BY DEF Loads, Slots

LEMMA Reads == ASSUME NEW kind PROVE Attempt(kind) \subseteq BOOLEAN
BY DEF Attempt

LEMMA InitTyped == Init => TypeOK
<1> SUFFICES ASSUME Init PROVE TypeOK
  OBVIOUS
<1>1. /\ setup \in Setups /\ setup.updates \in Nat /\ setup.crashes \in Nat
      /\ setup.taps \in Nat /\ setup.pins \in Nat
  BY BoundsAssumption DEF Init, Setup
<1>2. flash \in [Slots -> Partial..Newest] /\ erasing \in [Transports -> Partial..Newest]
  BY BoundsAssumption DEF Init, Partial, Newest, NotErasing
<1>3. app \in {"recovery", "main"} /\ pc \in IF app = "main" THEN MainPc ELSE RecoveryPc
  BY DEF Init, RecoveryPc
<1>4. /\ bootfail \in 0..MaxU8 /\ shown \in 0..MaxU8 /\ failed \in Nat /\ acked \in 1..Newest
      /\ updates \in 0..setup.updates /\ crashes \in 0..setup.crashes
      /\ taps \in 0..setup.taps /\ pins \in 0..setup.pins
  BY <1>1, BoundsAssumption DEF Init, Newest
<1> QED BY <1>1, <1>2, <1>3, <1>4 DEF Init, TypeOK, Slots

\* An erase and what it is for.
LEMMA EraseTyped ==
  ASSUME TypeOK, EraseTarget PROVE flash' \in [Slots -> Partial..Newest]
<1>1. Partial \in Partial..Newest
  BY BoundsAssumption DEF Partial, Newest
<1> QED BY <1>1 DEF TypeOK, EraseTarget

\* A reset leaves typed what it sets, when the counters are.
LEMMA ResetTyped ==
  ASSUME TypeOK, NEW sel \in Slots \cup {"factory"}, Reset(sel), UNCHANGED <<setup, updates, taps, pins, history>>,
         crashes' \in 0..setup.crashes
  PROVE  TypeOK'
<1>1. app' \in {"recovery", "main"} /\ pc' \in (IF app' = "main" THEN MainPc ELSE RecoveryPc)
  BY LoadsComplete DEF Reset, MainPc, RecoveryPc
<1>2. running' \in Slots
  BY LoadsComplete DEF Reset, TypeOK
<1>3. erasing' \in [Transports -> Partial..Newest]
  BY BoundsAssumption DEF Reset, NotErasing, Partial, Newest
<1> QED BY <1>1, <1>2, <1>3 DEF Reset, TypeOK, nvs, recovery, history

LEMMA ChainLoadTyped ==
  ASSUME TypeOK, ChainLoad \/ Reset(bootsel), UNCHANGED <<counters, history>>
  PROVE  TypeOK'
<1>1. PICK sel \in Slots \cup {"factory"} : Reset(sel)
  BY DEF ChainLoad, TypeOK
<1> QED BY <1>1, ResetTyped DEF TypeOK, counters

\* How a session, a record and the images keep their types.
LEMMA TypeKept == TypeOK /\ [Next]_vars => TypeOK'
<1> SUFFICES ASSUME TypeOK, [Next]_vars PROVE TypeOK'
  OBVIOUS
<1> USE SetupFields
<1>1. CASE RecoveryStarts
  <2>1. shown' \in 0..MaxU8
    BY <1>1, BoundsAssumption DEF RecoveryStarts, TypeOK
  <2>2. chosen' \in Slots
    BY <1>1 DEF RecoveryStarts, TypeOK, Slots
  <2> QED BY <1>1, <2>1, <2>2 DEF RecoveryStarts, TypeOK, RecoveryPc, MainPc, nvs, main, session, counters, history
<1>2. CASE CountdownEnds
  BY <1>2, ChainLoadTyped DEF CountdownEnds
<1>3. CASE MenuAction
  BY <1>3, ChainLoadTyped DEF MenuAction
<1>4. CASE ScreenTapped
  BY <1>4 DEF ScreenTapped, TypeOK, RecoveryPc, MainPc, nvs, recovery, main, session, history
<1>5. CASE MainInit
  BY <1>5 DEF MainInit, TypeOK, RecoveryPc, MainPc, nvs, recovery, main, session, counters, history
<1>6. CASE BootAttemptBegin
  BY <1>6, BoundsAssumption DEF BootAttemptBegin, Saturated, TypeOK, RecoveryPc, MainPc, recovery, main, session, counters
<1>7. CASE Settled
  BY <1>7 DEF Settled, TypeOK, RecoveryPc, MainPc, nvs, recovery, main, session, counters, history
<1>8. CASE BootMarkOk
  BY <1>8, BoundsAssumption DEF BootMarkOk, TypeOK, recovery, session, counters
<1>9. ASSUME NEW t \in Transports, Begin(t) PROVE TypeOK'
  <2>1. flash' \in [Slots -> Partial..Newest] /\ erasing' \in [Transports -> Partial..Newest]
    <3>1. updates + 2 \in Partial..Newest
      BY <1>9, BoundsAssumption DEF Begin, TypeOK, Partial, Newest
    <3> QED BY <1>9, <3>1, EraseTyped DEF Begin, TypeOK
  <2>2. ota' \in Session \cup {NoOta}
    BY <1>9 DEF Begin, TypeOK, Session
  <2>3. updates' \in 0..setup.updates
    BY <1>9 DEF Begin, TypeOK
  <2> QED BY <1>9, <2>1, <2>2, <2>3 DEF Begin, TypeOK, nvs, recovery, history
<1>10. ASSUME NEW t \in Transports, Opens(t) PROVE TypeOK'
  <2>1. flash' \in [Slots -> Partial..Newest] /\ erasing' \in [Transports -> Partial..Newest]
    <3>1. Partial \in Partial..Newest
      BY BoundsAssumption DEF Partial, Newest
    <3> QED BY <1>10, <3>1, EraseTyped DEF Opens, TypeOK
  <2>2. Target \in Slots
    BY DEF Target, Other, Slots
  <2>3. erasing[t] \in 1..Newest
    BY <1>10, BoundsAssumption DEF Opens, TypeOK, Partial, Newest
  <2>4. ota' \in Session \cup {NoOta}
    BY <1>10, <2>2, <2>3 DEF Opens, TypeOK, Session
  <2> QED BY <1>10, <2>1, <2>4 DEF Opens, TypeOK, nvs, recovery, counters, history
<1>11. CASE FeedLast
  <2>1. ota \in Session
    BY <1>11 DEF FeedLast, TypeOK
  <2>2. flash' \in [Slots -> Partial..Newest]
    BY <1>11, <2>1, BoundsAssumption DEF FeedLast, TypeOK, Session, Partial, Newest
  <2>3. record' \in Session \cup {NoOta} /\ ota' \in Session \cup {NoOta} /\ served' \subseteq Transports
    BY <1>11, <2>1 DEF FeedLast, TypeOK, Session
  <2> QED BY <1>11, <2>2, <2>3 DEF FeedLast, TypeOK, nvs, recovery, counters, history
<1>12. CASE Record
  BY <1>12 DEF Record, TypeOK, Session, recovery, counters
<1>13. CASE SessionDropped
  BY <1>13 DEF SessionDropped, TypeOK, nvs, recovery, counters, history
<1>14. CASE PinsPushed
  BY <1>14 DEF PinsPushed, TypeOK, nvs, recovery, session, history
<1>15. CASE RestartDue
  BY <1>15 DEF RestartDue, TypeOK, MainPc, RecoveryPc, nvs, recovery, main, session, counters, history
<1>16. CASE Restart
  BY <1>16, ChainLoadTyped DEF Restart
<1>17. CASE Crash
  <2>1. crashes' \in 0..setup.crashes
    BY <1>17 DEF Crash, TypeOK
  <2>2. bootsel \in Slots \cup {"factory"}
    BY DEF TypeOK
  <2> QED BY <1>17, <2>1, <2>2, ResetTyped DEF Crash
<1>18. CASE UNCHANGED vars
  BY <1>18 DEF vars, TypeOK, nvs, recovery, main, session, counters, history
<1> QED BY <1>1, <1>2, <1>3, <1>4, <1>5, <1>6, <1>7, <1>8, <1>9, <1>10, <1>11, <1>12, <1>13,
           <1>14, <1>15, <1>16, <1>17, <1>18 DEF Next, Recovery, MainBoots, Update

\* Every variable keeps its type, the u8 that counts failed starts included.
THEOREM TypeCorrect == Spec => []TypeOK
BY InitTyped, TypeKept, PTL DEF Spec

-----------------------------------------------------------------------------
(* The slot that runs                                                       *)

LEMMA ResetRuns ==
  ASSUME TypeOK, NEW sel \in Slots \cup {"factory"}, Reset(sel), app' = "main"
  PROVE  Complete(running)'
BY LoadsComplete DEF Reset, Complete, TypeOK

LEMMA ChainLoadRuns ==
  ASSUME TypeOK, ChainLoad \/ Reset(bootsel), app' = "main"
  PROVE  Complete(running)'
<1>1. PICK sel \in Slots \cup {"factory"} : Reset(sel)
  BY DEF ChainLoad, TypeOK
<1> QED BY <1>1, ResetRuns

\* An erase hits the slot that does not run; a session ends in a complete image.
LEMMA EraseSpares ==
  ASSUME TypeOK, EraseTarget, UNCHANGED running, Complete(running)
  PROVE  Complete(running)'
BY DEF EraseTarget, Target, Other, Complete, TypeOK, Slots

LEMMA RunsKept == RunsComplete /\ [Next]_vars => RunsComplete'
<1> SUFFICES ASSUME TypeOK, app = "main" => Complete(running), [Next]_vars, app' = "main"
             PROVE  Complete(running)'
  BY TypeKept DEF RunsComplete
<1>1. CASE RecoveryStarts \/ ScreenTapped \/ MainInit \/ BootAttemptBegin \/ Settled \/ BootMarkOk
           \/ Record \/ SessionDropped \/ PinsPushed \/ RestartDue \/ UNCHANGED vars
  <2>1. UNCHANGED <<running, app, flash>>
    BY <1>1 DEF RecoveryStarts, ScreenTapped, MainInit, BootAttemptBegin, Settled, BootMarkOk,
                Record, SessionDropped, PinsPushed, RestartDue, vars
  <2> QED BY <2>1 DEF Complete
<1>2. CASE CountdownEnds \/ MenuAction \/ Restart
  BY <1>2, ChainLoadRuns DEF CountdownEnds, MenuAction, Restart
<1>3. CASE Crash
  BY <1>3, ChainLoadRuns DEF Crash
<1>4. ASSUME NEW t \in Transports, Begin(t) \/ Opens(t) PROVE Complete(running)'
  BY <1>4, EraseSpares DEF Begin, Opens
<1>5. CASE FeedLast
  <2>1. ota \in Session /\ ota.id # Partial
    BY <1>5, BoundsAssumption DEF FeedLast, TypeOK, Session, Partial
  <2> QED BY <1>5, <2>1 DEF FeedLast, Complete, TypeOK, Session
<1> QED BY <1>1, <1>2, <1>3, <1>4, <1>5 DEF Next, Recovery, MainBoots, Update

\* Whatever the transports and the storage do, the slot that runs is whole.
THEOREM RunningSlotComplete == Spec => []RunsComplete
<1>1. Init => RunsComplete
  BY InitTyped DEF RunsComplete, Init
<1> QED BY <1>1, RunsKept, PTL DEF Spec

-----------------------------------------------------------------------------
(* Failed starts                                                            *)

LEMMA SetupKept == [Next]_vars => setup' = setup
BY DEF Next, Recovery, MainBoots, Update, RecoveryStarts, ScreenTapped, MainInit, BootAttemptBegin,
       Settled, BootMarkOk, Record, SessionDropped, PinsPushed, RestartDue, CountdownEnds, MenuAction,
       Restart, Crash, Begin, Opens, FeedLast, vars, counters

LEMMA CountKept == TypeOK /\ CountInv /\ [Next]_vars => CountInv'
<1> SUFFICES ASSUME TypeOK, CountInv, [Next]_vars, Plain' PROVE CountInv'
  BY DEF CountInv
<1> USE BoundsAssumption
<1>1. setup' = setup
  BY SetupKept
<1>2. Plain /\ Attempt("nvs") = {TRUE}
  BY <1>1 DEF Plain, Attempt
<1>3. CASE RecoveryStarts
  BY <1>2, <1>3 DEF RecoveryStarts, CountInv, Counted, Plain, TypeOK, nvs, counters, history
<1>4. CASE BootAttemptBegin
  <2>1. app = "main" /\ app' = app /\ bootfail' = Saturated(bootfail) /\ failed' = failed + 1
    BY <1>2, <1>4 DEF BootAttemptBegin, TypeOK, RecoveryPc
  <2>2. bootfail = Counted /\ failed \in Nat /\ bootfail \in 0..MaxU8
    BY <1>2 DEF CountInv, TypeOK
  <2>3. bootfail' = Counted'
    BY <2>1, <2>2 DEF Counted, Saturated
  <2> QED BY <2>1, <2>3 DEF CountInv
<1>5. CASE BootMarkOk
  <2>1. app = "main" /\ app' = app /\ bootfail' = 0 /\ failed' = 0
    BY <1>2, <1>5 DEF BootMarkOk, TypeOK, RecoveryPc
  <2> QED BY <2>1 DEF CountInv, Counted
<1>6. CASE CountdownEnds \/ MenuAction \/ Restart \/ Crash
  <2>1. UNCHANGED <<bootfail, failed>> /\ (app' = "main" \/ pc' = "start")
    BY <1>6 DEF CountdownEnds, MenuAction, Restart, Crash, ChainLoad, Reset, nvs, history
  <2> QED BY <1>2, <2>1 DEF CountInv, Counted
<1>7. CASE ScreenTapped
  BY <1>2, <1>7 DEF ScreenTapped, CountInv, Counted, nvs, recovery, history
<1>8. CASE MainInit \/ Settled \/ RestartDue
  <2>1. UNCHANGED <<bootfail, shown, failed>> /\ app = "main" /\ app' = app
    BY <1>8 DEF MainInit, Settled, RestartDue, TypeOK, RecoveryPc, nvs, recovery, history
  <2> QED BY <1>2, <2>1 DEF CountInv, Counted
<1>9. CASE FeedLast \/ Record \/ SessionDropped \/ PinsPushed \/ (\E t \in Transports : Update(t)) \/ UNCHANGED vars
  <2>1. UNCHANGED <<bootfail, shown, failed, app, pc>>
    BY <1>9 DEF FeedLast, Record, SessionDropped, PinsPushed, Update, Begin, Opens, nvs, recovery, history, vars
  <2> QED BY <1>2, <2>1 DEF CountInv, Counted
<1> QED BY <1>3, <1>4, <1>5, <1>6, <1>7, <1>8, <1>9 DEF Next, Recovery, MainBoots

\* Recovery reports one less than the starts in a row that failed, up to the
\* counter's limit; a single failed start is not reported.
THEOREM FailedStartsShow == Spec => []FailuresShow
<1>1. Init => CountInv
  BY BoundsAssumption DEF Init, CountInv, Counted
<1>2. TypeOK /\ CountInv => FailuresShow
  BY BoundsAssumption DEF CountInv, FailuresShow, Counted, TypeOK
<1> QED BY <1>1, <1>2, CountKept, TypeCorrect, PTL DEF Spec

-----------------------------------------------------------------------------
(* The slot recovery starts                                                 *)

LEMMA IdleKept == TypeOK /\ IdleEarly /\ [Next]_vars => IdleEarly'
<1> SUFFICES ASSUME TypeOK, IdleEarly, [Next]_vars PROVE IdleEarly'
  OBVIOUS
<1>1. CASE CountdownEnds \/ MenuAction \/ Restart \/ Crash
  BY <1>1 DEF CountdownEnds, MenuAction, Restart, Crash, ChainLoad, Reset, IdleEarly, NoSession, NotErasing
<1>2. CASE RecoveryStarts \/ ScreenTapped \/ MainInit
  BY <1>2 DEF RecoveryStarts, ScreenTapped, MainInit, TypeOK, RecoveryPc, MainPc, IdleEarly, NoSession,
              NotErasing, main, session
<1>3. CASE BootAttemptBegin \/ Settled \/ BootMarkOk \/ RestartDue \/ PinsPushed
  BY <1>3 DEF BootAttemptBegin, Settled, BootMarkOk, RestartDue, PinsPushed, TypeOK, RecoveryPc, IdleEarly, main
<1>4. ASSUME NEW t \in Transports, Begin(t) PROVE IdleEarly'
  BY <1>4 DEF Begin, CanBegin, TypeOK, RecoveryPc, IdleEarly
<1>5. ASSUME NEW t \in Transports, Opens(t) PROVE IdleEarly'
  BY <1>5 DEF Opens, IdleEarly, NoSession, NotErasing
<1>6. CASE FeedLast \/ Record \/ SessionDropped
  BY <1>6 DEF FeedLast, Record, SessionDropped, IdleEarly, NoSession
<1>7. CASE UNCHANGED vars
  BY <1>7 DEF vars, main, session, IdleEarly, NoSession, NotErasing
<1> QED BY <1>1, <1>2, <1>3, <1>4, <1>5, <1>6, <1>7 DEF Next, Recovery, MainBoots, Update

LEMMA MainKept == IInv /\ Plain /\ [Next]_vars =>
    Complete(mainslot)' /\ OneUpdate' /\ StartedFromMain' /\ BootPath'
<1> SUFFICES ASSUME TypeOK, IdleEarly, Plain, [Next]_vars,
                    Complete(mainslot), OneUpdate, StartedFromMain, BootPath
             PROVE  Complete(mainslot)' /\ OneUpdate' /\ StartedFromMain' /\ BootPath'
  BY DEF IInv, MainInv
<1>0. \A kind : Attempt(kind) = {TRUE}
  BY DEF Plain, Attempt
<1>1. ASSUME \/ Reset(IF Complete(chosen) THEN chosen ELSE bootsel) /\ app = "recovery" /\ pc # "start"
             \/ Reset(bootsel)
      PROVE  Complete(mainslot)' /\ OneUpdate' /\ StartedFromMain' /\ BootPath'
  <2>1. flash' = flash /\ mainslot' = mainslot /\ chosen' = chosen /\ NoSession'
    BY <1>1 DEF Reset, nvs, recovery, NoSession, NotErasing
  <2>2. Complete(mainslot)' /\ OneUpdate'
    BY <2>1 DEF Complete, OneUpdate, NoSession, NotErasing
  <2>3. CASE Reset(mainslot)
    <3>1. Loads(mainslot) = mainslot
      BY DEF Loads, TypeOK, Slots
    <3> QED BY <2>1, <2>2, <2>3, <3>1 DEF Reset, StartedFromMain, BootPath, TypeOK, Slots
  <2>4. CASE Reset("factory")
    BY <2>1, <2>2, <2>4 DEF Reset, Loads, StartedFromMain, BootPath, TypeOK, Slots
  <2>5. bootsel \in {mainslot, "factory"} /\ (app = "recovery" /\ pc # "start" => chosen = mainslot)
    BY DEF BootPath, StartedFromMain, IdleEarly, NoSession, TypeOK
  <2> QED BY <1>1, <2>3, <2>4, <2>5
<1>2. CASE CountdownEnds \/ MenuAction \/ Restart \/ Crash
  BY <1>0, <1>1, <1>2 DEF CountdownEnds, MenuAction, Restart, Crash, ChainLoad, TypeOK, MainPc
<1>3. CASE RecoveryStarts \/ ScreenTapped \/ MainInit \/ BootAttemptBegin \/ Settled \/ BootMarkOk
           \/ PinsPushed \/ RestartDue \/ UNCHANGED vars
  <2>1. UNCHANGED <<flash, mainslot, session, app, running>>
    BY <1>3 DEF RecoveryStarts, ScreenTapped, MainInit, BootAttemptBegin, Settled, BootMarkOk,
                PinsPushed, RestartDue, vars, nvs, main
  <2>2. Complete(mainslot)' /\ OneUpdate' /\ StartedFromMain'
    BY <2>1 DEF Complete, OneUpdate, StartedFromMain, session, NotErasing, Target, Other
  <2>3. BootPath'
    BY <1>0, <1>3 DEF RecoveryStarts, ScreenTapped, MainInit, BootAttemptBegin, Settled, BootMarkOk,
                PinsPushed, RestartDue, vars, nvs, main, recovery, BootPath, TypeOK, MainPc, RecoveryPc
  <2> QED BY <2>2, <2>3
<1>4. ASSUME NEW t \in Transports, Begin(t) PROVE Complete(mainslot)' /\ OneUpdate' /\ StartedFromMain' /\ BootPath'
  <2>1. t = "hid" /\ served = {} /\ record = NoOta /\ ota = NoOta /\ app = "main" /\ pc = "loop"
    BY <1>4 DEF Begin, CanBegin, Plain, OneUpdate, TypeOK, RecoveryPc
  <2>2. mainslot = running
    BY <2>1 DEF StartedFromMain
  <2> QED BY <1>4, <2>1, <2>2 DEF Begin, EraseTarget, Target, Other, Complete, OneUpdate, StartedFromMain,
             BootPath, NotErasing, TypeOK, Slots, nvs, recovery
<1>5. ASSUME NEW t \in Transports, Opens(t) PROVE Complete(mainslot)' /\ OneUpdate' /\ StartedFromMain' /\ BootPath'
  <2>1. t = "hid" /\ served = {} /\ record = NoOta /\ app = "main" /\ pc \notin {"init", "attempt"}
    BY <1>5 DEF Opens, OneUpdate, IdleEarly, NoSession, NotErasing, TypeOK
  <2>2. mainslot = running
    BY <2>1 DEF StartedFromMain
  <2>3. erasing' = NotErasing
    BY <1>5, <2>1 DEF Opens, OneUpdate, NotErasing, TypeOK
  <2>4. Complete(mainslot)'
    BY <1>5, <2>2 DEF Opens, EraseTarget, Target, Other, Complete, TypeOK, Slots, nvs
  <2>5. ota' # NoOta => ota'.itf = "hid" /\ ota'.slot = Target
    <3>1. PICK intact \in BOOLEAN : ota' = [slot |-> Target, itf |-> t, id |-> erasing[t], intact |-> intact]
      BY <1>5, <1>0 DEF Opens
    <3> QED BY <2>1, <3>1
  <2>6. OneUpdate'
    BY <1>5, <2>1, <2>3, <2>5 DEF Opens, OneUpdate, NotErasing, Target
  <2> QED BY <1>5, <2>1, <2>2, <2>4, <2>6 DEF Opens, StartedFromMain, BootPath, nvs, recovery
<1>6. CASE FeedLast
  <2>1. /\ ota \in Session /\ ota.id # Partial /\ ota.slot = Target /\ ota.itf = "hid" /\ erasing = NotErasing
        /\ served = {}
    BY <1>6, BoundsAssumption DEF FeedLast, TypeOK, Session, Partial, OneUpdate
  <2>2. app = "main" /\ pc \in {"settle", "loop", "sleep"} /\ mainslot = running
    BY <1>6, <2>1 DEF FeedLast, CanFeed, TypeOK, RecoveryPc, StartedFromMain
  <2>3. Complete(mainslot)'
    BY <1>6, <2>1, <2>2 DEF FeedLast, Target, Other, Complete, TypeOK, Slots, nvs
  <2>4. record' # NoOta => record'.slot = Target /\ Complete(Target)'
    BY <1>6, <2>1 DEF FeedLast, Complete, Target, Other, TypeOK, Slots
  <2> QED BY <1>6, <2>1, <2>2, <2>3, <2>4 DEF FeedLast, OneUpdate, StartedFromMain, BootPath, NotErasing, Target,
             nvs, recovery
<1>7. CASE Record
  <2>1. app = "main" /\ pc \notin {"init", "attempt"} /\ mainslot' = Target /\ Complete(Target) /\ served # {}
    BY <1>7, <1>0 DEF Record, IdleEarly, NoSession, TypeOK, OneUpdate
  <2> QED BY <1>7, <2>1 DEF Record, Complete, OneUpdate, StartedFromMain, BootPath, NotErasing, recovery
<1>8. CASE SessionDropped
  BY <1>8 DEF SessionDropped, Complete, OneUpdate, StartedFromMain, BootPath, NotErasing, Target, nvs, recovery
<1> QED BY <1>2, <1>3, <1>4, <1>5, <1>6, <1>7, <1>8 DEF Next, Recovery, MainBoots, Update

\* With one transport and a storage that works, recovery always has a complete
\* image to start, at whatever point of an update the device loses power.
THEOREM RecoveryHasImage == Spec => []MainSlotComplete
<1>1. Init => IInv
  BY InitTyped DEF Init, IInv, IdleEarly, NoSession, MainInv, Complete, OneUpdate, StartedFromMain, BootPath,
                   NotErasing, Slots, Partial
<1>2. IInv /\ [Next]_vars => IInv'
  BY TypeKept, IdleKept, MainKept, SetupKept DEF IInv, MainInv, Plain
<1>3. IInv => MainSlotComplete
  BY DEF IInv, MainInv, MainSlotComplete
<1> QED BY <1>1, <1>2, <1>3, PTL DEF Spec

=============================================================================
