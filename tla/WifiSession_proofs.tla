-------------------------- MODULE WifiSession_proofs --------------------------
(***************************************************************************)
(* Proofs about WifiSession, for every set of devices and scenarios:       *)
(* everything keeps its types, the crash guard leaves a device alone after *)
(* CrashLimit crashes in a row, no button stays pressed in the game when   *)
(* its device is gone, and a reply answers the question it is taken for.   *)
(*                                                                         *)
(* GuardHolds alone says nothing of the next crash: GuardOf relates the    *)
(* starts in a row to the counter in NVS, the thread's copy of it, and the *)
(* place the thread has reached.  ReplyIsOwn follows from OneQuestion: the *)
(* thread's question, or the answer to it, is in one place only.           *)
(***************************************************************************)
EXTENDS WifiSession, FiniteSetTheorems, SequenceTheorems, TLAPS

LEMMA MinOfTwo ==
  ASSUME NEW a \in Int, NEW b \in Int PROVE Min({a, b}) = IF a <= b THEN a ELSE b
BY DEF Min

\* A step pays for at most one charge.
Pays == Free \/ \E k \in Charges : Spend(k)

LEMMA PaidTyped ==
  ASSUME budget \in [Charges -> Nat], Pays PROVE budget' \in [Charges -> Nat]
<1>1. CASE Free
  BY <1>1 DEF Free
<1>2. ASSUME NEW k \in Charges, Spend(k) PROVE budget' \in [Charges -> Nat]
  <2>1. budget[k] - 1 \in Nat
    BY <1>2 DEF Spend
  <2> QED BY <1>2, <2>1 DEF Spend
<1> QED BY <1>1, <1>2 DEF Pays

LEMMA ThreadPays ==
  ASSUME NEW d \in Dev, LinkThread(d) \/ Relay(d) \/ Streaming(d) PROVE Pays
BY DEF LinkThread, Relay, Streaming, Beacon, StreamAxis, StreamButtons, StartThread, TakeFresh, LoadStored,
       Arm, StartDriver, PickUp, Connect, Stable, Leave, PullEnds, Pays, Charges

LEMMA EnvPays == ASSUME LinkEnv PROVE Pays
BY DEF LinkEnv, AccessPoint, Lose, Crash, Restart, TornSave, Move, Provision, Pays, Charges

LEMMA StepPays == ASSUME LinkStep \/ RouterStep PROVE Pays
<1>1. ASSUME NEW m, GetFromHost(m) PROVE Pays
  BY <1>1 DEF GetFromHost, GetSubscribe, GetLine, GetOta, Pays
<1>2. CASE Router
  BY <1>2 DEF Router, TakeNothing, Unheard, TakeBeacon, TakeAxis, TakeButtons, TakeReply, Taken, Pays, Charges
<1>3. ASSUME NEW k, Toggle(k) PROVE Pays
  BY <1>3 DEF Toggle, Pays, Charges
<1> QED BY <1>1, <1>2, <1>3, ThreadPays, EnvPays DEF LinkStep, RouterStep

\* The page's thread touches neither the devices nor what is in the air.
LEMMA PagePays ==
  ASSUME Press \/ Update \/ Cable \/ Session
  PROVE  Pays /\ UNCHANGED <<devVars, air, host, seen, enabled>>
<1>1. CASE Press \/ Update \/ Cable
  BY <1>1 DEF Press, Update, Cable, Pays, Charges, netVars, routerVars
<1>2. ASSUME NEW w, Received(w) PROVE Pays /\ Rest
  BY <1>2 DEF Received, Hears, GivesUp, Pays, Charges
<1>3. ASSUME NoChange PROVE Pays
  BY <1>3 DEF NoChange, Pays
<1>4. CASE Session
  <2>1. Pays /\ Rest
    BY <1>2, <1>3, <1>4 DEF Session, Begin, DropCommand, Handshake, FirstStatus, LeaveSession, Poll, Polled,
       IdleAnswered, MaxAnswered, Learned, StartLearning, StopLearning, SendCommand, CommandAnswered, Refreshed,
       Upload, Pays
  <2> QED BY <2>1 DEF Rest
<1> QED BY <1>1, <1>4

-----------------------------------------------------------------------------
(* Types of the link                                                        *)

CredOrNone == Creds \cup {NoCreds}
Nvs == [ssid : CredOrNone, pass : CredOrNone, crashes : 0..255]

LEMMA Fields ==
  ASSUME LinkTypeOK, NEW d \in Dev
  PROVE  /\ nvs \in [Dev -> Nvs] /\ nvs[d] \in Nvs
         /\ tries[d] \in 0..255 /\ fresh[d] \in CredOrNone /\ nvs[d].crashes \in 0..255
<1>1. nvs \in [Dev -> Nvs] /\ tries[d] \in 0..255 /\ fresh[d] \in CredOrNone
  BY DEF LinkTypeOK, Nvs, CredOrNone
<1>2. nvs[d] \in Nvs
  BY <1>1
<1> QED BY <1>1, <1>2 DEF Nvs

LEMMA StoresCrashes ==
  ASSUME LinkTypeOK, NEW d \in Dev, NEW n \in 0..255, nvs' = [nvs EXCEPT ![d].crashes = n]
  PROVE  nvs' \in [Dev -> Nvs]
<1>1. [nvs[d] EXCEPT !.crashes = n] \in Nvs
  BY Fields DEF Nvs
<1> QED BY <1>1, Fields

LEMMA StoresCreds ==
  ASSUME LinkTypeOK, NEW d \in Dev, NEW c \in CredOrNone,
         \/ nvs' = [nvs EXCEPT ![d].ssid = c]
         \/ nvs' = [nvs EXCEPT ![d].ssid = c, ![d].pass = c]
         \/ nvs' = [nvs EXCEPT ![d] = [ssid |-> c, pass |-> c, crashes |-> 0]]
  PROVE  nvs' \in [Dev -> Nvs]
<1>1. nvs[d] \in Nvs
  BY Fields
<1>2. [nvs[d] EXCEPT !.ssid = c] \in Nvs
  BY <1>1 DEF Nvs
<1>3. [[nvs[d] EXCEPT !.ssid = c] EXCEPT !.pass = c] \in Nvs
  BY <1>2 DEF Nvs
<1>4. [ssid |-> c, pass |-> c, crashes |-> 0] \in Nvs
  BY DEF Nvs
<1>5. CASE nvs' = [nvs EXCEPT ![d].ssid = c]
  BY <1>2, <1>5, Fields
<1>6. CASE nvs' = [nvs EXCEPT ![d].ssid = c, ![d].pass = c]
  BY <1>2, <1>3, <1>6, Fields
<1>7. CASE nvs' = [nvs EXCEPT ![d] = [ssid |-> c, pass |-> c, crashes |-> 0]]
  BY <1>4, <1>7, Fields
<1> QED BY <1>5, <1>6, <1>7

LEMMA LinkInitTyped == LinkInit => LinkTypeOK
<1> SUFFICES ASSUME LinkInit PROVE LinkTypeOK
  OBVIOUS
<1>1. at \in [Dev -> Places] /\ budget \in [Charges -> Nat]
  BY ScenarioAssumption DEF LinkInit, Places, Starts, Armed
<1>2. nvs \in [Dev -> Nvs]
  BY CredsAssumption DEF LinkInit, CredOrNone, Nvs
<1>3. inuse \in [Dev -> CredOrNone \X CredOrNone] /\ fresh \in [Dev -> CredOrNone]
  BY CredsAssumption DEF LinkInit, CredOrNone
<1> QED BY <1>1, <1>2, <1>3 DEF LinkInit, LinkTypeOK, CredOrNone, Nvs

LEMMA VolatileTyped ==
  ASSUME LinkTypeOK, NEW d \in Dev, Volatile(d)
  PROVE  /\ fresh' \in [Dev -> CredOrNone] /\ inuse' \in [Dev -> CredOrNone \X CredOrNone]
         /\ tries' \in [Dev -> 0..255] /\ calm' \in [Dev -> BOOLEAN] /\ sub' \in [Dev -> BOOLEAN]
         /\ up' = up
BY DEF LinkTypeOK, Volatile, Set, CredOrNone

LEMMA EndsTyped ==
  ASSUME LinkTypeOK, NEW d \in Dev, Ends(d) PROVE row' \in [Dev -> Nat]
BY DEF LinkTypeOK, Ends, Set

LEMMA ThreadTyped ==
  ASSUME LinkTypeOK, NEW d \in Dev, LinkThread(d) PROVE LinkTypeOK'
<1>0. budget' \in [Charges -> Nat]
  BY ThreadPays, PaidTyped DEF LinkTypeOK
<1>p. {"wait", "arm", "driver", "top", "connect", "udp", "usbonly"} \subseteq Places
  BY DEF Places, Armed
<1>1. CASE StartThread(d)
  <2>1. PICK n \in 0..255 : tries' = Set(tries, d, n) /\ nvs' = [nvs EXCEPT ![d].crashes = n]
    <3> DEFINE n == IF at[d] = "clean" THEN 0 ELSE nvs[d].crashes
    <3>1. n \in 0..255
      BY Fields
    <3>2. tries' = Set(tries, d, n) /\ nvs' = [nvs EXCEPT ![d].crashes = n]
      BY <1>1 DEF StartThread
    <3> HIDE DEF n
    <3> QED BY <3>1, <3>2
  <2>2. nvs' \in [Dev -> Nvs] /\ tries' \in [Dev -> 0..255]
    BY <2>1, StoresCrashes DEF Set, LinkTypeOK
  <2> QED BY <1>0, <1>p, <1>1, <2>2 DEF StartThread, Set, LinkTypeOK, Nvs, CredOrNone, envVars
<1>2. CASE TakeFresh(d)
  <2>1. nvs' \in [Dev -> Nvs]
    BY <1>2, Fields, StoresCreds DEF TakeFresh, Set
  <2> QED BY <1>0, <1>p, <1>2, <2>1 DEF TakeFresh, Set, LinkTypeOK, Nvs, CredOrNone, envVars
<1>3. CASE LoadStored(d)
  <2>1. inuse' \in [Dev -> CredOrNone \X CredOrNone]
    <3>1. <<nvs[d].ssid, nvs[d].pass>> \in CredOrNone \X CredOrNone
      BY Fields DEF Nvs
    <3> QED BY <1>3, <3>1 DEF LoadStored, Set, LinkTypeOK, CredOrNone
  <2> QED BY <1>0, <1>p, <1>3, <2>1 DEF LoadStored, Set, LinkTypeOK, Nvs, CredOrNone, envVars
<1>4. CASE Arm(d)
  <2>1. Min({255, tries[d] + 1}) \in 0..255
    <3>1. tries[d] \in 0..255 /\ tries[d] + 1 \in Int /\ 255 \in Int
      BY Fields
    <3>2. Min({255, tries[d] + 1}) = IF 255 <= tries[d] + 1 THEN 255 ELSE tries[d] + 1
      BY <3>1, MinOfTwo
    <3> QED BY <3>1, <3>2
  <2>2. nvs' \in [Dev -> Nvs]
    BY <1>4, <2>1, StoresCrashes DEF Arm
  <2> QED BY <1>0, <1>p, <1>4, <2>2 DEF Arm, Set, LinkTypeOK, Nvs, CredOrNone, envVars, Armed
<1>5. CASE StartDriver(d)
  BY <1>0, <1>p, <1>5 DEF StartDriver, Set, LinkTypeOK, Nvs, CredOrNone, envVars, Armed
<1>6. CASE PickUp(d)
  <2>1. /\ nvs' \in [Dev -> Nvs]
        /\ inuse' \in [Dev -> CredOrNone \X CredOrNone] /\ fresh' \in [Dev -> CredOrNone]
    <3>1. fresh[d] \in CredOrNone
      BY Fields
    <3>2. nvs' \in [Dev -> Nvs]
      BY <1>6, <3>1, Fields, StoresCreds DEF PickUp
    <3>3. <<fresh[d], fresh[d]>> \in CredOrNone \X CredOrNone /\ NoCreds \in CredOrNone
      BY <3>1 DEF CredOrNone
    <3>4. inuse' \in [Dev -> CredOrNone \X CredOrNone]
      BY SMTT(30), <1>6, <3>3 DEF PickUp, Set, LinkTypeOK, CredOrNone
    <3>5. fresh' \in [Dev -> CredOrNone]
      <4>1. fresh' = fresh \/ fresh' = Set(fresh, d, NoCreds)
        BY <1>6 DEF PickUp
      <4> QED BY <4>1 DEF Set, LinkTypeOK, CredOrNone
    <3> QED BY <3>2, <3>4, <3>5
  <2> QED BY <1>0, <1>p, <1>6, <2>1 DEF PickUp, Set, LinkTypeOK, Nvs, CredOrNone, envVars, Armed
<1>7. CASE Connect(d)
  BY <1>0, <1>p, <1>7 DEF Connect, Set, LinkTypeOK, Nvs, CredOrNone, envVars, Armed
<1>8. CASE Stable(d)
  <2>1. nvs' \in [Dev -> Nvs]
    <3>1. 0 \in 0..255 /\ nvs' = [nvs EXCEPT ![d].crashes = 0]
      BY <1>8 DEF Stable
    <3> QED BY <3>1, StoresCrashes
  <2> QED BY <1>0, <1>8, <2>1 DEF Stable, Set, LinkTypeOK, Nvs, CredOrNone, envVars
<1>9. CASE Leave(d) \/ PullEnds(d)
  <2>1. at' \in [Dev -> Places] /\ sub' \in [Dev -> BOOLEAN]
    <3>1. at \in [Dev -> Places] /\ sub \in [Dev -> BOOLEAN]
      BY DEF LinkTypeOK
    <3>2. CASE Leave(d)
      BY <1>p, <3>1, <3>2 DEF Leave, Set
    <3>3. CASE PullEnds(d)
      BY <1>p, <3>1, <3>3 DEF PullEnds, Set
    <3> QED BY <1>9, <3>2, <3>3
  <2>2. UNCHANGED <<nvs, fresh, inuse, tries, calm, row, input, up>>
    BY <1>9 DEF Leave, PullEnds, envVars
  <2> QED BY <1>0, <2>1, <2>2 DEF LinkTypeOK
<1> QED BY <1>1, <1>2, <1>3, <1>4, <1>5, <1>6, <1>7, <1>8, <1>9 DEF LinkThread

LEMMA EnvTyped ==
  ASSUME LinkTypeOK, LinkEnv PROVE LinkTypeOK'
<1>0. budget' \in [Charges -> Nat]
  BY EnvPays, PaidTyped DEF LinkTypeOK
<1>p. Starts \subseteq Places /\ "off" \in Places
  BY DEF Places, Starts
<1>1. ASSUME NEW d \in Dev, Crash(d) \/ Restart(d) PROVE LinkTypeOK'
  <2>1. at' \in [Dev -> Places]
    <3>1. PICK p \in {"abnormal", "clean", "off"} : at' = Set(at, d, p)
      BY <1>1 DEF Crash, Restart
    <3>2. p \in Places
      BY <1>p DEF Starts
    <3> QED BY <3>1, <3>2 DEF Set, LinkTypeOK
  <2>2. Volatile(d) /\ Ends(d) /\ UNCHANGED <<nvs, input>>
    BY <1>1 DEF Crash, Restart
  <2> QED BY <1>0, <2>1, <2>2, VolatileTyped, EndsTyped DEF LinkTypeOK, CredOrNone
<1>2. ASSUME NEW d \in Dev, TornSave(d) PROVE LinkTypeOK'
  <2>1. nvs' \in [Dev -> Nvs]
    BY <1>2, Fields, StoresCreds DEF TornSave
  <2> QED BY <1>0, <1>p, <1>2, <2>1, VolatileTyped, EndsTyped DEF TornSave, Set, LinkTypeOK, Nvs, CredOrNone, Starts
<1>3. ASSUME NEW d \in Dev, Move(d) PROVE LinkTypeOK'
  <2>1. 1 - input[d] \in {0, 1}
    BY DEF LinkTypeOK
  <2> QED BY <1>0, <1>3, <2>1 DEF Move, Set, LinkTypeOK, Nvs, CredOrNone, linkVars
<1>4. ASSUME NEW d \in Dev, NEW c \in Creds, Provision(d, c) PROVE LinkTypeOK'
  BY <1>0, <1>4 DEF Provision, Set, LinkTypeOK, Nvs, CredOrNone, threadVars, envVars
<1>5. ASSUME AccessPoint \/ \E m \in air : Lose(m) PROVE LinkTypeOK'
  BY ZenonT(40), <1>0, <1>5 DEF AccessPoint, Lose, LinkTypeOK, Nvs, CredOrNone, linkVars, envVars
<1> QED BY <1>1, <1>2, <1>3, <1>4, <1>5 DEF LinkEnv

LEMMA LinkKept == LinkTypeOK /\ [Next]_vars => LinkTypeOK'
<1> SUFFICES ASSUME LinkTypeOK, [Next]_vars PROVE LinkTypeOK'
  OBVIOUS
<1>1. ASSUME NEW d \in Dev, Relay(d) \/ Streaming(d) PROVE LinkTypeOK'
  <2>1. budget' \in [Charges -> Nat]
    BY <1>1, ThreadPays, PaidTyped DEF LinkTypeOK
  <2>2. UNCHANGED <<at, nvs, fresh, inuse, tries, calm, sub, row, input, up>>
    BY <1>1 DEF Relay, Streaming, Beacon, StreamAxis, StreamButtons, linkVars, envVars
  <2> QED BY <2>1, <2>2 DEF LinkTypeOK
<1>2. ASSUME NEW m \in air, GetFromHost(m) PROVE LinkTypeOK'
  <2>1. "pull" \in Places /\ budget' = budget
    BY <1>2 DEF Places, Armed, GetFromHost, GetSubscribe, GetLine, GetOta, Free
  <2>2. UNCHANGED <<nvs, fresh, inuse, tries, calm, row, input, up>>
    BY <1>2 DEF GetFromHost, GetSubscribe, GetLine, GetOta, envVars
  <2>3. at' \in [Dev -> Places] /\ sub' \in [Dev -> BOOLEAN]
    BY ZenonT(40), <1>2, <2>1 DEF GetFromHost, GetSubscribe, GetLine, GetOta, Set, LinkTypeOK
  <2> QED BY <2>1, <2>2, <2>3 DEF LinkTypeOK
<1>3. CASE LinkStep
  BY <1>1, <1>2, <1>3, ThreadTyped, EnvTyped DEF LinkStep
<1>4. CASE RouterStep
  <2>1. budget' \in [Charges -> Nat]
    BY <1>4, StepPays, PaidTyped DEF LinkTypeOK
  <2>2. UNCHANGED devVars
    BY <1>4 DEF RouterStep, Router, Toggle, TakeNothing, Unheard, TakeBeacon, TakeAxis, TakeButtons, TakeReply, NextTurn
  <2> QED BY <2>1, <2>2 DEF LinkTypeOK, devVars, linkVars, envVars
<1>5. CASE Press \/ Update \/ Cable \/ Session
  BY <1>5, PagePays, PaidTyped DEF LinkTypeOK, devVars, linkVars, envVars
<1>6. CASE Serve
  BY <1>6 DEF Serve, Free, LinkTypeOK, threadVars, envVars
<1>7. CASE UNCHANGED vars
  BY <1>7 DEF vars, LinkTypeOK, devVars, linkVars, envVars
<1> QED BY <1>3, <1>4, <1>5, <1>6, <1>7 DEF Next

\* The devices' side of the link keeps its types: credentials are pairs the
\* user typed or none, and the crash counter stays a u8.
THEOREM LinkTyped == Spec => []LinkTypeOK
<1>1. Init => LinkTypeOK
  BY LinkInitTyped DEF Init
<1> QED BY <1>1, LinkKept, PTL DEF Spec

-----------------------------------------------------------------------------
(* The crash guard                                                          *)

\* No start in a row is missing from the counter; a start that is armed has
\* been added to it already, and was let through below the limit.
GuardOf(d) ==
  /\ row[d] <= CrashLimit /\ row[d] <= nvs[d].crashes
  /\ at[d] \in {"wait", "arm"} => row[d] <= tries[d]
  /\ at[d] = "arm" => tries[d] < CrashLimit
  /\ at[d] \notin Armed => ~calm[d]
  /\ at[d] \in Armed => IF calm[d] THEN row[d] = 0
                         ELSE row[d] < CrashLimit /\ row[d] < nvs[d].crashes

GuardInv == LinkTypeOK /\ \A d \in Dev : GuardOf(d)

\* What GuardOf looks at.
guarded == <<at, nvs, tries, calm, row>>
Alone(d) == \A e \in Dev \ {d} : /\ at'[e] = at[e] /\ nvs'[e] = nvs[e] /\ tries'[e] = tries[e]
                               /\ calm'[e] = calm[e] /\ row'[e] = row[e]

LEMMA GuardTypes ==
  ASSUME LinkTypeOK, NEW d \in Dev
  PROVE  /\ row[d] \in Nat /\ nvs[d].crashes \in 0..255 /\ tries[d] \in 0..255 /\ calm[d] \in BOOLEAN
         /\ DOMAIN at = Dev /\ DOMAIN nvs = Dev /\ DOMAIN tries = Dev /\ DOMAIN calm = Dev /\ DOMAIN row = Dev
         /\ DOMAIN nvs[d] = {"ssid", "pass", "crashes"}
BY Fields DEF LinkTypeOK, Nvs

LEMMA AloneGuards ==
  ASSUME GuardInv, NEW d \in Dev, Alone(d), GuardOf(d)', LinkTypeOK'
  PROVE  GuardInv'
BY DEF GuardInv, GuardOf, Alone

LEMMA ThreadGuards ==
  ASSUME GuardInv, NEW d \in Dev, LinkThread(d)
  PROVE  GuardInv'
<1> USE GuardAssumption
<1>0. LinkTypeOK /\ GuardOf(d) /\ LinkTypeOK'
  BY ThreadTyped DEF GuardInv
<1>p. /\ row[d] \in Nat /\ nvs[d].crashes \in 0..255 /\ tries[d] \in 0..255 /\ calm[d] \in BOOLEAN
      /\ DOMAIN at = Dev /\ DOMAIN nvs = Dev /\ DOMAIN tries = Dev /\ DOMAIN calm = Dev /\ DOMAIN row = Dev
      /\ DOMAIN nvs[d] = {"ssid", "pass", "crashes"}
  BY <1>0, GuardTypes
<1>n. CrashLimit \in Nat /\ 0 < CrashLimit /\ CrashLimit <= 255
  OBVIOUS
<1>1. CASE StartThread(d)
  <2>1. Alone(d)
    BY <1>p, <1>1 DEF StartThread, Set, Alone
  <2>2. GuardOf(d)'
    BY <1>0, <1>p, <1>n, <1>1 DEF StartThread, Set, GuardOf, Starts, Armed
  <2> QED BY <1>0, <2>1, <2>2, AloneGuards
<1>2. CASE TakeFresh(d)
  <2>1. Alone(d)
    BY <1>p, <1>2 DEF TakeFresh, Set, Alone
  <2>2. GuardOf(d)'
    BY <1>0, <1>p, <1>n, <1>2 DEF TakeFresh, Set, GuardOf, Armed
  <2> QED BY <1>0, <2>1, <2>2, AloneGuards
<1>3. CASE LoadStored(d)
  <2>1. Alone(d)
    BY <1>p, <1>3 DEF LoadStored, Set, Alone
  <2>2. GuardOf(d)'
    BY <1>0, <1>p, <1>n, <1>3 DEF LoadStored, Set, GuardOf, Armed
  <2> QED BY <1>0, <2>1, <2>2, AloneGuards
<1>4. CASE Arm(d)
  <2>1. Min({255, tries[d] + 1}) = tries[d] + 1
    <3>1. tries[d] + 1 \in Int /\ tries[d] + 1 <= 255
      BY <1>0, <1>p, <1>n, <1>4 DEF Arm, GuardOf
    <3>2. Min({255, tries[d] + 1}) = IF 255 <= tries[d] + 1 THEN 255 ELSE tries[d] + 1
      BY <3>1, MinOfTwo
    <3> QED BY <3>1, <3>2
  <2>2. Alone(d)
    BY <1>p, <1>4 DEF Arm, Set, Alone
  <2>3. at'[d] = "driver" /\ nvs'[d].crashes = tries[d] + 1 /\ UNCHANGED <<row, calm, tries>>
    BY <1>p, <1>4, <2>1 DEF Arm, Set
  <2>4. GuardOf(d)'
    BY <1>0, <1>p, <1>n, <1>4, <2>3 DEF Arm, GuardOf, Armed
  <2> QED BY <1>0, <2>2, <2>4, AloneGuards
<1>5. CASE Stable(d)
  <2>1. Alone(d)
    BY <1>p, <1>5 DEF Stable, Set, Alone
  <2>2. GuardOf(d)'
    BY <1>0, <1>p, <1>n, <1>5 DEF Stable, Set, GuardOf, Armed
  <2> QED BY <1>0, <2>1, <2>2, AloneGuards
<1>6. CASE StartDriver(d) \/ PickUp(d) \/ Connect(d) \/ Leave(d) \/ PullEnds(d)
  <2>1. at[d] \in Armed /\ at'[d] \in Armed
    BY <1>p, <1>6 DEF StartDriver, PickUp, Connect, Leave, PullEnds, Set, Armed
  <2>2. UNCHANGED <<tries, calm, row>>
    BY <1>6 DEF StartDriver, PickUp, Connect, Leave, PullEnds
  <2>3. nvs'[d].crashes = nvs[d].crashes /\ \A e \in Dev \ {d} : nvs'[e] = nvs[e]
    <3>1. CASE nvs' = nvs
      BY <3>1
    <3>2. CASE nvs' = [nvs EXCEPT ![d].ssid = fresh[d], ![d].pass = fresh[d]]
      <4>1. nvs'[d] = [[nvs[d] EXCEPT !.ssid = fresh[d]] EXCEPT !.pass = fresh[d]]
        BY <1>p, <3>2
      <4> QED BY <1>p, <3>2, <4>1
    <3> QED BY <1>6, <3>1, <3>2 DEF StartDriver, PickUp, Connect, Leave, PullEnds
  <2>4. \A e \in Dev \ {d} : at'[e] = at[e]
    BY <1>p, <1>6 DEF StartDriver, PickUp, Connect, Leave, PullEnds, Set
  <2>5. Alone(d)
    BY <2>2, <2>3, <2>4 DEF Alone
  <2>6. GuardOf(d)'
    BY <1>0, <2>1, <2>2, <2>3 DEF GuardOf, Armed
  <2> QED BY <1>0, <2>5, <2>6, AloneGuards
<1> QED BY <1>1, <1>2, <1>3, <1>4, <1>5, <1>6 DEF LinkThread

LEMMA ResetGuards ==
  ASSUME GuardInv, NEW d \in Dev, Crash(d) \/ Restart(d) \/ TornSave(d), LinkTypeOK'
  PROVE  GuardInv'
<1> USE GuardAssumption
<1>0. LinkTypeOK /\ GuardOf(d)
  BY DEF GuardInv
<1>p. /\ row[d] \in Nat /\ nvs[d].crashes \in 0..255 /\ calm[d] \in BOOLEAN
      /\ DOMAIN at = Dev /\ DOMAIN nvs = Dev /\ DOMAIN tries = Dev /\ DOMAIN calm = Dev /\ DOMAIN row = Dev
      /\ DOMAIN nvs[d] = {"ssid", "pass", "crashes"}
  BY <1>0, GuardTypes
<1>1. at'[d] \in {"abnormal", "clean", "off"} /\ \A e \in Dev \ {d} : at'[e] = at[e]
  BY <1>p DEF Crash, Restart, TornSave, Set
<1>2. nvs'[d].crashes = nvs[d].crashes /\ \A e \in Dev \ {d} : nvs'[e] = nvs[e]
  BY <1>p DEF Crash, Restart, TornSave
<1>3. ~calm'[d] /\ \A e \in Dev \ {d} : calm'[e] = calm[e] /\ tries'[e] = tries[e]
  BY <1>p DEF Crash, Restart, TornSave, Volatile, Set
<1>4. /\ row'[d] = IF at[d] \in Armed /\ ~calm[d] THEN row[d] + 1 ELSE row[d]
      /\ \A e \in Dev \ {d} : row'[e] = row[e]
  <2>1. Ends(d)
    BY DEF Crash, Restart, TornSave
  <2> QED BY <1>p, <2>1 DEF Ends, Set
<1>5. Alone(d)
  BY <1>1, <1>2, <1>3, <1>4 DEF Alone
<1>6. row'[d] <= CrashLimit /\ row'[d] <= nvs'[d].crashes
  BY <1>0, <1>p, <1>2, <1>4 DEF GuardOf
<1>7. GuardOf(d)'
  BY <1>1, <1>3, <1>6 DEF GuardOf, Armed
<1> QED BY <1>5, <1>7, AloneGuards

LEMMA GuardKept == GuardInv /\ [Next]_vars => GuardInv'
<1> SUFFICES ASSUME GuardInv, [Next]_vars PROVE GuardInv'
  OBVIOUS
<1>0. LinkTypeOK'
  BY LinkKept DEF GuardInv
<1>1. ASSUME UNCHANGED guarded PROVE GuardInv'
  BY <1>0, <1>1 DEF GuardInv, GuardOf, guarded
<1>2. ASSUME NEW m \in air, GetOta(m) PROVE GuardInv'
  <2>1. CASE at' = at
    BY <1>1, <1>2, <2>1 DEF GetOta, guarded
  <2>2. CASE at' = Set(at, m.dev, "pull")
    <3>1. at[m.dev] = "udp" /\ DOMAIN at = Dev /\ UNCHANGED <<nvs, tries, calm, row>>
      BY <1>2 DEF GetOta, Arrives, Speaks, GuardInv, LinkTypeOK
    <3>2. \A e \in Dev : at'[e] = at[e] \/ (at[e] = "udp" /\ at'[e] = "pull")
      BY <2>2, <3>1 DEF Set
    <3> QED BY <1>0, <3>1, <3>2 DEF GuardInv, GuardOf, Armed
  <2> QED BY <1>2, <2>1, <2>2 DEF GetOta
<1>3. ASSUME NEW m \in air, GetFromHost(m) PROVE GuardInv'
  BY <1>1, <1>2, <1>3 DEF GetFromHost, GetSubscribe, GetLine, guarded
<1>4. ASSUME NEW d \in Dev, Relay(d) \/ Streaming(d) PROVE GuardInv'
  BY <1>1, <1>4 DEF Relay, Streaming, Beacon, StreamAxis, StreamButtons, linkVars, guarded
<1>5. CASE LinkEnv
  <2>1. ASSUME NEW d \in Dev, Move(d) \/ \E c \in Creds : Provision(d, c) PROVE GuardInv'
    BY <1>1, <2>1 DEF Move, Provision, threadVars, linkVars, guarded
  <2>2. ASSUME AccessPoint \/ \E m \in air : Lose(m) PROVE GuardInv'
    BY <1>1, <2>2 DEF AccessPoint, Lose, linkVars, guarded
  <2> QED BY <1>0, <1>5, <2>1, <2>2, ResetGuards DEF LinkEnv
<1>6. CASE LinkStep
  BY <1>3, <1>4, <1>5, <1>6, ThreadGuards DEF LinkStep
<1>7. CASE RouterStep
  BY <1>1, <1>7 DEF RouterStep, Router, Toggle, TakeNothing, Unheard, TakeBeacon, TakeAxis, TakeButtons, TakeReply,
                    NextTurn, devVars, linkVars, guarded
<1>8. CASE Press \/ Update \/ Cable \/ Session
  BY <1>1, <1>8, PagePays DEF devVars, linkVars, guarded
<1>9. CASE Serve \/ UNCHANGED vars
  BY <1>1, <1>9 DEF Serve, vars, threadVars, devVars, linkVars, guarded
<1> QED BY <1>6, <1>7, <1>8, <1>9 DEF Next

\* A device that crashes on its radio is left alone after CrashLimit starts in
\* a row, whatever restarts it and however its credentials change.
THEOREM GuardTrips == Spec => []GuardHolds
<1>1. Init => GuardInv
  <2> SUFFICES ASSUME Init, NEW d \in Dev PROVE GuardOf(d)
    BY LinkInitTyped DEF Init, GuardInv
  <2>1. row[d] = 0 /\ nvs[d].crashes = 0 /\ tries[d] = 0 /\ (calm[d] <=> at[d] = "udp")
    BY DEF Init, LinkInit
  <2>2. at[d] \in {"clean", "udp", "absent"}
    BY ScenarioAssumption DEF Init, LinkInit
  <2> QED BY <2>1, <2>2, GuardAssumption DEF GuardOf, Armed
<1>2. GuardInv => GuardHolds
  BY DEF GuardInv, GuardOf, GuardHolds
<1> QED BY <1>1, <1>2, GuardKept, PTL DEF Spec

-----------------------------------------------------------------------------
(* The joystick                                                             *)

Joy  == [on : BOOLEAN, axis : [Axes -> {0, 1}], btn : {0, 1}]
Host == [table : SUBSET Dev, axisOf : [Dev -> Axes \cup {NoAxis}], masks : [Dev -> {0, 1, None}], joy : Joy]

\* What a turn of the loop keeps of the table, the masks and the joystick.
Sound(h) == h \in Host /\ (h.joy.btn = 1 => h.joy.on /\ \E d \in h.table : h.masks[d] = 1)

\* What the air may hold: only devices speak, and a stream has one bit.
AirOK == \A m \in air : m.dev \in Dev /\ (m.type \in {"AX", "BT"} => m.bit \in {0, 1})

LEMMA HostFields ==
  ASSUME NEW h \in Host
  PROVE  /\ h.table \in SUBSET Dev /\ h.axisOf \in [Dev -> Axes \cup {NoAxis}]
         /\ h.masks \in [Dev -> {0, 1, None}] /\ h.joy \in Joy
         /\ h.joy.on \in BOOLEAN /\ h.joy.axis \in [Axes -> {0, 1}] /\ h.joy.btn \in {0, 1}
BY DEF Host, Joy

LEMMA ForgetTyped ==
  ASSUME NEW h \in Host, NEW S
  PROVE  /\ Forget(h.axisOf, S, NoAxis) \in [Dev -> Axes \cup {NoAxis}]
         /\ Forget(h.masks, S, None) \in [Dev -> {0, 1, None}]
BY HostFields DEF Forget

LEMMA DroppedSound ==
  ASSUME NEW h, Sound(h), NEW S \in SUBSET Dev
  PROVE  Sound(Dropped(h, S))
<1> DEFINE g == Dropped(h, S)
           b == IF \E d \in S : h.masks[d] = 1 THEN 0 ELSE h.joy.btn
<1>1. h \in Host /\ (h.joy.btn = 1 => h.joy.on /\ \E d \in h.table : h.masks[d] = 1)
  BY DEF Sound
<1>2. /\ g.table = h.table \ S /\ g.axisOf = Forget(h.axisOf, S, NoAxis)
      /\ g.masks = Forget(h.masks, S, None) /\ g.joy = [h.joy EXCEPT !.btn = b]
      /\ g = [table |-> g.table, axisOf |-> g.axisOf, masks |-> g.masks, joy |-> g.joy]
  <2>1. g = [h EXCEPT !.table = h.table \ S, !.axisOf = Forget(h.axisOf, S, NoAxis),
                      !.masks = Forget(h.masks, S, None), !.joy = [h.joy EXCEPT !.btn = b]]
    BY <1>1 DEF Dropped, Host
  <2> HIDE DEF g, b
  <2> QED BY <1>1, <2>1 DEF Host
<1>3. b \in {0, 1}
  BY <1>1, HostFields
<1>4. g.joy \in Joy /\ g.joy.on = h.joy.on /\ g.joy.btn = b
  BY <1>1, <1>2, <1>3, HostFields DEF Joy
<1>5. g.axisOf \in [Dev -> Axes \cup {NoAxis}] /\ g.masks \in [Dev -> {0, 1, None}] /\ g.table \in SUBSET Dev
  <2>1. /\ Forget(h.axisOf, S, NoAxis) \in [Dev -> Axes \cup {NoAxis}]
        /\ Forget(h.masks, S, None) \in [Dev -> {0, 1, None}] /\ h.table \in SUBSET Dev
    BY <1>1, HostFields, ForgetTyped
  <2> HIDE DEF g
  <2> QED BY <1>2, <2>1
<1>6. g \in Host
  BY <1>2, <1>4, <1>5 DEF Host
<1>7. ASSUME b = 1 PROVE h.joy.on /\ \E d \in g.table : g.masks[d] = 1
  <2>1. PICK d \in h.table : h.masks[d] = 1
    BY <1>1, <1>7
  <2>2. d \notin S /\ d \in Dev
    BY <1>1, <1>7, <2>1, HostFields
  <2> QED BY <1>1, <1>2, <1>7, <2>1, <2>2 DEF Forget
<1> QED BY <1>4, <1>6, <1>7 DEF Sound

LEMMA SwitchedSound ==
  ASSUME NEW h, Sound(h)
  PROVE  Sound(Switched(h))
<1> DEFINE g == Switched(h)
<1>1. CASE enabled # {}
  BY <1>1 DEF Switched
<1>2. CASE enabled = {}
  <2>1. h \in Host /\ Released \in Joy /\ Released.btn = 0
    BY DEF Sound, Released, Joy
  <2>2. /\ g.table = h.table /\ g.axisOf = Forget(h.axisOf, Dev, NoAxis)
        /\ g.masks = Forget(h.masks, Dev, None) /\ g.joy = Released
        /\ g = [table |-> g.table, axisOf |-> g.axisOf, masks |-> g.masks, joy |-> g.joy]
    BY <1>2, <2>1 DEF Switched, Host
  <2>3. g.axisOf \in [Dev -> Axes \cup {NoAxis}] /\ g.masks \in [Dev -> {0, 1, None}]
    <3>1. /\ Forget(h.axisOf, Dev, NoAxis) \in [Dev -> Axes \cup {NoAxis}]
          /\ Forget(h.masks, Dev, None) \in [Dev -> {0, 1, None}]
      BY <2>1, ForgetTyped
    <3> HIDE DEF g
    <3> QED BY <2>2, <3>1
  <2>4. g \in Host
    BY <2>1, <2>2, <2>3, HostFields DEF Host
  <2> QED BY <2>1, <2>2, <2>4 DEF Sound
<1> QED BY <1>1, <1>2

LEMMA TurnSound ==
  ASSUME NEW h, Sound(h), NextTurn(h) PROVE Sound(host)'
<1>1. PICK S \in SUBSET {d \in h.table : ~Speaks(d)} : host' = Switched(Dropped(h, S))
  BY DEF NextTurn
<1>2. S \in SUBSET Dev
  BY HostFields DEF Sound
<1> QED BY <1>1, <1>2, DroppedSound, SwitchedSound DEF Sound

\* What the stream's bit of a device becomes.
LEMMA AxisNumber ==
  ASSUME host \in Host, NEW d \in Dev PROVE AxisFor(d) \in Axes
<1>1. {e \in Dev : host.axisOf[e] # NoAxis} \subseteq Dev
  OBVIOUS
<1>2. Cardinality({e \in Dev : host.axisOf[e] # NoAxis}) \in Nat
  BY <1>1, DevAssumption, FS_Subset, FS_CardinalityType
<1>3. MaxAxes - 1 \in Nat
  BY AxesAssumption
<1>4. Min({Cardinality({e \in Dev : host.axisOf[e] # NoAxis}), MaxAxes - 1}) \in Axes
  BY <1>2, <1>3, MinOfTwo DEF Axes
<1>5. host.axisOf[d] \in Axes \cup {NoAxis}
  BY HostFields
<1> QED BY <1>4, <1>5 DEF AxisFor

RouterInv == LinkTypeOK /\ AirOK /\ Sound(host)

LEMMA RouterSound ==
  ASSUME RouterInv, RouterStep PROVE Sound(host)'
<1>0. Sound(host) /\ AirOK
  BY DEF RouterInv
<1>1. ASSUME NEW m \in air, TakeBeacon(m) PROVE Sound(host)'
  <2> DEFINE h == [host EXCEPT !.table = host.table \cup {m.dev}]
  <2>1. NextTurn(h) /\ m.dev \in Dev
    BY <1>0, <1>1 DEF TakeBeacon, AirOK
  <2>2. h \in Host /\ h.table = host.table \cup {m.dev} /\ h.joy = host.joy /\ h.masks = host.masks
    BY <1>0, <2>1 DEF Sound, Host
  <2> HIDE DEF h
  <2>3. Sound(h)
    BY <1>0, <2>2 DEF Sound
  <2> QED BY <2>1, <2>3, TurnSound
<1>2. ASSUME NEW m \in air, TakeAxis(m) PROVE Sound(host)'
  <2>1. CASE ~(Routed(m.dev) /\ KindOf[m.dev] # "ddu")
    BY <1>0, <1>2, <2>1, TurnSound DEF TakeAxis
  <2>2. CASE Routed(m.dev) /\ KindOf[m.dev] # "ddu"
    <3> DEFINE n == AxisFor(m.dev)
               j == [host.joy EXCEPT !.on = TRUE, !.axis[n] = m.bit]
               h == [host EXCEPT !.axisOf = [host.axisOf EXCEPT ![m.dev] = n], !.joy = j]
    <3>1. host \in Host /\ m.dev \in Dev /\ m.bit \in {0, 1} /\ n \in Axes
      BY <1>0, <1>2, AxisNumber DEF Sound, AirOK, TakeAxis, Taken
    <3>2. NextTurn(h)
      BY ZenonT(40), <1>2, <2>2, <3>1 DEF TakeAxis, Host
    <3> HIDE DEF n
    <3>3. j \in Joy /\ j.on = TRUE /\ j.btn = host.joy.btn
      BY <3>1, HostFields DEF Joy
    <3> HIDE DEF j
    <3>4. [host.axisOf EXCEPT ![m.dev] = n] \in [Dev -> Axes \cup {NoAxis}]
      BY <3>1, HostFields
    <3>5. h \in Host /\ h.table = host.table /\ h.joy = j /\ h.masks = host.masks
      BY <3>1, <3>3, <3>4 DEF Host
    <3> HIDE DEF h
    <3>6. Sound(h)
      BY <1>0, <3>3, <3>5 DEF Sound
    <3> QED BY <3>2, <3>6, TurnSound
  <2> QED BY <2>1, <2>2
<1>3. ASSUME NEW m \in air, TakeButtons(m) PROVE Sound(host)'
  <2>1. CASE ~(Routed(m.dev) /\ KindOf[m.dev] = "ddu")
    BY <1>0, <1>3, <2>1, TurnSound DEF TakeButtons
  <2>2. CASE Routed(m.dev) /\ KindOf[m.dev] = "ddu"
    <3> DEFINE before == IF host.masks[m.dev] = None THEN 0 ELSE host.masks[m.dev]
               b == IF before # m.bit THEN m.bit ELSE host.joy.btn
               j == [host.joy EXCEPT !.on = TRUE, !.btn = b]
               k == [host.masks EXCEPT ![m.dev] = m.bit]
               h == [host EXCEPT !.masks = k, !.joy = j]
    <3>1. host \in Host /\ m.dev \in Dev /\ m.bit \in {0, 1} /\ m.dev \in host.table
      BY <1>0, <1>3, <2>2 DEF Sound, AirOK, TakeButtons, Taken, Routed
    <3>2. NextTurn(h)
      BY <1>3, <2>2, <3>1 DEF TakeButtons, Host
    <3>3. b \in {0, 1} /\ k \in [Dev -> {0, 1, None}]
      BY <3>1, HostFields
    <3>4. ASSUME b = 1 PROVE \E d \in host.table : k[d] = 1
      <4>1. CASE m.bit = 1
        BY <3>1, <4>1, HostFields
      <4>2. CASE m.bit = 0
        <5>1. before = 0 /\ host.joy.btn = 1
          BY <3>4, <4>2
        <5>2. PICK d \in host.table : host.masks[d] = 1
          BY <1>0, <5>1 DEF Sound
        <5>3. d # m.dev
          BY <5>1, <5>2 DEF None
        <5> QED BY <3>1, <5>2, <5>3, HostFields
      <4> QED BY <3>1, <4>1, <4>2
    <3> HIDE DEF b, k
    <3>5. j \in Joy /\ j.on = TRUE /\ j.btn = b
      BY <3>1, <3>3, HostFields DEF Joy
    <3> HIDE DEF j
    <3>6. h \in Host /\ h.table = host.table /\ h.joy = j /\ h.masks = k
      BY <3>1, <3>3, <3>5 DEF Host
    <3> HIDE DEF h
    <3>7. Sound(h)
      BY <3>4, <3>5, <3>6 DEF Sound
    <3> QED BY <3>2, <3>7, TurnSound
  <2> QED BY <2>1, <2>2
<1>4. ASSUME NEW m \in air, TakeReply(m) PROVE Sound(host)'
  BY <1>0, <1>4, TurnSound DEF TakeReply
<1>5. CASE TakeNothing
  BY <1>0, <1>5, TurnSound DEF TakeNothing
<1>6. CASE Unheard
  <2>1. PICK d \in host.table : host' = Switched(Dropped(host, {d}))
    BY <1>6 DEF Unheard
  <2>2. {d} \in SUBSET Dev
    BY <1>0, HostFields DEF Sound
  <2> QED BY <1>0, <2>1, <2>2, DroppedSound, SwitchedSound DEF Sound
<1>7. ASSUME NEW k, Toggle(k) PROVE Sound(host)'
  BY <1>0, <1>7 DEF Toggle, routerVars, Sound
<1> QED BY <1>1, <1>2, <1>3, <1>4, <1>5, <1>6, <1>7 DEF RouterStep, Router

LEMMA SendOutAir ==
  ASSUME AirOK, NEW t \in SUBSET Dev, NEW gone, NEW back, NEW p, NEW a, SendOut(t, gone, back, p, a),
         \A m \in back : m.dev \in Dev /\ m.type = "@SUB"
  PROVE  AirOK'
<1>1. \A m \in SentTo(t) : m.dev \in Dev /\ m.type \in {"line", "@OTAWIFI"}
  BY DEF SentTo, Known, Msg
<1>2. \A m \in air' : m \in air \/ m \in back \/ m \in SentTo(t)
  BY DEF SendOut
<1> QED BY <1>1, <1>2 DEF AirOK

LEMMA AirKept == RouterInv /\ [Next]_vars => AirOK'
<1> SUFFICES ASSUME RouterInv, [Next]_vars PROVE AirOK'
  OBVIOUS
<1>0. AirOK /\ host.table \in SUBSET Dev
  BY HostFields DEF RouterInv, Sound
<1>1. ASSUME air' \subseteq air PROVE AirOK'
  BY <1>0, <1>1 DEF AirOK
<1>2. ASSUME NEW d \in Dev, Streaming(d) PROVE AirOK'
  <2>1. input[d] \in {0, 1}
    BY DEF RouterInv, LinkTypeOK
  <2>2. PICK m : /\ air' = air \cup {m}
                 /\ m \in {Msg("PITH", d, "-", 0), Msg("AX", d, "-", input[d]), Msg("BT", d, "-", input[d])}
    BY <1>2 DEF Streaming, Beacon, StreamAxis, StreamButtons, Emit
  <2>3. m.dev = d /\ m.bit \in {0, 1}
    BY <2>1, <2>2 DEF Msg
  <2> QED BY <1>0, <2>2, <2>3 DEF AirOK
<1>3. ASSUME NEW d \in Dev, Relay(d) PROVE AirOK'
  <2>1. \A m \in air' : m \in air \/ (m.dev = d /\ m.type = "RE")
    BY <1>3 DEF Relay, Msg
  <2> QED BY <1>0, <2>1 DEF AirOK
<1>4. ASSUME NEW m \in air, GetFromHost(m) PROVE AirOK'
  <2>1. m.dev \in Dev
    BY <1>0 DEF AirOK
  <2>2. \A n \in air' : n \in air \/ (n.dev = m.dev /\ n.type = "RE")
    <3>1. \/ air' = air \ {m}
          \/ air' = (air \ {m}) \cup {Msg("RE", m.dev, "ota", 1)}
      BY <1>4 DEF GetFromHost, GetSubscribe, GetLine, GetOta
    <3> QED BY <3>1 DEF Msg
  <2> QED BY <1>0, <2>1, <2>2 DEF AirOK
<1>5. CASE LinkEnv
  BY <1>1, <1>5 DEF LinkEnv, AccessPoint, Lose, Crash, Restart, TornSave, Move, Provision, Volatile
<1>6. ASSUME NEW d \in Dev, LinkThread(d) PROVE AirOK'
  BY <1>1, <1>6 DEF LinkThread, StartThread, TakeFresh, LoadStored, Arm, StartDriver, PickUp, Connect, Stable,
                    Leave, PullEnds
<1>7. CASE LinkStep
  BY <1>2, <1>3, <1>4, <1>5, <1>6, <1>7 DEF LinkStep
<1>8. CASE RouterStep
  <2>1. ASSUME NEW m \in air, TakeBeacon(m) PROVE AirOK'
    <3> DEFINE t == [host EXCEPT !.table = host.table \cup {m.dev}].table
               back == {Msg("@SUB", m.dev, "-", 0)}
    <3>1. m.dev \in Dev /\ host \in Host
      BY <1>0 DEF AirOK, RouterInv, Sound
    <3>2. t \in SUBSET Dev
      BY <1>0, <3>1 DEF Host
    <3>3. SendOut(t, {m}, back, pending, answer)
      BY <2>1 DEF TakeBeacon
    <3>4. \A n \in back : n.dev \in Dev /\ n.type = "@SUB"
      BY <3>1 DEF Msg
    <3> HIDE DEF t, back
    <3> QED BY <1>0, <3>2, <3>3, <3>4, SendOutAir
  <2>2. ASSUME NEW m \in air, TakeAxis(m) \/ TakeButtons(m) \/ TakeReply(m) PROVE AirOK'
    BY <1>0, <2>2, SendOutAir DEF TakeAxis, TakeButtons, TakeReply
  <2>3. CASE TakeNothing \/ Unheard
    BY <1>0, <2>3, SendOutAir DEF TakeNothing, Unheard
  <2>4. ASSUME NEW k, Toggle(k) PROVE AirOK'
    BY <1>1, <2>4 DEF Toggle
  <2> QED BY <1>8, <2>1, <2>2, <2>3, <2>4 DEF RouterStep, Router
<1>9. CASE Press \/ Update \/ Cable \/ Session
  BY <1>1, <1>9, PagePays
<1>10. CASE Serve \/ UNCHANGED vars
  BY <1>1, <1>10 DEF Serve, vars
<1> QED BY <1>7, <1>8, <1>9, <1>10 DEF Next

LEMMA RouterKept == RouterInv /\ [Next]_vars => RouterInv'
<1> SUFFICES ASSUME RouterInv, [Next]_vars PROVE Sound(host)'
  BY LinkKept, AirKept DEF RouterInv
<1>1. ASSUME host' = host PROVE Sound(host)'
  BY <1>1 DEF RouterInv, Sound
<1>2. CASE RouterStep
  BY <1>2, RouterSound
<1>3. CASE Press \/ Update \/ Cable \/ Session
  BY <1>1, <1>3, PagePays
<1> QED BY <1>1, <1>2, <1>3 DEF Next, Serve, vars, routerVars

LEMMA RouterStart == Init => RouterInv
<1> SUFFICES ASSUME Init PROVE Sound(host)
  BY LinkInitTyped DEF Init, LinkInit, RouterInv, AirOK
<1>1. Released \in Joy /\ Released.btn = 0
  BY DEF Released, Joy
<1>2. host \in Host
  BY <1>1 DEF Init, RouterInit, Host
<1> QED BY <1>1, <1>2 DEF Init, RouterInit, Sound

\* A button the game sees is held by a device on the network: whatever is lost,
\* expires or is switched off, nothing stays pressed when the device is gone.
THEOREM ButtonsHaveOwners == Spec => []NoGhostButton
<1>1. RouterInv => NoGhostButton
  BY DEF RouterInv, Sound, NoGhostButton
<1> QED BY <1>1, RouterStart, RouterKept, PTL DEF Spec

\* The switches and those who wait.
OthersTyped == {enabled, seen} \subseteq SUBSET Kinds /\ pending \in [Dev -> {"none", "caller", "gone"}]

LEMMA OthersKept == RouterInv /\ OthersTyped /\ [Next]_vars => OthersTyped'
<1> SUFFICES ASSUME RouterInv, OthersTyped, [Next]_vars PROVE OthersTyped'
  OBVIOUS
<1>1. ASSUME NEW p \in {pending} \cup {Set(pending, d, "none") : d \in Dev}, NEW t, NEW gone, NEW back, NEW a,
             SendOut(t, gone, back, p, a)
      PROVE  pending' \in [Dev -> {"none", "caller", "gone"}]
  <2>1. p \in [Dev -> {"none", "caller", "gone"}]
    BY <1>1 DEF OthersTyped, Set
  <2> QED BY <1>1, <2>1 DEF SendOut
<1>2. CASE Router
  <2>1. seen' = enabled /\ enabled' = enabled
    BY <1>2 DEF Router, TakeNothing, Unheard, TakeBeacon, TakeAxis, TakeButtons, TakeReply, NextTurn
  <2>2. pending' \in [Dev -> {"none", "caller", "gone"}]
    <3>1. CASE TakeNothing \/ Unheard
      BY <1>1, <3>1 DEF TakeNothing, Unheard
    <3>2. ASSUME NEW m \in air, TakeBeacon(m) \/ TakeAxis(m) \/ TakeButtons(m)
          PROVE  pending' \in [Dev -> {"none", "caller", "gone"}]
      <4>1. PICK t, gone, back, a : SendOut(t, gone, back, pending, a)
        BY <3>2 DEF TakeBeacon, TakeAxis, TakeButtons
      <4> QED BY <1>1, <4>1
    <3>3. ASSUME NEW m \in air, TakeReply(m) PROVE pending' \in [Dev -> {"none", "caller", "gone"}]
      <4>1. PICK t, gone, back, a : SendOut(t, gone, back, Set(pending, m.dev, "none"), a)
        BY <3>3 DEF TakeReply
      <4>2. m.dev \in Dev
        BY DEF RouterInv, AirOK
      <4> QED BY <1>1, <4>1, <4>2
    <3> QED BY <1>2, <3>1, <3>2, <3>3 DEF Router
  <2> QED BY <2>1, <2>2 DEF OthersTyped
<1>3. ASSUME NEW d \in Dev, Toggle(KindOf[d]) PROVE OthersTyped'
  <2>1. KindOf[d] \in Kinds
    BY DevAssumption DEF Kinds
  <2> QED BY <1>3, <2>1 DEF Toggle, OthersTyped, routerVars
<1>4. CASE Press \/ Update \/ Cable \/ Session
  <2>1. \/ pending' = pending
        \/ pending' = Set(pending, Hb, IF pending[Hb] = "caller" THEN "gone" ELSE pending[Hb])
    BY <1>4 DEF Press, Update, Cable, netVars, routerVars, Session, Begin, DropCommand, Handshake, FirstStatus,
       LeaveSession, Poll, Polled, IdleAnswered, MaxAnswered, Learned, StartLearning, StopLearning, SendCommand,
       CommandAnswered, Refreshed, Upload, NoChange, Received, Hears, GivesUp
  <2>2. pending' \in [Dev -> {"none", "caller", "gone"}]
    BY <2>1 DEF OthersTyped, Set
  <2> QED BY <1>4, <2>2, PagePays DEF OthersTyped
<1>5. CASE (LinkStep /\ UNCHANGED <<routerVars, enabled>>) \/ Serve \/ UNCHANGED vars
  BY <1>5 DEF Serve, vars, routerVars, OthersTyped
<1> QED BY <1>2, <1>3, <1>4, <1>5 DEF Next, RouterStep

\* The router's state keeps its types: every axis number it hands out is one
\* the joystick has.
THEOREM RouterTyped == Spec => []RouterTypeOK
<1>1. Init => OthersTyped
  BY SwitchAssumption DEF Init, RouterInit, OthersTyped
<1>2. RouterInv /\ OthersTyped => RouterTypeOK
  BY DEF RouterInv, Sound, OthersTyped, RouterTypeOK, Host, Joy
<1>3. Init => RouterInv
  BY RouterStart
<1> QED BY <1>1, <1>2, <1>3, RouterKept, OthersKept, PTL DEF Spec

-----------------------------------------------------------------------------
(* The page's thread and its lines                                          *)

Commands == {"feel", "save", "cancel", "reset"}

PageOK ==
  /\ pc \in Waits \cup {"scan", "loop"} /\ cur \in Ops \cup {NoCmd} /\ slot \in Ops \cup {NoCmd}
  /\ page \in Pages
  /\ learning \in BOOLEAN /\ connected \in BOOLEAN /\ cable \in BOOLEAN /\ strays \in BOOLEAN
  /\ pc = "command" => cur \in Commands

LinesOK ==
  /\ outbox \subseteq {Entry(Hb, o) : o \in Asks \cup {"ota"}}
  /\ rx \in [Dev -> Seq(Asks)] /\ DOMAIN tx = Dev
  /\ \A m \in air : m.type = "line" => m.op \in Asks

LEMMA HbIsDevice == Hb \in Dev
BY HandbrakeAssumption DEF Hb

LEMMA ShowTyped ==
  ASSUME PageOK, NEW p \in Pages, NEW s \in Ops \cup {NoCmd}, Show(p, s)
  PROVE  page' \in Pages /\ slot' \in Ops \cup {NoCmd}
BY DEF PageOK, Show, Ops

\* A step of the thread keeps its types, and puts at most one line into the
\* outbox.
LEMMA SessionTyped ==
  ASSUME PageOK, Session
  PROVE  /\ PageOK'
         /\ \/ outbox' = outbox
            \/ \E o \in Asks \cup {"ota"} : outbox' = outbox \cup {Entry(Hb, o)}
<1> USE DEF PageOK, Waits, Pages, Asks, Commands
<1>w. ASSUME NEW w, Received(w) PROVE pc = w /\ strays' \in BOOLEAN /\ cable' = cable
  BY <1>w DEF Received, Hears, GivesUp, Rest, OnTheWay, Held
<1>1. CASE Begin \/ Poll
  BY <1>1 DEF Begin, Poll, Ask, NoChange, Rest
<1>2. CASE DropCommand
  BY <1>2 DEF DropCommand, Rest, Ops, NoCmd
<1>3. CASE Handshake
  BY <1>3, <1>w DEF Handshake, Ask
<1>4. CASE FirstStatus
  <2>1. page' \in Pages /\ slot' \in Ops \cup {NoCmd}
    BY <1>4, ShowTyped DEF FirstStatus
  <2> QED BY <1>4, <1>w, <2>1 DEF FirstStatus
<1>5. CASE LeaveSession
  BY <1>5 DEF LeaveSession, EndSession, NoChange, Rest
<1>6. CASE Polled
  BY <1>6, <1>w DEF Polled, EndSession, Ask
<1>7. CASE IdleAnswered \/ MaxAnswered
  BY <1>7, <1>w DEF IdleAnswered, MaxAnswered, Ask
<1>8. CASE Learned
  <2>1. page' \in Pages /\ slot' \in Ops \cup {NoCmd}
    BY <1>8, ShowTyped DEF Learned
  <2> QED BY <1>8, <1>w, <2>1 DEF Learned
<1>9. CASE StartLearning
  BY <1>9 DEF StartLearning, Pop, InLoop, NoChange, Rest
<1>10. CASE StopLearning
  <2>1. page' \in Pages /\ slot' \in Ops \cup {NoCmd}
    BY <1>10, ShowTyped DEF StopLearning
  <2> QED BY <1>10, <2>1 DEF StopLearning, Pop, InLoop, NoChange, Rest
<1>11. CASE SendCommand
  BY <1>11 DEF SendCommand, Pop, InLoop, Ask, NoChange, Rest
<1>12. CASE CommandAnswered
  BY <1>12, <1>w DEF CommandAnswered, Ask
<1>13. CASE Refreshed
  <2>1. PageAfter(cur) \in Pages
    BY DEF PageAfter
  <2>2. page' \in Pages /\ slot' \in Ops \cup {NoCmd}
    BY <1>13, <2>1, ShowTyped DEF Refreshed
  <2> QED BY <1>13, <1>w, <2>2 DEF Refreshed
<1>14. CASE Upload
  BY <1>14 DEF Upload, Pop, InLoop, Rest
<1> QED BY <1>1, <1>2, <1>3, <1>4, <1>5, <1>6, <1>7, <1>8, <1>9, <1>10, <1>11, <1>12, <1>13, <1>14 DEF Session

LEMMA PageKept == PageOK /\ [Next]_vars => PageOK'
<1> SUFFICES ASSUME PageOK, [Next]_vars PROVE PageOK'
  OBVIOUS
<1>1. CASE Press
  <2>1. \A c \in Buttons(page) : c \in Ops
    BY DEF Buttons, Ops
  <2>2. PICK c \in Buttons(page) : slot' = c
    BY <1>1 DEF Press
  <2> QED BY <1>1, <2>1, <2>2 DEF Press, PageOK
<1>2. CASE Update \/ Cable
  BY ZenonT(40), <1>2 DEF Update, Cable, PageOK, sessionVars, Ops
<1>3. CASE Session
  BY <1>3, SessionTyped
<1>4. ASSUME UNCHANGED <<pc, cur, slot, page, learning, connected, cable, strays>> PROVE PageOK'
  BY <1>4 DEF PageOK
<1> QED BY <1>1, <1>2, <1>3, <1>4 DEF Next, Serve, sessionVars, vars

LEMMA SendOutLines ==
  ASSUME LinesOK, NEW t, NEW gone, NEW back, NEW p, NEW a, SendOut(t, gone, back, p, a),
         \A m \in back : m.type = "@SUB", UNCHANGED <<rx, tx>>
  PROVE  LinesOK'
<1>1. \A m \in SentTo(t) : m.type = "line" => m.op \in Asks
  <2>1. ASSUME NEW m \in SentTo(t), m.type = "line" PROVE m.op \in Asks
    <3>1. PICK e \in outbox : m = IF e.op = "ota" THEN Msg("@OTAWIFI", e.dev, "-", 0) ELSE Msg("line", e.dev, e.op, 0)
      BY DEF SentTo, Known
    <3>2. e.op # "ota" /\ m.op = e.op
      BY <2>1, <3>1 DEF Msg
    <3>3. e.op \in Asks \cup {"ota"}
      BY DEF LinesOK, Entry
    <3> QED BY <3>2, <3>3
  <2> QED BY <2>1
<1>2. \A m \in air' : m \in air \/ m \in back \/ m \in SentTo(t)
  BY DEF SendOut
<1>3. outbox' = {}
  BY DEF SendOut
<1> QED BY <1>1, <1>2, <1>3 DEF LinesOK

LEMMA LinesKept == RouterInv /\ PageOK /\ LinesOK /\ [Next]_vars => LinesOK'
<1> SUFFICES ASSUME RouterInv, PageOK, LinesOK, [Next]_vars PROVE LinesOK'
  OBVIOUS
<1>1. ASSUME UNCHANGED <<rx, tx, outbox>>, \A m \in air' : m \in air \/ m.type # "line" PROVE LinesOK'
  BY <1>1 DEF LinesOK
<1>2. CASE LinkStep /\ UNCHANGED outbox
  <2>1. ASSUME NEW d \in Dev, LinkThread(d) PROVE LinesOK'
    BY <1>1, <1>2, <2>1 DEF LinkThread, StartThread, TakeFresh, LoadStored, Arm, StartDriver, PickUp, Connect,
                            Stable, Leave, PullEnds
  <2>2. ASSUME NEW d \in Dev, Relay(d) PROVE LinesOK'
    <3>1. \A m \in air' : m \in air \/ m.type # "line"
      BY <2>2 DEF Relay, Msg
    <3>2. rx' = rx /\ DOMAIN tx' = DOMAIN tx
      BY <2>2 DEF Relay, Set
    <3> QED BY <1>2, <3>1, <3>2 DEF LinesOK
  <2>3. ASSUME NEW d \in Dev, Streaming(d) PROVE LinesOK'
    <3>1. \A m \in air' : m \in air \/ m.type # "line"
      BY <2>3 DEF Streaming, Beacon, StreamAxis, StreamButtons, Emit, Msg
    <3> QED BY <1>1, <1>2, <2>3, <3>1 DEF Streaming, Beacon, StreamAxis, StreamButtons, linkVars
  <2>4. ASSUME NEW m \in air, GetSubscribe(m) \/ GetOta(m) PROVE LinesOK'
    <3>1. air' = air \ {m} \/ air' = (air \ {m}) \cup {Msg("RE", m.dev, "ota", 1)}
      BY <2>4 DEF GetSubscribe, GetOta
    <3>2. \A n \in air' : n \in air \/ n.type # "line"
      BY <3>1 DEF Msg
    <3> QED BY <1>1, <1>2, <2>4, <3>2 DEF GetSubscribe, GetOta
  <2>5. ASSUME NEW m \in air, GetLine(m) PROVE LinesOK'
    <3>1. m.dev \in Dev /\ m.op \in Asks
      BY <2>5 DEF RouterInv, AirOK, GetLine, LinesOK
    <3>2. Append(rx[m.dev], m.op) \in Seq(Asks)
      BY <3>1, AppendProperties DEF LinesOK
    <3>3. rx' \in [Dev -> Seq(Asks)]
      BY <2>5, <3>1, <3>2 DEF GetLine, Set, LinesOK
    <3> QED BY <1>2, <2>5, <3>3 DEF GetLine, LinesOK
  <2>6. CASE LinkEnv
    <3>1. ASSUME NEW d \in Dev, Volatile(d) PROVE rx' \in [Dev -> Seq(Asks)] /\ DOMAIN tx' = Dev /\ air' = air
      <4>1. <<>> \in Seq(Asks)
        BY EmptySeq
      <4> QED BY <3>1, <4>1 DEF Volatile, Set, LinesOK
    <3>2. ASSUME NEW d \in Dev, Crash(d) \/ Restart(d) \/ TornSave(d) PROVE LinesOK'
      BY <1>2, <3>1, <3>2 DEF Crash, Restart, TornSave, LinesOK
    <3>3. ASSUME NEW d \in Dev, Move(d) \/ \E c \in Creds : Provision(d, c) PROVE LinesOK'
      BY <1>1, <1>2, <3>3 DEF Move, Provision, linkVars
    <3>4. ASSUME AccessPoint \/ \E m \in air : Lose(m) PROVE LinesOK'
      BY <1>1, <1>2, <3>4 DEF AccessPoint, Lose, linkVars
    <3> QED BY <2>6, <3>2, <3>3, <3>4 DEF LinkEnv
  <2> QED BY <1>2, <2>1, <2>2, <2>3, <2>4, <2>5, <2>6 DEF LinkStep, GetFromHost
<1>3. CASE RouterStep
  <2>1. UNCHANGED <<rx, tx>>
    BY <1>3 DEF RouterStep, Router, Toggle, TakeNothing, Unheard, TakeBeacon, TakeAxis, TakeButtons, TakeReply, NextTurn,
                devVars, linkVars
  <2>2. ASSUME NEW m \in air, TakeBeacon(m) PROVE LinesOK'
    <3>1. PICK t : SendOut(t, {m}, {Msg("@SUB", m.dev, "-", 0)}, pending, answer)
      BY <2>2 DEF TakeBeacon
    <3> QED BY <2>1, <3>1, SendOutLines DEF Msg
  <2>3. ASSUME NEW m \in air, TakeAxis(m) \/ TakeButtons(m) PROVE LinesOK'
    BY <2>1, <2>3, SendOutLines DEF TakeAxis, TakeButtons
  <2>4. ASSUME NEW m \in air, TakeReply(m) PROVE LinesOK'
    BY <2>1, <2>4, SendOutLines DEF TakeReply
  <2>5. CASE TakeNothing \/ Unheard
    BY <2>1, <2>5, SendOutLines DEF TakeNothing, Unheard
  <2>6. ASSUME NEW k, Toggle(k) PROVE LinesOK'
    BY <1>1, <2>1, <2>6 DEF Toggle
  <2> QED BY <1>3, <2>2, <2>3, <2>4, <2>5, <2>6 DEF RouterStep, Router
<1>4. CASE Press \/ Update \/ Cable
  BY <1>1, <1>4, PagePays DEF Press, Update, Cable, devVars, linkVars
<1>5. CASE Session
  <2>1. UNCHANGED <<rx, tx, air>>
    BY <1>5, PagePays DEF devVars, linkVars
  <2>2. outbox' \subseteq {Entry(Hb, o) : o \in Asks \cup {"ota"}}
    BY <1>5, SessionTyped DEF LinesOK
  <2> QED BY <2>1, <2>2 DEF LinesOK
<1>6. CASE Serve
  <2>1. rx[Hb] \in Seq(Asks) /\ rx[Hb] # <<>> /\ rx' = Set(rx, Hb, Tail(rx[Hb]))
    BY <1>6, HbIsDevice DEF Serve, LinesOK
  <2>2. Tail(rx[Hb]) \in Seq(Asks)
    BY <2>1, HeadTailProperties
  <2>3. rx' \in [Dev -> Seq(Asks)] /\ DOMAIN tx' = Dev
    BY <1>6, <2>1, <2>2, HbIsDevice DEF Serve, Set, LinesOK
  <2> QED BY <1>6, <2>3 DEF Serve, LinesOK
<1>7. CASE UNCHANGED vars
  BY <1>1, <1>7 DEF vars, devVars, linkVars
<1> QED BY <1>2, <1>3, <1>4, <1>5, <1>6, <1>7 DEF Next

\* Every reachable state of devices, router and page has the declared types.
THEOREM TypeCorrect == Spec => []TypeOK
<1>1. Init => PageOK /\ LinesOK
  <2> SUFFICES ASSUME Init PROVE PageOK /\ LinesOK
    OBVIOUS
  <2>1. \A d \in Dev : <<>> \in Seq(Asks)
    BY EmptySeq
  <2>2. rx \in [Dev -> Seq(Asks)] /\ DOMAIN tx = Dev /\ air = {} /\ outbox = {}
    BY <2>1 DEF Init, LinkInit, RouterInit
  <2> QED BY <2>2 DEF Init, PageOK, LinesOK, NoCmd, Pages
<1>2. PageOK /\ LinesOK /\ LinkTypeOK /\ RouterTypeOK => TypeOK
  BY DEF PageOK, LinesOK, TypeOK
<1>3. Init => RouterInv
  BY RouterStart
<1> QED BY <1>1, <1>2, <1>3, LinkTyped, RouterTyped, RouterKept, PageKept, LinesKept, PTL DEF Spec

-----------------------------------------------------------------------------
(* A reply belongs to its question                                          *)

\* While no answer came late, the thread's question is in one place only: in
\* the outbox, on its way to the device, there, answered and waiting for the
\* network, on its way back, or heard.
OnAir(m) == m.dev = Hb /\ m.type \in {"line", "RE"}

Silent   == outbox = {} /\ rx[Hb] = <<>> /\ tx[Hb] = <<>> /\ \A m \in air : ~OnAir(m)
InOutbox == outbox = {Entry(Hb, Asked)} /\ rx[Hb] = <<>> /\ tx[Hb] = <<>> /\ \A m \in air : ~OnAir(m)
AtDevice == outbox = {} /\ rx[Hb] = <<Asked>> /\ tx[Hb] = <<>> /\ \A m \in air : ~OnAir(m)
Replied  == /\ outbox = {} /\ rx[Hb] = <<>> /\ \A m \in air : ~OnAir(m)
            /\ \E r : tx[Hb] = <<r>> /\ r.op = Asked
InAir    == /\ outbox = {} /\ rx[Hb] = <<>> /\ tx[Hb] = <<>>
            /\ \E m \in air : OnAir(m) /\ m.op = Asked /\ \A n \in air : OnAir(n) => n = m

Lines ==
  /\ \A d \in Dev : pending[d] = "caller" => d = Hb
  /\ \A m \in air : m.dev = Hb => m.type # "@OTAWIFI"
Token ==
  \/ Silent /\ (pc \in Waits => answer \in {NoAnswer, Hung} \/ answer.op = Asked)
  \/ pc \in Waits /\ answer = NoAnswer /\ (InOutbox \/ AtDevice \/ Replied \/ InAir)

OneQuestion == ~strays => Lines /\ Token

TokenInv == RouterInv /\ PageOK /\ LinesOK /\ OneQuestion

LEMMA AskedIsLine == ASSUME PageOK, pc \in Waits PROVE Asked \in Asks
BY DEF PageOK, Asked, Asks, Waits, Commands

\* A step that touches neither the page's thread nor the router.
page_ == <<outbox, answer, pc, cur, strays, pending>>

LEMMA Untouched ==
  ASSUME OneQuestion, UNCHANGED page_, rx'[Hb] = rx[Hb], tx'[Hb] = tx[Hb],
         \A m \in air' : OnAir(m) \/ (m.dev = Hb /\ m.type = "@OTAWIFI") => m \in air,
         \A m \in air : OnAir(m) => m \in air'
  PROVE  OneQuestion'
<1> SUFFICES ASSUME ~strays PROVE Lines' /\ Token'
  BY DEF OneQuestion, page_
<1>0. Lines /\ Token
  BY DEF OneQuestion
<1>1. Lines'
  BY <1>0 DEF Lines, page_
<1>2. Asked' = Asked
  BY DEF Asked, page_
<1>3. Silent => Silent'
  BY DEF Silent, page_, OnAir
<1>4. InOutbox => InOutbox'
  BY <1>2 DEF InOutbox, page_, OnAir
<1>5. AtDevice => AtDevice'
  BY <1>2 DEF AtDevice, page_, OnAir
<1>6. Replied => Replied'
  BY <1>2 DEF Replied, page_, OnAir
<1>7. InAir => InAir'
  BY <1>2 DEF InAir, page_, OnAir
<1> QED BY <1>0, <1>1, <1>2, <1>3, <1>4, <1>5, <1>6, <1>7 DEF Token, page_

\* What a reset or the network loses leaves no second question.
LEMMA Lost ==
  ASSUME OneQuestion, UNCHANGED page_, rx'[Hb] \in {rx[Hb], <<>>}, tx'[Hb] \in {tx[Hb], <<>>}, air' \subseteq air
  PROVE  OneQuestion'
<1> SUFFICES ASSUME ~strays PROVE Lines' /\ Token'
  BY DEF OneQuestion, page_
<1>0. Lines /\ Token
  BY DEF OneQuestion
<1>1. Lines'
  BY <1>0 DEF Lines, page_
<1>2. Asked' = Asked
  BY DEF Asked, page_
<1>3. Silent => Silent'
  BY DEF Silent, page_
<1>4. InOutbox => InOutbox'
  BY <1>2 DEF InOutbox, page_
<1>5. AtDevice => AtDevice' \/ Silent'
  BY <1>2 DEF AtDevice, Silent, page_
<1>6. Replied => Replied' \/ Silent'
  BY <1>2 DEF Replied, Silent, page_
<1>7. InAir => InAir' \/ Silent'
  BY <1>2 DEF InAir, Silent, page_
<1> QED BY <1>0, <1>1, <1>2, <1>3, <1>4, <1>5, <1>6, <1>7 DEF Token, page_

LEMMA LineArrives ==
  ASSUME TokenInv, NEW m \in air, GetLine(m), UNCHANGED page_
  PROVE  OneQuestion'
<1>d. m.dev \in Dev /\ Hb \in Dev /\ DOMAIN rx = Dev
  BY HbIsDevice DEF TokenInv, RouterInv, AirOK, LinesOK
<1>1. CASE m.dev # Hb
  BY <1>d, <1>1, Untouched DEF TokenInv, GetLine, Set, OnAir
<1>2. CASE m.dev = Hb
  <2> SUFFICES ASSUME ~strays PROVE Lines' /\ Token'
    BY DEF OneQuestion, page_
  <2>0. Lines /\ Token /\ OnAir(m)
    BY <1>2 DEF TokenInv, OneQuestion, GetLine, OnAir
  <2>1. InAir /\ pc \in Waits /\ answer = NoAnswer
    BY <2>0 DEF Token, Silent, InOutbox, AtDevice, Replied
  <2>2. m.op = Asked /\ (\A n \in air : OnAir(n) => n = m) /\ rx[Hb] = <<>> /\ tx[Hb] = <<>> /\ outbox = {}
    BY <2>0, <2>1 DEF InAir
  <2>3. rx'[Hb] = Append(rx[Hb], m.op) /\ tx' = tx /\ air' = air \ {m}
    BY <1>d, <1>2 DEF GetLine, Set
  <2>4. rx'[Hb] = <<Asked>>
    BY <2>2, <2>3
  <2>5. \A n \in air' : ~OnAir(n)
    BY <2>2, <2>3
  <2>6. Asked' = Asked
    BY DEF Asked, page_
  <2>7. AtDevice'
    BY <2>2, <2>3, <2>4, <2>5, <2>6 DEF AtDevice, page_, OnAir
  <2>8. Lines'
    BY <2>0, <2>3 DEF Lines, page_
  <2> QED BY <2>1, <2>7, <2>8 DEF Token, page_
<1> QED BY <1>1, <1>2

LEMMA ReplySent ==
  ASSUME TokenInv, NEW d \in Dev, Relay(d), UNCHANGED page_
  PROVE  OneQuestion'
<1>d. Hb \in Dev /\ DOMAIN tx = Dev /\ rx' = rx
  BY HbIsDevice DEF TokenInv, LinesOK, Relay
<1> DEFINE sent == {Msg("RE", d, tx[d][i].op, tx[d][i].bit) : i \in DOMAIN tx[d]}
<1>a. air' = air \cup sent /\ tx' = Set(tx, d, <<>>) /\ tx[d] # <<>>
  BY DEF Relay
<1>s. \A m \in sent : m.dev = d /\ m.type = "RE"
  BY DEF Msg
<1>1. CASE d # Hb
  <2>1. tx'[Hb] = tx[Hb]
    BY <1>a, <1>d, <1>1 DEF Set
  <2> HIDE DEF sent
  <2> QED BY <1>a, <1>s, <1>d, <1>1, <2>1, Untouched DEF TokenInv, OnAir
<1>2. CASE d = Hb
  <2> SUFFICES ASSUME ~strays PROVE Lines' /\ Token'
    BY DEF OneQuestion, page_
  <2>0. Lines /\ Token
    BY DEF TokenInv, OneQuestion
  <2>1. Replied /\ pc \in Waits /\ answer = NoAnswer
    BY <2>0, <1>a, <1>2 DEF Token, Silent, InOutbox, AtDevice, InAir
  <2>2. PICK r : tx[Hb] = <<r>> /\ r.op = Asked
    BY <2>1 DEF Replied
  <2>3. sent = {Msg("RE", Hb, r.op, r.bit)}
    BY <1>2, <2>2
  <2> DEFINE m == Msg("RE", Hb, r.op, r.bit)
  <2>4. OnAir(m) /\ m.op = Asked /\ m.type # "@OTAWIFI"
    BY <2>2 DEF Msg, OnAir
  <2>5. air' = air \cup {m} /\ tx'[Hb] = <<>>
    BY <1>a, <1>d, <1>2, <2>3 DEF Set
  <2> HIDE DEF m, sent
  <2>6. Asked' = Asked
    BY DEF Asked, page_
  <2>7. InAir'
    BY <1>d, <2>1, <2>4, <2>5, <2>6 DEF Replied, InAir, OnAir, page_
  <2>8. Lines'
    BY <2>0, <2>4, <2>5 DEF Lines, page_
  <2> QED BY <2>1, <2>7, <2>8 DEF Token, page_
<1> QED BY <1>1, <1>2

LEMMA Served ==
  ASSUME TokenInv, Serve
  PROVE  OneQuestion'
<1> SUFFICES ASSUME ~strays PROVE Lines' /\ Token'
  BY DEF OneQuestion, Serve
<1>0. Lines /\ Token /\ Hb \in Dev /\ DOMAIN rx = Dev /\ DOMAIN tx = Dev
  BY HbIsDevice DEF TokenInv, OneQuestion, LinesOK
<1>1. UNCHANGED <<air, outbox, answer, pc, cur, pending>> /\ rx[Hb] # <<>>
  BY DEF Serve, routerVars
<1>2. AtDevice /\ pc \in Waits /\ answer = NoAnswer
  BY <1>0, <1>1 DEF Token, Silent, InOutbox, Replied, InAir
<1>3. PICK b : tx' = Set(tx, Hb, Append(tx[Hb], [op |-> Head(rx[Hb]), bit |-> b]))
  BY DEF Serve
<1>4. rx[Hb] = <<Asked>> /\ tx[Hb] = <<>>
  BY <1>2 DEF AtDevice
<1>5. Head(rx[Hb]) = Asked /\ rx'[Hb] = <<>>
  BY <1>0, <1>4 DEF Serve, Set
<1>6. tx'[Hb] = <<[op |-> Asked, bit |-> b]>>
  BY <1>0, <1>3, <1>4, <1>5 DEF Set
<1>7. Asked' = Asked
  BY <1>1 DEF Asked
<1>8. Replied'
  BY <1>1, <1>2, <1>5, <1>6, <1>7 DEF AtDevice, Replied, OnAir
<1>9. Lines'
  BY <1>0, <1>1 DEF Lines
<1> QED BY <1>1, <1>2, <1>8, <1>9 DEF Token

\* The outbox goes out; `gone` is no line or reply of the handbrake.
LEMMA SentOn ==
  ASSUME TokenInv, NEW t, NEW gone, NEW back, NEW p, SendOut(t, gone, back, p, answer),
         \A m \in gone : ~OnAir(m), \A m \in back : m.type = "@SUB",
         \A d \in Dev : p[d] = "caller" => d = Hb, UNCHANGED <<rx, tx, pc, cur, strays>>
  PROVE  OneQuestion'
<1> SUFFICES ASSUME ~strays PROVE Lines' /\ Token'
  BY DEF OneQuestion
<1>0. Lines /\ Token /\ Hb \in Dev
  BY HbIsDevice DEF TokenInv, OneQuestion
<1>1. outbox = {} \/ (outbox = {Entry(Hb, Asked)} /\ Asked # "ota")
  <2>1. InOutbox /\ pc \in Waits => Asked # "ota"
    BY AskedIsLine DEF TokenInv, Asks
  <2> QED BY <1>0, <2>1 DEF Token, Silent, InOutbox, AtDevice, Replied, InAir
<1>2. Asked' = Asked
  BY DEF Asked
<1>3. outbox' = {} /\ air' = (air \ gone) \cup back \cup SentTo(t)
  BY DEF SendOut
<1>4. \A d \in Dev : pending'[d] = "caller" => d = Hb
  <2>1. \A e \in outbox : e.dev = Hb
    BY <1>1 DEF Entry
  <2> QED BY <2>1 DEF SendOut, Requests, Known
<1>5. CASE outbox = {}
  <2>1. SentTo(t) = {} /\ Requests \ Known(t) = {}
    BY <1>5 DEF SentTo, Known, Requests
  <2>2. answer' = answer
    BY <2>1 DEF SendOut
  <2>3. \A m : m \in air' <=> (m \in air /\ m \notin gone) \/ m \in back
    BY <1>3, <2>1
  <2>4. \A m \in air' : OnAir(m) => m \in air
    BY <2>3 DEF OnAir
  <2>5. \A m \in air : OnAir(m) => m \in air'
    BY <2>3
  <2>6. \A m \in air' : m.dev = Hb => m.type # "@OTAWIFI"
    BY <1>0, <2>3 DEF Lines
  <2>7. Silent => Silent'
    BY <1>3, <2>4 DEF Silent, OnAir
  <2>8. AtDevice => AtDevice'
    BY <1>2, <1>3, <2>4 DEF AtDevice, OnAir
  <2>9. Replied => Replied'
    BY <1>2, <1>3, <2>4 DEF Replied, OnAir
  <2>10. InAir => InAir'
    BY <1>2, <1>3, <2>4, <2>5 DEF InAir, OnAir
  <2> QED BY <1>0, <1>2, <1>4, <1>5, <2>2, <2>6, <2>7, <2>8, <2>9, <2>10 DEF Token, Lines, InOutbox
<1>6. CASE outbox = {Entry(Hb, Asked)} /\ Asked # "ota"
  <2>1. pc \in Waits /\ answer = NoAnswer /\ InOutbox
    BY <1>0, <1>6 DEF Token, Silent, InOutbox, AtDevice, Replied, InAir
  <2>2. Entry(Hb, Asked).dev = Hb /\ Entry(Hb, Asked).op = Asked
    BY DEF Entry
  <2>3. \A m : m \in air' <=> (m \in air /\ m \notin gone) \/ m \in back \/ m \in SentTo(t)
    BY <1>3
  <2>4. CASE Hb \in t
    <3> DEFINE m == Msg("line", Hb, Asked, 0)
    <3>1. Known(t) = {Entry(Hb, Asked)}
      BY <1>6, <2>2, <2>4 DEF Known
    <3>2. SentTo(t) = {m}
      BY <1>6, <2>2, <3>1 DEF SentTo
    <3>3. Requests \ Known(t) = {}
      BY <1>6, <3>1 DEF Requests
    <3>4. answer' = NoAnswer
      BY <2>1, <3>3 DEF SendOut
    <3>5. m.dev = Hb /\ m.type = "line" /\ m.op = Asked
      BY DEF Msg
    <3> HIDE DEF m
    <3>6. OnAir(m) /\ m \in air' /\ \A n \in air' : OnAir(n) => n = m
      BY <2>1, <2>3, <3>2, <3>5 DEF InOutbox, OnAir
    <3>7. \A n \in air' : n.dev = Hb => n.type # "@OTAWIFI"
      BY <1>0, <2>3, <3>2, <3>5 DEF Lines
    <3>8. InAir'
      BY <1>2, <1>3, <2>1, <3>5, <3>6 DEF InAir, InOutbox, OnAir
    <3> QED BY <1>4, <2>1, <3>4, <3>7, <3>8 DEF Token, Lines
  <2>5. CASE Hb \notin t
    <3>1. Known(t) = {}
      BY <1>6, <2>2, <2>5 DEF Known
    <3>2. SentTo(t) = {} /\ Requests = {Entry(Hb, Asked)}
      BY <1>6, <2>2, <3>1 DEF SentTo, Requests
    <3>3. answer' = Hung
      BY <3>1, <3>2 DEF SendOut
    <3>4. \A m \in air' : ~OnAir(m) /\ (m.dev = Hb => m.type # "@OTAWIFI")
      BY <1>0, <2>1, <2>3, <3>2 DEF Lines, InOutbox, OnAir
    <3>5. Silent'
      BY <1>3, <2>1, <3>4 DEF Silent, InOutbox, OnAir
    <3> QED BY <1>4, <3>3, <3>4, <3>5 DEF Token, Lines
  <2> QED BY <2>4, <2>5
<1> QED BY <1>1, <1>5, <1>6

LEMMA ReplyHeard ==
  ASSUME TokenInv, NEW m \in air, TakeReply(m), UNCHANGED <<rx, tx, pc, cur, strays>>
  PROVE  OneQuestion'
<1> SUFFICES ASSUME ~strays PROVE OneQuestion'
  BY DEF OneQuestion
<1>0. /\ Lines /\ Token /\ Hb \in Dev /\ m.dev \in Dev /\ m.type = "RE"
      /\ SendOut(host.table, {m}, {}, Set(pending, m.dev, "none"),
                 IF pending[m.dev] = "caller" THEN [op |-> m.op, bit |-> m.bit] ELSE answer)
  BY HbIsDevice DEF TokenInv, OneQuestion, RouterInv, AirOK, TakeReply, Taken
<1>1. \A d \in Dev : Set(pending, m.dev, "none")[d] = "caller" => d = Hb
  <2>1. \A d \in Dev : Set(pending, m.dev, "none")[d] \in {"none", pending[d]}
    <3>1. ASSUME NEW d \in Dev PROVE Set(pending, m.dev, "none")[d] \in {"none", pending[d]}
      BY DEF Set
    <3> QED BY <3>1
  <2> QED BY <1>0, <2>1 DEF Lines
<1>2. CASE m.dev # Hb
  <2>1. pending[m.dev] # "caller" /\ ~OnAir(m)
    BY <1>0, <1>2 DEF Lines, OnAir
  <2>2. SendOut(host.table, {m}, {}, Set(pending, m.dev, "none"), answer)
    BY <1>0, <2>1
  <2> QED BY <1>1, <2>1, <2>2, SentOn
<1>3. CASE m.dev = Hb
  <2>0. OnAir(m)
    BY <1>0, <1>3 DEF OnAir
  <2>1. InAir /\ pc \in Waits /\ answer = NoAnswer
    BY <1>0, <2>0 DEF Token, Silent, InOutbox, AtDevice, Replied
  <2>2. m.op = Asked /\ \A n \in air : OnAir(n) => n = m
    BY <2>0, <2>1 DEF InAir
  <2>3. outbox = {}
    BY <2>1 DEF InAir
  <2>4. SentTo(host.table) = {} /\ Requests = {}
    BY <2>3 DEF SentTo, Known, Requests
  <2>5. air' = air \ {m} /\ outbox' = {}
    BY <1>0, <2>4 DEF SendOut
  <2>6. answer' = NoAnswer \/ answer'.op = Asked
    BY <1>0, <2>1, <2>2, <2>4 DEF SendOut
  <2>7. \A d \in Dev : pending'[d] = "caller" => d = Hb
    BY <1>0, <1>1, <2>4 DEF SendOut
  <2>8. Asked' = Asked
    BY DEF Asked
  <2>9. Silent'
    BY <2>1, <2>2, <2>5 DEF InAir, Silent, OnAir
  <2>10. Lines'
    BY <1>0, <2>5, <2>7 DEF Lines
  <2> QED BY <2>6, <2>8, <2>9, <2>10 DEF OneQuestion, Token
<1> QED BY <1>2, <1>3

LEMMA RouterAsks ==
  ASSUME TokenInv, RouterStep, UNCHANGED <<pc, cur, strays>>
  PROVE  OneQuestion'
<1> SUFFICES ASSUME ~strays PROVE OneQuestion'
  BY DEF OneQuestion
<1>0. \A d \in Dev : pending[d] = "caller" => d = Hb
  BY DEF TokenInv, OneQuestion, Lines
<1>1. UNCHANGED <<rx, tx>>
  BY DEF RouterStep, Router, Toggle, TakeNothing, Unheard, TakeBeacon, TakeAxis, TakeButtons, TakeReply, NextTurn,
         devVars, linkVars
<1>2. ASSUME NEW m \in air, TakeBeacon(m) PROVE OneQuestion'
  <2>1. PICK t : SendOut(t, {m}, {Msg("@SUB", m.dev, "-", 0)}, pending, answer)
    BY <1>2 DEF TakeBeacon
  <2>2. ~OnAir(m)
    BY <1>2 DEF TakeBeacon, Taken, OnAir
  <2>3. \A n \in {Msg("@SUB", m.dev, "-", 0)} : n.type = "@SUB"
    BY DEF Msg
  <2> QED BY <1>0, <1>1, <2>1, <2>2, <2>3, SentOn
<1>3. ASSUME NEW m \in air, TakeAxis(m) \/ TakeButtons(m) PROVE OneQuestion'
  <2>1. ~OnAir(m) /\ SendOut(host.table, {m}, {}, pending, answer)
    BY <1>3 DEF TakeAxis, TakeButtons, Taken, OnAir
  <2> QED BY <1>0, <1>1, <2>1, SentOn
<1>4. CASE TakeNothing \/ Unheard
  <2>1. SendOut(host.table, {}, {}, pending, answer)
    BY <1>4 DEF TakeNothing, Unheard
  <2> QED BY <1>0, <1>1, <2>1, SentOn
<1>5. ASSUME NEW k, Toggle(k) PROVE OneQuestion'
  BY <1>1, <1>5, Untouched DEF Toggle, routerVars, page_, TokenInv
<1> QED BY <1>1, <1>2, <1>3, <1>4, <1>5, ReplyHeard DEF RouterStep, Router

LEMMA LinkAsks ==
  ASSUME TokenInv, LinkStep, UNCHANGED page_
  PROVE  OneQuestion'
<1>d. Hb \in Dev /\ DOMAIN rx = Dev /\ DOMAIN tx = Dev /\ OneQuestion
  BY HbIsDevice DEF TokenInv, LinesOK
<1>1. ASSUME NEW d \in Dev, LinkThread(d) PROVE OneQuestion'
  BY <1>d, <1>1, Untouched DEF LinkThread, StartThread, TakeFresh, LoadStored, Arm, StartDriver, PickUp, Connect,
                               Stable, Leave, PullEnds
<1>2. ASSUME NEW d \in Dev, Streaming(d) PROVE OneQuestion'
  <2>1. PICK m : /\ air' = air \cup {m}
                 /\ m \in {Msg("PITH", d, "-", 0), Msg("AX", d, "-", input[d]), Msg("BT", d, "-", input[d])}
    BY <1>2 DEF Streaming, Beacon, StreamAxis, StreamButtons, Emit
  <2>2. m.type \in {"PITH", "AX", "BT"}
    BY <2>1 DEF Msg
  <2>3. UNCHANGED <<rx, tx>>
    BY <1>2 DEF Streaming, Beacon, StreamAxis, StreamButtons, linkVars
  <2> QED BY <1>d, <2>1, <2>2, <2>3, Untouched DEF OnAir
<1>3. ASSUME NEW m \in air, GetSubscribe(m) PROVE OneQuestion'
  BY <1>d, <1>3, Untouched DEF GetSubscribe, OnAir
<1>4. ASSUME NEW m \in air, GetOta(m) PROVE OneQuestion'
  <2> SUFFICES ASSUME ~strays PROVE OneQuestion'
    BY DEF OneQuestion, page_
  <2>1. m.dev # Hb /\ UNCHANGED <<rx, tx>>
    BY <1>d, <1>4 DEF GetOta, OneQuestion, Lines
  <2>2. air' = air \ {m} \/ air' = (air \ {m}) \cup {Msg("RE", m.dev, "ota", 1)}
    BY <1>4 DEF GetOta
  <2>3. Msg("RE", m.dev, "ota", 1).dev # Hb
    BY <2>1 DEF Msg
  <2> QED BY <1>d, <2>1, <2>2, <2>3, Untouched DEF OnAir
<1>5. CASE LinkEnv
  <2>1. ASSUME NEW d \in Dev, Volatile(d) PROVE OneQuestion'
    <3>1. rx'[Hb] \in {rx[Hb], <<>>} /\ tx'[Hb] \in {tx[Hb], <<>>} /\ air' = air
      BY <1>d, <2>1 DEF Volatile, Set
    <3> QED BY <1>d, <3>1, Lost
  <2>2. ASSUME NEW d \in Dev, Crash(d) \/ Restart(d) \/ TornSave(d) PROVE OneQuestion'
    BY <2>1, <2>2 DEF Crash, Restart, TornSave
  <2>3. ASSUME NEW d \in Dev, Move(d) \/ \E c \in Creds : Provision(d, c) PROVE OneQuestion'
    BY <1>d, <2>3, Lost DEF Move, Provision, linkVars
  <2>4. ASSUME AccessPoint \/ \E m \in air : Lose(m) PROVE OneQuestion'
    BY <1>d, <2>4, Lost DEF AccessPoint, Lose, linkVars
  <2> QED BY <1>5, <2>2, <2>3, <2>4 DEF LinkEnv
<1> QED BY <1>1, <1>2, <1>3, <1>4, <1>5, LineArrives, ReplySent DEF LinkStep, GetFromHost

\* The thread asks when nothing of an earlier question is left.
LEMMA Asking ==
  ASSUME TokenInv, ~strays, Silent, NEW op, NEW w \in Waits, Ask(op, w), Asked' = op,
         \A d \in Dev : pending'[d] = "caller" => d = Hb, UNCHANGED <<rx, tx, air>>
  PROVE  OneQuestion'
<1>1. Lines'
  BY DEF TokenInv, OneQuestion, Lines
<1>2. outbox' = {Entry(Hb, op)} /\ answer' = NoAnswer /\ pc' \in Waits
  BY DEF Ask, Silent
<1>3. InOutbox'
  BY <1>2 DEF InOutbox, Silent, OnAir
<1> QED BY <1>1, <1>2, <1>3 DEF OneQuestion, Token

LEMMA NotAsking ==
  ASSUME TokenInv, ~strays, Silent, pc' \notin Waits, UNCHANGED outbox,
         \A d \in Dev : pending'[d] = "caller" => d = Hb, UNCHANGED <<rx, tx, air>>
  PROVE  OneQuestion'
<1>1. Lines'
  BY DEF TokenInv, OneQuestion, Lines
<1>2. Silent'
  BY DEF Silent, OnAir
<1> QED BY <1>1, <1>2 DEF OneQuestion, Token

\* A thread that waits goes on when it has heard its answer, or when nothing
\* is left of its question; what comes later is a stray.
LEMMA HeardOrLost ==
  ASSUME TokenInv, NEW w, Received(w), ~strays'
  PROVE  /\ ~strays /\ Silent /\ pc = w
         /\ \A d \in Dev : pending'[d] = "caller" => d = Hb
<1>1. ~strays /\ pc = w
  <2>1. CASE Hears
    BY <2>1 DEF Hears, Received
  <2>2. CASE GivesUp
    <3>1. strays' = (strays \/ OnTheWay \/ Held)
      BY <2>2 DEF GivesUp
    <3>2. ~strays
      BY <3>1
    <3> QED BY <3>2 DEF Received
  <2> QED BY <2>1, <2>2 DEF Received
<1>2. Lines /\ Token
  BY <1>1 DEF TokenInv, OneQuestion
<1>3. CASE Hears
  BY <1>1, <1>2, <1>3 DEF Hears, Token, Lines
<1>4. CASE GivesUp
  <2>1. ~OnTheWay /\ ~Held /\ Requests = {}
    BY <1>4 DEF GivesUp
  <2>2. ~InOutbox \/ pc \notin Waits
    <3>1. SUFFICES ASSUME InOutbox, pc \in Waits PROVE FALSE
      OBVIOUS
    <3>2. Asked # "ota"
      BY <3>1, AskedIsLine DEF TokenInv, Asks
    <3>3. Entry(Hb, Asked) \in Requests
      BY <3>1, <3>2 DEF InOutbox, Requests, Entry
    <3> QED BY <2>1, <3>3
  <2>3. ~AtDevice /\ ~Replied /\ ~InAir
    BY <2>1 DEF OnTheWay, Held, AtDevice, Replied, InAir, OnAir
  <2>4. \A d \in Dev : pending'[d] = "caller" => d = Hb
    <3>1. PICK v : pending' = Set(pending, Hb, v)
      BY <1>4 DEF GivesUp
    <3>2. \A d \in Dev : d # Hb => pending'[d] = pending[d]
      BY <3>1 DEF Set
    <3> QED BY <1>2, <3>2 DEF Lines
  <2> QED BY <1>1, <1>2, <2>2, <2>3, <2>4 DEF Token
<1> QED BY <1>1, <1>3, <1>4 DEF Received

LEMMA SessionAsks ==
  ASSUME TokenInv, Session
  PROVE  OneQuestion'
<1> SUFFICES ASSUME ~strays' PROVE OneQuestion'
  BY DEF OneQuestion
<1>0. UNCHANGED <<rx, tx, air>>
  BY PagePays DEF devVars, linkVars
<1>a. ASSUME pc \in {"scan", "loop"}, ~strays
      PROVE  Silent /\ \A d \in Dev : pending[d] = "caller" => d = Hb
  BY <1>a DEF TokenInv, OneQuestion, Token, Lines, Waits
<1>b. ASSUME NoChange PROVE UNCHANGED <<pending, strays>>
  BY <1>b DEF NoChange
<1>1. CASE Begin
  <2>1. pc = "scan" /\ Ask("cap", "cap") /\ NoChange
    BY <1>1 DEF Begin
  <2>2. Asked' = "cap"
    BY <2>1 DEF Ask, Asked
  <2> QED BY <1>0, <1>a, <1>b, <2>1, <2>2, Asking DEF Waits
<1>2. CASE Poll
  <2>1. pc = "loop" /\ Ask("status", "poll") /\ NoChange
    BY <1>2 DEF Poll, InLoop
  <2>2. Asked' = "status"
    BY <2>1 DEF Ask, Asked
  <2> QED BY <1>0, <1>a, <1>b, <2>1, <2>2, Asking DEF Waits
<1>3. CASE SendCommand
  <2>1. PICK op \in Commands : Pop(op) /\ Ask(op, "command")
    BY <1>3 DEF SendCommand, Commands
  <2>2. pc = "loop" /\ cur' = op /\ NoChange
    BY <1>3, <2>1 DEF SendCommand, Pop, InLoop
  <2>3. Asked' = op
    BY <2>1, <2>2 DEF Ask, Asked
  <2> QED BY <1>0, <1>a, <1>b, <2>1, <2>2, <2>3, Asking DEF Waits
<1>4. CASE LeaveSession \/ StartLearning \/ StopLearning
  <2>1. /\ pc = "loop" /\ pc' \in {"scan", "loop"} /\ NoChange /\ UNCHANGED outbox
    BY <1>4 DEF LeaveSession, EndSession, StartLearning, StopLearning, Pop, InLoop
  <2> QED BY <1>0, <1>a, <1>b, <2>1, NotAsking DEF Waits
<1>5. CASE DropCommand
  <2>1. pc = "scan" /\ pc' = "scan" /\ ~strays /\ slot # "ota" /\ UNCHANGED <<pending, outbox>>
    BY <1>5 DEF DropCommand
  <2> QED BY <1>0, <1>a, <2>1, NotAsking DEF Waits
<1>6. CASE Upload
  BY <1>6 DEF Upload
<1>r. ASSUME NEW w, Received(w)
      PROVE  ~strays /\ Silent /\ pc = w /\ \A d \in Dev : pending'[d] = "caller" => d = Hb
  BY <1>r, HeardOrLost
<1>7. CASE Handshake
  <2>1. Received("cap")
    BY <1>7 DEF Handshake
  <2>2. CASE Ask("status", "hello")
    <3>1. Asked' = "status"
      BY <2>2 DEF Ask, Asked
    <3> QED BY <1>0, <1>r, <2>1, <2>2, <3>1, Asking DEF Waits
  <2>3. CASE pc' = "scan" /\ UNCHANGED outbox
    BY <1>0, <1>r, <2>1, <2>3, NotAsking DEF Waits
  <2> QED BY <1>7, <2>2, <2>3 DEF Handshake
<1>8. CASE Polled
  <2>1. Received("poll")
    BY <1>8 DEF Polled
  <2>2. CASE Ask("setidle", "setidle")
    <3>1. Asked' = "setidle"
      BY <2>2 DEF Ask, Asked
    <3> QED BY <1>0, <1>r, <2>1, <2>2, <3>1, Asking DEF Waits
  <2>3. CASE pc' \in {"scan", "loop"} /\ UNCHANGED outbox
    BY <1>0, <1>r, <2>1, <2>3, NotAsking DEF Waits
  <2> QED BY <1>8, <2>2, <2>3 DEF Polled, EndSession
<1>9. CASE IdleAnswered
  <2>1. Received("setidle")
    BY <1>9 DEF IdleAnswered
  <2>2. CASE Ask("setmax", "setmax")
    <3>1. Asked' = "setmax"
      BY <2>2 DEF Ask, Asked
    <3> QED BY <1>0, <1>r, <2>1, <2>2, <3>1, Asking DEF Waits
  <2>3. CASE pc' = "loop" /\ UNCHANGED outbox
    BY <1>0, <1>r, <2>1, <2>3, NotAsking DEF Waits
  <2> QED BY <1>9, <2>2, <2>3 DEF IdleAnswered
<1>10. CASE MaxAnswered
  <2>1. Received("setmax")
    BY <1>10 DEF MaxAnswered
  <2>2. CASE Ask("status", "learned")
    <3>1. Asked' = "status"
      BY <2>2 DEF Ask, Asked
    <3> QED BY <1>0, <1>r, <2>1, <2>2, <3>1, Asking DEF Waits
  <2>3. CASE pc' = "loop" /\ UNCHANGED outbox
    BY <1>0, <1>r, <2>1, <2>3, NotAsking DEF Waits
  <2> QED BY <1>10, <2>2, <2>3 DEF MaxAnswered
<1>11. CASE CommandAnswered
  <2>1. Received("command")
    BY <1>11 DEF CommandAnswered
  <2>2. CASE Ask("status", "refresh")
    <3>1. Asked' = "status"
      BY <2>2 DEF Ask, Asked
    <3> QED BY <1>0, <1>r, <2>1, <2>2, <3>1, Asking DEF Waits
  <2>3. CASE pc' = "loop" /\ UNCHANGED outbox
    BY <1>0, <1>r, <2>1, <2>3, NotAsking DEF Waits
  <2> QED BY <1>11, <2>2, <2>3 DEF CommandAnswered
<1>12. CASE FirstStatus \/ Learned \/ Refreshed
  <2>1. PICK w : Received(w)
    BY <1>12 DEF FirstStatus, Learned, Refreshed
  <2>2. pc' = "loop" /\ UNCHANGED outbox
    BY <1>12 DEF FirstStatus, Learned, Refreshed
  <2> QED BY <1>0, <1>r, <2>1, <2>2, NotAsking DEF Waits
<1> QED BY <1>1, <1>2, <1>3, <1>4, <1>5, <1>6, <1>7, <1>8, <1>9, <1>10, <1>11, <1>12 DEF Session

LEMMA TokenKept == TokenInv /\ [Next]_vars => TokenInv'
<1> SUFFICES ASSUME TokenInv, [Next]_vars PROVE OneQuestion'
  BY RouterKept, PageKept, LinesKept DEF TokenInv
<1>1. CASE LinkStep /\ UNCHANGED <<routerVars, enabled, outbox, answer, sessionVars, cable, strays>>
  BY <1>1, LinkAsks DEF routerVars, sessionVars, page_
<1>2. CASE RouterStep /\ UNCHANGED <<sessionVars, cable, strays>>
  BY <1>2, RouterAsks DEF sessionVars
<1>3. CASE Press \/ Update \/ Cable
  <2>1. UNCHANGED page_ /\ UNCHANGED <<rx, tx, air>>
    BY <1>3 DEF Press, Update, Cable, netVars, devVars, linkVars, routerVars, sessionVars, page_
  <2> QED BY <2>1, Untouched DEF TokenInv
<1>4. CASE UNCHANGED vars
  <2>1. UNCHANGED page_ /\ UNCHANGED <<rx, tx, air>>
    BY <1>4 DEF vars, devVars, linkVars, routerVars, sessionVars, page_
  <2> QED BY <2>1, Untouched DEF TokenInv
<1> QED BY <1>1, <1>2, <1>3, <1>4, Served, SessionAsks DEF Next

\* Replies carry no name; the thread still gets the answer to what it asked,
\* whatever is lost, restarted or reconnected, until an answer comes after it
\* has given up, or an update reports (wifi.rs 366-376).
THEOREM RepliesMatch == Spec => []ReplyIsOwn
<1>1. Init => TokenInv
  <2> SUFFICES ASSUME Init PROVE PageOK /\ LinesOK /\ OneQuestion
    BY RouterStart DEF TokenInv
  <2>1. <<>> \in Seq(Asks)
    BY EmptySeq
  <2>2. /\ rx = [d \in Dev |-> <<>>] /\ tx = [d \in Dev |-> <<>>] /\ air = {} /\ outbox = {}
        /\ pending = [d \in Dev |-> "none"] /\ pc = "scan"
    BY DEF Init, LinkInit, RouterInit
  <2>3. OneQuestion
    BY <2>2, HbIsDevice DEF OneQuestion, Lines, Token, Silent, Waits
  <2> QED BY <2>1, <2>2, <2>3 DEF Init, PageOK, LinesOK, NoCmd, Pages
<1>2. TokenInv => ReplyIsOwn
  BY DEF TokenInv, OneQuestion, Token, ReplyIsOwn
<1> QED BY <1>1, <1>2, TokenKept, PTL DEF Spec

=============================================================================
