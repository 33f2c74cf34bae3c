---------------------------- MODULE TelemetryFeed ----------------------------
(***************************************************************************)
(* Telemetry from the game to the DDU.  Senders stream a race to the       *)
(* dashboard: text lines and binary packets over UDP, shared memory, the   *)
(* test feed, and one game that has to be asked (Connectors).  The frames  *)
(* are merged and handed to the device (FrameMerge), the cars around the   *)
(* player with them (Relatives), and the car's profile (CarProfiles).      *)
(*                                                                         *)
(* A datagram is received when it is sent.  The socket's one @SRC tag says *)
(* who sends text; it lasts three seconds.  `sent`, `origin` and `laps`    *)
(* are history.                                                            *)
(***************************************************************************)
EXTENDS FrameMerge, CarProfiles, Relatives, Connectors

CONSTANTS
  Senders,      \* by sender: how it sends, its label, the fields it fills, and the car's name as it gives it
  GameOf,       \* the game a connector talks to, by label
  Scenarios     \* what runs, what the race does, and how often the world may do what

\* What a sender says it fills, its line reaches.
ASSUME SendersAssumption ==
  /\ IsFiniteSet(DOMAIN Senders) /\ "SimHub plugin" \in Sources
  /\ \A x \in DOMAIN Senders :
       /\ Senders[x].label \in Sources /\ Senders[x].width \in 0 .. Len(Wire) /\ Senders[x].blank \in {0, Empty}
       /\ \A i \in DOMAIN Wire : Wire[i] \in Senders[x].has => i <= Senders[x].width
ASSUME RankAssumption == Priority \in [Sources -> Int]
ASSUME NilAssumption  == Nil \notin [label : Sources, frame : Frames, gave : SUBSET Computed]

\* Laps are counted within a session.  A new one begins with fewer of them, or
\* before a lap of the last one has been timed.
Points == {r \in [Fields \cup {"rpm", "session"} -> Int] : \A f \in Fields \ {"delta"} : r[f] >= 0}
GoesOn(points) ==
  \A n \in 1 .. Len(points) - 1 :
    LET now  == points[n]
        next == points[n + 1]
    IN  IF next.session = now.session THEN now.lap <= next.lap
        ELSE next.lap < now.lap \/ \A k \in 1 .. n : points[k].session = now.session => points[k].last = 0
ASSUME RaceAssumption ==
  \A s \in Scenarios : s.script \in Seq(Points) /\ s.script # <<>> /\ GoesOn(s.script) /\ s.asks \in {"none"} \cup DOMAIN Senders

\* The gap on track is to the player.
ASSUME GridsAssumption ==
  \A s \in Scenarios : \A g \in s.grids : g \in Cars /\ \A i \in DOMAIN g : g[i].player => g[i].gap = 0

Charges == {"turn", "car", "tag", "bad", "choose", "browse", "plug", "ota", "game", "peer", "lose", "switch"}

VARIABLES
  cast,         \* the scenario: what the race does, who may stream, which interval passes, whether cars are named
  at,           \* how far the race has come
  grid,         \* the cars of the session
  car,          \* the car that is driven
  on,           \* senders that stream
  tag,          \* the label of the last @SRC, or Nil
  process,      \* the game that runs
  telem,        \* the frame the DDU shows
  row,          \* the list the DDU shows
  sent,         \* by sender: [label, frame, gave], what it sent since it was silent
  origin,       \* by label: the senders heard under it since it was silent
  laps,         \* [times, sure]: lap times built into frames in this session
  seen,         \* the race as it stands has been built into a frame
  budget

world  == <<cast, at, grid, car, on, tag, process>>
device == <<telem, row>>
past   == <<sent, origin, laps, seen>>
vars   == <<merge, sends, ota, relatives, carvars, conn, world, device, past, budget>>

race == cast.script[at]
Kind == cast.asks

Init ==
  \E s \in Scenarios :
    /\ cast = [k \in {"script", "grids", "asks", "two", "clock", "named"} |-> s[k]]
    /\ at = 1 /\ grid \in s.grids /\ car = s.car /\ on = s.on /\ tag = Nil /\ process = s.process
    /\ InitMerge /\ InitConnector(s.asks # "none" /\ s.process # None)
    /\ InitCars /\ game = s.game /\ library = s.library /\ there = TRUE /\ link = s.link /\ scanned = s.scanned
    /\ telem = Nil /\ row = Nil
    /\ sent = [x \in DOMAIN Senders |-> Nil] /\ origin = [l \in Sources |-> {}]
    /\ laps = [times |-> {}, sure |-> TRUE] /\ seen = FALSE
    /\ budget = [k \in Charges |-> IF k \in DOMAIN s.may THEN s.may[k] ELSE 0]

Spend(k) == budget[k] > 0 /\ budget' = [budget EXCEPT ![k] = @ - 1]
Free     == UNCHANGED budget

-----------------------------------------------------------------------------
(* Frames                                                                  *)

How(x)      == Senders[x].how
Has(x)      == Senders[x].has
LabelOf(x)  == IF How(x) # "text" THEN Senders[x].label ELSE IF tag = Nil THEN "SimHub plugin" ELSE tag
ThreadOf(x) == LoopOf[LabelOf(x)]

LineOf(x, r) ==
  <<"1", r.rpm>> \o [i \in 1 .. Senders[x].width |-> IF Wire[i] \in Has(x) THEN r[Wire[i]] ELSE Senders[x].blank]

\* A number another program wrote in its own way.
Spoilt(text, i) == [text EXCEPT ![i] = Junk]

Heard(x, frame) ==
  LET l == LabelOf(x)
      g == IF sent[x] # Nil /\ sent[x].label = l THEN sent[x].gave ELSE {}
  IN  /\ sent' = [sent EXCEPT ![x] = [label |-> l, frame |-> frame, gave |-> Observe(g, frame)]]
      /\ origin' = [origin EXCEPT ![l] = @ \cup {x}]

\* Lap times count while one sender alone, who counts laps, tells them.
Counts(x, whole) == whole /\ "lap" \in Has(x) /\ Len(srcs') = 1 /\ "best" \notin Provided(srcs')
Noted(x, whole) ==
  /\ laps' = [times |-> IF line'.last > 0 THEN laps.times \cup {line'.last} ELSE laps.times,
              sure |-> laps.sure /\ Counts(x, whole)]
  /\ seen' = TRUE

Receives(x, text) ==
  /\ PushFrame(LabelOf(x), text)
  /\ IF otaFlag \/ ParseLine(text) = NoFrame THEN UNCHANGED past
     ELSE /\ Heard(x, ParseLine(text))
          /\ IF due[ThreadOf(x)] = {} THEN UNCHANGED <<laps, seen>> ELSE Noted(x, text = LineOf(x, race))
  /\ UNCHANGED <<sends, ota, relatives, carvars, world, device>>

Frame(x) == x \in on /\ Receives(x, LineOf(x, race)) /\ UNCHANGED conn /\ Free
BadFrame(x) ==
  /\ x \in on /\ How(x) = "text" /\ Spend("bad")
  /\ \E i \in DOMAIN LineOf(x, race) : Receives(x, Spoilt(LineOf(x, race), i))
  /\ UNCHANGED conn
Hands(t) == HandsOn(t) /\ UNCHANGED <<writer, took, ota, relatives, carvars, conn, world, device, past>> /\ Free

\* Time passes for a thread; a label nobody feeds falls silent.
Used(t) == \E x \in Range(cast.two) \cup ({Kind} \ {"none"}) : ThreadOf(x) = t
Tick(t, c) == Used(t) /\ c \in cast.clock /\ ComesDue(t, c) /\ UNCHANGED <<sends, ota, relatives, carvars, conn, world, device, past>> /\ Free

Feeds(x)   == x \in on \/ (x = Kind /\ con.on /\ peer.streams)
Awaited(x) == x \in on \/ (x = Kind /\ con.on /\ ~con.hush)
\* The label a sender has left falls silent before the one it has now, unless
\* another sender uses it.
Left(x, l) == \A m \in Sources \ {l} : x \in origin[m] => \E y \in DOMAIN Senders \ {x} : sent[y] # Nil /\ sent[y].label = m
Silent(l) ==
  /\ \A x \in DOMAIN Senders : /\ Awaited(x) => LabelOf(x) # l
                               /\ sent[x] # Nil /\ sent[x].label = l => Left(x, l)
  /\ FallsQuiet(l)
  /\ sent' = [x \in DOMAIN Senders |-> IF sent[x] # Nil /\ sent[x].label = l THEN Nil ELSE sent[x]]
  /\ origin' = [origin EXCEPT ![l] = {}]
  /\ UNCHANGED <<sends, ota, relatives, carvars, conn, world, device, laps, seen>> /\ Free

\* Nearly every source repeats its frames: some label is not silent.
Feeding == quiet # Sources

-----------------------------------------------------------------------------
(* Around the frames: the tag, the list of cars, the car                   *)

Tags(x) ==
  /\ x \in on /\ Senders[x].tagged /\ tag # Senders[x].label /\ tag' = Senders[x].label
  /\ UNCHANGED <<merge, sends, ota, relatives, carvars, conn, cast, at, grid, car, on, process, device, past>> /\ Free
\* The tag ends with its sender, or three of its datagrams are lost.
TagFades ==
  /\ tag # Nil /\ tag' = Nil
  /\ IF \E x \in on : Senders[x].tagged THEN Spend("tag") ELSE Free
  /\ UNCHANGED <<merge, sends, ota, relatives, carvars, conn, cast, at, grid, car, on, process, device, past>>

\* The shim's line, or ACC's cars.
List(x) ==
  /\ Feeds(x) /\ Senders[x].lists /\ Idle(ThreadOf(x))
  /\ LET cars == Relatives(grid)
     IN  cars # Nothing /\ ApplyRelatives(cars, FromWire(cars))
  /\ UNCHANGED <<merge, writer, took, ota, carvars, conn, world, device, past>> /\ Free

Called(x) == Senders[x].calls[car]
Aside  == <<merge, sends, ota, relatives, conn, device, past>>
Rest   == <<scan, carlink, library, closures, profile>>

Names(x) ==
  /\ cast.named /\ Feeds(x) /\ Idle(ThreadOf(x))
  /\ CASE How(x) = "decoder" -> DecoderHeard(Senders[x].label, Called(x)) /\ UNCHANGED detected
       [] How(x) = "sim" -> \E e \in Range(Entries(game)) : SimCar(e)
       [] How(x) \in {"text", "memory"} \/ (How(x) = "ask" /\ Kind = "gt7") -> CarHeard(Called(x))
  /\ UNCHANGED <<Aside, world, Rest>>
  /\ IF How(x) = "sim" THEN Spend("car") ELSE Free

-----------------------------------------------------------------------------
(* The device                                                              *)

Writes == WriterTakes /\ UNCHANGED <<merge, ota, relatives, carvars, conn, world, device, past>> /\ Free

\* The DDU reads the line as the dashboard does.
Reaches == there /\ link # "down"
Sends ==
  /\ WriterSends
  /\ LET got == IF took.telem = Nil THEN NoFrame ELSE ParseLine(took.telem)
     IN  telem' = IF Reaches /\ got # NoFrame THEN got ELSE telem
  /\ row' = IF Reaches /\ took.rel # Nil THEN FromWire(took.rel) ELSE row
  /\ UNCHANGED <<merge, ota, relatives, carvars, conn, world, past>> /\ Free

AroundCar == <<merge, sends, ota, relatives, conn, world, past>>
Fetch == (\E i \in DOMAIN tasks : TaskFetches(i))
         /\ UNCHANGED <<AroundCar, device, scan, carlink, detected, library>> /\ Free
Push  == ~held /\ (\E i \in DOMAIN tasks : TaskPushes(i))
         /\ UNCHANGED <<AroundCar, device, scan, carlink, detected, library>> /\ Free
Page  == PageLoads /\ UNCHANGED <<AroundCar, device, scan, carlink, detected, library>> /\ Free

\* The device thread: it connects, forgets what was applied, notices a device that went.
Connect ==
  /\ ~held /\ (Connects \/ Forgets \/ (~otaFlag /\ Notices))
  /\ UNCHANGED <<AroundCar, device, tasks, carName, astray, scan, detected, library, closures, profile>> /\ Free
Status ==
  /\ ~held /\ ~otaFlag /\ link = "up" /\ there /\ ~Feeding /\ detected # "" /\ StatusHeard
  /\ UNCHANGED <<AroundCar, device, apply, scan, carlink, library, closures, profile>> /\ Free

\* The cable; a DDU that starts again may not have kept its car.
Unplug ==
  /\ there /\ Spend("plug") /\ there' = FALSE /\ telem' = Nil /\ row' = Nil
  /\ UNCHANGED <<AroundCar, apply, link, scan, detected, library, closures, profile>>
Replug ==
  /\ ~there /\ link = "down" /\ there' = TRUE /\ profile' \in {profile, Generic}
  /\ UNCHANGED <<AroundCar, device, apply, link, scan, detected, library, closures>> /\ Free

OtaRuns ==
  /\ \/ OtaBegins /\ Spend("ota")
     \/ (OtaHolds \/ OtaEnds) /\ Free
  /\ UNCHANGED <<merge, sends, relatives, carvars, conn, world, device, past>>

-----------------------------------------------------------------------------
(* Games                                                                   *)

ScanGames ==
  /\ GameSeen(process, Feeding)
  /\ UNCHANGED <<AroundCar, device, carlink, library, closures, profile>> /\ Free
Browse ==
  /\ Spend("browse") /\ (\E g \in Games : Browses(g))
  /\ UNCHANGED <<AroundCar, device, apply, gameIdx, scanned, carlink, detected, library, closures, profile>>
Load ==
  /\ LibraryLoads
  /\ UNCHANGED <<AroundCar, device, apply, scan, carlink, detected, closures, profile>> /\ Free
Choose ==
  /\ Spend("choose") /\ (\E e \in Range(Entries(game)) : UserApplies(e))
  /\ UNCHANGED <<AroundCar, device, scan, carlink, detected, library, closures, profile>>

World == <<merge, sends, ota, relatives, carvars, device>>

\* The race goes on; a session that starts unseen leaves no lap count to rely on.
Advance ==
  /\ at < Len(cast.script) /\ at' = at + 1 /\ seen' = FALSE
  /\ LET new == cast.script[at + 1].session # race.session
     IN  laps' = [times |-> IF new THEN {} ELSE laps.times, sure |-> laps.sure /\ seen]
  /\ grid' \in cast.grids
  /\ UNCHANGED <<World, conn, cast, car, on, tag, process, sent, origin>> /\ Free
Turn ==
  /\ Spend("turn") /\ (\E x \in Range(cast.two) : on' = IF x \in on THEN on \ {x} ELSE on \cup {x})
  /\ UNCHANGED <<World, conn, cast, at, grid, car, tag, process, past>>
OtherCar ==
  /\ Spend("car") /\ car' = 3 - car
  /\ UNCHANGED <<World, conn, cast, at, grid, on, tag, process, past>>
GameChanges ==
  /\ Spend("game") /\ (\E g \in Games \cup {None} : g # process /\ process' = g)
  /\ IF Kind \in {"none", "gt7"} THEN UNCHANGED peer ELSE peer' = Down
  /\ UNCHANGED <<World, enabled, con, wire, cast, at, grid, car, on, tag, past>>

-----------------------------------------------------------------------------
(* The connector                                                           *)

Wanted == enabled /\ (Kind = "gt7" \/ gameIdx = GameOf[Kind])
Still  == <<merge, sends, ota, relatives, world, device, past>>

Asked == Kind # "none" /\ (Opens(Kind, Wanted) \/ Closes(Kind, Wanted) \/ HushFalls \/ AsksAgain(Kind))
         /\ UNCHANGED <<Still, carvars>> /\ Free

\* AC says what is driven when it answers.
Answers ==
  /\ Kind # "none" /\ Answered
  /\ IF Kind = "ac" THEN CarHeard(Called("ac")) ELSE UNCHANGED <<detected, apply>>
  /\ UNCHANGED <<Still, Rest>> /\ Free

Streams ==
  /\ Kind # "none" /\ Data(Kind) /\ Receives(Kind, LineOf(Kind, race)) /\ Free

PeerHears == Kind # "none" /\ Hears(Kind) /\ UNCHANGED <<Still, carvars>> /\ Free
PeerActs  ==
  /\ Kind # "none"
  /\ \/ Loses /\ Spend("lose")
     \/ PeerStarts /\ Free /\ (Kind = "gt7" \/ process = GameOf[Kind])
     \/ (PeerStops \/ PeerDrops) /\ Spend("peer")
     \/ Switches /\ Spend("switch")
  /\ UNCHANGED <<Still, carvars>>

-----------------------------------------------------------------------------
Everyone == DOMAIN Senders
Next ==
  \/ \E x \in Everyone : Frame(x) \/ BadFrame(x) \/ Tags(x) \/ List(x) \/ Names(x)
  \/ \E t \in Threads : Hands(t) \/ \E c \in Consumers : Tick(t, c)
  \/ \E l \in Sources : Silent(l)
  \/ TagFades \/ Writes \/ Sends \/ Fetch \/ Push \/ Page \/ Connect \/ Status \/ Unplug \/ Replug \/ OtaRuns
  \/ ScanGames \/ Browse \/ Load \/ Choose \/ Advance \/ Turn \/ OtherCar \/ GameChanges
  \/ Asked \/ Answers \/ Streams \/ PeerHears \/ PeerActs

Spec == Init /\ [][Next]_vars

\* Threads run, closures and tasks finish, senders and games keep at it; only
\* the user and the world's mishaps may never come.  A step that disables
\* itself is weakly fair iff what it waits for does not hold for ever.
Now(n)      == ThreadOf(cast.two[n])
FrameDue(n) == Feeds(cast.two[n]) /\ ~otaFlag /\ Idle(Now(n)) /\ due[Now(n)] # {}
Waits(n)    == "device" \in cast.clock \ due[Now(n)]
SomeoneNames     == \E x \in Everyone : Names(x)
Chores      ==
  \/ Fetch \/ Push \/ Page \/ Connect \/ ScanGames
  \/ \E l \in Sources : Silent(l)
  \/ \E x \in Everyone : Tags(x)

FairSpec ==
  /\ Spec
  /\ \A n \in 1 .. 2 : []<>~FrameDue(n) /\ []<>Idle(Now(n)) /\ []<>~Waits(n)
  /\ []<>(out = Empties \/ writer = "took") /\ []<>(writer = "wait" \/ held)
  /\ WF_vars(SomeoneNames) /\ WF_vars(Chores)
  /\ WF_vars(Asked) /\ WF_vars(Answers) /\ WF_vars(PeerHears)

-----------------------------------------------------------------------------
(* Properties                                                              *)

\* Every label is one sender's, and every sender has one label.
Attributed ==
  /\ \A l \in Sources : Cardinality(origin[l]) <= 1
  /\ \A l, m \in Sources : l # m => origin[l] \cap origin[m] = {}

\* What the best of some senders say of a field.
Says(said, rank, f) ==
  LET fill == {x \in DOMAIN said : said[x][f] # 0}
  IN  {said[x][f] : x \in {y \in fill : \A z \in fill : rank[z] <= rank[y]}}

Streaming == {x \in Everyone : sent[x] # Nil}
LastSent  == [x \in Streaming |-> sent[x].frame]
SentRank  == [x \in Streaming |-> Priority[sent[x].label]]
Gave(f)   == \E x \in Streaming : f \in sent[x].gave
Numbers   == DOMAIN Blank \ {"gear"}

\* A value that nobody sends is computed, restored (fuel per lap, from a
\* sender that says 0 for a moment), or 0.
IsTheirs(f, v) ==
  LET theirs == Says(LastSent, SentRank, f)
  IN  IF theirs # {} THEN v \in theirs \/ f = "vpl"
      ELSE \/ v = 0 \/ f \in {"fuelLaps", "vpl"}
           \/ f \in Computed /\ ~Gave(f)
           \/ f = "fpl" /\ v = derived.fuel.per

\* "The winner is stable": a frame is built from the senders that stream, each
\* field from the most authoritative of those that fill it, whatever order
\* they arrive in, and nothing of a sender that fell silent is left; a field
\* is computed only when no sender gives it (push_sim_frame, Provided).
Authoritative ==
  [][\A t \in Threads : Idle(t) /\ ~Idle(t)' /\ Attributed' => (\A f \in Numbers : IsTheirs(f, line[f]))']_vars

\* With one sender that counts its laps and gives no best lap, the best lap
\* shown is the fastest lap of this session, and of no other (Derived::update).
BestOfSession == laps.sure /\ seen => line.best = Fastest(laps.times)

\* "Player included via gap 0": the row the DDU marks is the player's, unless
\* the line is full of cars level with it (relatives.rs, select).
Level(rows) == {i \in DOMAIN rows : rows[i].gap = 0}
PlayerShown == row # Nil /\ Cardinality(Level(row.rows)) < MaxRel - Top => row.rows[row.player].player

\* Senders that stay, and a game that is up and asked for.
Steady ==
  /\ link = "up" /\ there /\ ~otaFlag /\ Attributed /\ "device" \in cast.clock
  /\ on # {} \/ (Kind # "none" /\ peer.up /\ Wanted)
Staying   == {x \in Everyone : x \in on \/ x = Kind}
InRace    == [x \in Staying |-> ParseLine(LineOf(x, race))]
RaceRank  == [x \in Staying |-> Priority[LabelOf(x)]]
Carried   == Numbers \ (Computed \cup {"fuelLaps", "vpl"})
Shows(f)  == LET V == Says(InRace, RaceRank, f) IN IF V = {} THEN telem[f] = 0 ELSE telem[f] \in V
ShowsRace == telem # Nil /\ \A f \in Carried : Shows(f)

\* Once the DDU is connected and senders stay, it ends up showing the race as
\* it stands: no frame is stuck in the outbox or behind the rate limit, no
\* silent source's value stays, a game that stops answering is asked again
\* (push_sim_frame, device_writer_loop, the connectors).
DeviceFollows == <>[]Steady => <>[]ShowsRace

\* One sender that repeats the car's name, for the game the page shows.
Sole      == CHOOSE x \in on : TRUE
Repeated  == cast.named /\ Cardinality(on) = 1 /\ How(Sole) \in {"text", "decoder", "memory"}
Settled   == link = "up" /\ there /\ ~otaFlag /\ ~astray /\ Repeated /\ game = gameIdx
Fits ==
  LET m == Called(Sole)
      l == Senders[Sole].label
      b == IF m = "" THEN None ELSE Best(game, m)
  IN  CASE b # None -> b
        [] b = None /\ How(Sole) = "decoder" /\ Builtin[l] # None -> Builtin[l]
        [] OTHER -> Generic
HasProfile == profile = Fits /\ carName = IF Fits = Generic THEN "" ELSE Fits

\* "The real profile still lands once the library loads": the DDU ends up with
\* the profile of the car that is driven, or generic lights, and the page
\* names it, across reconnects, changes of car and game, and updates.  Not
\* promised is what `astray` marks: a profile applied while another one is on
\* its way, as the older task may end last and nothing puts that right; one the
\* device refused or the library cannot give; and a choice of the user's.
ProfileLands == <>[]Settled => <>[](Cardinality(on) = 1 /\ HasProfile)
=============================================================================
