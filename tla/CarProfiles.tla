---------------------------- MODULE CarProfiles -----------------------------
(***************************************************************************)
(* Shift-light profiles (dashboard/src/net/cardata.rs and its callers): a  *)
(* detected car is looked up in the library, a task fetches its profile    *)
(* and pushes it to the DDU, a closure brings it to the page.  One key,    *)
(* State.last_auto_model, says what has been applied already.              *)
(*                                                                         *)
(* `astray` is no state of the program: it marks a push that cannot be     *)
(* relied on any more, because tasks overtook each other, a profile was    *)
(* refused or unreadable, or the user chose another one.                   *)
(***************************************************************************)
EXTENDS Integers, Sequences, FiniteSets, SequencesExt

CONSTANTS
  Games,        \* games the library knows
  Library,      \* by game: the library's entries, built-in ones first
  Score,        \* how well a model's name fits an entry's: [model, entry] -> 0 .. 1000
  Builtin,      \* by decoder: the built-in profile of its game, or None
  Unreadable,   \* entries whose profile cannot be fetched or parsed
  Refused,      \* entries whose profile the DDU refuses
  None

VARIABLES
  key,          \* State.last_auto_model: a model, "#generic:" or the id of a built-in profile
  detected,     \* State.detected_model
  game,         \* State.game: the game the library page shows
  gameIdx,      \* State.detected_game_idx
  scanned,      \* what game_loop saw last
  library,      \* State.all_cars has been loaded
  tasks,        \* [want, by, at]: tasks under way, waiting for the body, then for the handle
  closures,     \* profiles on their way to the page
  carName,      \* State.car_name
  profile,      \* the car the DDU's strip uses
  there,        \* the DDU is plugged in and runs
  link,         \* "down", "open": connected, "up": and the key forgotten
  astray

apply  == <<key, tasks, carName, astray>>
scan   == <<game, gameIdx, scanned>>
carlink == <<there, link>>
carvars == <<apply, scan, carlink, detected, library, closures, profile>>

Generic == "generic"     \* "{}": no car loaded, the bar follows the frame's own rpm
NoKey   == <<"", "">>

InitCars ==
  /\ key = NoKey /\ detected = "" /\ tasks = <<>> /\ closures = <<>> /\ carName = "" /\ profile = Generic
  /\ gameIdx = None /\ astray = FALSE

-----------------------------------------------------------------------------
(* The lookup                                                              *)

Entries(g) == IF g = None THEN <<>> ELSE IF library THEN Library[g] ELSE <<>>

\* The best score above zero, the first of equals.
Best(g, model) ==
  LET at(i) == Score[<<model, Entries(g)[i]>>]
      good  == {i \in DOMAIN Entries(g) : at(i) > 0}
  IN  IF good = {} THEN None
      ELSE Entries(g)[CHOOSE i \in good : \A j \in good : at(j) < at(i) \/ (at(j) = at(i) /\ i <= j)]

-----------------------------------------------------------------------------
(* Applying                                                                *)

\* A task is reliable only if no other profile is on its way.
Under == {tasks[i].want : i \in DOMAIN tasks} \cup Range(closures)
Spawn(t) == tasks' = Append(tasks, t) /\ astray' = (Under \ {t.want} # {})

\* spawn_apply_profile.
SpawnApply(k, entry) == key' = k /\ Spawn([want |-> entry, by |-> "game", at |-> "body"]) /\ UNCHANGED carName

\* auto_apply_car_model: a model applied already is left alone.
Model(m) == <<"model", m>>
Matched(m) == m # "" /\ (key = Model(m) \/ Best(game, m) # None)
AutoApply(m) == IF key = Model(m) THEN UNCHANGED apply ELSE SpawnApply(Model(m), Best(game, m))

\* apply_generic_profile.
Sentinel(name) == <<Generic, name>>
ApplyGeneric(name) ==
  IF key = Sentinel(name) THEN UNCHANGED apply
  ELSE key' = Sentinel(name) /\ carName' = "" /\ Spawn([want |-> Generic, by |-> "game", at |-> "handle"])

\* apply_builtin_for_decoder.
ApplyBuiltin(name) ==
  IF key = <<"builtin", name>> THEN UNCHANGED apply
  ELSE SpawnApply(<<"builtin", name>>, Builtin[name])

\* apply_car_model: a shim's or a plugin's @CM, shared memory, AC's handshake, GT7's car code.
CarHeard(m) ==
  IF m = "" THEN UNCHANGED <<detected, apply>>
  ELSE detected' = m /\ IF Matched(m) THEN AutoApply(m) ELSE ApplyGeneric(m)

\* udp_listener_loop: a decoder's car, its game's built-in profile, or generic lights.
DecoderHeard(name, m) ==
  IF Matched(m) THEN AutoApply(m)
  ELSE IF Builtin[name] # None THEN ApplyBuiltin(name) ELSE ApplyGeneric(name)

\* apply_status: the DDU's own idea of the car, which nothing sets over USB.
StatusHeard == detected' = ""

\* sim_loop: the next car of the library.
SimCar(m) == detected' = m /\ IF Matched(m) THEN AutoApply(m) ELSE UNCHANGED apply

\* set_active_car: the user's choice does not touch the key.
UserApplies(entry) ==
  /\ tasks' = Append(tasks, [want |-> entry, by |-> "user", at |-> "body"])
  /\ astray' = TRUE
  /\ UNCHANGED <<key, carName>>

-----------------------------------------------------------------------------
(* The tasks                                                               *)

Without(i) == RemoveAt(tasks, i)

\* The body is read: a profile that cannot be parsed ends the task, and one
\* the user chose still brings its name to the page.
TaskFetches(i) ==
  LET t == tasks[i]
  IN  /\ t.at = "body"
      /\ IF t.want \in Unreadable
         THEN /\ tasks' = Without(i) /\ astray' = TRUE
              /\ closures' = IF t.by = "user" THEN Append(closures, t.want) ELSE closures
         ELSE tasks' = [tasks EXCEPT ![i].at = "handle"] /\ UNCHANGED <<astray, closures>>
      /\ UNCHANGED <<key, carName, profile>>

\* push_car, if connected; the page is told either way.
TaskPushes(i) ==
  LET t == tasks[i]
      reaches == link # "down" /\ there
  IN  /\ t.at = "handle"
      /\ tasks' = Without(i)
      /\ IF reaches /\ t.want \notin Refused THEN profile' = t.want ELSE UNCHANGED profile
      /\ astray' = (astray \/ (reaches /\ t.want \in Refused))
      /\ IF t.want = Generic THEN UNCHANGED closures ELSE closures' = Append(closures, t.want)
      /\ UNCHANGED <<key, carName>>

PageLoads ==
  /\ closures # <<>>
  /\ carName' = Head(closures) /\ closures' = Tail(closures)
  /\ UNCHANGED <<key, tasks, profile, astray>>

-----------------------------------------------------------------------------
(* What forgets the key                                                    *)

\* device_loop: connect, then forget what was applied.
Connects == link = "down" /\ there /\ link' = "open" /\ UNCHANGED <<key, there>>
ForgetsNot == link = "open" /\ link' = "up" /\ UNCHANGED <<key, there>>   \* the key kept over a reconnect
Forgets  == link = "open" /\ link' = "up" /\ key' = NoKey /\ UNCHANGED there
Notices  == link # "down" /\ ~there /\ link' = "down" /\ UNCHANGED <<key, there>>

\* game_loop's closure: a game that is gone is not believed while frames come.
\* It gives the lock back before auto_apply_car_model takes it again with the
\* model read before; the two holds of the lock are one step here.
GameSeen(g, feeding) ==
  /\ scanned # g /\ scanned' = g
  /\ IF g = None /\ feeding THEN UNCHANGED <<game, gameIdx, detected, apply>>
     ELSE /\ gameIdx' = g
          /\ IF g = None THEN detected' = "" /\ key' = NoKey /\ UNCHANGED <<game, tasks, carName, astray>>
             ELSE /\ UNCHANGED detected
                  /\ IF g = game THEN UNCHANGED <<game, apply>>
                     ELSE /\ game' = g
                          /\ IF detected = "" \/ Best(g, detected) = None
                             THEN key' = NoKey /\ UNCHANGED <<tasks, carName, astray>>
                             ELSE SpawnApply(Model(detected), Best(g, detected))

\* The user looks at another game's cars; the library's manifest arrives.
Browses(g)    == game # g /\ game' = g
LibraryLoads  == ~library /\ library' = TRUE
=============================================================================
