----------------------------- MODULE Connectors -----------------------------
(***************************************************************************)
(* Games that have to be asked (dashboard/src/loops.rs): ACC's register,   *)
(* AC's handshake and subscription, GT7's heartbeat, each over UDP, which  *)
(* may lose a datagram.  The game's side is external.  `hush` stands for   *)
(* the seconds of silence after which a connector asks again.              *)
(***************************************************************************)
EXTENDS Integers

CONSTANTS Ration      \* packets GT7 sends for one heartbeat

Kinds == {"acc", "ac", "gt7"}

VARIABLES
  enabled,      \* the user has switched the connector on
  con,          \* the thread: [on, id, hush, packets]
  peer,         \* the game: [up, streams, left]
  wire          \* the datagram on its way: [to, from]

conn == <<enabled, con, peer, wire>>

Resting == [on |-> FALSE, id |-> FALSE, hush |-> FALSE, packets |-> 0]
InitConnector(up) ==
  /\ enabled = TRUE /\ con = Resting
  /\ peer = [up |-> up, streams |-> FALSE, left |-> 0]
  /\ wire = [to |-> "none", from |-> "none"]

-----------------------------------------------------------------------------
(* The thread                                                              *)

Asks(kind) == IF kind = "gt7" THEN "beat" ELSE "ask"
Bye(kind)  == CASE kind = "acc" -> IF con.id THEN "bye" ELSE "none"
                [] kind = "ac" -> "bye" [] OTHER -> "none"

Opens(kind, wanted) ==
  /\ ~con.on /\ wanted
  /\ con' = [Resting EXCEPT !.on = TRUE] /\ wire' = [to |-> Asks(kind), from |-> "none"]
  /\ UNCHANGED <<enabled, peer>>

Closes(kind, wanted) ==
  /\ con.on /\ ~wanted
  /\ con' = Resting /\ wire' = [to |-> Bye(kind), from |-> "none"]
  /\ UNCHANGED <<enabled, peer>>

\* The reply; AC subscribes, ACC asks for the cars and the track.
Answered ==
  /\ con.on /\ wire.from = "answer"
  /\ con' = [con EXCEPT !.id = TRUE, !.hush = FALSE]
  /\ wire' = [to |-> "confirm", from |-> "none"]
  /\ UNCHANGED <<enabled, peer>>

\* A packet of telemetry; GT7 is fed again every so many of them.
Data(kind) ==
  LET n == con.packets + 1
      feeds == kind = "gt7" /\ n = Ration
  IN  /\ con.on /\ peer.streams
      /\ con' = [con EXCEPT !.hush = FALSE, !.packets = IF kind # "gt7" \/ feeds THEN 0 ELSE n]
      /\ wire' = IF feeds THEN [wire EXCEPT !.to = "beat"] ELSE wire
      /\ peer' = IF kind # "gt7" THEN peer
                 ELSE [peer EXCEPT !.left = @ - 1, !.streams = peer.left > 1]
      /\ UNCHANGED enabled

HushFalls == con.on /\ ~con.hush /\ ~peer.streams /\ wire.from = "none"
             /\ con' = [con EXCEPT !.hush = TRUE] /\ UNCHANGED <<enabled, peer, wire>>

\* A connector that trusts the answer it had.
AsksOnce(kind) ==
  /\ con.on /\ wire.to = "none"
  /\ ~con.id /\ (con.hush \/ kind # "gt7")
  /\ wire' = [wire EXCEPT !.to = Asks(kind)]
  /\ UNCHANGED <<enabled, con, peer>>

AsksAgain(kind) ==
  /\ con.on /\ wire.to = "none"
  /\ con.hush \/ (kind # "gt7" /\ ~con.id)
  /\ con' = [con EXCEPT !.id = FALSE] /\ wire' = [wire EXCEPT !.to = Asks(kind)]
  /\ UNCHANGED <<enabled, peer>>

Switches == enabled' = ~enabled /\ UNCHANGED <<con, peer, wire>>

-----------------------------------------------------------------------------
(* The game                                                                *)

Hears(kind) ==
  /\ wire.to # "none"
  /\ wire' = [to |-> "none", from |-> IF peer.up /\ wire.to = "ask" THEN "answer" ELSE wire.from]
  /\ peer' = IF ~peer.up THEN peer
             ELSE CASE wire.to = "beat" -> [peer EXCEPT !.streams = TRUE, !.left = Ration]
                    [] wire.to = "bye" -> [peer EXCEPT !.streams = FALSE]
                    [] wire.to = "ask" -> [peer EXCEPT !.streams = @ \/ kind = "acc"]
                    [] wire.to = "confirm" -> [peer EXCEPT !.streams = TRUE]
  /\ UNCHANGED <<enabled, con>>

Loses == \/ wire.to # "none" /\ wire' = [wire EXCEPT !.to = "none"] /\ UNCHANGED <<enabled, con, peer>>
         \/ wire.from # "none" /\ wire' = [wire EXCEPT !.from = "none"] /\ UNCHANGED <<enabled, con, peer>>

\* The game ends, or drops its listeners.
PeerStarts == ~peer.up /\ peer' = [peer EXCEPT !.up = TRUE] /\ UNCHANGED <<enabled, con, wire>>
Down == [up |-> FALSE, streams |-> FALSE, left |-> 0]
PeerStops  == peer.up /\ peer' = Down /\ UNCHANGED <<enabled, con, wire>>
PeerDrops  == peer.streams /\ peer' = [peer EXCEPT !.streams = FALSE, !.left = 0] /\ UNCHANGED <<enabled, con, wire>>
=============================================================================
