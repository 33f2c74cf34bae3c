----------------------------- MODULE MCHandbrake -----------------------------
(***************************************************************************)
(* An instance of HandbrakeHost: the ends of the lever's travel, and a     *)
(* reading at rest that is near enough to the lower end for the idle       *)
(* tracking to follow it.                                                  *)
(***************************************************************************)
EXTENDS HandbrakeHost

Ends    == {0, 48}
AtRest  == {4}
Feels   == {0, 1}
==============================================================================
