------------------------------ MODULE TrialBoot ------------------------------
(***************************************************************************)
(* What an updatable device promises, as its partition tables put it       *)
(* ("dual OTA app slots, A/B + rollback"): it has a good image at all      *)
(* times.  A new image is staged, then runs on trial, and replaces the     *)
(* good one only when it confirms itself; until then it can be dropped,    *)
(* and the good image is still there.                                      *)
(***************************************************************************)
CONSTANTS
  Builds,   \* the complete images
  NoBuild   \* none of them

VARIABLES
  good,     \* the image to fall back to
  trial,    \* the image that is staged or on trial, or NoBuild
  onTrial   \* the trial image runs

Init ==
  /\ good \in Builds
  /\ trial = NoBuild
  /\ onTrial = FALSE

\* A complete image is selected for the next start.
Stage ==
  /\ ~onTrial
  /\ trial' \in Builds
  /\ UNCHANGED <<good, onTrial>>

\* The staged image starts.
Try ==
  /\ ~onTrial /\ trial # NoBuild
  /\ onTrial' = TRUE
  /\ UNCHANGED <<good, trial>>

Confirm ==
  /\ onTrial
  /\ good' = trial
  /\ trial' = NoBuild
  /\ onTrial' = FALSE

\* The staged or running trial image is given up.
Drop ==
  /\ trial # NoBuild
  /\ trial' = NoBuild
  /\ onTrial' = FALSE
  /\ UNCHANGED good

Next == Stage \/ Try \/ Confirm \/ Drop

Spec == Init /\ [][Next]_<<good, trial, onTrial>>

=============================================================================
