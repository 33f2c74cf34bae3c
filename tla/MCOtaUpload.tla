---------------------------- MODULE MCOtaUpload ----------------------------
(***************************************************************************)
(* Instances of OtaUpload.  Chunk = 2 cells; the images are shorter than a *)
(* chunk (1), a whole number of chunks (4) and neither (3).                *)
(***************************************************************************)
EXTENDS OtaUpload

AllFaults == FaultKinds
NoFaults  == {}
Stalls    == {"stall"}
=============================================================================
