-------------------------- MODULE MCGuestInstall --------------------------
(* The installation with the scaled times of its cfg. *)
EXTENDS GuestInstall

AllFaults == FaultKinds
=============================================================================
