----------------------------- MODULE MCHandover -----------------------------
(* The handover of a card with two functions. *)
EXTENDS Handover

CONSTANTS gpu, audio

MCDevs == <<gpu, audio>>
=============================================================================
