--------------------------- MODULE MCFrameBuffer ---------------------------
(* Two VMs, the second with a larger screen. *)
EXTENDS FrameBuffer

Names == {"win", "work"}
TwoSizes == [v \in Names |-> IF v = "win" THEN 1 ELSE 2]
=============================================================================
