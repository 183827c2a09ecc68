----------------------------- MODULE GPUCustody -----------------------------
(***************************************************************************)
(* What the handover promises, without drivers, modules or hooks: the card *)
(* and its audio function belong to the host, to a guest, or are on their  *)
(* way between the two.  The host gives them up only while no application  *)
(* of its own uses them, unless there is an excuse, a guest gets all of    *)
(* them, and it loses them only by stopping.                               *)
(***************************************************************************)
VARIABLES
  owner,       \* "host", "between" or "guest"
  inUse,       \* an application of the host uses the card
  excused      \* the administrator repairs, or a failure is to be answered for

vars == <<owner, inUse, excused>>

Init == owner = "host" /\ inUse = FALSE /\ excused = FALSE

Take ==
  /\ owner = "host" /\ (inUse => excused \/ excused')
  /\ owner' = "between" /\ UNCHANGED inUse
Return == owner = "between" /\ owner' = "host" /\ UNCHANGED inUse

Give == owner = "between" /\ owner' = "guest" /\ UNCHANGED <<inUse, excused>>
Stop == owner = "guest" /\ owner' = "between" /\ UNCHANGED <<inUse, excused>>

(* Applications come and go; none starts to use a card the guest has. *)
Use    == ~inUse /\ owner # "guest" /\ inUse' = TRUE /\ UNCHANGED <<owner, excused>>
Leave  == inUse /\ inUse' = FALSE /\ UNCHANGED <<owner, excused>>
Excuse == owner # "guest" /\ excused' = ~excused /\ UNCHANGED <<owner, inUse>>

(* A reboot gives all back. *)
AllBack == owner' = "host" /\ inUse' = FALSE /\ excused' = FALSE

Next ==
  \/ (Take \/ Return) /\ excused' \in BOOLEAN
  \/ Give \/ Stop \/ Use \/ Leave \/ Excuse \/ AllBack

Spec == Init /\ [][Next]_vars
=============================================================================
