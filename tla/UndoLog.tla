------------------------------ MODULE UndoLog ------------------------------
(***************************************************************************)
(* What the journal promises whoever runs orthogonals, without files,      *)
(* units, commands or a process: a set of things may be changed, and the   *)
(* log on disk names every changed thing and forgets none before it is     *)
(* back as it was.  The one way out is a thing given up.                   *)
(***************************************************************************)
CONSTANT Things

VARIABLES
  logged,      \* the things the log can put back
  touched,     \* the things that are not as they were
  forfeited    \* the touched things the log no longer answers for

vars == <<logged, touched, forfeited>>

Init == logged = {} /\ touched = {} /\ forfeited = {}

(* Logging a thing again makes the log answer for it again. *)
Log(t) ==
  /\ logged' = logged \cup {t} /\ forfeited' = forfeited \ {t}
  /\ UNCHANGED touched

(* Nothing changes before the log names it. *)
Touch(t) ==
  /\ t \in logged
  /\ touched' = touched \cup {t}
  /\ UNCHANGED <<logged, forfeited>>

PutBack(t) ==
  /\ touched' = touched \ {t} /\ forfeited' = forfeited \ {t}
  /\ UNCHANGED logged

Forget(t) ==
  /\ t \notin touched \/ t \in forfeited
  /\ logged' = logged \ {t}
  /\ UNCHANGED <<touched, forfeited>>

Forfeit(t) ==
  /\ t \in touched
  /\ logged' = logged \ {t} /\ forfeited' = forfeited \cup {t}
  /\ UNCHANGED touched

Next == \E t \in Things : Log(t) \/ Touch(t) \/ PutBack(t) \/ Forget(t) \/ Forfeit(t)

Spec == Init /\ [][Next]_vars
=============================================================================
