----------------------------- MODULE BootConfig -----------------------------
(***************************************************************************)
(* The kernel arguments in the boot configuration (src/internal/bls and    *)
(* the kernel-args step of src/internal/hostcfg).  The arguments live in   *)
(* three kinds of file: the entries the host boots from, the file a new    *)
(* entry is copied from, and the file both are regenerated from.  apply    *)
(* adds what each file lacks and journals it per file; undo takes exactly  *)
(* that back; kernels come and go, and grub2-mkconfig runs, in between.    *)
(*                                                                         *)
(* A file is the set of those of our arguments that it carries.            *)
(***************************************************************************)
EXTENDS Naturals, FiniteSets

CONSTANTS
  Args,            \* the arguments apply wants
  Entries,         \* names of boot entries, one per kernel
  Cmdline, Grub    \* /etc/kernel/cmdline, /etc/default/grub

Targets == Entries \cup {Cmdline, Grub}

ASSUME BootConfigAssumption ==
  Cmdline \notin Entries /\ Grub \notin Entries /\ Cmdline # Grub

VARIABLES
  exists,   \* the files the host has
  carries,  \* the arguments in each
  odd,      \* the files orthogonals cannot parse: no options line, $kernelopts, shell
  live,     \* the arguments the kernel was booted with
  record,   \* the journaled step: there or not, the files it names, what each lacked
  plan,     \* what apply read before its first step
  pc, todo, \* the process, and the files it has still to write
  \* history
  had,      \* the arguments each file carries of its own
  liveHad,  \* the same of what was booted
  traces,   \* of ours on the host: "none", "ours", or "torn" by a failed write
  intact    \* apply succeeded, and nobody has meddled with an argument since

host    == <<exists, carries, odd, live>>
process == <<pc, todo>>
history == <<had, liveHad, traces, intact>>
vars    == <<host, record, plan, process, history>>

Lists == [named : SUBSET Targets, lacks : [Targets -> SUBSET Args]]
NoList == [named |-> {}, lacks |-> [t \in Targets |-> {}]]
Records == [there : BOOLEAN, named : SUBSET Targets, lacks : [Targets -> SUBSET Args]]
Journal(there, list) == [there |-> there, named |-> list.named, lacks |-> list.lacks]

TypeOK ==
  /\ exists \subseteq Targets /\ odd \subseteq exists
  /\ carries \in [Targets -> SUBSET Args] /\ live \subseteq Args
  /\ record \in Records /\ plan \in Lists
  /\ pc \in {"idle", "planned", "adding", "removing"} /\ todo \subseteq exists
  /\ had \in [Targets -> SUBSET Args] /\ liveHad \subseteq Args
  /\ traces \in {"none", "ours", "torn"} /\ intact \in BOOLEAN

Init ==
  /\ \E e \in Entries, others \in SUBSET {Cmdline, Grub} : exists = {e} \cup others
  /\ carries \in [Targets -> SUBSET Args] /\ \A t \in Targets \ exists : carries[t] = {}
  /\ odd = {} /\ live = {} /\ record = Journal(FALSE, NoList) /\ plan = NoList
  /\ pc = "idle" /\ todo = {}
  /\ had = carries /\ liveHad = {} /\ traces = "none" /\ intact = FALSE

-----------------------------------------------------------------------------
(* Reading the files                                                         *)

\* Mutants: a cmdline file is made where there is none; grub is left out.
WithCmdline == exists \cup {Cmdline}
WithoutGrub == exists \ {Grub}

(* The managed files are those the host has. *)
BootTargets == exists

(* One file that does not parse refuses the operation, before any write. *)
Understood == odd = {}

Absent(t) == Args \ carries[t]

\* Mutants: one union for all the files; the entries are not looked at.
WantedUnion ==
  [named |-> BootTargets,
   lacks |-> [t \in Targets |-> IF t \in BootTargets THEN UNION {Absent(u) : u \in BootTargets}
                                ELSE {}]]
WantedDerived ==
  [named |-> BootTargets,
   lacks |-> [t \in Targets |-> IF t \in BootTargets \ Entries THEN Absent(t) ELSE {}]]

(* What each file lacks, every file named. *)
Wanted ==
  [named |-> BootTargets,
   lacks |-> [t \in Targets |-> IF t \in BootTargets THEN Absent(t) ELSE {}]]

Missing(list) == \E t \in list.named : list.lacks[t] # {}

\* Mutant: an entry the record does not name keeps everything.
DropNamed(t) == IF t \in record.named THEN record.lacks[t] ELSE {}

(* An entry the record does not name was copied from the cmdline file. *)
DropFrom(t) ==
  IF t \in record.named THEN record.lacks[t]
  ELSE IF t \in Entries THEN record.lacks[Cmdline] ELSE {}

(* What preflight says of the arguments; a record without arguments or a   *)
(* file that cannot be read are left out.                                  *)
KernelArgsState ==
  IF ~record.there THEN "never-applied"
  ELSE IF Understood /\ Missing(Wanted) THEN "missing-from-boot-config"
  ELSE IF Args \subseteq live THEN "live" ELSE "pending-reboot"

-----------------------------------------------------------------------------
(* apply                                                                     *)

Journaled == record.there /\ Missing(record)

(* The list is made before the first step of apply runs. *)
PlanApply ==
  /\ pc = "idle" /\ Understood
  /\ plan' = Wanted /\ pc' = "planned"
  /\ had' = IF Journaled THEN had ELSE carries
  /\ UNCHANGED <<host, record, todo, liveHad, traces, intact>>

(* A step in the journal runs again only if an argument was missing. *)
AlreadyApplied ==
  /\ pc = "planned" /\ record.there /\ ~Missing(plan)
  /\ pc' = "idle" /\ intact' = TRUE
  /\ UNCHANGED <<host, record, plan, todo, had, liveHad, traces>>

(* A re-run keeps the journaled undo, if there is one. *)
JournalArgs ==
  /\ pc = "planned" /\ (record.there => Missing(plan))
  /\ record' = IF Journaled THEN record ELSE Journal(TRUE, plan)
  /\ pc' = "adding" /\ todo' = BootTargets
  /\ traces' = IF traces = "none" /\ Missing(plan) THEN "ours" ELSE traces
  /\ UNCHANGED <<host, plan, had, liveHad, intact>>

(* The entries are written first and grub last, each in one rename. *)
NextFile(t) ==
  /\ t \in todo
  /\ t \in {Cmdline, Grub} => todo \cap Entries = {}
  /\ t = Grub => todo = {Grub}

AddArgs(t) ==
  /\ pc = "adding" /\ NextFile(t)
  /\ carries' = [carries EXCEPT ![t] = @ \cup Absent(t)] /\ todo' = todo \ {t}
  /\ UNCHANGED <<exists, odd, live, record, plan, pc, history>>

FinishApply ==
  /\ pc = "adding" /\ todo = {}
  /\ pc' = "idle" /\ intact' = TRUE
  /\ UNCHANGED <<host, record, plan, todo, had, liveHad, traces>>

(* A write that fails drops the record, and what was added before stays. *)
AddFails ==
  /\ pc = "adding" /\ todo # {}
  /\ record' = Journal(FALSE, NoList) /\ pc' = "idle" /\ todo' = {}
  /\ traces' = IF traces = "none" THEN "none" ELSE "torn"
  /\ UNCHANGED <<host, plan, had, liveHad, intact>>

-----------------------------------------------------------------------------
(* undo                                                                      *)

(* A step that added nothing has no undo. *)
StartUndo ==
  /\ pc = "idle" /\ record.there /\ (Journaled => Understood)
  /\ pc' = "removing" /\ todo' = IF Journaled THEN BootTargets ELSE {}
  /\ intact' = FALSE
  /\ UNCHANGED <<host, record, plan, had, liveHad, traces>>

RemoveArgs(t) ==
  /\ pc = "removing" /\ NextFile(t)
  /\ carries' = [carries EXCEPT ![t] = @ \ DropFrom(t)] /\ todo' = todo \ {t}
  /\ UNCHANGED <<exists, odd, live, record, plan, pc, history>>

FinishUndo ==
  /\ pc = "removing" /\ todo = {}
  /\ record' = Journal(FALSE, NoList) /\ pc' = "idle" /\ traces' = "none"
  /\ UNCHANGED <<host, plan, todo, had, liveHad, intact>>

(* A kill, or in undo a write that fails: the record stays. *)
Kill ==
  /\ pc # "idle" /\ pc' = "idle" /\ todo' = {}
  /\ UNCHANGED <<host, record, plan, history>>

-----------------------------------------------------------------------------
(* The host, while no file is being written                                  *)

Quiet == pc \in {"idle", "planned"}

(* kernel-install copies the cmdline file, or without one what the kernel  *)
(* was booted with.  A name that is in the list of undo is the old entry,  *)
(* written anew.                                                           *)
InstallKernel(e) ==
  /\ Quiet /\ e \notin exists
  /\ exists' = exists \cup {e}
  /\ carries' = [carries EXCEPT ![e] = IF Cmdline \in exists THEN carries[Cmdline] ELSE live]
  /\ had' = [had EXCEPT ![e] =
       IF e \in (IF Journaled THEN record ELSE plan).named THEN @
       ELSE IF Cmdline \in exists THEN had[Cmdline] ELSE liveHad]
  /\ UNCHANGED <<odd, live, record, plan, process, liveHad, traces, intact>>

RemoveKernel(e) ==
  /\ Quiet /\ e \in exists /\ exists \cap Entries # {e}
  /\ exists' = exists \ {e} /\ odd' = odd \ {e}
  /\ carries' = [carries EXCEPT ![e] = {}]
  /\ UNCHANGED <<live, record, plan, process, history>>

(* grub2-mkconfig writes the other two kinds anew. *)
Regenerate ==
  /\ Quiet /\ Grub \in exists \ odd
  /\ carries' = [t \in Targets |-> IF t \in exists THEN carries[Grub] ELSE carries[t]]
  /\ odd' = {}
  /\ UNCHANGED <<exists, live, record, plan, process, history>>

(* An administrator takes an argument out, or writes what cannot be parsed. *)
DropByHand(t, a) ==
  /\ pc = "idle" /\ t \in exists /\ a \in carries[t]
  /\ carries' = [carries EXCEPT ![t] = @ \ {a}] /\ intact' = FALSE
  /\ UNCHANGED <<exists, odd, live, record, plan, process, had, liveHad, traces>>

EditByHand(t) ==
  /\ pc = "idle" /\ t \in exists \ {Cmdline}
  /\ odd' = IF t \in odd THEN odd \ {t} ELSE odd \cup {t}
  /\ UNCHANGED <<exists, carries, live, record, plan, process, history>>

Reboot ==
  /\ \E e \in exists \cap Entries : live' = carries[e] /\ liveHad' = had[e]
  /\ pc' = "idle" /\ todo' = {}
  /\ UNCHANGED <<exists, carries, odd, record, plan, had, traces, intact>>

Environment ==
  \/ \E e \in Entries : InstallKernel(e) \/ RemoveKernel(e)
  \/ \E t \in Targets : EditByHand(t) \/ \E a \in Args : DropByHand(t, a)
  \/ Regenerate \/ Reboot

Next ==
  \/ PlanApply \/ AlreadyApplied \/ JournalArgs \/ FinishApply \/ AddFails
  \/ StartUndo \/ FinishUndo \/ Kill
  \/ \E t \in Targets : AddArgs(t) \/ RemoveArgs(t)
  \/ Environment

Spec == Init /\ [][Next]_vars

-----------------------------------------------------------------------------
(* Properties                                                                *)

(* Undo leaves alone what a file carried beforehand, whatever regenerated  *)
(* or copied it since, and however often apply ran (bls.go:104).           *)
OwnArgsStay ==
  \A t \in exists : pc = "removing" => had[t] \cap carries[t] \subseteq carries'[t]
UndoLeavesOwn == [][OwnArgsStay]_vars

(* A finished undo leaves nothing in any file but what it carried of its   *)
(* own, entries made since included, unless a failed write lost the record *)
(* (the window that the comment of write, bls.go:162, leaves open).        *)
TakenBack ==
  FinishUndo /\ traces = "ours" => \A t \in exists : carries[t] \subseteq had[t]
UndoTakesAll == [][(Cmdline \in exists => TakenBack)]_vars

(* Arguments that apply wrote stay through kernel updates and runs of      *)
(* grub2-mkconfig: "an arg written only to the derived two survives until  *)
(* the next regeneration and no longer" (bls.go:5).                        *)
ArgsStay ==
  intact /\ Cmdline \in exists => \A t \in exists : Args \subseteq carries[t]

(* When preflight says that a reboot is all that is missing, a reboot into *)
(* whichever kernel brings the arguments.                                  *)
RebootBrings ==
  KernelArgsState = "pending-reboot" /\ Understood /\ Reboot => Args \subseteq live'
RebootSuffices == [][RebootBrings]_vars
=============================================================================
