------------------------------ MODULE Journal ------------------------------
(***************************************************************************)
(* The step engine of orthogonals (src/internal/steps): Apply runs a list  *)
(* of steps and journals each one before its mutation lands; Undo replays  *)
(* the journal backwards.  Every action is one durable effect of the code, *)
(* so that the process may end (a kill, a power loss, an error return)     *)
(* between any two of them and the next command starts from what is on     *)
(* disk.                                                                   *)
(*                                                                         *)
(* A step is named by its id, and Files, Units and Cmds are the ids of the *)
(* write_file steps, the enable_unit steps, and the run_cmd and op steps.  *)
(* What a file holds is abstracted to the render that produced it: a       *)
(* member of Versions if orthogonals wrote it, of Foreign if somebody else *)
(* did, Absent if there is no file.                                        *)
(***************************************************************************)
EXTENDS Naturals, Sequences, FiniteSets

CONSTANTS
  Files, Units, Cmds,     \* the steps, by kind
  Dirs, DirOf,            \* the directory each file is in
  NativeDirs,             \* the directories the host came with
  EnableSet,              \* the units whose step enables (the others disable)
  Versions, Foreign,      \* file contents: our renders, everyone else's
  Absent, Torn, NoRec,    \* no file, a half-written backup, no journal record
  InputCmds,              \* commands with an Input, whose hash is journaled
  Rechecked,              \* commands with Recheck or CreatesPath
  NoUndo,                 \* commands with neither UndoCmd nor UndoOp
  Strict,                 \* commands whose undo fails when there is nothing to undo
  Snapshots,              \* commands that rebuild the initramfs from ImageFiles
  ImageFiles,
  Data,                   \* steps that only undo --purge reverses
  Plans,                  \* the step lists Apply is called with
  StepUndo,               \* the steps undo --step is called for
  Editable,               \* the files somebody else edits or deletes
  FlakyUnits              \* the units whose state query may fail

Steps == Files \cup Units \cup Cmds
Contents == Versions \cup Foreign
UnitStates == {"enabled", "disabled", "unknown"}

Nobody == "nobody"            \* cur when no step is in hand
NoEffect == "none"            \* the command has not run, or was undone
Native == "native"            \* the host had the effect before any apply

ASSUME StepsAssumption ==
  /\ Files \cap Units = {} /\ Files \cap Cmds = {} /\ Units \cap Cmds = {}
  /\ EnableSet \subseteq Units /\ FlakyUnits \subseteq Units
  /\ InputCmds \cup Rechecked \cup NoUndo \cup Strict \cup Snapshots \subseteq Cmds
  /\ ImageFiles \cup Editable \subseteq Files
  /\ Data \cup StepUndo \subseteq Steps

ASSUME ContentsAssumption ==
  /\ Versions \cap Foreign = {} /\ Versions # {}
  /\ NoEffect \notin Versions /\ Native \notin Versions
  /\ Absent \notin Contents /\ Torn \notin Contents /\ Absent # Torn
  /\ DirOf \in [Files -> Dirs] /\ NativeDirs \subseteq Dirs

(* Apply refuses a list that names an id twice. *)
ASSUME PlansAssumption ==
  \A p \in Plans : /\ p \in Seq(Steps)
                   /\ \A i, j \in 1..Len(p) : p[i] = p[j] => i = j

(* What is journaled of a write_file, an enable_unit and a run_cmd or op. *)
FileRec == [new : Versions, existed : BOOLEAN, made : BOOLEAN]
UnitRec == [prior : UnitStates]
CmdRec  == [input : Versions, undo : BOOLEAN]

ASSUME NoRecAssumption == NoRec \notin FileRec \cup UnitRec \cup CmdRec

VARIABLES
  \* the host
  file, dirs, temps, unlabelled, unit, effect, image,
  \* /var/lib/orthogonals: the manifest, the order of its records, the backups
  journal, order, backup,
  \* the command that runs, all of it lost when the process ends
  op, pc, plan, at, want, todo, cur, text, force, purge, kept,
  \* history: what the host is without orthogonals, and the commands whose
  \* record was dropped by the rollback of a re-run
  before, unitBefore, lost

host    == <<file, dirs, temps, unlabelled, unit, effect, image>>
state   == <<journal, order, backup>>
process == <<op, pc, plan, at, want, todo, cur, text, force, purge, kept>>
history == <<before, unitBefore, lost>>
vars    == <<host, state, process, history>>

AnyVersion == CHOOSE v \in Versions : TRUE

Journaled(s) == journal[s] # NoRec
JournaledSteps == {s \in Steps : Journaled(s)}

(***************************************************************************)
(* The manifest: put appends a new record and replaces an old one in       *)
(* place; drop deletes.  Both are followed by an atomic save.              *)
(***************************************************************************)
Put(s, r) ==
  /\ journal' = [journal EXCEPT ![s] = r]
  /\ order' = IF Journaled(s) THEN order ELSE Append(order, s)

Position(s) == CHOOSE i \in 1..Len(order) : order[i] = s

Drop(s) ==
  /\ journal' = [journal EXCEPT ![s] = NoRec]
  /\ order' = IF \E i \in 1..Len(order) : order[i] = s
              THEN SubSeq(order, 1, Position(s) - 1)
                     \o SubSeq(order, Position(s) + 1, Len(order))
              ELSE order

Idle == op = "none"

(* The process ends, whatever the reason: only the disk is left. *)
Exit ==
  /\ op' = "none" /\ pc' = "idle" /\ plan' = <<>> /\ at' = 1
  /\ todo' = {} /\ cur' = Nobody /\ text' = Absent
  /\ force' = FALSE /\ purge' = FALSE /\ kept' = FALSE
  /\ want' = AnyVersion

(* The Apply loop moves to its next step. *)
Advance ==
  /\ at' = at + 1 /\ pc' = "next" /\ cur' = Nobody
  /\ UNCHANGED <<op, plan, want, todo, text, force, purge, kept>>

(* The step in hand goes on at another label. *)
Continue(s, label) ==
  /\ cur' = s /\ pc' = label
  /\ UNCHANGED <<op, plan, at, want, todo, force, purge, kept>>

HostOK ==
  /\ file \in [Files -> Contents \cup {Absent, Torn}]
  /\ dirs \subseteq Dirs /\ temps \subseteq Dirs /\ unlabelled \subseteq Files
  /\ unit \in [Units -> UnitStates]
  /\ effect \in [Cmds -> Versions \cup {NoEffect, Native}]
  /\ image \in [ImageFiles -> Contents \cup {Absent, Torn}]

StateOK ==
  /\ journal \in [Steps -> FileRec \cup UnitRec \cup CmdRec \cup {NoRec}]
  /\ \A f \in Files : journal[f] \in FileRec \cup {NoRec}
  /\ \A u \in Units : journal[u] \in UnitRec \cup {NoRec}
  /\ \A c \in Cmds : journal[c] \in CmdRec \cup {NoRec}
  /\ order \in Seq(Steps)
  /\ backup \in [Files -> Contents \cup {Absent, Torn}]

ProcessOK ==
  /\ op \in {"none", "apply", "undo", "undostep"}
  /\ pc \in {"idle", "next", "journal", "temp", "rename", "label", "run", "set",
             "reset", "rollback", "sweep", "forget"}
  /\ plan \in Seq(Steps) /\ at \in Nat \ {0} /\ want \in Versions
  /\ todo \subseteq Steps /\ cur \in Steps \cup {Nobody}
  /\ text \in Contents \cup {Absent, Torn}
  /\ force \in BOOLEAN /\ purge \in BOOLEAN /\ kept \in BOOLEAN

HistoryOK ==
  /\ before \in [Files -> Contents \cup {Absent}]
  /\ unitBefore \in [Units -> UnitStates]
  /\ lost \subseteq Cmds \ NoUndo

(* Undo only has records in hand that are still in the manifest. *)
TodoOK == todo \subseteq JournaledSteps

TypeOK == HostOK /\ StateOK /\ ProcessOK /\ HistoryOK /\ TodoOK

(* A host orthogonals never touched: a file may already hold what we would *)
(* write, and the kernel arguments may already be there.                   *)
Init ==
  /\ file \in [Files -> Contents \cup {Absent}]
  /\ \A f \in Files : DirOf[f] \notin NativeDirs => file[f] = Absent
  /\ dirs = NativeDirs /\ temps = {} /\ unlabelled = {}
  /\ unit \in [Units -> UnitStates]
  /\ effect \in [Cmds -> {NoEffect, Native}]
  /\ \A c \in Cmds \ Rechecked : effect[c] = NoEffect
  /\ image = [f \in ImageFiles |-> file[f]]
  /\ journal = [s \in Steps |-> NoRec] /\ order = <<>>
  /\ backup = [f \in Files |-> Absent]
  /\ op = "none" /\ pc = "idle" /\ plan = <<>> /\ at = 1 /\ want = AnyVersion
  /\ todo = {} /\ cur = Nobody /\ text = Absent
  /\ force = FALSE /\ purge = FALSE /\ kept = FALSE
  /\ before = file /\ unitBefore = unit /\ lost = {}

-----------------------------------------------------------------------------
(* Apply                                                                     *)

StartApply(p, v) ==
  /\ Idle /\ p # <<>>
  /\ op' = "apply" /\ pc' = "next" /\ plan' = p /\ at' = 1 /\ want' = v
  /\ UNCHANGED <<host, state, todo, cur, text, force, purge, kept, history>>

(* The Apply loop is about to take step s. *)
Taking(s) == op = "apply" /\ pc = "next" /\ at <= Len(plan) /\ plan[at] = s

FinishApply ==
  /\ op = "apply" /\ pc = "next" /\ at > Len(plan)
  /\ Exit /\ UNCHANGED <<host, state, history>>

\* Mutant: trusts the record without looking at the file.
UnchangedByRecord(f) == Journaled(f) /\ journal[f].new = want

Unchanged(f) == Journaled(f) /\ journal[f].new = want /\ file[f] = want

(* The file is as the record says, and as this render wants it. *)
FileUnchanged(f) ==
  /\ Taking(f) /\ Unchanged(f)
  /\ Advance /\ UNCHANGED <<host, state, history>>

(* First apply over an existing file: its bytes go to the backup directory *)
(* before the record that names the backup.                                *)
BackUpFile(f) ==
  /\ Taking(f) /\ ~Journaled(f) /\ file[f] # Absent
  /\ backup' = [backup EXCEPT ![f] = file[f]]
  /\ Continue(f, "journal")
  /\ UNCHANGED <<host, journal, order, text, history>>

(* WriteSync is not atomic: a kill in the middle leaves a torn backup. *)
TearBackup(f) ==
  /\ Taking(f) /\ ~Journaled(f) /\ file[f] # Absent
  /\ backup' = [backup EXCEPT ![f] = Torn]
  /\ Exit /\ UNCHANGED <<host, journal, order, history>>

\* Mutants: the record is put in memory and never saved; a second apply takes
\* the file it finds, its own, for the original.
UnsavedRecord(f) ==
  /\ Taking(f) \/ (op = "apply" /\ pc = "journal" /\ cur = f)
  /\ text' = want /\ Continue(f, "temp")
  /\ UNCHANGED <<host, state, history>>
FreshRecord(f) ==
  /\ Taking(f) \/ (op = "apply" /\ pc = "journal" /\ cur = f)
  /\ Put(f, [new |-> want, existed |-> file[f] # Absent, made |-> DirOf[f] \notin dirs])
  /\ text' = want /\ Continue(f, "temp")
  /\ UNCHANGED <<host, backup, history>>

(* The directory of f is one that WriteAtomic will have to make. *)
MissingDir(f) == DirOf[f] \notin dirs

(* The record of a write_file: a first record says whether the file and    *)
(* its directory were there, a later one only takes the new hash.          *)
JournalFile(f) ==
  /\ \/ /\ Taking(f) /\ ~Journaled(f) /\ file[f] = Absent
        /\ Put(f, [new |-> want, existed |-> FALSE, made |-> MissingDir(f)])
     \/ /\ op = "apply" /\ pc = "journal" /\ cur = f
        /\ Put(f, [new |-> want, existed |-> TRUE, made |-> FALSE])
     \/ /\ Taking(f) /\ Journaled(f) /\ ~Unchanged(f)
        /\ Put(f, [journal[f] EXCEPT !.new = want])
  /\ text' = want /\ Continue(f, "temp")
  /\ UNCHANGED <<host, backup, history>>

(* WriteAtomic: parents made, older litter swept, a temp of its own beside *)
(* the target ...                                                          *)
MakeTemp(f) ==
  /\ pc = "temp" /\ cur = f
  /\ dirs' = dirs \cup {DirOf[f]} /\ temps' = temps \cup {DirOf[f]}
  /\ Continue(f, "rename")
  /\ UNCHANGED <<file, unlabelled, unit, effect, image, state, text, history>>

(* ... renamed over the target, whose label it carries.  A file that was   *)
(* not there has no label to carry.                                        *)
RenameTemp(f) ==
  /\ pc = "rename" /\ cur = f
  /\ file' = [file EXCEPT ![f] = text]
  /\ temps' = temps \ {DirOf[f]}
  /\ unlabelled' = IF file[f] = Absent THEN unlabelled \cup {f} ELSE unlabelled
  /\ Continue(f, "label")
  /\ UNCHANGED <<dirs, unit, effect, image, state, text, history>>

Relabel(f) ==
  /\ pc = "label" /\ cur = f
  /\ unlabelled' = unlabelled \ {f}
  /\ IF op = "apply" THEN Advance ELSE Continue(f, "forget") /\ UNCHANGED text
  /\ UNCHANGED <<file, dirs, temps, unit, effect, image, state, history>>

\* Mutant: the host is not looked at.
RerunsOnInput(c) == c \in InputCmds /\ journal[c].input # want

(* Does a journaled command run again?  Recheck and CreatesPath look at    *)
(* the host, Input at the hash in the record, and no other command does.   *)
Reruns(c) ==
  \/ c \in InputCmds /\ journal[c].input # want
  \/ c \in Rechecked /\ effect[c] = NoEffect

CmdAlreadyApplied(c) ==
  /\ Taking(c) /\ Journaled(c) /\ ~Reruns(c)
  /\ Advance /\ UNCHANGED <<host, state, history>>

(* What undo will be asked to do: the kernel-arguments op removes only the *)
(* arguments it found missing, and a re-run keeps the first run's answer.  *)
UndoOf(c) ==
  \/ c \notin NoUndo \cup Rechecked
  \/ c \in Rechecked \ NoUndo /\ (effect[c] = NoEffect \/ (Journaled(c) /\ journal[c].undo))

JournalCmd(c) ==
  /\ Taking(c)
  /\ Journaled(c) => Reruns(c)
  /\ Put(c, [input |-> want, undo |-> UndoOf(c)])
  /\ lost' = IF UndoOf(c) THEN lost \ {c} ELSE lost
  /\ Continue(c, "run")
  /\ UNCHANGED <<host, backup, text, before, unitBefore>>

Regenerated(c) == IF c \in Snapshots THEN [f \in ImageFiles |-> file[f]] ELSE image

RunCmd(c) ==
  /\ pc = "run" /\ cur = c
  /\ effect' = [effect EXCEPT ![c] = IF @ = Native THEN Native ELSE want]
  /\ image' = Regenerated(c)
  /\ Advance
  /\ UNCHANGED <<file, dirs, temps, unlabelled, unit, state, history>>

RunCmdFails(c) ==
  /\ pc = "run" /\ cur = c
  /\ Continue(c, "rollback") /\ UNCHANGED <<host, state, text, history>>

(* rollbackOnError: the record of the step that failed is dropped. *)
RollBack(s) ==
  /\ pc = "rollback" /\ cur = s
  /\ Drop(s)
  /\ lost' = IF s \in Cmds \ NoUndo /\ effect[s] \in Versions THEN lost \cup {s} ELSE lost
  /\ Exit /\ UNCHANGED <<host, backup, before, unitBefore>>

Target(u) == IF u \in EnableSet THEN "enabled" ELSE "disabled"
Drifted(u) == unit[u] \in {"enabled", "disabled"} /\ unit[u] # Target(u)

(* What a query for the state of u answers: an error reads as "unknown". *)
Answers(u) == {unit[u]} \cup (IF u \in FlakyUnits THEN {"unknown"} ELSE {})

UnitAlreadyApplied(u) ==
  /\ Taking(u)
  /\ \/ Journaled(u) /\ (~Drifted(u) \/ "unknown" \in Answers(u))
     \/ ~Journaled(u) /\ u \notin EnableSet /\ "unknown" \in Answers(u)
  /\ Advance /\ UNCHANGED <<host, state, history>>

JournalUnit(u) ==
  /\ Taking(u) /\ ~Journaled(u)
  /\ \E prior \in Answers(u) :
        /\ u \in EnableSet \/ prior # "unknown"
        /\ Put(u, [prior |-> prior])
  /\ Continue(u, "set")
  /\ UNCHANGED <<host, backup, text, history>>

\* Mutant: a drift correction journals the drifted state as the prior one.
RejournalUnit(u) ==
  /\ Taking(u) /\ Journaled(u) /\ Drifted(u)
  /\ Put(u, [prior |-> unit[u]])
  /\ Continue(u, "reset") /\ UNCHANGED <<host, backup, text, history>>

(* A journaled unit that somebody switched back is set again. *)
ResetUnit(u) ==
  /\ Taking(u) /\ Journaled(u) /\ Drifted(u)
  /\ Continue(u, "reset") /\ UNCHANGED <<host, state, text, history>>

(* Enabling or disabling a unit that is neither has no effect. *)
SetTo(u, st) == unit' = [unit EXCEPT ![u] = IF @ = "unknown" THEN @ ELSE st]

SetUnit(u) ==
  /\ pc \in {"set", "reset"} /\ cur = u
  /\ SetTo(u, Target(u))
  /\ Advance
  /\ UNCHANGED <<file, dirs, temps, unlabelled, effect, image, state, history>>

(* A first run rolls its record back, a drift correction keeps it. *)
SetUnitFails(u) ==
  /\ cur = u
  /\ \/ pc = "set" /\ Continue(u, "rollback") /\ UNCHANGED text
     \/ pc = "reset" /\ Exit
  /\ UNCHANGED <<host, state, history>>

ApplyFile(f) ==
  \/ FileUnchanged(f) \/ BackUpFile(f) \/ TearBackup(f) \/ JournalFile(f)
  \/ MakeTemp(f) \/ RenameTemp(f) \/ Relabel(f)

ApplyCmd(c) ==
  CmdAlreadyApplied(c) \/ JournalCmd(c) \/ RunCmd(c) \/ RunCmdFails(c)

ApplyUnit(u) ==
  \/ UnitAlreadyApplied(u) \/ JournalUnit(u) \/ ResetUnit(u)
  \/ SetUnit(u) \/ SetUnitFails(u)

-----------------------------------------------------------------------------
(* Undo                                                                      *)

(* Undo works on the records it loaded; undo --step on one of them. *)
StartUndo(f, p) ==
  /\ Idle /\ (JournaledSteps # {} \/ p)
  /\ op' = "undo" /\ pc' = "next" /\ todo' = JournaledSteps
  /\ force' = f /\ purge' = p /\ kept' = FALSE
  /\ UNCHANGED <<host, state, plan, at, want, cur, text, history>>

StartUndoStep(s, f) ==
  /\ Idle /\ Journaled(s)
  /\ op' = "undostep" /\ pc' = "next" /\ todo' = {s}
  /\ force' = f /\ purge' = FALSE /\ kept' = FALSE
  /\ UNCHANGED <<host, state, plan, at, want, cur, text, history>>

\* Mutant: one reverse pass over every kind.
OnePass(s, t) == Position(s) > Position(t)

(* Files and units are restored before any command is undone; within each  *)
(* half the last record journaled is the first to go.                      *)
UndoneBefore(s, t) ==
  IF (s \in Cmds) = (t \in Cmds) THEN Position(s) > Position(t) ELSE t \in Cmds

Undoing(s) ==
  /\ op \in {"undo", "undostep"} /\ pc = "next" /\ s \in todo
  /\ \A t \in todo \ {s} : UndoneBefore(s, t)

KeepsData(s) == op = "undo" /\ s \in Data /\ ~purge

(* The record of s stays in the manifest. *)
Keep(s) ==
  /\ todo' = todo \ {s} /\ kept' = TRUE
  /\ UNCHANGED <<op, pc, plan, at, want, cur, text, force, purge>>

KeepData(s) ==
  /\ Undoing(s) /\ KeepsData(s)
  /\ Keep(s) /\ UNCHANGED <<host, state, history>>

Gone(f) == file[f] = Absent /\ ~journal[f].existed
\* Mutant: only a missing file counts as changed.
MissingSinceApply(f) == file[f] = Absent /\ journal[f].existed
ChangedSinceApply(f) == ~Gone(f) /\ file[f] # journal[f].new

\* Mutant: a skipped file is counted as undone.
ForgetChanged(f) ==
  /\ Undoing(f) /\ ~KeepsData(f) /\ ChangedSinceApply(f) /\ ~force
  /\ Continue(f, "forget") /\ UNCHANGED <<host, state, text, history>>

KeepChanged(f) ==
  /\ Undoing(f) /\ ~KeepsData(f) /\ ChangedSinceApply(f) /\ ~force
  /\ Keep(f) /\ UNCHANGED <<host, state, history>>

Restorable(f) == Undoing(f) /\ ~KeepsData(f) /\ (ChangedSinceApply(f) => force)

(* A file that apply created is removed ... *)
RemoveFile(f) ==
  /\ Restorable(f) /\ ~journal[f].existed
  /\ file' = [file EXCEPT ![f] = Absent]
  /\ unlabelled' = unlabelled \ {f}
  /\ Continue(f, "sweep")
  /\ UNCHANGED <<dirs, temps, unit, effect, image, state, text, history>>

\* Mutant: the directory goes before the litter that keeps it.
RemoveDirUnswept(f) ==
  /\ pc = "sweep" /\ cur = f
  /\ dirs' = IF /\ journal[f].made /\ DirOf[f] \notin temps
                /\ \A g \in Files : DirOf[g] = DirOf[f] => file[g] = Absent
             THEN dirs \ {DirOf[f]} ELSE dirs
  /\ temps' = temps \ {DirOf[f]}
  /\ Continue(f, "forget")
  /\ UNCHANGED <<file, unlabelled, unit, effect, image, state, text, history>>

(* ... then the litter beside it, then the directory made for it if that   *)
(* leaves it empty.                                                        *)
SweepDir(f) ==
  /\ pc = "sweep" /\ cur = f
  /\ temps' = temps \ {DirOf[f]}
  /\ dirs' = IF journal[f].made /\ \A g \in Files : DirOf[g] = DirOf[f] => file[g] = Absent
             THEN dirs \ {DirOf[f]} ELSE dirs
  /\ Continue(f, "forget")
  /\ UNCHANGED <<file, unlabelled, unit, effect, image, state, text, history>>

(* A file that was there is written back from its backup. *)
RestoreFile(f) ==
  /\ Restorable(f) /\ journal[f].existed
  /\ text' = backup[f] /\ Continue(f, "temp")
  /\ UNCHANGED <<host, state, history>>

NoUndoCmd(c) ==
  /\ Undoing(c) /\ ~KeepsData(c) /\ ~journal[c].undo
  /\ Continue(c, "forget") /\ UNCHANGED <<host, state, text, history>>

UndoCmd(c) ==
  /\ Undoing(c) /\ ~KeepsData(c) /\ journal[c].undo
  /\ c \in Strict => effect[c] # NoEffect
  /\ effect' = [effect EXCEPT ![c] = NoEffect]
  /\ image' = Regenerated(c)
  /\ lost' = lost \ {c}
  /\ Continue(c, "forget")
  /\ UNCHANGED <<file, dirs, temps, unlabelled, unit, state, text, before, unitBefore>>

(* An undo command that finds nothing to undo fails, and Undo stops there. *)
UndoCmdFails(c) ==
  /\ Undoing(c) /\ ~KeepsData(c) /\ journal[c].undo
  /\ c \in Strict /\ effect[c] = NoEffect
  /\ Exit /\ UNCHANGED <<host, state, history>>

UndoUnit(u) ==
  /\ Undoing(u) /\ ~KeepsData(u)
  /\ IF journal[u].prior = "unknown" THEN UNCHANGED unit ELSE SetTo(u, journal[u].prior)
  /\ Continue(u, "forget")
  /\ UNCHANGED <<file, dirs, temps, unlabelled, effect, image, state, text, history>>

\* Mutant: the step just reversed stays in hand.
ForgetTwice(s) ==
  /\ pc = "forget" /\ cur = s
  /\ Drop(s)
  /\ cur' = Nobody /\ pc' = "next"
  /\ UNCHANGED <<host, backup, op, plan, at, want, todo, text, force, purge, kept, history>>

(* saveProgress: the record of the step just reversed leaves the manifest. *)
Forget(s) ==
  /\ pc = "forget" /\ cur = s
  /\ Drop(s)
  /\ todo' = todo \ {s} /\ cur' = Nobody /\ pc' = "next"
  /\ UNCHANGED <<host, backup, op, plan, at, want, text, force, purge, kept, history>>

\* Mutant: the backups go although records were kept.
DeleteBackups ==
  /\ op \in {"undo", "undostep"} /\ pc = "next" /\ todo = {}
  /\ backup' = [f \in Files |-> Absent]
  /\ Exit /\ UNCHANGED <<host, journal, order, history>>

(* With nothing kept the manifest and the backups go too. *)
FinishUndo ==
  /\ op \in {"undo", "undostep"} /\ pc = "next" /\ todo = {}
  /\ backup' = IF op = "undo" /\ ~kept THEN [f \in Files |-> Absent] ELSE backup
  /\ Exit /\ UNCHANGED <<host, journal, order, history>>

UndoFile(f) == KeepChanged(f) \/ RemoveFile(f) \/ SweepDir(f) \/ RestoreFile(f)

-----------------------------------------------------------------------------
(* The world around the engine                                               *)

(* The process is killed, or an error ends it: a refused write, a full disk, *)
(* a restorecon or an undo command that fails.  An error between the temp    *)
(* and its rename removes the temp, a kill strands it.                       *)
Stop ==
  /\ ~Idle
  /\ \/ UNCHANGED temps
     \/ pc = "rename" /\ temps' = temps \ {DirOf[cur]}
  /\ Exit
  /\ UNCHANGED <<file, dirs, unlabelled, unit, effect, image, state, history>>

(* Somebody else edits or deletes a file.  Before it is journaled that is  *)
(* the host's own content, initramfs included.                             *)
EditFile(f, x) ==
  /\ Idle /\ f \in Editable /\ x # file[f]
  /\ x # Absent => file[f] # Absent \/ DirOf[f] \in NativeDirs
  /\ file' = [file EXCEPT ![f] = x]
  /\ unlabelled' = unlabelled \ {f}
  /\ IF Journaled(f) THEN UNCHANGED <<before, image>>
     ELSE /\ before' = [before EXCEPT ![f] = x]
          /\ image' = IF f \in ImageFiles THEN [image EXCEPT ![f] = x] ELSE image
  /\ UNCHANGED <<dirs, temps, unit, effect, state, process, unitBefore, lost>>

(* An administrator enables or disables a unit by hand. *)
SwitchUnit(u) ==
  /\ Idle
  /\ unit' = [unit EXCEPT ![u] = CASE @ = "enabled"  -> "disabled"
                                   [] @ = "disabled" -> "enabled"
                                   [] OTHER          -> @]
  /\ unitBefore' = IF Journaled(u) THEN unitBefore ELSE [unitBefore EXCEPT ![u] = unit'[u]]
  /\ UNCHANGED <<file, dirs, temps, unlabelled, effect, image, state, process, before, lost>>

(* The host loses what a command did: a /dev node across a reboot, a       *)
(* kernel argument across an update.                                       *)
LoseEffect(c) ==
  /\ Idle /\ c \in Rechecked /\ effect[c] # NoEffect
  /\ effect' = [effect EXCEPT ![c] = NoEffect]
  /\ lost' = lost \ {c}
  /\ UNCHANGED <<file, dirs, temps, unlabelled, unit, image, state, process, before, unitBefore>>

Apply == \/ \E p \in Plans, v \in Versions : StartApply(p, v)
         \/ FinishApply
         \/ \E f \in Files : ApplyFile(f)
         \/ \E c \in Cmds : ApplyCmd(c)
         \/ \E u \in Units : ApplyUnit(u)
         \/ \E s \in Steps : RollBack(s)

Undo == \/ \E f, p \in BOOLEAN : StartUndo(f, p)
        \/ \E s \in StepUndo, f \in BOOLEAN : StartUndoStep(s, f)
        \/ FinishUndo
        \/ \E f \in Files : UndoFile(f)
        \/ \E c \in Cmds : NoUndoCmd(c) \/ UndoCmd(c) \/ UndoCmdFails(c)
        \/ \E u \in Units : UndoUnit(u)
        \/ \E s \in Steps : KeepData(s) \/ Forget(s)

World == \/ Stop
         \/ \E f \in Files, x \in Foreign \cup {Absent} : EditFile(f, x)
         \/ \E u \in Units : SwitchUnit(u)
         \/ \E c \in Cmds : LoseEffect(c)

Next == Apply \/ Undo \/ World

Spec == Init /\ [][Next]_vars

-----------------------------------------------------------------------------
(* Properties                                                                *)

(***************************************************************************)
(* Write-ahead: whatever differs from the host as it was is in the journal *)
(* on disk with what undo needs to reverse it, at every point where the    *)
(* process may be killed ("journals each one before its mutation lands",   *)
(* steps.go:92).  A command whose failed re-run dropped its record         *)
(* (rollbackOnError) is excepted: its first effect stays unrecorded.       *)
(***************************************************************************)
FilesLogged == \A f \in Files : file[f] # before[f] => Journaled(f)
UnitsLogged == \A u \in Units : unit[u] # unitBefore[u] => Journaled(u)
CommandsLogged ==
  \A c \in Cmds \ (NoUndo \cup lost) :
     effect[c] \in Versions => Journaled(c) /\ journal[c].undo
WriteAhead == FilesLogged /\ UnitsLogged /\ CommandsLogged

(* A record that names a backup never points at anything but the bytes the *)
(* file had before orthogonals first wrote it: not at a torn copy, not at  *)
(* one of our own renders saved by a second apply, not at a backup that    *)
(* undo deleted (writeBackup before put; "Manifest goes first").           *)
BackupHoldsOriginal ==
  \A f \in Files : Journaled(f) =>
     IF journal[f].existed THEN before[f] # Absent /\ backup[f] = before[f]
                           ELSE before[f] = Absent

(* Undo of a unit goes back to the state the administrator had chosen.     *)
PriorIsOriginal ==
  \A u \in Units : Journaled(u) => journal[u].prior = unitBefore[u]

Undone == Idle /\ JournaledSteps = {}

(* Once nothing is journaled nothing of ours is left in the file system:   *)
(* no directory that write_file made, no temp stranded by a killed write   *)
(* (SweepTemps before removeDirs, deepest first).                          *)
NoLitter == Undone => dirs = NativeDirs /\ temps = {}

(* Once nothing is journaled the initramfs holds the host's own files: the *)
(* command that rebuilds it is undone after every file it reads.           *)
ImageRestored == Undone => \A f \in ImageFiles : image[f] = before[f]

(* When Apply reports success the host is what the step list asked for,    *)
(* however many earlier runs were killed: files hold this render, units    *)
(* are in the wanted state, and a command that looks at the host before it *)
(* says "already applied" has its effect.                                  *)
Applied(s) ==
  CASE s \in Files -> file[s] = want
    [] s \in Units -> unit[s] \in {Target(s), "unknown"}
    [] OTHER       -> effect[s] # NoEffect
Succeeding == op = "apply" /\ pc = "next" /\ at > Len(plan)
AppliedMeansDone ==
  Succeeding => \A i \in 1..Len(plan) : plan[i] \in Cmds => plan[i] \in Rechecked \/ Applied(plan[i])
ApplyConverges ==
  Succeeding => \A i \in 1..Len(plan) : plan[i] \in Files \cup Units \cup Rechecked => Applied(plan[i])

(* What the first apply learned of the host is never learned again from a  *)
(* host that orthogonals has changed: while a record stays, so do its      *)
(* backup, the existence and directory it noted, the state of its unit and *)
(* the undo of its command.                                                *)
SameAnswer(s) ==
  \/ s \in Files /\ backup'[s] = backup[s]
                 /\ journal'[s] = [journal[s] EXCEPT !.new = journal'[s].new]
  \/ s \in Units /\ journal'[s] = journal[s]
  \/ s \in Cmds  /\ (journal[s].undo => journal'[s].undo)
FirstAnswersStay == \A s \in Steps : Journaled(s) /\ Journaled(s)' => SameAnswer(s)
FirstAnswerStays == [][FirstAnswersStay]_vars

(* Without --force undo leaves a file that somebody changed alone, and     *)
(* keeps its record.                                                       *)
ForeignEditStays ==
  op \in {"undo", "undostep"} /\ ~force =>
    \A f \in Files : Journaled(f) /\ file[f] # journal[f].new => file'[f] = file[f]
ForeignEditsKept == [][ForeignEditStays]_vars
-----------------------------------------------------------------------------
(* Refinement                                                                *)

(* The engine implements the undo log: the steps undo can reverse are the  *)
(* things, a record is a log entry if it says how to reverse its step, and *)
(* a step is touched while its target is not what it was.                  *)
Reversible == Steps \ NoUndo
LoggedSteps == {s \in Reversible : Journaled(s) /\ (s \in Cmds => journal[s].undo)}
TouchedSteps ==
  {f \in Files : file[f] # before[f]} \cup {u \in Units : unit[u] # unitBefore[u]}
    \cup {c \in Cmds \ NoUndo : effect[c] \in Versions}

Log == INSTANCE UndoLog WITH Things <- Reversible, logged <- LoggedSteps,
                             touched <- TouchedSteps, forfeited <- lost
ImplementsUndoLog == Log!Spec
=============================================================================
