--------------------------- MODULE JournalInvariant ---------------------------
(* The inductive invariant behind the safety properties of the step        *)
(* engine: what is on disk, and what the step in hand has already done,    *)
(* at each label where the process may be killed.                          *)
EXTENDS Journal

(* Every query for a unit that apply enables is answered. *)
SureReads == FlakyUnits \cap EnableSet = {}

(* The target of s is as it was, or its effect was given up. *)
Clean(s) ==
  /\ s \in Files => file[s] = before[s]
  /\ s \in Units => unit[s] = unitBefore[s]
  /\ s \in Cmds \ NoUndo => (effect[s] \in Versions => s \in lost)

(* Which command can be at which label. *)
Control ==
  /\ pc = "idle" <=> op = "none"
  /\ pc \in {"journal", "run", "set", "reset", "rollback"} => op = "apply"
  /\ pc \in {"sweep", "forget"} => op \in {"undo", "undostep"}

(* A write_file in hand.  Its record is on disk from "temp" on; undo goes  *)
(* through the same writer with the original bytes, and only over what     *)
(* apply wrote unless it is forced.                                        *)
FileInHand ==
  /\ pc = "journal" => /\ cur \in Files /\ ~Journaled(cur)
                       /\ file[cur] # Absent /\ backup[cur] = file[cur]
  /\ pc \in {"temp", "rename"} =>
       /\ cur \in Files /\ Journaled(cur)
       /\ op # "apply" => /\ text = before[cur]
                          /\ force \/ file[cur] = journal[cur].new
  /\ pc = "label" => /\ cur \in Files /\ Journaled(cur)
                     /\ op # "apply" => file[cur] = before[cur]
  /\ pc = "sweep" => cur \in Files /\ Journaled(cur) /\ file[cur] = before[cur]

(* A command or a unit in hand. *)
CmdInHand ==
  pc = "run" => /\ cur \in Cmds /\ Journaled(cur)
                /\ cur \notin NoUndo => journal[cur].undo \/ effect[cur] # NoEffect
UnitInHand ==
  /\ pc = "set" => cur \in Units /\ Journaled(cur) /\ unit[cur] = unitBefore[cur]
  /\ pc = "reset" => cur \in Units /\ Journaled(cur)
  /\ \A u \in Units : unit[u] = "unknown" <=> unitBefore[u] = "unknown"

(* A record leaves the manifest only when there is nothing left for it. *)
LeavingInHand ==
  /\ pc = "forget" => cur \in Steps /\ Clean(cur)
  /\ pc = "rollback" => cur \in Cmds \/ (cur \in Units /\ unit[cur] = unitBefore[cur])

(* An undo that kept nothing has every remaining record in hand. *)
NothingKept == op = "undo" /\ ~kept => todo = JournaledSteps

IInv ==
  /\ TypeOK /\ Control /\ FileInHand /\ CmdInHand /\ UnitInHand /\ LeavingInHand
  /\ NothingKept
  /\ WriteAhead /\ BackupHoldsOriginal /\ PriorIsOriginal

-----------------------------------------------------------------------------
(* What the other properties rest on needs no answer to any query.           *)

(* What each label says of the step in hand. *)
HandLabels ==
  /\ pc = "journal" => cur \in Files /\ ~Journaled(cur) /\ file[cur] # Absent
  /\ pc \in {"temp", "rename"} =>
       /\ cur \in Files /\ Journaled(cur)
       /\ op # "apply" => /\ journal[cur].existed
                          /\ force \/ file[cur] = journal[cur].new
  /\ pc = "label" => cur \in Files /\ Journaled(cur) /\ (op # "apply" => journal[cur].existed)
  /\ pc = "sweep" => /\ cur \in Files /\ Journaled(cur)
                     /\ ~journal[cur].existed /\ file[cur] = Absent
  /\ pc \in {"run"} => cur \in Cmds
  /\ pc \in {"set", "reset"} => cur \in Units
  /\ pc = "rollback" => cur \in Cmds \cup Units

(* A command without an undo is journaled as having none. *)
NoUndoRecorded == \A c \in NoUndo : Journaled(c) => ~journal[c].undo

Labelled == Control /\ HandLabels /\ NothingKept /\ NoUndoRecorded

(* Two steps write into one directory only if the host came with it. *)
MadeApart ==
  \A f, g \in Files : DirOf[f] = DirOf[g] /\ DirOf[f] \notin NativeDirs => f = g

(* A directory that apply makes comes with the record that says so, and    *)
(* litter beside a file with the record of the file.                       *)
OursIn(f) == DirOf[f] \notin NativeDirs
DirsRecorded ==
  /\ NativeDirs \subseteq dirs
  /\ \A d \in dirs \ NativeDirs : \E f \in Files : DirOf[f] = d
  /\ \A f \in Files :
       IF Journaled(f) THEN (journal[f].made <=> OursIn(f)) /\ (OursIn(f) => ~journal[f].existed)
                       ELSE OursIn(f) => file[f] = Absent /\ DirOf[f] \notin dirs
  /\ pc = "forget" /\ cur \in Files /\ OursIn(cur) => file[cur] = Absent /\ DirOf[cur] \notin dirs
TempsRecorded ==
  /\ \A d \in temps : \E f \in Files : DirOf[f] = d /\ Journaled(f)
  /\ pc \in {"label", "forget"} /\ cur \in Files => DirOf[cur] \notin temps
Tidy == DirsRecorded /\ TempsRecorded

(* Every query for the state of a unit is answered. *)
AllAnswered == FlakyUnits = {}

(* Apply has done the steps before the one it is at. *)
DoneSoFar ==
  op = "apply" =>
    /\ plan \in Plans
    /\ \A i \in 1..Len(plan) :
         i < at /\ plan[i] \in Files \cup Units \cup Rechecked => Applied(plan[i])
    /\ pc # "next" => at <= Len(plan) /\ cur = plan[at]
    /\ pc \in {"temp", "rename"} => text = want
    /\ pc = "label" => file[cur] = want

(* The conditions under which undo gives the initramfs back: every apply   *)
(* renders the same, nobody edits what the initramfs is built from, and no *)
(* purge or --step singles out a step that matters to it.                  *)
OneRender ==
  /\ \A v, w \in Versions : v = w
  /\ Editable \cap ImageFiles = {}
  /\ Data \cap ImageFiles = {} /\ StepUndo \cap Snapshots = {}
  /\ Snapshots \cap (InputCmds \cup Rechecked \cup NoUndo) = {}

ImageIsHosts == \A f \in ImageFiles : image[f] = before[f]
OtherSnapshots(c) == \E d \in Snapshots \ {c} : Journaled(d)
ImageTracked ==
  /\ \A f \in ImageFiles : file[f] \in Versions \cup {before[f]}
  /\ op = "undo" => \A f \in ImageFiles \ todo : file[f] = before[f]
  /\ op = "undostep" => todo \cap Snapshots = {}
  /\ pc \in {"temp", "rename"} /\ op = "apply" => text \in Versions
  /\ \A c \in Snapshots : Journaled(c) => journal[c].undo
  /\ (\E c \in Snapshots : Journaled(c)) \/ ImageIsHosts
  /\ pc \in {"run", "rollback"} /\ cur \in Snapshots => OtherSnapshots(cur) \/ ImageIsHosts
  /\ pc = "forget" /\ cur \in Snapshots => ImageIsHosts
=============================================================================
