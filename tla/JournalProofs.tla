---------------------------- MODULE JournalProofs ----------------------------
(* Proofs about the step engine, for every set of steps, every step list   *)
(* and any number of kills, edits and re-runs.                             *)
EXTENDS Journal, TLAPS

(* The default of want is a version. *)
LEMMA AnyVersionType == AnyVersion \in Versions
BY ContentsAssumption DEF AnyVersion

(* Dropping a record keeps the manifest well typed. *)
LEMMA DropType ==
  ASSUME StateOK, NEW s \in Steps, Drop(s), UNCHANGED backup
  PROVE  StateOK'
<1>1. order' \in Seq(Steps)
  <2>1. CASE \E i \in 1..Len(order) : order[i] = s
    <3>1. Position(s) \in 1..Len(order)
      BY <2>1 DEF Position
    <3> DEFINE p == Position(s)
    <3>2. SubSeq(order, 1, p - 1) \in Seq(Steps) /\ SubSeq(order, p + 1, Len(order)) \in Seq(Steps)
      <4> HIDE DEF p
      <4>1. p \in 1..Len(order)
        BY <3>1 DEF p
      <4> QED BY <4>1 DEF StateOK
    <3> QED BY <2>1, <3>2 DEF Drop
  <2>2. CASE ~ \E i \in 1..Len(order) : order[i] = s
    BY <2>2 DEF Drop, StateOK
  <2> QED BY <2>1, <2>2
<1>2. QED BY <1>1 DEF Drop, StateOK

(* Putting a record of the step's kind does too. *)
LEMMA PutType ==
  ASSUME StateOK, NEW s \in Steps, NEW r, Put(s, r), UNCHANGED backup,
         s \in Files => r \in FileRec,
         s \in Units => r \in UnitRec,
         s \in Cmds => r \in CmdRec
  PROVE  StateOK'
BY StepsAssumption DEF Put, StateOK, Steps

(* After a record is put its step is journaled, and the others as before.  *)
LEMMA PutJournals ==
  ASSUME StateOK, NEW s \in Steps, NEW r \in FileRec \cup UnitRec \cup CmdRec, Put(s, r)
  PROVE  JournaledSteps' = JournaledSteps \cup {s}
BY NoRecAssumption DEF Put, StateOK, JournaledSteps, Journaled

(* The ways a command moves on: it ends, it takes the next step of the     *)
(* list, it goes on with the step in hand, or it leaves its record.        *)
LEMMA ExitType == ASSUME Exit PROVE ProcessOK'
<1>1. plan' \in Seq(Steps)
  <2>1. <<>> \in Seq(Steps)
    OBVIOUS
  <2> QED BY <2>1 DEF Exit
<1>2. at' \in Nat \ {0} /\ want' \in Versions
  BY AnyVersionType DEF Exit
<1>3. todo' \subseteq Steps /\ cur' \in Steps \cup {Nobody}
  BY DEF Exit
<1>4. text' \in Contents \cup {Absent, Torn}
  BY DEF Exit
<1>5. op' \in {"none", "apply", "undo", "undostep"}
  BY DEF Exit
<1> QED BY <1>1, <1>2, <1>3, <1>4, <1>5 DEF Exit, ProcessOK

LEMMA AdvanceType == ASSUME ProcessOK, Advance PROVE ProcessOK'
BY DEF ProcessOK, Advance

Labels == {"journal", "temp", "rename", "label", "run", "set", "reset", "rollback",
           "sweep", "forget"}

LEMMA ContinueType ==
  ASSUME ProcessOK, NEW s \in Steps, NEW l \in Labels, Continue(s, l),
         text' \in Contents \cup {Absent, Torn}
  PROVE  ProcessOK'
BY DEF ProcessOK, Continue, Labels

LEMMA KeepType == ASSUME ProcessOK, NEW s \in Steps, Keep(s) PROVE ProcessOK'
BY DEF ProcessOK, Keep

(* A step of the engine is one of its actions. *)
LEMMA NextActions ==
  ASSUME Next
  PROVE  \/ \E p \in Plans, v \in Versions : StartApply(p, v)
         \/ FinishApply
         \/ \E f \in Files : FileUnchanged(f)
         \/ \E f \in Files : BackUpFile(f)
         \/ \E f \in Files : TearBackup(f)
         \/ \E f \in Files : JournalFile(f)
         \/ \E f \in Files : MakeTemp(f)
         \/ \E f \in Files : RenameTemp(f)
         \/ \E f \in Files : Relabel(f)
         \/ \E c \in Cmds : CmdAlreadyApplied(c)
         \/ \E c \in Cmds : JournalCmd(c)
         \/ \E c \in Cmds : RunCmd(c)
         \/ \E c \in Cmds : RunCmdFails(c)
         \/ \E u \in Units : UnitAlreadyApplied(u)
         \/ \E u \in Units : JournalUnit(u)
         \/ \E u \in Units : ResetUnit(u)
         \/ \E u \in Units : SetUnit(u)
         \/ \E u \in Units : SetUnitFails(u)
         \/ \E s \in Steps : RollBack(s)
         \/ \E f \in BOOLEAN, p \in BOOLEAN : StartUndo(f, p)
         \/ \E s \in StepUndo, f \in BOOLEAN : StartUndoStep(s, f)
         \/ \E s \in Steps : KeepData(s)
         \/ \E f \in Files : KeepChanged(f)
         \/ \E f \in Files : RemoveFile(f)
         \/ \E f \in Files : SweepDir(f)
         \/ \E f \in Files : RestoreFile(f)
         \/ \E c \in Cmds : NoUndoCmd(c)
         \/ \E c \in Cmds : UndoCmd(c)
         \/ \E c \in Cmds : UndoCmdFails(c)
         \/ \E u \in Units : UndoUnit(u)
         \/ \E s \in Steps : Forget(s)
         \/ FinishUndo
         \/ Stop
         \/ \E f \in Files, x \in Foreign \cup {Absent} : EditFile(f, x)
         \/ \E u \in Units : SwitchUnit(u)
         \/ \E c \in Cmds : LoseEffect(c)
BY StepsAssumption DEF Next, Apply, Undo, World, ApplyFile, ApplyCmd, ApplyUnit, UndoFile, Steps

(* Every variable keeps its type, whatever the kills and the edits. *)
LEMMA TypeStep ==
  ASSUME TypeOK, [Next]_vars PROVE TypeOK'
<1> USE StepsAssumption, ContentsAssumption DEF TypeOK
<1>1. ASSUME NEW p \in Plans, NEW v \in Versions, StartApply(p, v) PROVE TypeOK'
  <2>1. HostOK'
    BY <1>1 DEF StartApply, HostOK, host
  <2>2. StateOK'
    BY <1>1 DEF StartApply, StateOK, state
  <2>3. ProcessOK'
    BY <1>1, PlansAssumption DEF StartApply, ProcessOK, Steps
  <2>4. HistoryOK'
    BY <1>1 DEF StartApply, HistoryOK, history
  <2>5. TodoOK'
    BY <1>1 DEF StartApply, TodoOK, JournaledSteps, Journaled, Steps, state, process
  <2> QED BY <2>1, <2>2, <2>3, <2>4, <2>5
<1>2. CASE FinishApply
  <2>1. HostOK'
    BY <1>2 DEF FinishApply, HostOK, host
  <2>2. StateOK'
    BY <1>2 DEF FinishApply, StateOK, state
  <2>3. ProcessOK'
    BY <1>2, ExitType DEF FinishApply
  <2>4. HistoryOK'
    BY <1>2 DEF FinishApply, HistoryOK, history
  <2>5. TodoOK'
    BY <1>2 DEF FinishApply, TodoOK, JournaledSteps, Journaled, state, Exit
  <2> QED BY <2>1, <2>2, <2>3, <2>4, <2>5
<1>3. ASSUME NEW f \in Files, FileUnchanged(f) PROVE TypeOK'
  <2>1. HostOK'
    BY <1>3 DEF FileUnchanged, HostOK, host
  <2>2. StateOK'
    BY <1>3 DEF FileUnchanged, StateOK, state
  <2>3. ProcessOK'
    BY <1>3, AdvanceType DEF FileUnchanged
  <2>4. HistoryOK'
    BY <1>3 DEF FileUnchanged, HistoryOK, history
  <2>5. TodoOK'
    BY <1>3 DEF FileUnchanged, TodoOK, JournaledSteps, Journaled, state, Advance
  <2> QED BY <2>1, <2>2, <2>3, <2>4, <2>5
<1>4. ASSUME NEW f \in Files, BackUpFile(f) PROVE TypeOK'
  <2>1. HostOK'
    BY <1>4 DEF BackUpFile, HostOK, host
  <2>2. StateOK'
    BY <1>4 DEF BackUpFile, StateOK, HostOK
  <2>3. ProcessOK'
    BY <1>4, ContinueType DEF BackUpFile, Labels, Steps, ProcessOK, HostOK, StateOK, Contents
  <2>4. HistoryOK'
    BY <1>4 DEF BackUpFile, HistoryOK, history
  <2>5. TodoOK'
    BY <1>4 DEF BackUpFile, TodoOK, JournaledSteps, Journaled, state, Continue
  <2> QED BY <2>1, <2>2, <2>3, <2>4, <2>5
<1>5. ASSUME NEW f \in Files, TearBackup(f) PROVE TypeOK'
  <2>1. HostOK'
    BY <1>5 DEF TearBackup, HostOK, host
  <2>2. StateOK'
    BY <1>5 DEF TearBackup, StateOK, HostOK
  <2>3. ProcessOK'
    BY <1>5, ExitType DEF TearBackup
  <2>4. HistoryOK'
    BY <1>5 DEF TearBackup, HistoryOK, history
  <2>5. TodoOK'
    BY <1>5 DEF TearBackup, TodoOK, JournaledSteps, Journaled, state, Exit
  <2> QED BY <2>1, <2>2, <2>3, <2>4, <2>5
<1>6. ASSUME NEW f \in Files, JournalFile(f) PROVE TypeOK'
  <2>. PICK r \in FileRec : Put(f, r)
    BY <1>6 DEF JournalFile, StateOK, HostOK, ProcessOK, Journaled, FileRec, Contents, MissingDir
  <2>1. HostOK'
    BY <1>6 DEF JournalFile, HostOK, host
  <2>2. StateOK'
    BY <1>6, PutType DEF JournalFile, Steps
  <2>3. ProcessOK'
    BY <1>6, ContinueType DEF JournalFile, Labels, Steps, ProcessOK, HostOK, StateOK, Contents
  <2>4. HistoryOK'
    BY <1>6 DEF JournalFile, HistoryOK, history
  <2>5. TodoOK'
    <3>1. JournaledSteps' = JournaledSteps \cup {f}
      BY <1>6, PutJournals DEF Steps
    <3> QED BY <1>6, <3>1 DEF JournalFile, TodoOK, Continue
  <2> QED BY <2>1, <2>2, <2>3, <2>4, <2>5
<1>7. ASSUME NEW f \in Files, MakeTemp(f) PROVE TypeOK'
  <2>1. HostOK'
    BY <1>7 DEF MakeTemp, HostOK, StateOK, ProcessOK, Steps
  <2>2. StateOK'
    BY <1>7 DEF MakeTemp, StateOK, state
  <2>3. ProcessOK'
    BY <1>7, ContinueType DEF MakeTemp, Labels, Steps, ProcessOK, HostOK, StateOK, Contents
  <2>4. HistoryOK'
    BY <1>7 DEF MakeTemp, HistoryOK, history
  <2>5. TodoOK'
    BY <1>7 DEF MakeTemp, TodoOK, JournaledSteps, Journaled, state, Continue
  <2> QED BY <2>1, <2>2, <2>3, <2>4, <2>5
<1>8. ASSUME NEW f \in Files, RenameTemp(f) PROVE TypeOK'
  <2>1. HostOK'
    BY <1>8 DEF RenameTemp, HostOK, StateOK, ProcessOK, Steps
  <2>2. StateOK'
    BY <1>8 DEF RenameTemp, StateOK, state
  <2>3. ProcessOK'
    BY <1>8, ContinueType DEF RenameTemp, Labels, Steps, ProcessOK, HostOK, StateOK, Contents
  <2>4. HistoryOK'
    BY <1>8 DEF RenameTemp, HistoryOK, history
  <2>5. TodoOK'
    BY <1>8 DEF RenameTemp, TodoOK, JournaledSteps, Journaled, state, Continue
  <2> QED BY <2>1, <2>2, <2>3, <2>4, <2>5
<1>9. ASSUME NEW f \in Files, Relabel(f) PROVE TypeOK'
  <2>1. HostOK'
    BY <1>9 DEF Relabel, HostOK, StateOK, ProcessOK, Steps
  <2>2. StateOK'
    BY <1>9 DEF Relabel, StateOK, state
  <2>3. ProcessOK'
    BY <1>9, ContinueType, AdvanceType DEF Relabel, Labels, Steps, ProcessOK
  <2>4. HistoryOK'
    BY <1>9 DEF Relabel, HistoryOK, history
  <2>5. TodoOK'
    BY <1>9 DEF Relabel, TodoOK, JournaledSteps, Journaled, state, Continue, Advance, Exit
  <2> QED BY <2>1, <2>2, <2>3, <2>4, <2>5
<1>10. ASSUME NEW c \in Cmds, CmdAlreadyApplied(c) PROVE TypeOK'
  <2>1. HostOK'
    BY <1>10 DEF CmdAlreadyApplied, HostOK, host
  <2>2. StateOK'
    BY <1>10 DEF CmdAlreadyApplied, StateOK, state
  <2>3. ProcessOK'
    BY <1>10, AdvanceType DEF CmdAlreadyApplied
  <2>4. HistoryOK'
    BY <1>10 DEF CmdAlreadyApplied, HistoryOK, history
  <2>5. TodoOK'
    BY <1>10 DEF CmdAlreadyApplied, TodoOK, JournaledSteps, Journaled, state, Advance
  <2> QED BY <2>1, <2>2, <2>3, <2>4, <2>5
<1>11. ASSUME NEW c \in Cmds, JournalCmd(c) PROVE TypeOK'
  <2>. PICK r \in CmdRec : Put(c, r)
    BY <1>11 DEF JournalCmd, StateOK, HostOK, ProcessOK, Journaled, CmdRec, UndoOf
  <2>1. HostOK'
    BY <1>11 DEF JournalCmd, HostOK, host
  <2>2. StateOK'
    BY <1>11, PutType DEF JournalCmd, Steps
  <2>3. ProcessOK'
    BY <1>11, ContinueType DEF JournalCmd, Labels, Steps, ProcessOK, HostOK, StateOK, Contents
  <2>4. HistoryOK'
    BY <1>11 DEF JournalCmd, HistoryOK, HostOK, Contents, UnitStates
  <2>5. TodoOK'
    <3>1. JournaledSteps' = JournaledSteps \cup {c}
      BY <1>11, PutJournals DEF Steps
    <3> QED BY <1>11, <3>1 DEF JournalCmd, TodoOK, Continue
  <2> QED BY <2>1, <2>2, <2>3, <2>4, <2>5
<1>12. ASSUME NEW c \in Cmds, RunCmd(c) PROVE TypeOK'
  <2>1. HostOK'
    BY <1>12 DEF RunCmd, HostOK, StateOK, ProcessOK, Steps, Regenerated
  <2>2. StateOK'
    BY <1>12 DEF RunCmd, StateOK, state
  <2>3. ProcessOK'
    BY <1>12, AdvanceType DEF RunCmd
  <2>4. HistoryOK'
    BY <1>12 DEF RunCmd, HistoryOK, history
  <2>5. TodoOK'
    BY <1>12 DEF RunCmd, TodoOK, JournaledSteps, Journaled, state, Advance
  <2> QED BY <2>1, <2>2, <2>3, <2>4, <2>5
<1>13. ASSUME NEW c \in Cmds, RunCmdFails(c) PROVE TypeOK'
  <2>1. HostOK'
    BY <1>13 DEF RunCmdFails, HostOK, host
  <2>2. StateOK'
    BY <1>13 DEF RunCmdFails, StateOK, state
  <2>3. ProcessOK'
    BY <1>13, ContinueType DEF RunCmdFails, Labels, Steps, ProcessOK, HostOK, StateOK, Contents
  <2>4. HistoryOK'
    BY <1>13 DEF RunCmdFails, HistoryOK, history
  <2>5. TodoOK'
    BY <1>13 DEF RunCmdFails, TodoOK, JournaledSteps, Journaled, state, Continue
  <2> QED BY <2>1, <2>2, <2>3, <2>4, <2>5
<1>14. ASSUME NEW u \in Units, UnitAlreadyApplied(u) PROVE TypeOK'
  <2>1. HostOK'
    BY <1>14 DEF UnitAlreadyApplied, HostOK, host
  <2>2. StateOK'
    BY <1>14 DEF UnitAlreadyApplied, StateOK, state
  <2>3. ProcessOK'
    BY <1>14, AdvanceType DEF UnitAlreadyApplied
  <2>4. HistoryOK'
    BY <1>14 DEF UnitAlreadyApplied, HistoryOK, history
  <2>5. TodoOK'
    BY <1>14 DEF UnitAlreadyApplied, TodoOK, JournaledSteps, Journaled, state, Advance
  <2> QED BY <2>1, <2>2, <2>3, <2>4, <2>5
<1>15. ASSUME NEW u \in Units, JournalUnit(u) PROVE TypeOK'
  <2>. PICK r \in UnitRec : Put(u, r)
    BY <1>15 DEF JournalUnit, StateOK, HostOK, ProcessOK, Journaled, UnitRec, Answers, UnitStates
  <2>1. HostOK'
    BY <1>15 DEF JournalUnit, HostOK, host
  <2>2. StateOK'
    BY <1>15, PutType DEF JournalUnit, Steps
  <2>3. ProcessOK'
    BY <1>15, ContinueType DEF JournalUnit, Labels, Steps, ProcessOK, HostOK, StateOK, Contents
  <2>4. HistoryOK'
    BY <1>15 DEF JournalUnit, HistoryOK, history
  <2>5. TodoOK'
    <3>1. JournaledSteps' = JournaledSteps \cup {u}
      BY <1>15, PutJournals DEF Steps
    <3> QED BY <1>15, <3>1 DEF JournalUnit, TodoOK, Continue
  <2> QED BY <2>1, <2>2, <2>3, <2>4, <2>5
<1>16. ASSUME NEW u \in Units, ResetUnit(u) PROVE TypeOK'
  <2>1. HostOK'
    BY <1>16 DEF ResetUnit, HostOK, host
  <2>2. StateOK'
    BY <1>16 DEF ResetUnit, StateOK, state
  <2>3. ProcessOK'
    BY <1>16, ContinueType DEF ResetUnit, Labels, Steps, ProcessOK, HostOK, StateOK, Contents
  <2>4. HistoryOK'
    BY <1>16 DEF ResetUnit, HistoryOK, history
  <2>5. TodoOK'
    BY <1>16 DEF ResetUnit, TodoOK, JournaledSteps, Journaled, state, Continue
  <2> QED BY <2>1, <2>2, <2>3, <2>4, <2>5
<1>17. ASSUME NEW u \in Units, SetUnit(u) PROVE TypeOK'
  <2>1. HostOK'
    BY <1>17 DEF SetUnit, HostOK, StateOK, ProcessOK, Steps, SetTo, Target, UnitStates
  <2>2. StateOK'
    BY <1>17 DEF SetUnit, StateOK, state
  <2>3. ProcessOK'
    BY <1>17, AdvanceType DEF SetUnit
  <2>4. HistoryOK'
    BY <1>17 DEF SetUnit, HistoryOK, history
  <2>5. TodoOK'
    BY <1>17 DEF SetUnit, TodoOK, JournaledSteps, Journaled, state, Advance
  <2> QED BY <2>1, <2>2, <2>3, <2>4, <2>5
<1>18. ASSUME NEW u \in Units, SetUnitFails(u) PROVE TypeOK'
  <2>1. HostOK'
    BY <1>18 DEF SetUnitFails, HostOK, host
  <2>2. StateOK'
    BY <1>18 DEF SetUnitFails, StateOK, state
  <2>3. ProcessOK'
    BY <1>18, ContinueType, ExitType DEF SetUnitFails, Labels, Steps, ProcessOK
  <2>4. HistoryOK'
    BY <1>18 DEF SetUnitFails, HistoryOK, history
  <2>5. TodoOK'
    BY <1>18 DEF SetUnitFails, TodoOK, JournaledSteps, Journaled, state, Continue, Advance, Exit
  <2> QED BY <2>1, <2>2, <2>3, <2>4, <2>5
<1>19. ASSUME NEW s \in Steps, RollBack(s) PROVE TypeOK'
  <2>1. HostOK'
    BY <1>19 DEF RollBack, HostOK, host
  <2>2. StateOK'
    BY <1>19, DropType DEF RollBack
  <2>3. ProcessOK'
    BY <1>19, ExitType DEF RollBack
  <2>4. HistoryOK'
    BY <1>19 DEF RollBack, HistoryOK, HostOK, Contents, UnitStates
  <2>5. TodoOK'
    BY <1>19, <2>2 DEF RollBack, TodoOK, StateOK, JournaledSteps, Journaled, Put, Drop, Continue, Exit
  <2> QED BY <2>1, <2>2, <2>3, <2>4, <2>5
<1>20. ASSUME NEW f \in BOOLEAN, NEW p \in BOOLEAN, StartUndo(f, p) PROVE TypeOK'
  <2>1. HostOK'
    BY <1>20 DEF StartUndo, HostOK, host
  <2>2. StateOK'
    BY <1>20 DEF StartUndo, StateOK, state
  <2>3. ProcessOK'
    BY <1>20 DEF JournaledSteps, StartUndo, ProcessOK, Steps
  <2>4. HistoryOK'
    BY <1>20 DEF StartUndo, HistoryOK, history
  <2>5. TodoOK'
    BY <1>20 DEF StartUndo, TodoOK, JournaledSteps, Journaled, Steps, state, process
  <2> QED BY <2>1, <2>2, <2>3, <2>4, <2>5
<1>21. ASSUME NEW s \in StepUndo, NEW f \in BOOLEAN, StartUndoStep(s, f) PROVE TypeOK'
  <2>1. HostOK'
    BY <1>21 DEF StartUndoStep, HostOK, host
  <2>2. StateOK'
    BY <1>21 DEF StartUndoStep, StateOK, state
  <2>3. ProcessOK'
    BY <1>21 DEF StartUndoStep, ProcessOK, Steps
  <2>4. HistoryOK'
    BY <1>21 DEF StartUndoStep, HistoryOK, history
  <2>5. TodoOK'
    BY <1>21 DEF StartUndoStep, TodoOK, JournaledSteps, Journaled, Steps, state, process
  <2> QED BY <2>1, <2>2, <2>3, <2>4, <2>5
<1>22. ASSUME NEW s \in Steps, KeepData(s) PROVE TypeOK'
  <2>1. HostOK'
    BY <1>22 DEF KeepData, HostOK, host
  <2>2. StateOK'
    BY <1>22 DEF KeepData, StateOK, state
  <2>3. ProcessOK'
    BY <1>22, KeepType DEF KeepData, Steps
  <2>4. HistoryOK'
    BY <1>22 DEF KeepData, HistoryOK, history
  <2>5. TodoOK'
    BY <1>22 DEF KeepData, TodoOK, JournaledSteps, Journaled, state, Keep
  <2> QED BY <2>1, <2>2, <2>3, <2>4, <2>5
<1>23. ASSUME NEW f \in Files, KeepChanged(f) PROVE TypeOK'
  <2>1. HostOK'
    BY <1>23 DEF KeepChanged, HostOK, host
  <2>2. StateOK'
    BY <1>23 DEF KeepChanged, StateOK, state
  <2>3. ProcessOK'
    BY <1>23, KeepType DEF KeepChanged, Steps
  <2>4. HistoryOK'
    BY <1>23 DEF KeepChanged, HistoryOK, history
  <2>5. TodoOK'
    BY <1>23 DEF KeepChanged, TodoOK, JournaledSteps, Journaled, state, Keep
  <2> QED BY <2>1, <2>2, <2>3, <2>4, <2>5
<1>24. ASSUME NEW f \in Files, RemoveFile(f) PROVE TypeOK'
  <2>1. HostOK'
    BY <1>24 DEF RemoveFile, HostOK, StateOK, ProcessOK, Steps
  <2>2. StateOK'
    BY <1>24 DEF RemoveFile, StateOK, state
  <2>3. ProcessOK'
    BY <1>24, ContinueType DEF RemoveFile, Labels, Steps, ProcessOK, HostOK, StateOK, Contents
  <2>4. HistoryOK'
    BY <1>24 DEF RemoveFile, HistoryOK, history
  <2>5. TodoOK'
    BY <1>24 DEF RemoveFile, TodoOK, JournaledSteps, Journaled, state, Continue
  <2> QED BY <2>1, <2>2, <2>3, <2>4, <2>5
<1>25. ASSUME NEW f \in Files, SweepDir(f) PROVE TypeOK'
  <2>1. HostOK'
    BY <1>25 DEF SweepDir, HostOK, StateOK, ProcessOK, Steps
  <2>2. StateOK'
    BY <1>25 DEF SweepDir, StateOK, state
  <2>3. ProcessOK'
    BY <1>25, ContinueType DEF SweepDir, Labels, Steps, ProcessOK, HostOK, StateOK, Contents
  <2>4. HistoryOK'
    BY <1>25 DEF SweepDir, HistoryOK, history
  <2>5. TodoOK'
    BY <1>25 DEF SweepDir, TodoOK, JournaledSteps, Journaled, state, Continue
  <2> QED BY <2>1, <2>2, <2>3, <2>4, <2>5
<1>26. ASSUME NEW f \in Files, RestoreFile(f) PROVE TypeOK'
  <2>1. HostOK'
    BY <1>26 DEF RestoreFile, HostOK, host
  <2>2. StateOK'
    BY <1>26 DEF RestoreFile, StateOK, state
  <2>3. ProcessOK'
    BY <1>26, ContinueType DEF RestoreFile, Labels, Steps, ProcessOK, HostOK, StateOK, Contents
  <2>4. HistoryOK'
    BY <1>26 DEF RestoreFile, HistoryOK, history
  <2>5. TodoOK'
    BY <1>26 DEF RestoreFile, TodoOK, JournaledSteps, Journaled, state, Continue
  <2> QED BY <2>1, <2>2, <2>3, <2>4, <2>5
<1>27. ASSUME NEW c \in Cmds, NoUndoCmd(c) PROVE TypeOK'
  <2>1. HostOK'
    BY <1>27 DEF NoUndoCmd, HostOK, host
  <2>2. StateOK'
    BY <1>27 DEF NoUndoCmd, StateOK, state
  <2>3. ProcessOK'
    BY <1>27, ContinueType DEF NoUndoCmd, Labels, Steps, ProcessOK, HostOK, StateOK, Contents
  <2>4. HistoryOK'
    BY <1>27 DEF NoUndoCmd, HistoryOK, history
  <2>5. TodoOK'
    BY <1>27 DEF NoUndoCmd, TodoOK, JournaledSteps, Journaled, state, Continue
  <2> QED BY <2>1, <2>2, <2>3, <2>4, <2>5
<1>28. ASSUME NEW c \in Cmds, UndoCmd(c) PROVE TypeOK'
  <2>1. HostOK'
    BY <1>28 DEF UndoCmd, HostOK, StateOK, ProcessOK, Steps, Regenerated
  <2>2. StateOK'
    BY <1>28 DEF UndoCmd, StateOK, state
  <2>3. ProcessOK'
    BY <1>28, ContinueType DEF UndoCmd, Labels, Steps, ProcessOK, HostOK, StateOK, Contents
  <2>4. HistoryOK'
    BY <1>28 DEF UndoCmd, HistoryOK, HostOK, Contents, UnitStates
  <2>5. TodoOK'
    BY <1>28 DEF UndoCmd, TodoOK, JournaledSteps, Journaled, state, Continue
  <2> QED BY <2>1, <2>2, <2>3, <2>4, <2>5
<1>29. ASSUME NEW c \in Cmds, UndoCmdFails(c) PROVE TypeOK'
  <2>1. HostOK'
    BY <1>29 DEF UndoCmdFails, HostOK, host
  <2>2. StateOK'
    BY <1>29 DEF UndoCmdFails, StateOK, state
  <2>3. ProcessOK'
    BY <1>29, ExitType DEF UndoCmdFails
  <2>4. HistoryOK'
    BY <1>29 DEF UndoCmdFails, HistoryOK, history
  <2>5. TodoOK'
    BY <1>29 DEF UndoCmdFails, TodoOK, JournaledSteps, Journaled, state, Exit
  <2> QED BY <2>1, <2>2, <2>3, <2>4, <2>5
<1>30. ASSUME NEW u \in Units, UndoUnit(u) PROVE TypeOK'
  <2>1. HostOK'
    <3>1. journal[u] \in UnitRec
      BY <1>30 DEF UndoUnit, Undoing, TodoOK, JournaledSteps, Journaled, StateOK
    <3> QED BY <1>30, <3>1 DEF UndoUnit, HostOK, SetTo, UnitRec, UnitStates
  <2>2. StateOK'
    BY <1>30 DEF UndoUnit, StateOK, state
  <2>3. ProcessOK'
    BY <1>30, ContinueType DEF UndoUnit, Labels, Steps, ProcessOK, HostOK, StateOK, Contents
  <2>4. HistoryOK'
    BY <1>30 DEF UndoUnit, HistoryOK, history
  <2>5. TodoOK'
    BY <1>30 DEF UndoUnit, TodoOK, JournaledSteps, Journaled, state, Continue
  <2> QED BY <2>1, <2>2, <2>3, <2>4, <2>5
<1>31. ASSUME NEW s \in Steps, Forget(s) PROVE TypeOK'
  <2>1. HostOK'
    BY <1>31 DEF Forget, HostOK, host
  <2>2. StateOK'
    BY <1>31, DropType DEF Forget
  <2>3. ProcessOK'
    BY <1>31 DEF Forget, ProcessOK, Steps
  <2>4. HistoryOK'
    BY <1>31 DEF Forget, HistoryOK, history
  <2>5. TodoOK'
    BY <1>31, <2>2 DEF Forget, TodoOK, StateOK, JournaledSteps, Journaled, Put, Drop, Continue, Exit
  <2> QED BY <2>1, <2>2, <2>3, <2>4, <2>5
<1>32. CASE FinishUndo
  <2>1. HostOK'
    BY <1>32 DEF FinishUndo, HostOK, host
  <2>2. StateOK'
    BY <1>32 DEF FinishUndo, StateOK, HostOK
  <2>3. ProcessOK'
    BY <1>32, ExitType DEF FinishUndo
  <2>4. HistoryOK'
    BY <1>32 DEF FinishUndo, HistoryOK, history
  <2>5. TodoOK'
    BY <1>32 DEF FinishUndo, TodoOK, JournaledSteps, Journaled, state, Exit
  <2> QED BY <2>1, <2>2, <2>3, <2>4, <2>5
<1>33. CASE Stop
  <2>1. HostOK'
    BY <1>33 DEF Stop, HostOK, StateOK, ProcessOK, Steps
  <2>2. StateOK'
    BY <1>33 DEF Stop, StateOK, state
  <2>3. ProcessOK'
    BY <1>33, ExitType DEF Stop
  <2>4. HistoryOK'
    BY <1>33 DEF Stop, HistoryOK, history
  <2>5. TodoOK'
    BY <1>33 DEF Stop, TodoOK, JournaledSteps, Journaled, state, Exit
  <2> QED BY <2>1, <2>2, <2>3, <2>4, <2>5
<1>34. ASSUME NEW f \in Files, NEW x \in Foreign \cup {Absent}, EditFile(f, x) PROVE TypeOK'
  <2>1. HostOK'
    BY <1>34 DEF EditFile, HostOK, StateOK, ProcessOK, Steps, Contents
  <2>2. StateOK'
    BY <1>34 DEF EditFile, StateOK, state
  <2>3. ProcessOK'
    BY <1>34 DEF EditFile, ProcessOK, process
  <2>4. HistoryOK'
    BY <1>34 DEF EditFile, HistoryOK, HostOK, Contents, UnitStates
  <2>5. TodoOK'
    BY <1>34 DEF EditFile, TodoOK, JournaledSteps, Journaled, Steps, state, process
  <2> QED BY <2>1, <2>2, <2>3, <2>4, <2>5
<1>35. ASSUME NEW u \in Units, SwitchUnit(u) PROVE TypeOK'
  <2>1. HostOK'
    BY <1>35 DEF SwitchUnit, HostOK, StateOK, ProcessOK, Steps, UnitStates
  <2>2. StateOK'
    BY <1>35 DEF SwitchUnit, StateOK, state
  <2>3. ProcessOK'
    BY <1>35 DEF SwitchUnit, ProcessOK, process
  <2>4. HistoryOK'
    BY <1>35 DEF SwitchUnit, HistoryOK, HostOK, Contents, UnitStates
  <2>5. TodoOK'
    BY <1>35 DEF SwitchUnit, TodoOK, JournaledSteps, Journaled, Steps, state, process
  <2> QED BY <2>1, <2>2, <2>3, <2>4, <2>5
<1>36. ASSUME NEW c \in Cmds, LoseEffect(c) PROVE TypeOK'
  <2>1. HostOK'
    BY <1>36 DEF LoseEffect, HostOK, StateOK, ProcessOK, Steps
  <2>2. StateOK'
    BY <1>36 DEF LoseEffect, StateOK, state
  <2>3. ProcessOK'
    BY <1>36 DEF LoseEffect, ProcessOK, process
  <2>4. HistoryOK'
    BY <1>36 DEF LoseEffect, HistoryOK, HostOK, Contents, UnitStates
  <2>5. TodoOK'
    BY <1>36 DEF LoseEffect, TodoOK, JournaledSteps, Journaled, Steps, state, process
  <2> QED BY <2>1, <2>2, <2>3, <2>4, <2>5
<1>37. CASE UNCHANGED vars
  BY <1>37 DEF vars, host, state, process, history, HostOK, StateOK,
     ProcessOK, HistoryOK, TodoOK, JournaledSteps, Journaled
<1> QED BY <1>1, <1>2, <1>3, <1>4, <1>5, <1>6, <1>7, <1>8, <1>9, <1>10,
     <1>11, <1>12, <1>13, <1>14, <1>15, <1>16, <1>17, <1>18, <1>19, <1>20,
     <1>21, <1>22, <1>23, <1>24, <1>25, <1>26, <1>27, <1>28, <1>29, <1>30,
     <1>31, <1>32, <1>33, <1>34, <1>35, <1>36, <1>37, NextActions

(* The type invariant of the step engine. *)
THEOREM TypeCorrect == Spec => []TypeOK
<1>1. Init => TypeOK
  <2> SUFFICES ASSUME Init PROVE TypeOK
    OBVIOUS
  <2> USE StepsAssumption, ContentsAssumption DEF Init
  <2>1. HostOK
    BY DEF HostOK
  <2>2. StateOK
    BY DEF StateOK, Steps
  <2>3. ProcessOK
    <3>1. <<>> \in Seq(Steps)
      OBVIOUS
    <3>2. plan \in Seq(Steps) /\ at \in Nat \ {0} /\ want \in Versions
      BY <3>1, AnyVersionType
    <3> QED BY <3>2 DEF ProcessOK
  <2>4. HistoryOK
    BY DEF HistoryOK
  <2>5. TodoOK
    BY DEF TodoOK
  <2> QED BY <2>1, <2>2, <2>3, <2>4, <2>5 DEF TypeOK
<1>2. TypeOK /\ [Next]_vars => TypeOK'
  BY TypeStep
<1> QED BY <1>1, <1>2, PTL DEF Spec
=============================================================================
