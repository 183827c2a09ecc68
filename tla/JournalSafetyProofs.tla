------------------------- MODULE JournalSafetyProofs -------------------------
(* The safety of the step engine: nothing changes that the journal on disk *)
(* cannot put back, and a backup is what the file was.                     *)
EXTENDS JournalInvariant, JournalProofs

InHand == Control /\ FileInHand /\ CmdInHand /\ UnitInHand /\ LeavingInHand /\ NothingKept
Safe == WriteAhead /\ BackupHoldsOriginal /\ PriorIsOriginal

(* A process that has ended, or an apply between two steps, has nothing in *)
(* hand.                                                                   *)
LEMMA ExitInHand ==
  ASSUME UnitInHand, UNCHANGED <<unit, unitBefore>>, Exit
  PROVE  InHand'
BY DEF Exit, InHand, Control, FileInHand, CmdInHand, UnitInHand, LeavingInHand, NothingKept

LEMMA AdvanceInHand ==
  ASSUME UnitInHand, UNCHANGED unitBefore,
         \A u \in Units : unit'[u] = "unknown" <=> unit[u] = "unknown",
         op = "apply", Advance
  PROVE  InHand'
BY DEF Advance, InHand, Control, FileInHand, CmdInHand, UnitInHand, LeavingInHand, NothingKept

(* Safety only looks at the disk. *)
LEMMA SafeFrame == ASSUME Safe, UNCHANGED <<host, state, history>> PROVE Safe'
BY DEF Safe, WriteAhead, FilesLogged, UnitsLogged, CommandsLogged, BackupHoldsOriginal,
       PriorIsOriginal, Journaled, host, state, history

(* Every action of the engine keeps the invariant. *)
LEMMA SafetyStep ==
  ASSUME SureReads, TypeOK, TypeOK', InHand, Safe, [Next]_vars
  PROVE  InHand' /\ Safe'
<1> USE StepsAssumption, ContentsAssumption, NoRecAssumption DEF TypeOK, Journaled
<1>1. ASSUME NEW p \in Plans, NEW v \in Versions, StartApply(p, v) PROVE InHand' /\ Safe'
  <2>1. InHand'
    <3>1. Control'
      BY <1>1
      DEF Control, StartApply, Continue, InHand, Steps, host, state, history
    <3>2. FileInHand'
      BY <1>1
      DEF FileInHand, StartApply, Continue, Control, BackupHoldsOriginal,
          Safe, HostOK, StateOK, HistoryOK, InHand, Steps, host, state,
          history
    <3>3. CmdInHand'
      BY <1>1
      DEF CmdInHand, StartApply, Continue, Control, Safe, WriteAhead,
          CommandsLogged, UnitsLogged, HostOK, StateOK, HistoryOK, InHand,
          Steps, host, state, history
    <3>4. UnitInHand'
      BY <1>1
      DEF UnitInHand, StartApply, Continue, Control, Safe, WriteAhead,
          CommandsLogged, UnitsLogged, HostOK, StateOK, HistoryOK, InHand,
          Steps, host, state, history
    <3>5. LeavingInHand'
      BY <1>1
      DEF LeavingInHand, StartApply, Continue, Control, FileInHand, Clean,
          Safe, WriteAhead, CommandsLogged, PriorIsOriginal, HostOK,
          StateOK, HistoryOK, InHand, Steps, host, state, history
    <3>6. NothingKept'
      BY <1>1
      DEF NothingKept, StartApply, Continue, Control, JournaledSteps,
          FileInHand, StateOK, InHand, Steps, host, state, history
    <3> QED BY <3>1, <3>2, <3>3, <3>4, <3>5, <3>6 DEF InHand
  <2>2. Safe'
    BY <1>1, SafeFrame DEF StartApply, host, state, history
  <2> QED BY <2>1, <2>2
<1>2. CASE FinishApply
  <2>1. InHand'
    BY <1>2, ExitInHand DEF FinishApply, InHand, host, history
  <2>2. Safe'
    BY <1>2, SafeFrame DEF FinishApply, host, state, history
  <2> QED BY <2>1, <2>2
<1>3. ASSUME NEW f \in Files, FileUnchanged(f) PROVE InHand' /\ Safe'
  <2>1. InHand'
    BY <1>3, AdvanceInHand DEF FileUnchanged, Taking, InHand, host, history
  <2>2. Safe'
    BY <1>3, SafeFrame DEF FileUnchanged, host, state, history
  <2> QED BY <2>1, <2>2
<1>4. ASSUME NEW f \in Files, BackUpFile(f) PROVE InHand' /\ Safe'
  <2>1. InHand'
    BY <1>4
    DEF InHand, Control, FileInHand, CmdInHand, UnitInHand, LeavingInHand,
        NothingKept, BackUpFile, Continue, Steps, host, state, history,
        HostOK, StateOK, HistoryOK, Taking
  <2>2. Safe'
    BY <1>4
    DEF Safe, WriteAhead, FilesLogged, UnitsLogged, CommandsLogged,
        BackupHoldsOriginal, PriorIsOriginal, InHand, Control, FileInHand,
        CmdInHand, UnitInHand, LeavingInHand, NothingKept, BackUpFile, Exit,
        Continue, Steps, host, state, history, HostOK, StateOK, HistoryOK,
        Taking
  <2> QED BY <2>1, <2>2
<1>5. ASSUME NEW f \in Files, TearBackup(f) PROVE InHand' /\ Safe'
  <2>1. InHand'
    BY <1>5, ExitInHand DEF TearBackup, InHand, host, history
  <2>2. Safe'
    BY <1>5
    DEF Safe, WriteAhead, FilesLogged, UnitsLogged, CommandsLogged,
        BackupHoldsOriginal, PriorIsOriginal, InHand, Control, FileInHand,
        CmdInHand, UnitInHand, LeavingInHand, NothingKept, TearBackup, Exit,
        Continue, Steps, host, state, history, HostOK, StateOK, HistoryOK
  <2> QED BY <2>1, <2>2
<1>6. ASSUME NEW f \in Files, JournalFile(f) PROVE InHand' /\ Safe'
  <2>0. PICK r \in FileRec :
          /\ Put(f, r)
          /\ IF r.existed THEN before[f] # Absent /\ backup[f] = before[f] ELSE before[f] = Absent
    <3>1. CASE Taking(f) /\ ~Journaled(f) /\ file[f] = Absent
      <4>1. before[f] = Absent
        BY <3>1 DEF Safe, WriteAhead, FilesLogged
      <4>2. [new |-> want, existed |-> FALSE, made |-> MissingDir(f)] \in FileRec
        BY DEF FileRec, ProcessOK, MissingDir
      <4> QED BY <1>6, <3>1, <4>1, <4>2 DEF JournalFile, FileInHand, InHand, Taking
    <3>2. CASE op = "apply" /\ pc = "journal" /\ cur = f
      <4>1. before[f] # Absent /\ backup[f] = before[f]
        BY <3>2 DEF InHand, FileInHand, Safe, WriteAhead, FilesLogged
      <4>2. [new |-> want, existed |-> TRUE, made |-> FALSE] \in FileRec
        BY DEF FileRec, ProcessOK
      <4> QED BY <1>6, <3>2, <4>1, <4>2 DEF JournalFile, Taking
    <3>3. CASE Taking(f) /\ Journaled(f) /\ ~Unchanged(f)
      <4>1. journal[f] \in FileRec
        BY <3>3 DEF StateOK
      <4>2. [journal[f] EXCEPT !.new = want] \in FileRec
        BY <4>1 DEF FileRec, ProcessOK
      <4>3. [journal[f] EXCEPT !.new = want].existed = journal[f].existed
        BY <4>1 DEF FileRec
      <4> QED BY <1>6, <3>3, <4>2, <4>3 DEF JournalFile, Taking, Safe, BackupHoldsOriginal
    <3> QED BY <1>6, <3>1, <3>2, <3>3 DEF JournalFile
  <2>1. InHand'
    <3>1. Control'
      BY <1>6, <2>0
      DEF Control, JournalFile, Continue, InHand, Steps, host, state,
          history, Put, Taking, JournaledSteps
    <3>2. FileInHand'
      BY <1>6, <2>0
      DEF FileInHand, JournalFile, Continue, Control, BackupHoldsOriginal,
          Safe, HostOK, StateOK, HistoryOK, InHand, Steps, host, state,
          history, Put, Taking, JournaledSteps
    <3>3. CmdInHand'
      BY <1>6, <2>0
      DEF CmdInHand, JournalFile, Continue, Control, Safe, WriteAhead,
          CommandsLogged, UnitsLogged, HostOK, StateOK, HistoryOK, InHand,
          Steps, host, state, history, Put, Taking, JournaledSteps
    <3>4. UnitInHand'
      BY <1>6, <2>0
      DEF UnitInHand, JournalFile, Continue, Control, Safe, WriteAhead,
          CommandsLogged, UnitsLogged, HostOK, StateOK, HistoryOK, InHand,
          Steps, host, state, history, Put, Taking, JournaledSteps
    <3>5. LeavingInHand'
      BY <1>6, <2>0
      DEF LeavingInHand, JournalFile, Continue, Control, FileInHand, Clean,
          Safe, WriteAhead, CommandsLogged, PriorIsOriginal, HostOK,
          StateOK, HistoryOK, InHand, Steps, host, state, history, Put,
          Taking, JournaledSteps
    <3>6. NothingKept'
      BY <1>6, <2>0
      DEF NothingKept, JournalFile, Continue, Control, JournaledSteps,
          FileInHand, StateOK, InHand, Steps, host, state, history, Put,
          Taking
    <3> QED BY <3>1, <3>2, <3>3, <3>4, <3>5, <3>6 DEF InHand
  <2>2. Safe'
    <3>1. FilesLogged'
      BY <1>6, <2>0
      DEF FilesLogged, BackupHoldsOriginal, FileInHand, Safe, WriteAhead,
          InHand, Control, LeavingInHand, JournalFile, Continue, Exit,
          Steps, host, state, history, HostOK, StateOK, HistoryOK, Put,
          Taking, JournaledSteps
    <3>2. UnitsLogged'
      BY <1>6, <2>0
      DEF UnitsLogged, UnitInHand, PriorIsOriginal, Safe, WriteAhead,
          InHand, Control, LeavingInHand, JournalFile, Continue, Exit,
          Steps, host, state, history, HostOK, StateOK, HistoryOK, Put,
          Taking, JournaledSteps
    <3>3. CommandsLogged'
      BY <1>6, <2>0
      DEF CommandsLogged, CmdInHand, Safe, WriteAhead, InHand, Control,
          LeavingInHand, JournalFile, Continue, Exit, Steps, host, state,
          history, HostOK, StateOK, HistoryOK, Put, Taking, JournaledSteps
    <3>4. BackupHoldsOriginal'
      BY <1>6, <2>0
      DEF BackupHoldsOriginal, FilesLogged, FileInHand, Safe, WriteAhead,
          InHand, Control, LeavingInHand, JournalFile, Continue, Exit,
          Steps, host, state, history, HostOK, StateOK, HistoryOK, Put,
          Taking, JournaledSteps
    <3>5. PriorIsOriginal'
      BY <1>6, <2>0
      DEF PriorIsOriginal, UnitsLogged, UnitInHand, Safe, WriteAhead,
          InHand, Control, LeavingInHand, JournalFile, Continue, Exit,
          Steps, host, state, history, HostOK, StateOK, HistoryOK, Put,
          Taking, JournaledSteps
    <3> QED BY <3>1, <3>2, <3>3, <3>4, <3>5 DEF Safe, WriteAhead
  <2> QED BY <2>1, <2>2
<1>7. ASSUME NEW f \in Files, MakeTemp(f) PROVE InHand' /\ Safe'
  <2>1. InHand'
    <3>1. Control'
      BY <1>7
      DEF Control, MakeTemp, Continue, InHand, Steps, host, state, history
    <3>2. FileInHand'
      BY <1>7
      DEF FileInHand, MakeTemp, Continue, Control, BackupHoldsOriginal,
          Safe, HostOK, StateOK, HistoryOK, InHand, Steps, host, state,
          history
    <3>3. CmdInHand'
      BY <1>7
      DEF CmdInHand, MakeTemp, Continue, Control, Safe, WriteAhead,
          CommandsLogged, UnitsLogged, HostOK, StateOK, HistoryOK, InHand,
          Steps, host, state, history
    <3>4. UnitInHand'
      BY <1>7
      DEF UnitInHand, MakeTemp, Continue, Control, Safe, WriteAhead,
          CommandsLogged, UnitsLogged, HostOK, StateOK, HistoryOK, InHand,
          Steps, host, state, history
    <3>5. LeavingInHand'
      BY <1>7
      DEF LeavingInHand, MakeTemp, Continue, Control, FileInHand, Clean,
          Safe, WriteAhead, CommandsLogged, PriorIsOriginal, HostOK,
          StateOK, HistoryOK, InHand, Steps, host, state, history
    <3>6. NothingKept'
      BY <1>7
      DEF NothingKept, MakeTemp, Continue, Control, JournaledSteps,
          FileInHand, StateOK, InHand, Steps, host, state, history
    <3> QED BY <3>1, <3>2, <3>3, <3>4, <3>5, <3>6 DEF InHand
  <2>2. Safe'
    BY <1>7
    DEF Safe, WriteAhead, FilesLogged, UnitsLogged, CommandsLogged,
        BackupHoldsOriginal, PriorIsOriginal, InHand, Control, FileInHand,
        CmdInHand, UnitInHand, LeavingInHand, NothingKept, MakeTemp, Exit,
        Continue, Steps, host, state, history, HostOK, StateOK, HistoryOK
  <2> QED BY <2>1, <2>2
<1>8. ASSUME NEW f \in Files, RenameTemp(f) PROVE InHand' /\ Safe'
  <2>1. InHand'
    <3>1. Control'
      BY <1>8
      DEF Control, RenameTemp, Continue, InHand, Steps, host, state, history
    <3>2. FileInHand'
      BY <1>8
      DEF FileInHand, RenameTemp, Continue, Control, BackupHoldsOriginal,
          Safe, HostOK, StateOK, HistoryOK, InHand, Steps, host, state,
          history
    <3>3. CmdInHand'
      BY <1>8
      DEF CmdInHand, RenameTemp, Continue, Control, Safe, WriteAhead,
          CommandsLogged, UnitsLogged, HostOK, StateOK, HistoryOK, InHand,
          Steps, host, state, history
    <3>4. UnitInHand'
      BY <1>8
      DEF UnitInHand, RenameTemp, Continue, Control, Safe, WriteAhead,
          CommandsLogged, UnitsLogged, HostOK, StateOK, HistoryOK, InHand,
          Steps, host, state, history
    <3>5. LeavingInHand'
      BY <1>8
      DEF LeavingInHand, RenameTemp, Continue, Control, FileInHand, Clean,
          Safe, WriteAhead, CommandsLogged, PriorIsOriginal, HostOK,
          StateOK, HistoryOK, InHand, Steps, host, state, history
    <3>6. NothingKept'
      BY <1>8
      DEF NothingKept, RenameTemp, Continue, Control, JournaledSteps,
          FileInHand, StateOK, InHand, Steps, host, state, history
    <3> QED BY <3>1, <3>2, <3>3, <3>4, <3>5, <3>6 DEF InHand
  <2>2. Safe'
    BY <1>8
    DEF Safe, WriteAhead, FilesLogged, UnitsLogged, CommandsLogged,
        BackupHoldsOriginal, PriorIsOriginal, InHand, Control, FileInHand,
        CmdInHand, UnitInHand, LeavingInHand, NothingKept, RenameTemp, Exit,
        Continue, Steps, host, state, history, HostOK, StateOK, HistoryOK
  <2> QED BY <2>1, <2>2
<1>9. ASSUME NEW f \in Files, Relabel(f) PROVE InHand' /\ Safe'
  <2>1. CASE op = "apply"
    <3>1. InHand'
      BY <1>9, <2>1, AdvanceInHand DEF Relabel, InHand, history
    <3>2. Safe'
      BY <1>9
      DEF Safe, WriteAhead, FilesLogged, UnitsLogged, CommandsLogged,
          BackupHoldsOriginal, PriorIsOriginal, Relabel, host, state,
          history
    <3> QED BY <3>1, <3>2
  <2>2. CASE op # "apply"
    <3>1. InHand'
      BY <1>9, <2>2
      DEF InHand, Control, FileInHand, CmdInHand, UnitInHand, LeavingInHand,
          NothingKept, Relabel, Continue, Clean, JournaledSteps, Steps,
          ProcessOK, state, history
    <3>2. Safe'
      BY <1>9
      DEF Safe, WriteAhead, FilesLogged, UnitsLogged, CommandsLogged,
          BackupHoldsOriginal, PriorIsOriginal, Relabel, host, state,
          history
    <3> QED BY <3>1, <3>2
  <2> QED BY <2>1, <2>2
<1>10. ASSUME NEW c \in Cmds, CmdAlreadyApplied(c) PROVE InHand' /\ Safe'
  <2>1. InHand'
    BY <1>10, AdvanceInHand DEF CmdAlreadyApplied, Taking, InHand, host, history
  <2>2. Safe'
    BY <1>10, SafeFrame DEF CmdAlreadyApplied, host, state, history
  <2> QED BY <2>1, <2>2
<1>11. ASSUME NEW c \in Cmds, JournalCmd(c) PROVE InHand' /\ Safe'
  <2>0. PICK r \in CmdRec :
          /\ Put(c, r) /\ r.undo = UndoOf(c)
          /\ c \notin NoUndo => r.undo \/ effect[c] # NoEffect
          /\ c \notin NoUndo /\ Journaled(c) /\ journal[c].undo => r.undo
    <3>1. [input |-> want, undo |-> UndoOf(c)] \in CmdRec
      BY DEF CmdRec, UndoOf, ProcessOK
    <3>2. c \notin NoUndo => UndoOf(c) \/ effect[c] # NoEffect
      BY DEF UndoOf
    <3>3. c \notin NoUndo /\ Journaled(c) /\ journal[c].undo => UndoOf(c)
      BY DEF UndoOf
    <3> HIDE DEF UndoOf
    <3> QED BY <1>11, <3>1, <3>2, <3>3 DEF JournalCmd
  <2>1. InHand'
    <3>1. Control'
      BY <1>11, <2>0
      DEF Control, JournalCmd, Continue, InHand, Steps, host, state,
          history, Put, Taking
    <3>2. FileInHand'
      BY <1>11, <2>0
      DEF FileInHand, JournalCmd, Continue, Control, BackupHoldsOriginal,
          Safe, HostOK, StateOK, HistoryOK, InHand, Steps, host, state,
          history, Put, Taking
    <3>3. CmdInHand'
      BY <1>11, <2>0
      DEF CmdInHand, JournalCmd, Continue, Control, Safe, WriteAhead,
          CommandsLogged, UnitsLogged, HostOK, StateOK, HistoryOK, InHand,
          Steps, host, state, history, Put, Taking
    <3>4. UnitInHand'
      BY <1>11, <2>0
      DEF UnitInHand, JournalCmd, Continue, Control, Safe, WriteAhead,
          CommandsLogged, UnitsLogged, HostOK, StateOK, HistoryOK, InHand,
          Steps, host, state, history, Put, Taking
    <3>5. LeavingInHand'
      BY <1>11, <2>0
      DEF LeavingInHand, JournalCmd, Continue, Control, FileInHand, Clean,
          Safe, WriteAhead, CommandsLogged, PriorIsOriginal, HostOK,
          StateOK, HistoryOK, InHand, Steps, host, state, history, Put,
          Taking
    <3>6. NothingKept'
      BY <1>11, <2>0
      DEF NothingKept, JournalCmd, Continue, Control, JournaledSteps,
          FileInHand, StateOK, InHand, Steps, host, state, history, Put,
          Taking
    <3> QED BY <3>1, <3>2, <3>3, <3>4, <3>5, <3>6 DEF InHand
  <2>2. Safe'
    <3>1. FilesLogged'
      BY <1>11, <2>0
      DEF FilesLogged, BackupHoldsOriginal, FileInHand, Safe, WriteAhead,
          InHand, Control, LeavingInHand, JournalCmd, Continue, Exit, Steps,
          host, state, history, HostOK, StateOK, HistoryOK, Put, Taking
    <3>2. UnitsLogged'
      BY <1>11, <2>0
      DEF UnitsLogged, UnitInHand, PriorIsOriginal, Safe, WriteAhead,
          InHand, Control, LeavingInHand, JournalCmd, Continue, Exit, Steps,
          host, state, history, HostOK, StateOK, HistoryOK, Put, Taking
    <3>3. CommandsLogged'
      BY <1>11, <2>0
      DEF CommandsLogged, CmdInHand, Safe, WriteAhead, InHand, Control,
          LeavingInHand, JournalCmd, Continue, Exit, Steps, host, state,
          history, HostOK, StateOK, HistoryOK, Put, Taking
    <3>4. BackupHoldsOriginal'
      BY <1>11, <2>0
      DEF BackupHoldsOriginal, FilesLogged, FileInHand, Safe, WriteAhead,
          InHand, Control, LeavingInHand, JournalCmd, Continue, Exit, Steps,
          host, state, history, HostOK, StateOK, HistoryOK, Put, Taking
    <3>5. PriorIsOriginal'
      BY <1>11, <2>0
      DEF PriorIsOriginal, UnitsLogged, UnitInHand, Safe, WriteAhead,
          InHand, Control, LeavingInHand, JournalCmd, Continue, Exit, Steps,
          host, state, history, HostOK, StateOK, HistoryOK, Put, Taking
    <3> QED BY <3>1, <3>2, <3>3, <3>4, <3>5 DEF Safe, WriteAhead
  <2> QED BY <2>1, <2>2
<1>12. ASSUME NEW c \in Cmds, RunCmd(c) PROVE InHand' /\ Safe'
  <2>1. InHand'
    BY <1>12, AdvanceInHand DEF RunCmd, Control, InHand, host, history
  <2>2. Safe'
    BY <1>12
    DEF Safe, WriteAhead, FilesLogged, UnitsLogged, CommandsLogged,
        BackupHoldsOriginal, PriorIsOriginal, InHand, Control, FileInHand,
        CmdInHand, UnitInHand, LeavingInHand, NothingKept, RunCmd, Exit,
        Continue, Steps, host, state, history, HostOK, StateOK, HistoryOK
  <2> QED BY <2>1, <2>2
<1>13. ASSUME NEW c \in Cmds, RunCmdFails(c) PROVE InHand' /\ Safe'
  <2>1. InHand'
    BY <1>13
    DEF InHand, Control, FileInHand, CmdInHand, UnitInHand, LeavingInHand,
        NothingKept, RunCmdFails, Continue, Steps, host, state, history,
        HostOK, StateOK, HistoryOK
  <2>2. Safe'
    BY <1>13, SafeFrame DEF RunCmdFails, host, state, history
  <2> QED BY <2>1, <2>2
<1>14. ASSUME NEW u \in Units, UnitAlreadyApplied(u) PROVE InHand' /\ Safe'
  <2>1. InHand'
    BY <1>14, AdvanceInHand DEF UnitAlreadyApplied, Taking, InHand, host, history
  <2>2. Safe'
    BY <1>14, SafeFrame DEF UnitAlreadyApplied, host, state, history
  <2> QED BY <2>1, <2>2
<1>15. ASSUME NEW u \in Units, JournalUnit(u) PROVE InHand' /\ Safe'
  <2>0. PICK r \in UnitRec : Put(u, r) /\ r.prior = unitBefore[u] /\ unit[u] = unitBefore[u]
    <3>1. unit[u] = unitBefore[u] /\ unit[u] \in UnitStates
      BY <1>15 DEF JournalUnit, Safe, WriteAhead, UnitsLogged, HostOK
    <3>2. \A prior \in Answers(u) : u \in EnableSet \/ prior # "unknown" => prior = unit[u]
      BY DEF Answers, SureReads
    <3>3. [prior |-> unit[u]] \in UnitRec
      BY <3>1 DEF UnitRec
    <3> QED BY <1>15, <3>1, <3>2, <3>3 DEF JournalUnit
  <2>1. InHand'
    <3>1. Control'
      BY <1>15, <2>0
      DEF Control, JournalUnit, Continue, InHand, Steps, host, state,
          history, Put, Answers, Taking, SureReads
    <3>2. FileInHand'
      BY <1>15, <2>0
      DEF FileInHand, JournalUnit, Continue, Control, BackupHoldsOriginal,
          Safe, HostOK, StateOK, HistoryOK, InHand, Steps, host, state,
          history, Put, Answers, Taking, SureReads
    <3>3. CmdInHand'
      BY <1>15, <2>0
      DEF CmdInHand, JournalUnit, Continue, Control, Safe, WriteAhead,
          CommandsLogged, UnitsLogged, HostOK, StateOK, HistoryOK, InHand,
          Steps, host, state, history, Put, Answers, Taking, SureReads
    <3>4. UnitInHand'
      BY <1>15, <2>0
      DEF UnitInHand, JournalUnit, Continue, Control, Safe, WriteAhead,
          CommandsLogged, UnitsLogged, HostOK, StateOK, HistoryOK, InHand,
          Steps, host, state, history, Put, Answers, Taking, SureReads
    <3>5. LeavingInHand'
      BY <1>15, <2>0
      DEF LeavingInHand, JournalUnit, Continue, Control, FileInHand, Clean,
          Safe, WriteAhead, CommandsLogged, PriorIsOriginal, HostOK,
          StateOK, HistoryOK, InHand, Steps, host, state, history, Put,
          Answers, Taking, SureReads
    <3>6. NothingKept'
      BY <1>15, <2>0
      DEF NothingKept, JournalUnit, Continue, Control, JournaledSteps,
          FileInHand, StateOK, InHand, Steps, host, state, history, Put,
          Answers, Taking, SureReads
    <3> QED BY <3>1, <3>2, <3>3, <3>4, <3>5, <3>6 DEF InHand
  <2>2. Safe'
    BY <1>15, <2>0
    DEF Safe, WriteAhead, FilesLogged, UnitsLogged, CommandsLogged,
        BackupHoldsOriginal, PriorIsOriginal, InHand, Control, FileInHand,
        CmdInHand, UnitInHand, LeavingInHand, NothingKept, JournalUnit,
        Exit, Continue, Steps, host, state, history, HostOK, StateOK,
        HistoryOK, Put, Answers, Taking, SureReads
  <2> QED BY <2>1, <2>2
<1>16. ASSUME NEW u \in Units, ResetUnit(u) PROVE InHand' /\ Safe'
  <2>1. InHand'
    BY <1>16
    DEF InHand, Control, FileInHand, CmdInHand, UnitInHand, LeavingInHand,
        NothingKept, ResetUnit, Continue, Steps, host, state, history,
        HostOK, StateOK, HistoryOK, Taking
  <2>2. Safe'
    BY <1>16, SafeFrame DEF ResetUnit, host, state, history
  <2> QED BY <2>1, <2>2
<1>17. ASSUME NEW u \in Units, SetUnit(u) PROVE InHand' /\ Safe'
  <2>1. InHand'
    BY <1>17, AdvanceInHand DEF SetUnit, Control, InHand, host, history, SetTo, Target, HostOK, UnitStates
  <2>2. Safe'
    BY <1>17
    DEF Safe, WriteAhead, FilesLogged, UnitsLogged, CommandsLogged,
        BackupHoldsOriginal, PriorIsOriginal, InHand, Control, FileInHand,
        CmdInHand, UnitInHand, LeavingInHand, NothingKept, SetUnit, Exit,
        Continue, Steps, host, state, history, HostOK, StateOK, HistoryOK,
        SetTo, Target
  <2> QED BY <2>1, <2>2
<1>18. ASSUME NEW u \in Units, SetUnitFails(u) PROVE InHand' /\ Safe'
  <2>1. InHand'
    BY <1>18
    DEF InHand, Control, FileInHand, CmdInHand, UnitInHand, LeavingInHand,
        NothingKept, SetUnitFails, Continue, Steps, host, state, history,
        HostOK, StateOK, HistoryOK, Exit
  <2>2. Safe'
    BY <1>18, SafeFrame DEF SetUnitFails, host, state, history
  <2> QED BY <2>1, <2>2
<1>19. ASSUME NEW s \in Steps, RollBack(s) PROVE InHand' /\ Safe'
  <2>1. InHand'
    BY <1>19, ExitInHand DEF RollBack, InHand, host, history
  <2>2. Safe'
    BY <1>19
    DEF Safe, WriteAhead, FilesLogged, UnitsLogged, CommandsLogged,
        BackupHoldsOriginal, PriorIsOriginal, InHand, Control, FileInHand,
        CmdInHand, UnitInHand, LeavingInHand, NothingKept, RollBack, Exit,
        Continue, Steps, host, state, history, HostOK, StateOK, HistoryOK,
        Drop
  <2> QED BY <2>1, <2>2
<1>20. ASSUME NEW f \in BOOLEAN, NEW p \in BOOLEAN, StartUndo(f, p) PROVE InHand' /\ Safe'
  <2>1. InHand'
    BY <1>20
    DEF InHand, Control, FileInHand, CmdInHand, UnitInHand, LeavingInHand,
        NothingKept, StartUndo, Continue, Steps, host, state, history,
        HostOK, StateOK, HistoryOK, JournaledSteps
  <2>2. Safe'
    BY <1>20, SafeFrame DEF StartUndo, host, state, history
  <2> QED BY <2>1, <2>2
<1>21. ASSUME NEW s \in StepUndo, NEW f \in BOOLEAN, StartUndoStep(s, f) PROVE InHand' /\ Safe'
  <2>1. InHand'
    BY <1>21
    DEF InHand, Control, FileInHand, CmdInHand, UnitInHand, LeavingInHand,
        NothingKept, StartUndoStep, Continue, Steps, host, state, history,
        HostOK, StateOK, HistoryOK, JournaledSteps
  <2>2. Safe'
    BY <1>21, SafeFrame DEF StartUndoStep, host, state, history
  <2> QED BY <2>1, <2>2
<1>22. ASSUME NEW s \in Steps, KeepData(s) PROVE InHand' /\ Safe'
  <2>1. InHand'
    <3>1. Control'
      BY <1>22
      DEF Control, KeepData, Continue, InHand, Steps, host, state, history,
          Keep
    <3>2. FileInHand'
      BY <1>22
      DEF FileInHand, KeepData, Continue, Control, BackupHoldsOriginal,
          Safe, HostOK, StateOK, HistoryOK, InHand, Steps, host, state,
          history, Keep
    <3>3. CmdInHand'
      BY <1>22
      DEF CmdInHand, KeepData, Continue, Control, Safe, WriteAhead,
          CommandsLogged, UnitsLogged, HostOK, StateOK, HistoryOK, InHand,
          Steps, host, state, history, Keep
    <3>4. UnitInHand'
      BY <1>22
      DEF UnitInHand, KeepData, Continue, Control, Safe, WriteAhead,
          CommandsLogged, UnitsLogged, HostOK, StateOK, HistoryOK, InHand,
          Steps, host, state, history, Keep
    <3>5. LeavingInHand'
      BY <1>22
      DEF LeavingInHand, KeepData, Continue, Control, FileInHand, Clean,
          Safe, WriteAhead, CommandsLogged, PriorIsOriginal, HostOK,
          StateOK, HistoryOK, InHand, Steps, host, state, history, Keep
    <3>6. NothingKept'
      BY <1>22
      DEF NothingKept, KeepData, Continue, Control, JournaledSteps,
          FileInHand, StateOK, InHand, Steps, host, state, history, Keep
    <3> QED BY <3>1, <3>2, <3>3, <3>4, <3>5, <3>6 DEF InHand
  <2>2. Safe'
    BY <1>22, SafeFrame DEF KeepData, host, state, history
  <2> QED BY <2>1, <2>2
<1>23. ASSUME NEW f \in Files, KeepChanged(f) PROVE InHand' /\ Safe'
  <2>1. InHand'
    <3>1. Control'
      BY <1>23
      DEF Control, KeepChanged, Continue, InHand, Steps, host, state,
          history, Keep
    <3>2. FileInHand'
      BY <1>23
      DEF FileInHand, KeepChanged, Continue, Control, BackupHoldsOriginal,
          Safe, HostOK, StateOK, HistoryOK, InHand, Steps, host, state,
          history, Keep
    <3>3. CmdInHand'
      BY <1>23
      DEF CmdInHand, KeepChanged, Continue, Control, Safe, WriteAhead,
          CommandsLogged, UnitsLogged, HostOK, StateOK, HistoryOK, InHand,
          Steps, host, state, history, Keep
    <3>4. UnitInHand'
      BY <1>23
      DEF UnitInHand, KeepChanged, Continue, Control, Safe, WriteAhead,
          CommandsLogged, UnitsLogged, HostOK, StateOK, HistoryOK, InHand,
          Steps, host, state, history, Keep
    <3>5. LeavingInHand'
      BY <1>23
      DEF LeavingInHand, KeepChanged, Continue, Control, FileInHand, Clean,
          Safe, WriteAhead, CommandsLogged, PriorIsOriginal, HostOK,
          StateOK, HistoryOK, InHand, Steps, host, state, history, Keep
    <3>6. NothingKept'
      BY <1>23
      DEF NothingKept, KeepChanged, Continue, Control, JournaledSteps,
          FileInHand, StateOK, InHand, Steps, host, state, history, Keep
    <3> QED BY <3>1, <3>2, <3>3, <3>4, <3>5, <3>6 DEF InHand
  <2>2. Safe'
    BY <1>23, SafeFrame DEF KeepChanged, host, state, history
  <2> QED BY <2>1, <2>2
<1>24. ASSUME NEW f \in Files, RemoveFile(f) PROVE InHand' /\ Safe'
  <2>0. Journaled(f) /\ before[f] = Absent
    BY <1>24 DEF RemoveFile, Restorable, Undoing, TodoOK, JournaledSteps, Safe, BackupHoldsOriginal
  <2>1. InHand'
    <3>1. Control'
      BY <1>24, <2>0
      DEF Control, RemoveFile, Continue, InHand, Steps, host, state,
          history, Restorable, Undoing, Gone, ChangedSinceApply,
          JournaledSteps
    <3>2. FileInHand'
      BY <1>24, <2>0
      DEF FileInHand, RemoveFile, Continue, Control, BackupHoldsOriginal,
          Safe, HostOK, StateOK, HistoryOK, InHand, Steps, host, state,
          history, Restorable, Undoing, Gone, ChangedSinceApply,
          JournaledSteps
    <3>3. CmdInHand'
      BY <1>24, <2>0
      DEF CmdInHand, RemoveFile, Continue, Control, Safe, WriteAhead,
          CommandsLogged, UnitsLogged, HostOK, StateOK, HistoryOK, InHand,
          Steps, host, state, history, Restorable, Undoing, Gone,
          ChangedSinceApply, JournaledSteps
    <3>4. UnitInHand'
      BY <1>24, <2>0
      DEF UnitInHand, RemoveFile, Continue, Control, Safe, WriteAhead,
          CommandsLogged, UnitsLogged, HostOK, StateOK, HistoryOK, InHand,
          Steps, host, state, history, Restorable, Undoing, Gone,
          ChangedSinceApply, JournaledSteps
    <3>5. LeavingInHand'
      BY <1>24, <2>0
      DEF LeavingInHand, RemoveFile, Continue, Control, FileInHand, Clean,
          Safe, WriteAhead, CommandsLogged, PriorIsOriginal, HostOK,
          StateOK, HistoryOK, InHand, Steps, host, state, history,
          Restorable, Undoing, Gone, ChangedSinceApply, JournaledSteps
    <3>6. NothingKept'
      BY <1>24, <2>0
      DEF NothingKept, RemoveFile, Continue, Control, JournaledSteps,
          FileInHand, StateOK, InHand, Steps, host, state, history,
          Restorable, Undoing, Gone, ChangedSinceApply
    <3> QED BY <3>1, <3>2, <3>3, <3>4, <3>5, <3>6 DEF InHand
  <2>2. Safe'
    <3>1. FilesLogged'
      BY <1>24, <2>0
      DEF FilesLogged, BackupHoldsOriginal, FileInHand, Safe, WriteAhead,
          InHand, Control, LeavingInHand, RemoveFile, Continue, Exit, Steps,
          host, state, history, HostOK, StateOK, HistoryOK, Restorable,
          Undoing, Gone, ChangedSinceApply, JournaledSteps
    <3>2. UnitsLogged'
      BY <1>24, <2>0
      DEF UnitsLogged, UnitInHand, PriorIsOriginal, Safe, WriteAhead,
          InHand, Control, LeavingInHand, RemoveFile, Continue, Exit, Steps,
          host, state, history, HostOK, StateOK, HistoryOK, Restorable,
          Undoing, Gone, ChangedSinceApply, JournaledSteps
    <3>3. CommandsLogged'
      BY <1>24, <2>0
      DEF CommandsLogged, CmdInHand, Safe, WriteAhead, InHand, Control,
          LeavingInHand, RemoveFile, Continue, Exit, Steps, host, state,
          history, HostOK, StateOK, HistoryOK, Restorable, Undoing, Gone,
          ChangedSinceApply, JournaledSteps
    <3>4. BackupHoldsOriginal'
      BY <1>24, <2>0
      DEF BackupHoldsOriginal, FilesLogged, FileInHand, Safe, WriteAhead,
          InHand, Control, LeavingInHand, RemoveFile, Continue, Exit, Steps,
          host, state, history, HostOK, StateOK, HistoryOK, Restorable,
          Undoing, Gone, ChangedSinceApply, JournaledSteps
    <3>5. PriorIsOriginal'
      BY <1>24, <2>0
      DEF PriorIsOriginal, UnitsLogged, UnitInHand, Safe, WriteAhead,
          InHand, Control, LeavingInHand, RemoveFile, Continue, Exit, Steps,
          host, state, history, HostOK, StateOK, HistoryOK, Restorable,
          Undoing, Gone, ChangedSinceApply, JournaledSteps
    <3> QED BY <3>1, <3>2, <3>3, <3>4, <3>5 DEF Safe, WriteAhead
  <2> QED BY <2>1, <2>2
<1>25. ASSUME NEW f \in Files, SweepDir(f) PROVE InHand' /\ Safe'
  <2>1. InHand'
    <3>1. Control'
      BY <1>25
      DEF Control, SweepDir, Continue, InHand, Steps, host, state, history,
          Clean
    <3>2. FileInHand'
      BY <1>25
      DEF FileInHand, SweepDir, Continue, Control, BackupHoldsOriginal,
          Safe, HostOK, StateOK, HistoryOK, InHand, Steps, host, state,
          history, Clean
    <3>3. CmdInHand'
      BY <1>25
      DEF CmdInHand, SweepDir, Continue, Control, Safe, WriteAhead,
          CommandsLogged, UnitsLogged, HostOK, StateOK, HistoryOK, InHand,
          Steps, host, state, history, Clean
    <3>4. UnitInHand'
      BY <1>25
      DEF UnitInHand, SweepDir, Continue, Control, Safe, WriteAhead,
          CommandsLogged, UnitsLogged, HostOK, StateOK, HistoryOK, InHand,
          Steps, host, state, history, Clean
    <3>5. LeavingInHand'
      BY <1>25
      DEF LeavingInHand, SweepDir, Continue, Control, FileInHand, Clean,
          Safe, WriteAhead, CommandsLogged, PriorIsOriginal, HostOK,
          StateOK, HistoryOK, InHand, Steps, host, state, history
    <3>6. NothingKept'
      BY <1>25
      DEF NothingKept, SweepDir, Continue, Control, JournaledSteps,
          FileInHand, StateOK, InHand, Steps, host, state, history, Clean
    <3> QED BY <3>1, <3>2, <3>3, <3>4, <3>5, <3>6 DEF InHand
  <2>2. Safe'
    BY <1>25
    DEF Safe, WriteAhead, FilesLogged, UnitsLogged, CommandsLogged,
        BackupHoldsOriginal, PriorIsOriginal, InHand, Control, FileInHand,
        CmdInHand, UnitInHand, LeavingInHand, NothingKept, SweepDir, Exit,
        Continue, Steps, host, state, history, HostOK, StateOK, HistoryOK,
        Clean
  <2> QED BY <2>1, <2>2
<1>26. ASSUME NEW f \in Files, RestoreFile(f) PROVE InHand' /\ Safe'
  <2>0. Journaled(f) /\ backup[f] = before[f] /\ (force \/ file[f] = journal[f].new)
    BY <1>26 DEF RestoreFile, Restorable, Undoing, TodoOK, JournaledSteps, Safe,
                 BackupHoldsOriginal, ChangedSinceApply, Gone
  <2>1. InHand'
    <3>1. Control'
      BY <1>26, <2>0
      DEF Control, RestoreFile, Continue, InHand, Steps, host, state,
          history, Restorable, Undoing, ChangedSinceApply, Gone,
          JournaledSteps
    <3>2. FileInHand'
      BY <1>26, <2>0
      DEF FileInHand, RestoreFile, Continue, Control, BackupHoldsOriginal,
          Safe, HostOK, StateOK, HistoryOK, InHand, Steps, host, state,
          history, Restorable, Undoing, ChangedSinceApply, Gone,
          JournaledSteps
    <3>3. CmdInHand'
      BY <1>26, <2>0
      DEF CmdInHand, RestoreFile, Continue, Control, Safe, WriteAhead,
          CommandsLogged, UnitsLogged, HostOK, StateOK, HistoryOK, InHand,
          Steps, host, state, history, Restorable, Undoing,
          ChangedSinceApply, Gone, JournaledSteps
    <3>4. UnitInHand'
      BY <1>26, <2>0
      DEF UnitInHand, RestoreFile, Continue, Control, Safe, WriteAhead,
          CommandsLogged, UnitsLogged, HostOK, StateOK, HistoryOK, InHand,
          Steps, host, state, history, Restorable, Undoing,
          ChangedSinceApply, Gone, JournaledSteps
    <3>5. LeavingInHand'
      BY <1>26, <2>0
      DEF LeavingInHand, RestoreFile, Continue, Control, FileInHand, Clean,
          Safe, WriteAhead, CommandsLogged, PriorIsOriginal, HostOK,
          StateOK, HistoryOK, InHand, Steps, host, state, history,
          Restorable, Undoing, ChangedSinceApply, Gone, JournaledSteps
    <3>6. NothingKept'
      BY <1>26, <2>0
      DEF NothingKept, RestoreFile, Continue, Control, JournaledSteps,
          FileInHand, StateOK, InHand, Steps, host, state, history,
          Restorable, Undoing, ChangedSinceApply, Gone
    <3> QED BY <3>1, <3>2, <3>3, <3>4, <3>5, <3>6 DEF InHand
  <2>2. Safe'
    BY <1>26, <2>0, SafeFrame DEF RestoreFile, host, state, history
  <2> QED BY <2>1, <2>2
<1>27. ASSUME NEW c \in Cmds, NoUndoCmd(c) PROVE InHand' /\ Safe'
  <2>1. InHand'
    <3>1. Control'
      BY <1>27
      DEF Control, NoUndoCmd, Continue, InHand, Steps, host, state, history,
          Undoing, Clean, JournaledSteps
    <3>2. FileInHand'
      BY <1>27
      DEF FileInHand, NoUndoCmd, Continue, Control, BackupHoldsOriginal,
          Safe, HostOK, StateOK, HistoryOK, InHand, Steps, host, state,
          history, Undoing, Clean, JournaledSteps
    <3>3. CmdInHand'
      BY <1>27
      DEF CmdInHand, NoUndoCmd, Continue, Control, Safe, WriteAhead,
          CommandsLogged, UnitsLogged, HostOK, StateOK, HistoryOK, InHand,
          Steps, host, state, history, Undoing, Clean, JournaledSteps
    <3>4. UnitInHand'
      BY <1>27
      DEF UnitInHand, NoUndoCmd, Continue, Control, Safe, WriteAhead,
          CommandsLogged, UnitsLogged, HostOK, StateOK, HistoryOK, InHand,
          Steps, host, state, history, Undoing, Clean, JournaledSteps
    <3>5. LeavingInHand'
      BY <1>27
      DEF LeavingInHand, NoUndoCmd, Continue, Control, FileInHand, Clean,
          Safe, WriteAhead, CommandsLogged, PriorIsOriginal, HostOK,
          StateOK, HistoryOK, InHand, Steps, host, state, history, Undoing,
          JournaledSteps
    <3>6. NothingKept'
      BY <1>27
      DEF NothingKept, NoUndoCmd, Continue, Control, JournaledSteps,
          FileInHand, StateOK, InHand, Steps, host, state, history, Undoing,
          Clean
    <3> QED BY <3>1, <3>2, <3>3, <3>4, <3>5, <3>6 DEF InHand
  <2>2. Safe'
    BY <1>27, SafeFrame DEF NoUndoCmd, host, state, history
  <2> QED BY <2>1, <2>2
<1>28. ASSUME NEW c \in Cmds, UndoCmd(c) PROVE InHand' /\ Safe'
  <2>1. InHand'
    BY <1>28
    DEF InHand, Control, FileInHand, CmdInHand, UnitInHand, LeavingInHand,
        NothingKept, UndoCmd, Continue, Steps, host, state, history, HostOK,
        StateOK, HistoryOK, Undoing, Clean, JournaledSteps
  <2>2. Safe'
    BY <1>28
    DEF Safe, WriteAhead, FilesLogged, UnitsLogged, CommandsLogged,
        BackupHoldsOriginal, PriorIsOriginal, InHand, Control, FileInHand,
        CmdInHand, UnitInHand, LeavingInHand, NothingKept, UndoCmd, Exit,
        Continue, Steps, host, state, history, HostOK, StateOK, HistoryOK,
        Undoing, Clean, JournaledSteps
  <2> QED BY <2>1, <2>2
<1>29. ASSUME NEW c \in Cmds, UndoCmdFails(c) PROVE InHand' /\ Safe'
  <2>1. InHand'
    BY <1>29, ExitInHand DEF UndoCmdFails, InHand, host, history
  <2>2. Safe'
    BY <1>29, SafeFrame DEF UndoCmdFails, host, state, history
  <2> QED BY <2>1, <2>2
<1>30. ASSUME NEW u \in Units, UndoUnit(u) PROVE InHand' /\ Safe'
  <2>0. unit'[u] = unitBefore[u]
    <3>1. journal[u] \in UnitRec /\ journal[u].prior = unitBefore[u]
      BY <1>30 DEF UndoUnit, Undoing, TodoOK, JournaledSteps, Safe, PriorIsOriginal, StateOK
    <3>2. unit[u] = "unknown" <=> unitBefore[u] = "unknown"
      BY DEF InHand, UnitInHand
    <3> QED BY <1>30, <3>1, <3>2 DEF UndoUnit, SetTo, HostOK
  <2>1. InHand'
    <3>1. Control'
      BY <1>30, <2>0
      DEF Control, UndoUnit, Continue, InHand, Steps, host, state, history,
          Undoing, Clean, SetTo, JournaledSteps
    <3>2. FileInHand'
      BY <1>30, <2>0
      DEF FileInHand, UndoUnit, Continue, Control, BackupHoldsOriginal,
          Safe, HostOK, StateOK, HistoryOK, InHand, Steps, host, state,
          history, Undoing, Clean, SetTo, JournaledSteps
    <3>3. CmdInHand'
      BY <1>30, <2>0
      DEF CmdInHand, UndoUnit, Continue, Control, Safe, WriteAhead,
          CommandsLogged, UnitsLogged, HostOK, StateOK, HistoryOK, InHand,
          Steps, host, state, history, Undoing, Clean, SetTo, JournaledSteps
    <3>4. UnitInHand'
      BY <1>30, <2>0
      DEF UnitInHand, UndoUnit, Continue, Control, Safe, WriteAhead,
          CommandsLogged, UnitsLogged, HostOK, StateOK, HistoryOK, InHand,
          Steps, host, state, history, Undoing, Clean, SetTo, JournaledSteps
    <3>5. LeavingInHand'
      BY <1>30, <2>0
      DEF LeavingInHand, UndoUnit, Continue, Control, FileInHand, Clean,
          Safe, WriteAhead, CommandsLogged, PriorIsOriginal, HostOK,
          StateOK, HistoryOK, InHand, Steps, host, state, history, Undoing,
          SetTo, JournaledSteps
    <3>6. NothingKept'
      BY <1>30, <2>0
      DEF NothingKept, UndoUnit, Continue, Control, JournaledSteps,
          FileInHand, StateOK, InHand, Steps, host, state, history, Undoing,
          Clean, SetTo
    <3> QED BY <3>1, <3>2, <3>3, <3>4, <3>5, <3>6 DEF InHand
  <2>2. Safe'
    <3>1. FilesLogged'
      BY <1>30, <2>0
      DEF FilesLogged, BackupHoldsOriginal, FileInHand, Safe, WriteAhead,
          InHand, Control, LeavingInHand, UndoUnit, Continue, Exit, Steps,
          host, state, history, HostOK, StateOK, HistoryOK, Undoing, Clean,
          SetTo, JournaledSteps
    <3>2. UnitsLogged'
      BY <1>30, <2>0
      DEF UnitsLogged, UnitInHand, PriorIsOriginal, Safe, WriteAhead,
          InHand, Control, LeavingInHand, UndoUnit, Continue, Exit, Steps,
          host, state, history, HostOK, StateOK, HistoryOK, Undoing, Clean,
          SetTo, JournaledSteps
    <3>3. CommandsLogged'
      BY <1>30, <2>0
      DEF CommandsLogged, CmdInHand, Safe, WriteAhead, InHand, Control,
          LeavingInHand, UndoUnit, Continue, Exit, Steps, host, state,
          history, HostOK, StateOK, HistoryOK, Undoing, Clean, SetTo,
          JournaledSteps
    <3>4. BackupHoldsOriginal'
      BY <1>30, <2>0
      DEF BackupHoldsOriginal, FilesLogged, FileInHand, Safe, WriteAhead,
          InHand, Control, LeavingInHand, UndoUnit, Continue, Exit, Steps,
          host, state, history, HostOK, StateOK, HistoryOK, Undoing, Clean,
          SetTo, JournaledSteps
    <3>5. PriorIsOriginal'
      BY <1>30, <2>0
      DEF PriorIsOriginal, UnitsLogged, UnitInHand, Safe, WriteAhead,
          InHand, Control, LeavingInHand, UndoUnit, Continue, Exit, Steps,
          host, state, history, HostOK, StateOK, HistoryOK, Undoing, Clean,
          SetTo, JournaledSteps
    <3> QED BY <3>1, <3>2, <3>3, <3>4, <3>5 DEF Safe, WriteAhead
  <2> QED BY <2>1, <2>2
<1>31. ASSUME NEW s \in Steps, Forget(s) PROVE InHand' /\ Safe'
  <2>1. InHand'
    BY <1>31
    DEF InHand, Control, FileInHand, CmdInHand, UnitInHand, LeavingInHand,
        NothingKept, Forget, Continue, Steps, host, state, history, HostOK,
        StateOK, HistoryOK, Drop, Clean, JournaledSteps
  <2>2. Safe'
    BY <1>31
    DEF Safe, WriteAhead, FilesLogged, UnitsLogged, CommandsLogged,
        BackupHoldsOriginal, PriorIsOriginal, InHand, Control, FileInHand,
        CmdInHand, UnitInHand, LeavingInHand, NothingKept, Forget, Exit,
        Continue, Steps, host, state, history, HostOK, StateOK, HistoryOK,
        Drop, Clean, JournaledSteps
  <2> QED BY <2>1, <2>2
<1>32. CASE FinishUndo
  <2>1. InHand'
    BY <1>32, ExitInHand DEF FinishUndo, InHand, host, history
  <2>2. Safe'
    BY <1>32
    DEF Safe, WriteAhead, FilesLogged, UnitsLogged, CommandsLogged,
        BackupHoldsOriginal, PriorIsOriginal, InHand, Control, FileInHand,
        CmdInHand, UnitInHand, LeavingInHand, NothingKept, FinishUndo, Exit,
        Continue, Steps, host, state, history, HostOK, StateOK, HistoryOK,
        JournaledSteps
  <2> QED BY <2>1, <2>2
<1>33. CASE Stop
  <2>1. InHand'
    BY <1>33, ExitInHand DEF Stop, InHand, host, history
  <2>2. Safe'
    BY <1>33
    DEF Safe, WriteAhead, FilesLogged, UnitsLogged, CommandsLogged,
        BackupHoldsOriginal, PriorIsOriginal, InHand, Control, FileInHand,
        CmdInHand, UnitInHand, LeavingInHand, NothingKept, Stop, Exit,
        Continue, Steps, host, state, history, HostOK, StateOK, HistoryOK
  <2> QED BY <2>1, <2>2
<1>34. ASSUME NEW f \in Files, NEW x \in Foreign \cup {Absent}, EditFile(f, x) PROVE InHand' /\ Safe'
  <2>1. InHand'
    BY <1>34
    DEF InHand, Control, FileInHand, CmdInHand, UnitInHand, LeavingInHand,
        NothingKept, EditFile, Continue, Steps, host, state, history,
        HostOK, StateOK, HistoryOK, process, Idle
  <2>2. Safe'
    BY <1>34
    DEF Safe, WriteAhead, FilesLogged, UnitsLogged, CommandsLogged,
        BackupHoldsOriginal, PriorIsOriginal, InHand, Control, FileInHand,
        CmdInHand, UnitInHand, LeavingInHand, NothingKept, EditFile, Exit,
        Continue, Steps, host, state, history, HostOK, StateOK, HistoryOK,
        process, Idle
  <2> QED BY <2>1, <2>2
<1>35. ASSUME NEW u \in Units, SwitchUnit(u) PROVE InHand' /\ Safe'
  <2>1. InHand'
    BY <1>35
    DEF InHand, Control, FileInHand, CmdInHand, UnitInHand, LeavingInHand,
        NothingKept, SwitchUnit, Continue, Steps, host, state, history,
        HostOK, StateOK, HistoryOK, process, Idle
  <2>2. Safe'
    BY <1>35
    DEF Safe, WriteAhead, FilesLogged, UnitsLogged, CommandsLogged,
        BackupHoldsOriginal, PriorIsOriginal, InHand, Control, FileInHand,
        CmdInHand, UnitInHand, LeavingInHand, NothingKept, SwitchUnit, Exit,
        Continue, Steps, host, state, history, HostOK, StateOK, HistoryOK,
        process, Idle
  <2> QED BY <2>1, <2>2
<1>36. ASSUME NEW c \in Cmds, LoseEffect(c) PROVE InHand' /\ Safe'
  <2>1. InHand'
    BY <1>36
    DEF InHand, Control, FileInHand, CmdInHand, UnitInHand, LeavingInHand,
        NothingKept, LoseEffect, Continue, Steps, host, state, history,
        HostOK, StateOK, HistoryOK, process, Idle
  <2>2. Safe'
    BY <1>36
    DEF Safe, WriteAhead, FilesLogged, UnitsLogged, CommandsLogged,
        BackupHoldsOriginal, PriorIsOriginal, InHand, Control, FileInHand,
        CmdInHand, UnitInHand, LeavingInHand, NothingKept, LoseEffect, Exit,
        Continue, Steps, host, state, history, HostOK, StateOK, HistoryOK,
        process, Idle
  <2> QED BY <2>1, <2>2
<1>37. CASE UNCHANGED vars
  BY <1>37, SafeFrame
  DEF InHand, Control, FileInHand, CmdInHand, UnitInHand, LeavingInHand,
      NothingKept, vars, host, state, process, history, JournaledSteps,
      Clean
<1> QED BY <1>1, <1>2, <1>3, <1>4, <1>5, <1>6, <1>7, <1>8, <1>9, <1>10,
     <1>11, <1>12, <1>13, <1>14, <1>15, <1>16, <1>17, <1>18, <1>19, <1>20,
     <1>21, <1>22, <1>23, <1>24, <1>25, <1>26, <1>27, <1>28, <1>29, <1>30,
     <1>31, <1>32, <1>33, <1>34, <1>35, <1>36, <1>37, NextActions

LEMMA SafetyInit == Init => InHand /\ Safe
BY StepsAssumption, ContentsAssumption, NoRecAssumption
DEF Init, InHand, Safe, Control, FileInHand, CmdInHand, UnitInHand, LeavingInHand, NothingKept,
    WriteAhead, FilesLogged, UnitsLogged, CommandsLogged, BackupHoldsOriginal, PriorIsOriginal,
    Journaled, Steps

(* The inductive invariant holds in every state of the engine. *)
THEOREM Invariance == ASSUME SureReads PROVE Spec => []IInv
<1>1. Init => InHand /\ Safe
  BY SafetyInit
<1>2. TypeOK /\ TypeOK' /\ InHand /\ Safe /\ [Next]_vars => InHand' /\ Safe'
  BY SureReads, SafetyStep
<1>3. TypeOK /\ InHand /\ Safe => IInv
  BY DEF IInv, InHand, Safe
<1> QED BY <1>1, <1>2, <1>3, TypeCorrect, PTL DEF Spec

(* Nothing on the host differs from what it was unless the journal on disk *)
(* says how to put it back (or a failed re-run gave it up), at every point *)
(* where the process may be killed.                                        *)
THEOREM WriteAheadHolds == ASSUME SureReads PROVE Spec => []WriteAhead
<1>1. IInv => WriteAhead
  BY DEF IInv
<1> QED BY <1>1, Invariance, PTL

(* A journaled backup holds the bytes the file had before orthogonals.     *)
THEOREM BackupsHold == ASSUME SureReads PROVE Spec => []BackupHoldsOriginal
<1>1. IInv => BackupHoldsOriginal
  BY DEF IInv
<1> QED BY <1>1, Invariance, PTL
(* What undo would set a unit to is the state the administrator had chosen. *)
THEOREM PriorsHold == ASSUME SureReads PROVE Spec => []PriorIsOriginal
<1>1. IInv => PriorIsOriginal
  BY DEF IInv
<1> QED BY <1>1, Invariance, PTL

-----------------------------------------------------------------------------
(* Labels, first answers and edits                                           *)

(* Every action keeps what the labels say, whether queries are answered or *)
(* not.                                                                    *)
LEMMA LabelStep ==
  ASSUME TypeOK, Labelled, [Next]_vars
  PROVE  Labelled'
<1> USE StepsAssumption, ContentsAssumption, NoRecAssumption DEF TypeOK, Journaled, Steps
<1>1. ASSUME NEW p \in Plans, NEW v \in Versions, StartApply(p, v) PROVE Labelled'
  BY <1>1
  DEF StartApply, Idle, Labelled, Control, HandLabels, NothingKept, NoUndoRecorded,
      JournaledSteps, StateOK, HostOK, host, state, process
<1>2. CASE FinishApply
  BY <1>2
  DEF FinishApply, Exit, Labelled, Control, HandLabels, NothingKept, NoUndoRecorded,
      JournaledSteps, StateOK, HostOK, host, state, process
<1>3. ASSUME NEW f \in Files, FileUnchanged(f) PROVE Labelled'
  BY <1>3
  DEF FileUnchanged, Taking, Advance, Labelled, Control, HandLabels, NothingKept,
      NoUndoRecorded, JournaledSteps, StateOK, HostOK, host, state, process
<1>4. ASSUME NEW f \in Files, BackUpFile(f) PROVE Labelled'
  BY <1>4
  DEF BackUpFile, Taking, Continue, Labelled, Control, HandLabels, NothingKept,
      NoUndoRecorded, JournaledSteps, StateOK, HostOK, host, state, process
<1>5. ASSUME NEW f \in Files, TearBackup(f) PROVE Labelled'
  BY <1>5
  DEF TearBackup, Exit, Labelled, Control, HandLabels, NothingKept, NoUndoRecorded,
      JournaledSteps, StateOK, HostOK, host, state, process
<1>6. ASSUME NEW f \in Files, JournalFile(f) PROVE Labelled'
  <2>0. PICK r \in FileRec : Put(f, r)
    <3>1. [new |-> want, existed |-> FALSE, made |-> MissingDir(f)] \in FileRec
      BY DEF FileRec, ProcessOK, MissingDir
    <3>2. [new |-> want, existed |-> TRUE, made |-> FALSE] \in FileRec
      BY DEF FileRec, ProcessOK
    <3>3. Journaled(f) => [journal[f] EXCEPT !.new = want] \in FileRec
      <4>1. Journaled(f) => journal[f] \in FileRec
        BY DEF StateOK
      <4> QED BY <4>1 DEF FileRec, ProcessOK
    <3> QED BY <1>6, <3>1, <3>2, <3>3 DEF JournalFile, Taking
  <2>1. Control'
    BY <1>6, <2>0
    DEF JournalFile, Taking, Continue, Put, Labelled, Control, HandLabels,
        JournaledSteps, StateOK, HostOK, host, state, process
  <2>2. HandLabels'
    BY <1>6, <2>0
    DEF JournalFile, Taking, Continue, Put, Labelled, Control, HandLabels,
        JournaledSteps, StateOK, HostOK, host, state, process
  <2>3. NothingKept'
    BY <1>6, <2>0
    DEF JournalFile, Taking, Continue, Put, Labelled, Control, HandLabels, NothingKept,
        JournaledSteps, StateOK, HostOK, host, state, process
  <2>4. NoUndoRecorded'
    BY <1>6, <2>0
    DEF JournalFile, Taking, Continue, Put, Labelled, Control, HandLabels,
        NoUndoRecorded, JournaledSteps, StateOK, HostOK, host, state, process
  <2> QED BY <2>1, <2>2, <2>3, <2>4 DEF Labelled
<1>7. ASSUME NEW f \in Files, MakeTemp(f) PROVE Labelled'
  BY <1>7
  DEF MakeTemp, Continue, Labelled, Control, HandLabels, NothingKept, NoUndoRecorded,
      JournaledSteps, StateOK, HostOK, host, state, process
<1>8. ASSUME NEW f \in Files, RenameTemp(f) PROVE Labelled'
  BY <1>8
  DEF RenameTemp, Continue, Labelled, Control, HandLabels, NothingKept, NoUndoRecorded,
      JournaledSteps, StateOK, HostOK, host, state, process
<1>9. ASSUME NEW f \in Files, Relabel(f) PROVE Labelled'
  <2>1. Control'
    BY <1>9
    DEF Relabel, Continue, Advance, ProcessOK, Labelled, Control, HandLabels,
        JournaledSteps, StateOK, HostOK, host, state, process
  <2>2. HandLabels'
    BY <1>9
    DEF Relabel, Continue, Advance, ProcessOK, Labelled, Control, HandLabels,
        JournaledSteps, StateOK, HostOK, host, state, process
  <2>3. NothingKept'
    BY <1>9
    DEF Relabel, Continue, Advance, ProcessOK, Labelled, Control, HandLabels,
        NothingKept, JournaledSteps, StateOK, HostOK, host, state, process
  <2>4. NoUndoRecorded'
    BY <1>9
    DEF Relabel, Continue, Advance, ProcessOK, Labelled, Control, HandLabels,
        NoUndoRecorded, JournaledSteps, StateOK, HostOK, host, state, process
  <2> QED BY <2>1, <2>2, <2>3, <2>4 DEF Labelled
<1>10. ASSUME NEW c \in Cmds, CmdAlreadyApplied(c) PROVE Labelled'
  BY <1>10
  DEF CmdAlreadyApplied, Taking, Advance, Labelled, Control, HandLabels, NothingKept,
      NoUndoRecorded, JournaledSteps, StateOK, HostOK, host, state, process
<1>11. ASSUME NEW c \in Cmds, JournalCmd(c) PROVE Labelled'
  BY <1>11
  DEF JournalCmd, Taking, Continue, Put, UndoOf, CmdRec, Labelled, Control, HandLabels,
      NothingKept, NoUndoRecorded, JournaledSteps, StateOK, HostOK, host, state, process
<1>12. ASSUME NEW c \in Cmds, RunCmd(c) PROVE Labelled'
  BY <1>12
  DEF RunCmd, Advance, Labelled, Control, HandLabels, NothingKept, NoUndoRecorded,
      JournaledSteps, StateOK, HostOK, host, state, process
<1>13. ASSUME NEW c \in Cmds, RunCmdFails(c) PROVE Labelled'
  BY <1>13
  DEF RunCmdFails, Continue, Labelled, Control, HandLabels, NothingKept, NoUndoRecorded,
      JournaledSteps, StateOK, HostOK, host, state, process
<1>14. ASSUME NEW u \in Units, UnitAlreadyApplied(u) PROVE Labelled'
  BY <1>14
  DEF UnitAlreadyApplied, Taking, Advance, Labelled, Control, HandLabels, NothingKept,
      NoUndoRecorded, JournaledSteps, StateOK, HostOK, host, state, process
<1>15. ASSUME NEW u \in Units, JournalUnit(u) PROVE Labelled'
  BY <1>15
  DEF JournalUnit, Taking, Continue, Put, Labelled, Control, HandLabels, NothingKept,
      NoUndoRecorded, JournaledSteps, StateOK, HostOK, host, state, process
<1>16. ASSUME NEW u \in Units, ResetUnit(u) PROVE Labelled'
  BY <1>16
  DEF ResetUnit, Taking, Continue, Labelled, Control, HandLabels, NothingKept,
      NoUndoRecorded, JournaledSteps, StateOK, HostOK, host, state, process
<1>17. ASSUME NEW u \in Units, SetUnit(u) PROVE Labelled'
  BY <1>17
  DEF SetUnit, Advance, Labelled, Control, HandLabels, NothingKept, NoUndoRecorded,
      JournaledSteps, StateOK, HostOK, host, state, process
<1>18. ASSUME NEW u \in Units, SetUnitFails(u) PROVE Labelled'
  BY <1>18
  DEF SetUnitFails, Continue, Exit, Labelled, Control, HandLabels, NothingKept,
      NoUndoRecorded, JournaledSteps, StateOK, HostOK, host, state, process
<1>19. ASSUME NEW s \in Steps, RollBack(s) PROVE Labelled'
  BY <1>19
  DEF RollBack, Exit, Drop, Labelled, Control, HandLabels, NothingKept, NoUndoRecorded,
      JournaledSteps, StateOK, HostOK, host, state, process
<1>20. ASSUME NEW g \in BOOLEAN, NEW p \in BOOLEAN, StartUndo(g, p) PROVE Labelled'
  BY <1>20
  DEF StartUndo, Idle, Labelled, Control, HandLabels, NothingKept, NoUndoRecorded,
      JournaledSteps, StateOK, HostOK, host, state, process
<1>21. ASSUME NEW s \in StepUndo, NEW g \in BOOLEAN, StartUndoStep(s, g) PROVE Labelled'
  BY <1>21
  DEF StartUndoStep, Idle, Labelled, Control, HandLabels, NothingKept, NoUndoRecorded,
      JournaledSteps, StateOK, HostOK, host, state, process
<1>22. ASSUME NEW s \in Steps, KeepData(s) PROVE Labelled'
  BY <1>22
  DEF KeepData, Undoing, Keep, Labelled, Control, HandLabels, NothingKept,
      NoUndoRecorded, JournaledSteps, StateOK, HostOK, host, state, process
<1>23. ASSUME NEW f \in Files, KeepChanged(f) PROVE Labelled'
  BY <1>23
  DEF KeepChanged, Undoing, Keep, Labelled, Control, HandLabels, NothingKept,
      NoUndoRecorded, JournaledSteps, StateOK, HostOK, host, state, process
<1>24. ASSUME NEW f \in Files, RemoveFile(f) PROVE Labelled'
  <2>0. Journaled(f) /\ op # "apply"
    BY <1>24 DEF RemoveFile, Restorable, Undoing, TodoOK, JournaledSteps
  <2>1. Control'
    BY <1>24, <2>0
    DEF RemoveFile, Restorable, Undoing, Continue, Labelled, Control, HandLabels,
        JournaledSteps, StateOK, HostOK, host, state, process
  <2>2. HandLabels'
    BY <1>24, <2>0
    DEF RemoveFile, Restorable, Undoing, Continue, Labelled, Control, HandLabels,
        JournaledSteps, StateOK, HostOK, host, state, process
  <2>3. NothingKept'
    BY <1>24, <2>0
    DEF RemoveFile, Restorable, Undoing, Continue, Labelled, Control, HandLabels,
        NothingKept, JournaledSteps, StateOK, HostOK, host, state, process
  <2>4. NoUndoRecorded'
    BY <1>24, <2>0
    DEF RemoveFile, Restorable, Undoing, Continue, Labelled, Control, HandLabels,
        NoUndoRecorded, JournaledSteps, StateOK, HostOK, host, state, process
  <2> QED BY <2>1, <2>2, <2>3, <2>4 DEF Labelled
<1>25. ASSUME NEW f \in Files, SweepDir(f) PROVE Labelled'
  BY <1>25
  DEF SweepDir, Continue, Labelled, Control, HandLabels, NothingKept, NoUndoRecorded,
      JournaledSteps, StateOK, HostOK, host, state, process
<1>26. ASSUME NEW f \in Files, RestoreFile(f) PROVE Labelled'
  <2>0. /\ Journaled(f) /\ journal[f].existed /\ op # "apply"
        /\ force \/ file[f] = journal[f].new
    BY <1>26 DEF RestoreFile, Restorable, ChangedSinceApply, Gone, Undoing, TodoOK, JournaledSteps
  <2>1. Control'
    BY <1>26, <2>0
    DEF RestoreFile, Restorable, Undoing, Continue, Labelled, Control, HandLabels,
        JournaledSteps, StateOK, HostOK, host, state, process
  <2>2. HandLabels'
    BY <1>26, <2>0
    DEF RestoreFile, Restorable, Undoing, Continue, Labelled, Control, HandLabels,
        JournaledSteps, StateOK, HostOK, host, state, process
  <2>3. NothingKept'
    BY <1>26, <2>0
    DEF RestoreFile, Restorable, Undoing, Continue, Labelled, Control, HandLabels,
        NothingKept, JournaledSteps, StateOK, HostOK, host, state, process
  <2>4. NoUndoRecorded'
    BY <1>26, <2>0
    DEF RestoreFile, Restorable, Undoing, Continue, Labelled, Control, HandLabels,
        NoUndoRecorded, JournaledSteps, StateOK, HostOK, host, state, process
  <2> QED BY <2>1, <2>2, <2>3, <2>4 DEF Labelled
<1>27. ASSUME NEW c \in Cmds, NoUndoCmd(c) PROVE Labelled'
  BY <1>27
  DEF NoUndoCmd, Undoing, Continue, Labelled, Control, HandLabels, NothingKept,
      NoUndoRecorded, JournaledSteps, StateOK, HostOK, host, state, process
<1>28. ASSUME NEW c \in Cmds, UndoCmd(c) PROVE Labelled'
  BY <1>28
  DEF UndoCmd, Undoing, Continue, Labelled, Control, HandLabels, NothingKept,
      NoUndoRecorded, JournaledSteps, StateOK, HostOK, host, state, process
<1>29. ASSUME NEW c \in Cmds, UndoCmdFails(c) PROVE Labelled'
  BY <1>29
  DEF UndoCmdFails, Exit, Labelled, Control, HandLabels, NothingKept, NoUndoRecorded,
      JournaledSteps, StateOK, HostOK, host, state, process
<1>30. ASSUME NEW u \in Units, UndoUnit(u) PROVE Labelled'
  BY <1>30
  DEF UndoUnit, Undoing, Continue, Labelled, Control, HandLabels, NothingKept,
      NoUndoRecorded, JournaledSteps, StateOK, HostOK, host, state, process
<1>31. ASSUME NEW s \in Steps, Forget(s) PROVE Labelled'
  BY <1>31
  DEF Forget, Drop, Labelled, Control, HandLabels, NothingKept, NoUndoRecorded,
      JournaledSteps, StateOK, HostOK, host, state, process
<1>32. CASE FinishUndo
  BY <1>32
  DEF FinishUndo, Exit, Labelled, Control, HandLabels, NothingKept, NoUndoRecorded,
      JournaledSteps, StateOK, HostOK, host, state, process
<1>33. CASE Stop
  BY <1>33
  DEF Stop, Exit, Labelled, Control, HandLabels, NothingKept, NoUndoRecorded,
      JournaledSteps, StateOK, HostOK, host, state, process
<1>34. ASSUME NEW f \in Files, NEW x \in Foreign \cup {Absent}, EditFile(f, x) PROVE Labelled'
  BY <1>34
  DEF EditFile, Idle, Labelled, Control, HandLabels, NothingKept, NoUndoRecorded,
      JournaledSteps, StateOK, HostOK, host, state, process
<1>35. ASSUME NEW u \in Units, SwitchUnit(u) PROVE Labelled'
  BY <1>35
  DEF SwitchUnit, Idle, Labelled, Control, HandLabels, NothingKept, NoUndoRecorded,
      JournaledSteps, StateOK, HostOK, host, state, process
<1>36. ASSUME NEW c \in Cmds, LoseEffect(c) PROVE Labelled'
  BY <1>36
  DEF LoseEffect, Idle, Labelled, Control, HandLabels, NothingKept, NoUndoRecorded,
      JournaledSteps, StateOK, HostOK, host, state, process
<1>37. CASE UNCHANGED vars
  BY <1>37
  DEF vars, host, state, process, history, Labelled, Control, HandLabels, NothingKept,
      NoUndoRecorded, JournaledSteps, StateOK, HostOK
<1> QED BY <1>1, <1>2, <1>3, <1>4, <1>5, <1>6, <1>7, <1>8, <1>9, <1>10, <1>11, <1>12,
     <1>13, <1>14, <1>15, <1>16, <1>17, <1>18, <1>19, <1>20, <1>21, <1>22, <1>23, <1>24,
     <1>25, <1>26, <1>27, <1>28, <1>29, <1>30, <1>31, <1>32, <1>33, <1>34, <1>35, <1>36,
     <1>37, NextActions

(* The records and the backups change in these actions only. *)
LEMMA RecordMoves ==
  ASSUME Next
  PROVE  \/ UNCHANGED <<journal, backup>>
         \/ \E f \in Files : BackUpFile(f) \/ TearBackup(f) \/ JournalFile(f)
         \/ \E c \in Cmds : JournalCmd(c)
         \/ \E u \in Units : JournalUnit(u)
         \/ \E s \in Steps : RollBack(s) \/ Forget(s)
         \/ FinishUndo
BY NextActions, Zenon
DEF StartApply, FinishApply, FileUnchanged, MakeTemp, RenameTemp, Relabel, CmdAlreadyApplied,
    RunCmd, RunCmdFails, UnitAlreadyApplied, ResetUnit, SetUnit, SetUnitFails, StartUndo,
    StartUndoStep, KeepData, KeepChanged, RemoveFile, SweepDir, RestoreFile, NoUndoCmd, UndoCmd,
    UndoCmdFails, UndoUnit, Stop, EditFile, SwitchUnit, LoseEffect, state

(* The files change in three. *)
LEMMA FileMoves ==
  ASSUME Next
  PROVE  \/ UNCHANGED file
         \/ \E f \in Files : RenameTemp(f) \/ RemoveFile(f)
         \/ \E f \in Files, x \in Foreign \cup {Absent} : EditFile(f, x)
BY NextActions, Zenon
DEF StartApply, FinishApply, FileUnchanged, BackUpFile, TearBackup, JournalFile, MakeTemp,
    Relabel, CmdAlreadyApplied, JournalCmd, RunCmd, RunCmdFails, UnitAlreadyApplied,
    JournalUnit, ResetUnit, SetUnit, SetUnitFails, RollBack, StartUndo, StartUndoStep, KeepData,
    KeepChanged, SweepDir, RestoreFile, NoUndoCmd, UndoCmd, UndoCmdFails, UndoUnit, Forget,
    FinishUndo, Stop, SwitchUnit, LoseEffect, host

(* An action that changes a record or a backup leaves the first answers. *)
LEMMA AnswersStep ==
  ASSUME TypeOK, Labelled, Next PROVE FirstAnswersStay
<1> USE StepsAssumption, NoRecAssumption DEF TypeOK, StateOK, Journaled
<1>1. CASE UNCHANGED <<journal, backup>>
  <2>1. ASSUME NEW s \in Files, Journaled(s) PROVE SameAnswer(s)
    <3>1. journal[s] \in FileRec
      BY <2>1
    <3>2. journal[s] = [journal[s] EXCEPT !.new = journal[s].new]
      BY <3>1 DEF FileRec
    <3> QED BY <1>1, <3>2 DEF SameAnswer
  <2>2. ASSUME NEW s \in Units \cup Cmds PROVE SameAnswer(s)
    BY <1>1, <2>2 DEF SameAnswer
  <2> QED BY <2>1, <2>2 DEF FirstAnswersStay, Steps
<1>2. ASSUME NEW f \in Files, BackUpFile(f) \/ TearBackup(f) \/ JournalFile(f)
      PROVE  FirstAnswersStay
  <2>1. ASSUME NEW s \in Files, Journaled(s), Journaled(s)' PROVE SameAnswer(s)
    <3>1. journal[s] \in FileRec
      BY <2>1
    <3>2. backup'[s] = backup[s]
      BY <1>2, <2>1 DEF BackUpFile, TearBackup, JournalFile, Taking
    <3>3. CASE journal'[s] = journal[s]
      BY <3>1, <3>2, <3>3 DEF FileRec, SameAnswer
    <3>4. CASE journal'[s] # journal[s]
      <4>1. JournalFile(f) /\ s = f
        BY <1>2, <2>1, <3>4 DEF BackUpFile, TearBackup, JournalFile, Put, Steps
      <4>2. journal'[s] = [journal[s] EXCEPT !.new = want]
        BY <2>1, <4>1 DEF JournalFile, Put, Labelled, HandLabels, Steps
      <4> QED BY <3>1, <3>2, <4>2 DEF SameAnswer, FileRec
    <3> QED BY <3>3, <3>4
  <2>2. ASSUME NEW s \in Units \cup Cmds PROVE SameAnswer(s)
    <3>1. journal'[s] = journal[s]
      BY <1>2 DEF BackUpFile, TearBackup, JournalFile, Put, Steps
    <3> QED BY <2>2, <3>1 DEF SameAnswer
  <2> QED BY <2>1, <2>2 DEF FirstAnswersStay, Steps
<1>3. ASSUME NEW c \in Cmds, JournalCmd(c) PROVE FirstAnswersStay
  <2>1. ASSUME NEW s \in Files, Journaled(s) PROVE SameAnswer(s)
    <3>1. journal[s] \in FileRec /\ journal'[s] = journal[s] /\ backup'[s] = backup[s]
      BY <1>3, <2>1 DEF JournalCmd, Put, Steps
    <3> QED BY <3>1 DEF SameAnswer, FileRec
  <2>2. ASSUME NEW s \in Units PROVE SameAnswer(s)
    BY <1>3 DEF JournalCmd, Put, Steps, SameAnswer
  <2>3. ASSUME NEW s \in Cmds, Journaled(s) PROVE SameAnswer(s)
    <3>1. CASE s = c
      <4>1. journal'[s].undo = UndoOf(c)
        BY <1>3, <3>1 DEF JournalCmd, Put, Steps
      <4>2. journal[c].undo => UndoOf(c)
        BY <2>3, <3>1 DEF UndoOf, Labelled, NoUndoRecorded
      <4> QED BY <3>1, <4>1, <4>2 DEF SameAnswer
    <3>2. CASE s # c
      BY <1>3, <3>2 DEF JournalCmd, Put, Steps, SameAnswer
    <3> QED BY <3>1, <3>2
  <2> QED BY <2>1, <2>2, <2>3 DEF FirstAnswersStay, Steps
<1>4. ASSUME NEW u \in Units, JournalUnit(u) PROVE FirstAnswersStay
  <2>1. ASSUME NEW s \in Steps, Journaled(s)
        PROVE  journal'[s] = journal[s] /\ UNCHANGED backup
    BY <1>4, <2>1 DEF JournalUnit, Put, Steps
  <2>2. ASSUME NEW s \in Files, Journaled(s) PROVE SameAnswer(s)
    BY <2>1, <2>2 DEF SameAnswer, FileRec, Steps
  <2> QED BY <2>1, <2>2 DEF FirstAnswersStay, Steps, SameAnswer
<1>5. ASSUME NEW r \in Steps, RollBack(r) \/ Forget(r) PROVE FirstAnswersStay
  <2>1. ASSUME NEW s \in Steps, Journaled(s)'
        PROVE  journal'[s] = journal[s] /\ UNCHANGED backup
    BY <1>5, <2>1 DEF RollBack, Forget, Drop
  <2>2. ASSUME NEW s \in Files, Journaled(s), Journaled(s)' PROVE SameAnswer(s)
    BY <2>1, <2>2 DEF SameAnswer, FileRec, Steps
  <2> QED BY <2>1, <2>2 DEF FirstAnswersStay, Steps, SameAnswer
<1>6. CASE FinishUndo
  <2>1. CASE op = "undo" /\ ~kept
    BY <1>6, <2>1 DEF FinishUndo, Labelled, NothingKept, JournaledSteps, FirstAnswersStay
  <2>2. CASE ~(op = "undo" /\ ~kept)
    BY <1>1, <1>6, <2>2 DEF FinishUndo
  <2> QED BY <2>1, <2>2
<1> QED BY <1>1, <1>2, <1>3, <1>4, <1>5, <1>6, RecordMoves

(* An undo that is not forced writes only over what apply wrote. *)
LEMMA EditsStep ==
  ASSUME TypeOK, Labelled, Next PROVE ForeignEditStays
<1> USE DEF TypeOK, HostOK, Journaled
<1>1. CASE UNCHANGED file
  BY <1>1 DEF ForeignEditStays
<1>2. ASSUME NEW f \in Files, RenameTemp(f) PROVE ForeignEditStays
  BY <1>2 DEF RenameTemp, ForeignEditStays, Labelled, HandLabels
<1>3. ASSUME NEW f \in Files, RemoveFile(f) PROVE ForeignEditStays
  BY <1>3 DEF RemoveFile, Restorable, ChangedSinceApply, Gone, ForeignEditStays
<1>4. ASSUME NEW f \in Files, NEW x \in Foreign \cup {Absent}, EditFile(f, x)
      PROVE  ForeignEditStays
  BY <1>4 DEF EditFile, Idle, ForeignEditStays
<1> QED BY <1>1, <1>2, <1>3, <1>4, FileMoves

(* Nothing is in hand at first. *)
LEMMA LabelInit == Init => Labelled
BY NoRecAssumption, StepsAssumption
DEF Init, Labelled, Control, HandLabels, NothingKept, NoUndoRecorded, Journaled, Steps

(* What the labels say holds in every state of the engine. *)
THEOREM LabelsHold == Spec => []Labelled
<1>1. TypeOK /\ Labelled /\ [Next]_vars => Labelled'
  BY LabelStep
<1> QED BY <1>1, LabelInit, TypeCorrect, PTL DEF Spec

(* While a record stays, so do its backup, what it says was there before,   *)
(* the prior state of its unit and the undo of its command: nothing is      *)
(* learned again from a host that apply has changed (steps.go, put).        *)
THEOREM AnswersStay == Spec => FirstAnswerStays
<1>1. TypeOK /\ Labelled /\ [Next]_vars => [FirstAnswersStay]_vars
  BY AnswersStep
<1> QED BY <1>1, LabelsHold, TypeCorrect, PTL DEF Spec, FirstAnswerStays

(* Without --force no step of undo writes over a file that is not what its  *)
(* record says apply wrote (undoWriteFile, "changed since apply").          *)
THEOREM EditsAreKept == Spec => ForeignEditsKept
<1>1. TypeOK /\ Labelled /\ [Next]_vars => [ForeignEditStays]_vars
  BY EditsStep
<1> QED BY <1>1, LabelsHold, TypeCorrect, PTL DEF Spec, ForeignEditsKept

-----------------------------------------------------------------------------
(* What is left after undo                                                   *)

(* Every action keeps the directories and the litter of apply recorded. *)
LEMMA TidyStep ==
  ASSUME MadeApart, TypeOK, Labelled, Tidy, [Next]_vars
  PROVE  Tidy'
<1> USE StepsAssumption, ContentsAssumption, NoRecAssumption DEF TypeOK, Journaled, Steps
<1>1. ASSUME NEW p \in Plans, NEW v \in Versions, StartApply(p, v) PROVE Tidy'
  BY <1>1
  DEF StartApply, Idle, Tidy, DirsRecorded, TempsRecorded, OursIn, Labelled, Control,
      HandLabels, StateOK, HostOK, host, state, process
<1>2. CASE FinishApply
  BY <1>2
  DEF FinishApply, Exit, Tidy, DirsRecorded, TempsRecorded, OursIn, Labelled, Control,
      HandLabels, StateOK, HostOK, host, state, process
<1>3. ASSUME NEW f \in Files, FileUnchanged(f) PROVE Tidy'
  BY <1>3
  DEF FileUnchanged, Taking, Advance, Tidy, DirsRecorded, TempsRecorded, OursIn,
      Labelled, Control, HandLabels, StateOK, HostOK, host, state, process
<1>4. ASSUME NEW f \in Files, BackUpFile(f) PROVE Tidy'
  BY <1>4
  DEF BackUpFile, Taking, Continue, Tidy, DirsRecorded, TempsRecorded, OursIn, Labelled,
      Control, HandLabels, StateOK, HostOK, host, state, process
<1>5. ASSUME NEW f \in Files, TearBackup(f) PROVE Tidy'
  BY <1>5
  DEF TearBackup, Exit, Tidy, DirsRecorded, TempsRecorded, OursIn, Labelled, Control,
      HandLabels, StateOK, HostOK, host, state, process
<1>6. ASSUME NEW f \in Files, JournalFile(f) PROVE Tidy'
  <2>1. PICK r \in FileRec :
          /\ Put(f, r)
          /\ IF Journaled(f) THEN r.made = journal[f].made /\ r.existed = journal[f].existed
                             ELSE /\ r.existed <=> file[f] # Absent
                                  /\ IF r.existed THEN ~r.made ELSE r.made <=> MissingDir(f)
    <3>1. CASE ~Journaled(f) /\ file[f] = Absent
      <4>1. [new |-> want, existed |-> FALSE, made |-> MissingDir(f)] \in FileRec
        BY DEF FileRec, ProcessOK, MissingDir
      <4> QED BY <1>6, <3>1, <4>1 DEF JournalFile, Taking, Labelled, HandLabels
    <3>2. CASE op = "apply" /\ pc = "journal" /\ cur = f
      <4>1. [new |-> want, existed |-> TRUE, made |-> FALSE] \in FileRec
        BY DEF FileRec, ProcessOK
      <4> QED BY <1>6, <3>2, <4>1 DEF JournalFile, Taking, Labelled, HandLabels
    <3>3. CASE Taking(f) /\ Journaled(f)
      <4>1. journal[f] \in FileRec
        BY <3>3 DEF StateOK
      <4>2. /\ [journal[f] EXCEPT !.new = want] \in FileRec
            /\ [journal[f] EXCEPT !.new = want].made = journal[f].made
            /\ [journal[f] EXCEPT !.new = want].existed = journal[f].existed
        BY <4>1 DEF FileRec, ProcessOK
      <4> QED BY <1>6, <3>3, <4>2 DEF JournalFile, Taking
    <3> QED BY <1>6, <3>1, <3>2, <3>3 DEF JournalFile
  <2>2. UNCHANGED <<file, dirs, temps>> /\ pc' = "temp"
    BY <1>6 DEF JournalFile, Continue, host
  <2>3. r # NoRec /\ journal'[f] = r /\ \A g \in Files \ {f} : journal'[g] = journal[g]
    BY <2>1 DEF Put, StateOK
  <2>4. (r.made <=> OursIn(f)) /\ (OursIn(f) => ~r.existed)
    BY <2>1 DEF OursIn, MissingDir, Tidy, DirsRecorded
  <2>5. ASSUME NEW g \in Files
        PROVE  IF Journaled(g)' THEN (journal'[g].made <=> OursIn(g)) /\ (OursIn(g) => ~journal'[g].existed)
                                ELSE OursIn(g) => file[g] = Absent /\ DirOf[g] \notin dirs
    BY <2>3, <2>4 DEF Tidy, DirsRecorded
  <2>6. DirsRecorded'
    BY <2>2, <2>5 DEF Tidy, DirsRecorded, OursIn
  <2>7. TempsRecorded'
    BY <2>2, <2>3 DEF Tidy, TempsRecorded
  <2> QED BY <2>6, <2>7 DEF Tidy
<1>7. ASSUME NEW f \in Files, MakeTemp(f) PROVE Tidy'
  <2>1. UNCHANGED <<file, journal>> /\ dirs' = dirs \cup {DirOf[f]} /\ temps' = temps \cup {DirOf[f]}
    BY <1>7 DEF MakeTemp, state
  <2>2. pc' = "rename" /\ Journaled(f)
    BY <1>7 DEF MakeTemp, Continue, Labelled, HandLabels
  <2>3. DirOf[f] \notin NativeDirs => \A g \in Files : DirOf[g] = DirOf[f] => g = f
    BY DEF MadeApart
  <2>4. ASSUME NEW g \in Files, OursIn(g), ~Journaled(g) PROVE DirOf[g] \notin dirs'
    BY <2>1, <2>2, <2>3, <2>4 DEF Tidy, DirsRecorded, OursIn
  <2>5. DirsRecorded'
    BY <2>1, <2>2, <2>4 DEF Tidy, DirsRecorded, OursIn
  <2>6. TempsRecorded'
    BY <2>1, <2>2 DEF Tidy, TempsRecorded
  <2> QED BY <2>5, <2>6 DEF Tidy
<1>8. ASSUME NEW f \in Files, RenameTemp(f) PROVE Tidy'
  BY <1>8
  DEF RenameTemp, Continue, Tidy, DirsRecorded, TempsRecorded, OursIn, Labelled,
      Control, HandLabels, StateOK, HostOK, host, state, process
<1>9. ASSUME NEW f \in Files, Relabel(f) PROVE Tidy'
  BY <1>9
  DEF Relabel, Continue, Advance, Tidy, DirsRecorded, TempsRecorded, OursIn, Labelled,
      Control, HandLabels, StateOK, HostOK, host, state, process
<1>10. ASSUME NEW c \in Cmds, CmdAlreadyApplied(c) PROVE Tidy'
  BY <1>10
  DEF CmdAlreadyApplied, Taking, Advance, Tidy, DirsRecorded, TempsRecorded, OursIn,
      Labelled, Control, HandLabels, StateOK, HostOK, host, state, process
<1>11. ASSUME NEW c \in Cmds, JournalCmd(c) PROVE Tidy'
  BY <1>11
  DEF JournalCmd, Taking, Continue, Put, Tidy, DirsRecorded, TempsRecorded, OursIn,
      Labelled, Control, HandLabels, StateOK, HostOK, host, state, process
<1>12. ASSUME NEW c \in Cmds, RunCmd(c) PROVE Tidy'
  BY <1>12
  DEF RunCmd, Advance, Tidy, DirsRecorded, TempsRecorded, OursIn, Labelled, Control,
      HandLabels, StateOK, HostOK, host, state, process
<1>13. ASSUME NEW c \in Cmds, RunCmdFails(c) PROVE Tidy'
  BY <1>13
  DEF RunCmdFails, Continue, Tidy, DirsRecorded, TempsRecorded, OursIn, Labelled,
      Control, HandLabels, StateOK, HostOK, host, state, process
<1>14. ASSUME NEW u \in Units, UnitAlreadyApplied(u) PROVE Tidy'
  BY <1>14
  DEF UnitAlreadyApplied, Taking, Advance, Tidy, DirsRecorded, TempsRecorded, OursIn,
      Labelled, Control, HandLabels, StateOK, HostOK, host, state, process
<1>15. ASSUME NEW u \in Units, JournalUnit(u) PROVE Tidy'
  BY <1>15
  DEF JournalUnit, Taking, Continue, Put, Tidy, DirsRecorded, TempsRecorded, OursIn,
      Labelled, Control, HandLabels, StateOK, HostOK, host, state, process
<1>16. ASSUME NEW u \in Units, ResetUnit(u) PROVE Tidy'
  BY <1>16
  DEF ResetUnit, Taking, Continue, Tidy, DirsRecorded, TempsRecorded, OursIn, Labelled,
      Control, HandLabels, StateOK, HostOK, host, state, process
<1>17. ASSUME NEW u \in Units, SetUnit(u) PROVE Tidy'
  BY <1>17
  DEF SetUnit, Advance, Tidy, DirsRecorded, TempsRecorded, OursIn, Labelled, Control,
      HandLabels, StateOK, HostOK, host, state, process
<1>18. ASSUME NEW u \in Units, SetUnitFails(u) PROVE Tidy'
  BY <1>18
  DEF SetUnitFails, Continue, Exit, Tidy, DirsRecorded, TempsRecorded, OursIn, Labelled,
      Control, HandLabels, StateOK, HostOK, host, state, process
<1>19. ASSUME NEW s \in Steps, RollBack(s) PROVE Tidy'
  BY <1>19
  DEF RollBack, Exit, Drop, Tidy, DirsRecorded, TempsRecorded, OursIn, Labelled,
      Control, HandLabels, StateOK, HostOK, host, state, process
<1>20. ASSUME NEW g \in BOOLEAN, NEW p \in BOOLEAN, StartUndo(g, p) PROVE Tidy'
  BY <1>20
  DEF StartUndo, Idle, Tidy, DirsRecorded, TempsRecorded, OursIn, Labelled, Control,
      HandLabels, StateOK, HostOK, host, state, process
<1>21. ASSUME NEW s \in StepUndo, NEW g \in BOOLEAN, StartUndoStep(s, g) PROVE Tidy'
  BY <1>21
  DEF StartUndoStep, Idle, Tidy, DirsRecorded, TempsRecorded, OursIn, Labelled, Control,
      HandLabels, StateOK, HostOK, host, state, process
<1>22. ASSUME NEW s \in Steps, KeepData(s) PROVE Tidy'
  BY <1>22
  DEF KeepData, Undoing, Keep, Tidy, DirsRecorded, TempsRecorded, OursIn, Labelled,
      Control, HandLabels, StateOK, HostOK, host, state, process
<1>23. ASSUME NEW f \in Files, KeepChanged(f) PROVE Tidy'
  BY <1>23
  DEF KeepChanged, Undoing, Keep, Tidy, DirsRecorded, TempsRecorded, OursIn, Labelled,
      Control, HandLabels, StateOK, HostOK, host, state, process
<1>24. ASSUME NEW f \in Files, RemoveFile(f) PROVE Tidy'
  BY <1>24
  DEF RemoveFile, Restorable, Undoing, Continue, Tidy, DirsRecorded, TempsRecorded,
      OursIn, Labelled, Control, HandLabels, StateOK, HostOK, host, state, process
<1>25. ASSUME NEW f \in Files, SweepDir(f) PROVE Tidy'
  <2>1. UNCHANGED <<file, journal>> /\ temps' = temps \ {DirOf[f]} /\ dirs' \subseteq dirs
    BY <1>25 DEF SweepDir, state
  <2>2. pc' = "forget" /\ cur' = f /\ Journaled(f) /\ file[f] = Absent /\ ~journal[f].existed
    BY <1>25 DEF SweepDir, Continue, Labelled, HandLabels
  <2>3. OursIn(f) => DirOf[f] \notin dirs'
    <3> SUFFICES ASSUME OursIn(f) PROVE DirOf[f] \notin dirs'
      OBVIOUS
    <3>1. \A g \in Files : DirOf[g] = DirOf[f] => file[g] = Absent
      BY <2>2 DEF MadeApart, OursIn
    <3>2. journal[f].made
      BY <2>2 DEF Tidy, DirsRecorded
    <3> QED BY <1>25, <3>1, <3>2 DEF SweepDir
  <2>4. NativeDirs \subseteq dirs'
    <3>1. CASE OursIn(f)
      BY <1>25, <3>1 DEF SweepDir, Tidy, DirsRecorded, OursIn
    <3>2. CASE ~OursIn(f)
      BY <1>25, <2>2, <3>2 DEF SweepDir, Tidy, DirsRecorded, OursIn
    <3> QED BY <3>1, <3>2
  <2>6. DirsRecorded'
    BY <2>1, <2>2, <2>3, <2>4 DEF Tidy, DirsRecorded, OursIn
  <2>7. TempsRecorded'
    BY <2>1, <2>2 DEF Tidy, TempsRecorded
  <2> QED BY <2>6, <2>7 DEF Tidy
<1>26. ASSUME NEW f \in Files, RestoreFile(f) PROVE Tidy'
  BY <1>26
  DEF RestoreFile, Restorable, ChangedSinceApply, Gone, Undoing, Continue, Tidy,
      DirsRecorded, TempsRecorded, OursIn, Labelled, Control, HandLabels, StateOK,
      HostOK, host, state, process
<1>27. ASSUME NEW c \in Cmds, NoUndoCmd(c) PROVE Tidy'
  BY <1>27
  DEF NoUndoCmd, Undoing, Continue, Tidy, DirsRecorded, TempsRecorded, OursIn, Labelled,
      Control, HandLabels, StateOK, HostOK, host, state, process
<1>28. ASSUME NEW c \in Cmds, UndoCmd(c) PROVE Tidy'
  BY <1>28
  DEF UndoCmd, Undoing, Continue, Tidy, DirsRecorded, TempsRecorded, OursIn, Labelled,
      Control, HandLabels, StateOK, HostOK, host, state, process
<1>29. ASSUME NEW c \in Cmds, UndoCmdFails(c) PROVE Tidy'
  BY <1>29
  DEF UndoCmdFails, Exit, Tidy, DirsRecorded, TempsRecorded, OursIn, Labelled, Control,
      HandLabels, StateOK, HostOK, host, state, process
<1>30. ASSUME NEW u \in Units, UndoUnit(u) PROVE Tidy'
  BY <1>30
  DEF UndoUnit, Undoing, Continue, Tidy, DirsRecorded, TempsRecorded, OursIn, Labelled,
      Control, HandLabels, StateOK, HostOK, host, state, process
<1>31. ASSUME NEW s \in Steps, Forget(s) PROVE Tidy'
  BY <1>31
  DEF Forget, Drop, Tidy, DirsRecorded, TempsRecorded, OursIn, Labelled, Control,
      HandLabels, StateOK, HostOK, host, state, process
<1>32. CASE FinishUndo
  BY <1>32
  DEF FinishUndo, Exit, Tidy, DirsRecorded, TempsRecorded, OursIn, Labelled, Control,
      HandLabels, StateOK, HostOK, host, state, process
<1>33. CASE Stop
  BY <1>33
  DEF Stop, Exit, Tidy, DirsRecorded, TempsRecorded, OursIn, Labelled, Control,
      HandLabels, StateOK, HostOK, host, state, process
<1>34. ASSUME NEW f \in Files, NEW x \in Foreign \cup {Absent}, EditFile(f, x) PROVE Tidy'
  BY <1>34
  DEF EditFile, Idle, Tidy, DirsRecorded, TempsRecorded, OursIn, Labelled, Control,
      HandLabels, StateOK, HostOK, host, state, process
<1>35. ASSUME NEW u \in Units, SwitchUnit(u) PROVE Tidy'
  BY <1>35
  DEF SwitchUnit, Idle, Tidy, DirsRecorded, TempsRecorded, OursIn, Labelled, Control,
      HandLabels, StateOK, HostOK, host, state, process
<1>36. ASSUME NEW c \in Cmds, LoseEffect(c) PROVE Tidy'
  BY <1>36
  DEF LoseEffect, Idle, Tidy, DirsRecorded, TempsRecorded, OursIn, Labelled, Control,
      HandLabels, StateOK, HostOK, host, state, process
<1>37. CASE UNCHANGED vars
  BY <1>37
  DEF vars, host, state, process, history, Tidy, DirsRecorded, TempsRecorded, OursIn,
      Labelled, Control, HandLabels, StateOK, HostOK
<1> QED BY <1>1, <1>2, <1>3, <1>4, <1>5, <1>6, <1>7, <1>8, <1>9, <1>10, <1>11, <1>12,
     <1>13, <1>14, <1>15, <1>16, <1>17, <1>18, <1>19, <1>20, <1>21, <1>22, <1>23, <1>24,
     <1>25, <1>26, <1>27, <1>28, <1>29, <1>30, <1>31, <1>32, <1>33, <1>34, <1>35, <1>36,
     <1>37, NextActions


(* A host that apply never touched has neither. *)
LEMMA TidyInit == Init => Tidy
BY NoRecAssumption, StepsAssumption, ContentsAssumption
DEF Init, Tidy, DirsRecorded, TempsRecorded, OursIn, Journaled, Steps

(* So directories and litter are always recorded. *)
LEMMA TidyHolds == ASSUME MadeApart PROVE Spec => []Tidy
<1>1. TypeOK /\ Labelled /\ Tidy /\ [Next]_vars => Tidy'
  BY MadeApart, TidyStep
<1> QED BY <1>1, TidyInit, LabelsHold, TypeCorrect, PTL DEF Spec

(* Once nothing is journaled, no directory that write_file made and no temp  *)
(* of a killed write is left (SweepTemps before removeDirs), if no two       *)
(* steps share a directory that apply makes: the record of the one that      *)
(* made it may leave before the other's file does.                           *)
THEOREM NoLitterLeft == ASSUME MadeApart PROVE Spec => []NoLitter
<1>1. Tidy => NoLitter
  <2> SUFFICES ASSUME Tidy, Undone PROVE dirs = NativeDirs /\ temps = {}
    BY DEF NoLitter
  <2>1. \A f \in Files : ~Journaled(f)
    BY DEF Undone, JournaledSteps, Steps
  <2> QED BY <2>1 DEF Tidy, DirsRecorded, TempsRecorded, OursIn
<1> QED BY <1>1, TidyHolds, PTL

-----------------------------------------------------------------------------
(* What apply has done                                                       *)

(* Every action keeps the steps that apply has passed done. *)
LEMMA DoneStep ==
  ASSUME AllAnswered, TypeOK, Labelled, DoneSoFar, [Next]_vars
  PROVE  DoneSoFar'
<1> USE StepsAssumption, ContentsAssumption, NoRecAssumption DEF TypeOK, Journaled, Steps
<1>1. ASSUME NEW p \in Plans, NEW v \in Versions, StartApply(p, v) PROVE DoneSoFar'
  BY <1>1, PlansAssumption
  DEF StartApply, Idle, DoneSoFar, Applied, Labelled, Control, HandLabels, ProcessOK,
      HostOK, host, state, process
<1>2. CASE FinishApply
  BY <1>2
  DEF FinishApply, Exit, DoneSoFar, Applied, Labelled, Control, HandLabels, ProcessOK,
      HostOK, host, state, process
<1>3. ASSUME NEW f \in Files, FileUnchanged(f) PROVE DoneSoFar'
  BY <1>3, PlansAssumption
  DEF FileUnchanged, Taking, Advance, Unchanged, DoneSoFar, Applied, Labelled, Control,
      HandLabels, ProcessOK, HostOK, host, state, process
<1>4. ASSUME NEW f \in Files, BackUpFile(f) PROVE DoneSoFar'
  BY <1>4
  DEF BackUpFile, Taking, Continue, DoneSoFar, Applied, Labelled, Control, HandLabels,
      ProcessOK, HostOK, host, state, process
<1>5. ASSUME NEW f \in Files, TearBackup(f) PROVE DoneSoFar'
  BY <1>5
  DEF TearBackup, Exit, DoneSoFar, Applied, Labelled, Control, HandLabels, ProcessOK,
      HostOK, host, state, process
<1>6. ASSUME NEW f \in Files, JournalFile(f) PROVE DoneSoFar'
  BY <1>6
  DEF JournalFile, Taking, Continue, Put, DoneSoFar, Applied, Labelled, Control,
      HandLabels, ProcessOK, HostOK, host, state, process
<1>7. ASSUME NEW f \in Files, MakeTemp(f) PROVE DoneSoFar'
  BY <1>7
  DEF MakeTemp, Continue, DoneSoFar, Applied, Labelled, Control, HandLabels, ProcessOK,
      HostOK, host, state, process
<1>8. ASSUME NEW f \in Files, RenameTemp(f) PROVE DoneSoFar'
  BY <1>8, PlansAssumption
  DEF RenameTemp, Continue, DoneSoFar, Applied, Labelled, Control, HandLabels,
      ProcessOK, HostOK, host, state, process
<1>9. ASSUME NEW f \in Files, Relabel(f) PROVE DoneSoFar'
  BY <1>9
  DEF Relabel, Continue, Advance, DoneSoFar, Applied, Labelled, Control, HandLabels,
      ProcessOK, HostOK, host, state, process
<1>10. ASSUME NEW c \in Cmds, CmdAlreadyApplied(c) PROVE DoneSoFar'
  BY <1>10, PlansAssumption
  DEF CmdAlreadyApplied, Taking, Advance, Reruns, DoneSoFar, Applied, Labelled, Control,
      HandLabels, ProcessOK, HostOK, host, state, process
<1>11. ASSUME NEW c \in Cmds, JournalCmd(c) PROVE DoneSoFar'
  BY <1>11
  DEF JournalCmd, Taking, Continue, Put, DoneSoFar, Applied, Labelled, Control,
      HandLabels, ProcessOK, HostOK, host, state, process
<1>12. ASSUME NEW c \in Cmds, RunCmd(c) PROVE DoneSoFar'
  <2>1. op = "apply" /\ cur = c /\ at <= Len(plan) /\ plan[at] = c /\ plan \in Plans
    BY <1>12 DEF RunCmd, DoneSoFar, Labelled, Control
  <2>2. UNCHANGED <<op, plan, want, file, unit>> /\ at' = at + 1 /\ pc' = "next"
    BY <1>12 DEF RunCmd, Advance
  <2>3. effect'[c] # NoEffect /\ \A d \in Cmds \ {c} : effect'[d] = effect[d]
    BY <1>12 DEF RunCmd, HostOK, ProcessOK, Native, NoEffect
  <2>4. ASSUME NEW i \in 1..Len(plan), i < at + 1, plan[i] \in Files \cup Units \cup Rechecked
        PROVE  Applied(plan[i])'
    <3>1. CASE i = at
      <4>1. plan[i] = c
        BY <2>1, <3>1
      <4> QED BY <2>2, <2>3, <4>1 DEF Applied
    <3>2. CASE i # at
      <4>1. Applied(plan[i])
        BY <2>1, <2>4, <3>2 DEF DoneSoFar, ProcessOK
      <4>2. plan[i] \in Cmds => effect'[plan[i]] = effect[plan[i]]
        BY <2>1, <2>3, <3>2, PlansAssumption DEF ProcessOK
      <4> QED BY <2>2, <2>4, <4>1, <4>2 DEF Applied
    <3> QED BY <3>1, <3>2
  <2> QED BY <2>1, <2>2, <2>4 DEF DoneSoFar, ProcessOK
<1>13. ASSUME NEW c \in Cmds, RunCmdFails(c) PROVE DoneSoFar'
  BY <1>13
  DEF RunCmdFails, Continue, DoneSoFar, Applied, Labelled, Control, HandLabels,
      ProcessOK, HostOK, host, state, process
<1>14. ASSUME NEW u \in Units, UnitAlreadyApplied(u) PROVE DoneSoFar'
  BY <1>14, PlansAssumption
  DEF UnitAlreadyApplied, Taking, Advance, Drifted, Answers, Target, AllAnswered,
      UnitStates, DoneSoFar, Applied, Labelled, Control, HandLabels, ProcessOK, HostOK,
      host, state, process
<1>15. ASSUME NEW u \in Units, JournalUnit(u) PROVE DoneSoFar'
  BY <1>15
  DEF JournalUnit, Taking, Continue, Put, DoneSoFar, Applied, Labelled, Control,
      HandLabels, ProcessOK, HostOK, host, state, process
<1>16. ASSUME NEW u \in Units, ResetUnit(u) PROVE DoneSoFar'
  BY <1>16
  DEF ResetUnit, Taking, Continue, DoneSoFar, Applied, Labelled, Control, HandLabels,
      ProcessOK, HostOK, host, state, process
<1>17. ASSUME NEW u \in Units, SetUnit(u) PROVE DoneSoFar'
  BY <1>17, PlansAssumption
  DEF SetUnit, Advance, SetTo, Target, DoneSoFar, Applied, Labelled, Control,
      HandLabels, ProcessOK, HostOK, host, state, process
<1>18. ASSUME NEW u \in Units, SetUnitFails(u) PROVE DoneSoFar'
  BY <1>18
  DEF SetUnitFails, Continue, Exit, DoneSoFar, Applied, Labelled, Control, HandLabels,
      ProcessOK, HostOK, host, state, process
<1>19. ASSUME NEW s \in Steps, RollBack(s) PROVE DoneSoFar'
  BY <1>19
  DEF RollBack, Exit, Drop, DoneSoFar, Applied, Labelled, Control, HandLabels,
      ProcessOK, HostOK, host, state, process
<1>20. ASSUME NEW g \in BOOLEAN, NEW p \in BOOLEAN, StartUndo(g, p) PROVE DoneSoFar'
  BY <1>20
  DEF StartUndo, Idle, DoneSoFar, Applied, Labelled, Control, HandLabels, ProcessOK,
      HostOK, host, state, process
<1>21. ASSUME NEW s \in StepUndo, NEW g \in BOOLEAN, StartUndoStep(s, g) PROVE DoneSoFar'
  BY <1>21
  DEF StartUndoStep, Idle, DoneSoFar, Applied, Labelled, Control, HandLabels, ProcessOK,
      HostOK, host, state, process
<1>22. ASSUME NEW s \in Steps, KeepData(s) PROVE DoneSoFar'
  BY <1>22
  DEF KeepData, Undoing, Keep, DoneSoFar, Applied, Labelled, Control, HandLabels,
      ProcessOK, HostOK, host, state, process
<1>23. ASSUME NEW f \in Files, KeepChanged(f) PROVE DoneSoFar'
  BY <1>23
  DEF KeepChanged, Undoing, Keep, DoneSoFar, Applied, Labelled, Control, HandLabels,
      ProcessOK, HostOK, host, state, process
<1>24. ASSUME NEW f \in Files, RemoveFile(f) PROVE DoneSoFar'
  BY <1>24
  DEF RemoveFile, Restorable, Undoing, Continue, DoneSoFar, Applied, Labelled, Control,
      HandLabels, ProcessOK, HostOK, host, state, process
<1>25. ASSUME NEW f \in Files, SweepDir(f) PROVE DoneSoFar'
  BY <1>25
  DEF SweepDir, Continue, DoneSoFar, Applied, Labelled, Control, HandLabels, ProcessOK,
      HostOK, host, state, process
<1>26. ASSUME NEW f \in Files, RestoreFile(f) PROVE DoneSoFar'
  BY <1>26
  DEF RestoreFile, Restorable, ChangedSinceApply, Gone, Undoing, Continue, DoneSoFar,
      Applied, Labelled, Control, HandLabels, ProcessOK, HostOK, host, state, process
<1>27. ASSUME NEW c \in Cmds, NoUndoCmd(c) PROVE DoneSoFar'
  BY <1>27
  DEF NoUndoCmd, Undoing, Continue, DoneSoFar, Applied, Labelled, Control, HandLabels,
      ProcessOK, HostOK, host, state, process
<1>28. ASSUME NEW c \in Cmds, UndoCmd(c) PROVE DoneSoFar'
  BY <1>28
  DEF UndoCmd, Undoing, Continue, DoneSoFar, Applied, Labelled, Control, HandLabels,
      ProcessOK, HostOK, host, state, process
<1>29. ASSUME NEW c \in Cmds, UndoCmdFails(c) PROVE DoneSoFar'
  BY <1>29
  DEF UndoCmdFails, Exit, DoneSoFar, Applied, Labelled, Control, HandLabels, ProcessOK,
      HostOK, host, state, process
<1>30. ASSUME NEW u \in Units, UndoUnit(u) PROVE DoneSoFar'
  BY <1>30
  DEF UndoUnit, Undoing, Continue, DoneSoFar, Applied, Labelled, Control, HandLabels,
      ProcessOK, HostOK, host, state, process
<1>31. ASSUME NEW s \in Steps, Forget(s) PROVE DoneSoFar'
  BY <1>31
  DEF Forget, Drop, DoneSoFar, Applied, Labelled, Control, HandLabels, ProcessOK,
      HostOK, host, state, process
<1>32. CASE FinishUndo
  BY <1>32
  DEF FinishUndo, Exit, DoneSoFar, Applied, Labelled, Control, HandLabels, ProcessOK,
      HostOK, host, state, process
<1>33. CASE Stop
  BY <1>33
  DEF Stop, Exit, DoneSoFar, Applied, Labelled, Control, HandLabels, ProcessOK, HostOK,
      host, state, process
<1>34. ASSUME NEW f \in Files, NEW x \in Foreign \cup {Absent}, EditFile(f, x) PROVE DoneSoFar'
  BY <1>34
  DEF EditFile, Idle, DoneSoFar, Applied, Labelled, Control, HandLabels, ProcessOK,
      HostOK, host, state, process
<1>35. ASSUME NEW u \in Units, SwitchUnit(u) PROVE DoneSoFar'
  BY <1>35
  DEF SwitchUnit, Idle, DoneSoFar, Applied, Labelled, Control, HandLabels, ProcessOK,
      HostOK, host, state, process
<1>36. ASSUME NEW c \in Cmds, LoseEffect(c) PROVE DoneSoFar'
  BY <1>36
  DEF LoseEffect, Idle, DoneSoFar, Applied, Labelled, Control, HandLabels, ProcessOK,
      HostOK, host, state, process
<1>37. CASE UNCHANGED vars
  BY <1>37
  DEF vars, host, state, process, history, DoneSoFar, Applied, Labelled, Control,
      HandLabels, ProcessOK, HostOK
<1> QED BY <1>1, <1>2, <1>3, <1>4, <1>5, <1>6, <1>7, <1>8, <1>9, <1>10, <1>11, <1>12,
     <1>13, <1>14, <1>15, <1>16, <1>17, <1>18, <1>19, <1>20, <1>21, <1>22, <1>23, <1>24,
     <1>25, <1>26, <1>27, <1>28, <1>29, <1>30, <1>31, <1>32, <1>33, <1>34, <1>35, <1>36,
     <1>37, NextActions


(* No apply runs at first. *)
LEMMA DoneInit == Init => DoneSoFar
BY DEF Init, DoneSoFar

(* So they are done in every state. *)
LEMMA DoneHolds == ASSUME AllAnswered PROVE Spec => []DoneSoFar
<1>1. TypeOK /\ Labelled /\ DoneSoFar /\ [Next]_vars => DoneSoFar'
  BY AllAnswered, DoneStep
<1> QED BY <1>1, DoneInit, LabelsHold, TypeCorrect, PTL DEF Spec

(* An apply that reports success has put every file, every unit and every   *)
(* command it can recheck as its list asks, however many runs were killed   *)
(* before; a unit whose query fails is the exception (sysd.go:91).          *)
THEOREM Converges == ASSUME AllAnswered PROVE Spec => []ApplyConverges
<1>1. TypeOK /\ DoneSoFar => ApplyConverges
  BY DEF DoneSoFar, ApplyConverges, Succeeding, TypeOK, ProcessOK
<1> QED BY <1>1, DoneHolds, TypeCorrect, PTL

-----------------------------------------------------------------------------
(* The initramfs                                                             *)

(* Every action keeps the image accounted for. *)
LEMMA ImageStep ==
  ASSUME OneRender, IInv, Labelled, ImageTracked, [Next]_vars
  PROVE  ImageTracked'
<1> USE StepsAssumption, ContentsAssumption, NoRecAssumption DEF IInv, TypeOK, Journaled, Steps
<1>1. ASSUME NEW p \in Plans, NEW v \in Versions, StartApply(p, v) PROVE ImageTracked'
  BY <1>1
  DEF StartApply, Idle, ImageTracked, ImageIsHosts, OtherSnapshots, Labelled, Control,
      HandLabels, StateOK, HostOK, ProcessOK, host, state, process, history
<1>2. CASE FinishApply
  BY <1>2
  DEF FinishApply, Exit, ImageTracked, ImageIsHosts, OtherSnapshots, Labelled, Control,
      HandLabels, StateOK, HostOK, ProcessOK, host, state, process, history
<1>3. ASSUME NEW f \in Files, FileUnchanged(f) PROVE ImageTracked'
  BY <1>3
  DEF FileUnchanged, Taking, Advance, ImageTracked, ImageIsHosts, OtherSnapshots,
      Labelled, Control, HandLabels, StateOK, HostOK, ProcessOK, host, state, process,
      history
<1>4. ASSUME NEW f \in Files, BackUpFile(f) PROVE ImageTracked'
  BY <1>4
  DEF BackUpFile, Taking, Continue, ImageTracked, ImageIsHosts, OtherSnapshots,
      Labelled, Control, HandLabels, StateOK, HostOK, ProcessOK, host, state, process,
      history
<1>5. ASSUME NEW f \in Files, TearBackup(f) PROVE ImageTracked'
  BY <1>5
  DEF TearBackup, Exit, ImageTracked, ImageIsHosts, OtherSnapshots, Labelled, Control,
      HandLabels, StateOK, HostOK, ProcessOK, host, state, process, history
<1>6. ASSUME NEW f \in Files, JournalFile(f) PROVE ImageTracked'
  BY <1>6
  DEF JournalFile, Taking, Continue, Put, ImageTracked, ImageIsHosts, OtherSnapshots,
      Labelled, Control, HandLabels, StateOK, HostOK, ProcessOK, host, state, process,
      history
<1>7. ASSUME NEW f \in Files, MakeTemp(f) PROVE ImageTracked'
  BY <1>7
  DEF MakeTemp, Continue, ImageTracked, ImageIsHosts, OtherSnapshots, Labelled, Control,
      HandLabels, StateOK, HostOK, ProcessOK, host, state, process, history
<1>8. ASSUME NEW f \in Files, RenameTemp(f) PROVE ImageTracked'
  BY <1>8
  DEF RenameTemp, Continue, FileInHand, ImageTracked, ImageIsHosts, OtherSnapshots,
      Labelled, Control, HandLabels, StateOK, HostOK, ProcessOK, host, state, process,
      history
<1>9. ASSUME NEW f \in Files, Relabel(f) PROVE ImageTracked'
  BY <1>9
  DEF Relabel, Continue, Advance, ImageTracked, ImageIsHosts, OtherSnapshots, Labelled,
      Control, HandLabels, StateOK, HostOK, ProcessOK, host, state, process, history
<1>10. ASSUME NEW c \in Cmds, CmdAlreadyApplied(c) PROVE ImageTracked'
  BY <1>10
  DEF CmdAlreadyApplied, Taking, Advance, ImageTracked, ImageIsHosts, OtherSnapshots,
      Labelled, Control, HandLabels, StateOK, HostOK, ProcessOK, host, state, process,
      history
<1>11. ASSUME NEW c \in Cmds, JournalCmd(c) PROVE ImageTracked'
  BY <1>11
  DEF JournalCmd, Taking, Continue, Put, OneRender, UndoOf, CmdRec, Reruns,
      ImageTracked, ImageIsHosts, OtherSnapshots, Labelled, Control, HandLabels,
      StateOK, HostOK, ProcessOK, host, state, process, history
<1>12. ASSUME NEW c \in Cmds, RunCmd(c) PROVE ImageTracked'
  BY <1>12
  DEF RunCmd, Advance, Regenerated, CmdInHand, ImageTracked, ImageIsHosts,
      OtherSnapshots, Labelled, Control, HandLabels, StateOK, HostOK, ProcessOK, host,
      state, process, history
<1>13. ASSUME NEW c \in Cmds, RunCmdFails(c) PROVE ImageTracked'
  BY <1>13
  DEF RunCmdFails, Continue, ImageTracked, ImageIsHosts, OtherSnapshots, Labelled,
      Control, HandLabels, StateOK, HostOK, ProcessOK, host, state, process, history
<1>14. ASSUME NEW u \in Units, UnitAlreadyApplied(u) PROVE ImageTracked'
  BY <1>14
  DEF UnitAlreadyApplied, Taking, Advance, ImageTracked, ImageIsHosts, OtherSnapshots,
      Labelled, Control, HandLabels, StateOK, HostOK, ProcessOK, host, state, process,
      history
<1>15. ASSUME NEW u \in Units, JournalUnit(u) PROVE ImageTracked'
  BY <1>15
  DEF JournalUnit, Taking, Continue, Put, ImageTracked, ImageIsHosts, OtherSnapshots,
      Labelled, Control, HandLabels, StateOK, HostOK, ProcessOK, host, state, process,
      history
<1>16. ASSUME NEW u \in Units, ResetUnit(u) PROVE ImageTracked'
  BY <1>16
  DEF ResetUnit, Taking, Continue, ImageTracked, ImageIsHosts, OtherSnapshots, Labelled,
      Control, HandLabels, StateOK, HostOK, ProcessOK, host, state, process, history
<1>17. ASSUME NEW u \in Units, SetUnit(u) PROVE ImageTracked'
  BY <1>17
  DEF SetUnit, Advance, ImageTracked, ImageIsHosts, OtherSnapshots, Labelled, Control,
      HandLabels, StateOK, HostOK, ProcessOK, host, state, process, history
<1>18. ASSUME NEW u \in Units, SetUnitFails(u) PROVE ImageTracked'
  BY <1>18
  DEF SetUnitFails, Continue, Exit, ImageTracked, ImageIsHosts, OtherSnapshots,
      Labelled, Control, HandLabels, StateOK, HostOK, ProcessOK, host, state, process,
      history
<1>19. ASSUME NEW s \in Steps, RollBack(s) PROVE ImageTracked'
  BY <1>19
  DEF RollBack, Exit, Drop, ImageTracked, ImageIsHosts, OtherSnapshots, Labelled,
      Control, HandLabels, StateOK, HostOK, ProcessOK, host, state, process, history
<1>20. ASSUME NEW g \in BOOLEAN, NEW p \in BOOLEAN, StartUndo(g, p) PROVE ImageTracked'
  BY <1>20
  DEF StartUndo, Idle, WriteAhead, FilesLogged, JournaledSteps, ImageTracked,
      ImageIsHosts, OtherSnapshots, Labelled, Control, HandLabels, StateOK, HostOK,
      ProcessOK, host, state, process, history
<1>21. ASSUME NEW s \in StepUndo, NEW g \in BOOLEAN, StartUndoStep(s, g) PROVE ImageTracked'
  BY <1>21
  DEF StartUndoStep, Idle, OneRender, ImageTracked, ImageIsHosts, OtherSnapshots,
      Labelled, Control, HandLabels, StateOK, HostOK, ProcessOK, host, state, process,
      history
<1>22. ASSUME NEW s \in Steps, KeepData(s) PROVE ImageTracked'
  BY <1>22
  DEF KeepData, Undoing, Keep, KeepsData, OneRender, ImageTracked, ImageIsHosts,
      OtherSnapshots, Labelled, Control, HandLabels, StateOK, HostOK, ProcessOK, host,
      state, process, history
<1>23. ASSUME NEW f \in Files, KeepChanged(f) PROVE ImageTracked'
  BY <1>23
  DEF KeepChanged, Undoing, Keep, ChangedSinceApply, Gone, OneRender, FileRec, TodoOK,
      JournaledSteps, ImageTracked, ImageIsHosts, OtherSnapshots, Labelled, Control,
      HandLabels, StateOK, HostOK, ProcessOK, host, state, process, history
<1>24. ASSUME NEW f \in Files, RemoveFile(f) PROVE ImageTracked'
  BY <1>24
  DEF RemoveFile, Restorable, Undoing, Continue, BackupHoldsOriginal, TodoOK,
      JournaledSteps, ImageTracked, ImageIsHosts, OtherSnapshots, Labelled, Control,
      HandLabels, StateOK, HostOK, ProcessOK, host, state, process, history
<1>25. ASSUME NEW f \in Files, SweepDir(f) PROVE ImageTracked'
  BY <1>25
  DEF SweepDir, Continue, ImageTracked, ImageIsHosts, OtherSnapshots, Labelled, Control,
      HandLabels, StateOK, HostOK, ProcessOK, host, state, process, history
<1>26. ASSUME NEW f \in Files, RestoreFile(f) PROVE ImageTracked'
  BY <1>26
  DEF RestoreFile, Restorable, ChangedSinceApply, Gone, Undoing, Continue, ImageTracked,
      ImageIsHosts, OtherSnapshots, Labelled, Control, HandLabels, StateOK, HostOK,
      ProcessOK, host, state, process, history
<1>27. ASSUME NEW c \in Cmds, NoUndoCmd(c) PROVE ImageTracked'
  BY <1>27
  DEF NoUndoCmd, Undoing, Continue, TodoOK, JournaledSteps, ImageTracked, ImageIsHosts,
      OtherSnapshots, Labelled, Control, HandLabels, StateOK, HostOK, ProcessOK, host,
      state, process, history
<1>28. ASSUME NEW c \in Cmds, UndoCmd(c) PROVE ImageTracked'
  <2>1. UNCHANGED <<file, journal, before, todo, op>> /\ pc' = "forget" /\ cur' = c
    BY <1>28 DEF UndoCmd, Continue, state
  <2>2. CASE c \in Snapshots
    <3>1. op = "undo"
      BY <1>28, <2>2 DEF UndoCmd, Undoing, ImageTracked
    <3>2. ASSUME NEW f \in ImageFiles PROVE file[f] = before[f]
      <4>1. f \notin todo
        BY <1>28 DEF UndoCmd, Undoing, UndoneBefore
      <4> QED BY <3>1, <4>1 DEF ImageTracked
    <3>3. \A f \in ImageFiles : image'[f] = file[f]
      BY <1>28, <2>2 DEF UndoCmd, Regenerated
    <3> QED BY <2>1, <3>2, <3>3 DEF ImageTracked, ImageIsHosts
  <2>3. CASE c \notin Snapshots
    <3>1. UNCHANGED image
      BY <1>28, <2>3 DEF UndoCmd, Regenerated
    <3> QED BY <2>1, <2>3, <3>1 DEF ImageTracked, ImageIsHosts
  <2> QED BY <2>2, <2>3
<1>29. ASSUME NEW c \in Cmds, UndoCmdFails(c) PROVE ImageTracked'
  BY <1>29
  DEF UndoCmdFails, Exit, ImageTracked, ImageIsHosts, OtherSnapshots, Labelled, Control,
      HandLabels, StateOK, HostOK, ProcessOK, host, state, process, history
<1>30. ASSUME NEW u \in Units, UndoUnit(u) PROVE ImageTracked'
  BY <1>30
  DEF UndoUnit, Undoing, Continue, ImageTracked, ImageIsHosts, OtherSnapshots, Labelled,
      Control, HandLabels, StateOK, HostOK, ProcessOK, host, state, process, history
<1>31. ASSUME NEW s \in Steps, Forget(s) PROVE ImageTracked'
  BY <1>31
  DEF Forget, Drop, LeavingInHand, Clean, ImageTracked, ImageIsHosts, OtherSnapshots,
      Labelled, Control, HandLabels, StateOK, HostOK, ProcessOK, host, state, process,
      history
<1>32. CASE FinishUndo
  BY <1>32
  DEF FinishUndo, Exit, ImageTracked, ImageIsHosts, OtherSnapshots, Labelled, Control,
      HandLabels, StateOK, HostOK, ProcessOK, host, state, process, history
<1>33. CASE Stop
  BY <1>33
  DEF Stop, Exit, ImageTracked, ImageIsHosts, OtherSnapshots, Labelled, Control,
      HandLabels, StateOK, HostOK, ProcessOK, host, state, process, history
<1>34. ASSUME NEW f \in Files, NEW x \in Foreign \cup {Absent}, EditFile(f, x) PROVE ImageTracked'
  <2>1. UNCHANGED <<journal, op, pc, cur, text, todo>> /\ pc = "idle"
    BY <1>34 DEF EditFile, Idle, Labelled, Control, state, process
  <2>2. f \notin ImageFiles
    BY <1>34 DEF EditFile, OneRender
  <2>3. \A g \in ImageFiles : file'[g] = file[g] /\ before'[g] = before[g] /\ image'[g] = image[g]
    BY <1>34, <2>2 DEF EditFile, HostOK, HistoryOK
  <2> QED BY <2>1, <2>3 DEF ImageTracked, ImageIsHosts
<1>35. ASSUME NEW u \in Units, SwitchUnit(u) PROVE ImageTracked'
  BY <1>35
  DEF SwitchUnit, Idle, ImageTracked, ImageIsHosts, OtherSnapshots, Labelled, Control,
      HandLabels, StateOK, HostOK, ProcessOK, host, state, process, history
<1>36. ASSUME NEW c \in Cmds, LoseEffect(c) PROVE ImageTracked'
  BY <1>36
  DEF LoseEffect, Idle, ImageTracked, ImageIsHosts, OtherSnapshots, Labelled, Control,
      HandLabels, StateOK, HostOK, ProcessOK, host, state, process, history
<1>37. CASE UNCHANGED vars
  BY <1>37
  DEF vars, host, state, process, history, ImageTracked, ImageIsHosts, OtherSnapshots,
      Labelled, Control, HandLabels, StateOK, HostOK, ProcessOK
<1> QED BY <1>1, <1>2, <1>3, <1>4, <1>5, <1>6, <1>7, <1>8, <1>9, <1>10, <1>11, <1>12,
     <1>13, <1>14, <1>15, <1>16, <1>17, <1>18, <1>19, <1>20, <1>21, <1>22, <1>23, <1>24,
     <1>25, <1>26, <1>27, <1>28, <1>29, <1>30, <1>31, <1>32, <1>33, <1>34, <1>35, <1>36,
     <1>37, NextActions

(* The host built its initramfs from its own files. *)
LEMMA ImageInit == Init => ImageTracked
BY ContentsAssumption, StepsAssumption, NoRecAssumption
DEF Init, ImageTracked, ImageIsHosts, Journaled, Steps

(* So the image is always accounted for. *)
LEMMA ImageHolds == ASSUME SureReads, OneRender PROVE Spec => []ImageTracked
<1>1. IInv /\ Labelled /\ ImageTracked /\ [Next]_vars => ImageTracked'
  BY OneRender, ImageStep
<1> QED BY <1>1, ImageInit, LabelsHold, Invariance, PTL DEF Spec

(* Once nothing is journaled the initramfs holds the host's own files, for   *)
(* any number of files and of commands that rebuild it, under the conditions *)
(* of OneRender.                                                             *)
THEOREM ImageIsRestored == ASSUME SureReads, OneRender PROVE Spec => []ImageRestored
<1>1. ImageTracked => ImageRestored
  BY StepsAssumption DEF ImageTracked, ImageIsHosts, ImageRestored, Undone, JournaledSteps, Steps
<1> QED BY <1>1, ImageHolds, PTL

-----------------------------------------------------------------------------
(* The refinement of the undo log                                            *)

(* Only the record of s changes, to r. *)
LEMMA PutLogged ==
  ASSUME StateOK, NEW s \in Steps, NEW r \in FileRec \cup UnitRec \cup CmdRec, Put(s, r),
         s \in Cmds => r \in CmdRec
  PROVE  LoggedSteps' = IF s \in Reversible /\ (s \in Cmds => r.undo)
                        THEN LoggedSteps \cup {s} ELSE LoggedSteps \ {s}
BY NoRecAssumption DEF LoggedSteps, Put, StateOK, Journaled

LEMMA DropLogged ==
  ASSUME StateOK, NEW s \in Steps, Drop(s)
  PROVE  LoggedSteps' = LoggedSteps \ {s}
BY DEF LoggedSteps, Drop, StateOK, Journaled

LEMMA LoggedFrame == ASSUME UNCHANGED journal PROVE UNCHANGED LoggedSteps
BY DEF LoggedSteps, Journaled

LEMMA TouchedFrame ==
  ASSUME UNCHANGED <<file, unit, effect, before, unitBefore>>
  PROVE  UNCHANGED TouchedSteps
BY DEF TouchedSteps

(* The host changes at one step s, a reversible one, and at no other. *)
OnlyAt(s) ==
  /\ TouchedSteps' \ {s} = TouchedSteps \ {s}
  /\ s \in Reversible

LEMMA HostStep ==
  ASSUME NEW s, OnlyAt(s), UNCHANGED LoggedSteps, lost' = lost,
         s \in LoggedSteps, s \notin lost
  PROVE  [Log!Next]_Log!vars
<1>1. CASE s \in TouchedSteps'
  <2>1. TouchedSteps' = TouchedSteps \cup {s}
    BY <1>1 DEF OnlyAt
  <2> QED BY <2>1 DEF OnlyAt, Log!Next, Log!Touch
<1>2. CASE s \notin TouchedSteps'
  <2>1. TouchedSteps' = TouchedSteps \ {s} /\ lost' = lost \ {s}
    BY <1>2 DEF OnlyAt
  <2> QED BY <2>1 DEF OnlyAt, Log!Next, Log!PutBack
<1> QED BY <1>1, <1>2

(* The target of s is as it was again. *)
LEMMA BackStep ==
  ASSUME NEW s, OnlyAt(s), s \notin TouchedSteps', UNCHANGED LoggedSteps, lost' = lost \ {s}
  PROVE  [Log!Next]_Log!vars
<1>1. TouchedSteps' = TouchedSteps \ {s}
  BY DEF OnlyAt
<1> QED BY <1>1 DEF OnlyAt, Log!Next, Log!PutBack

(* What is neither logged nor on the host is no step of the log. *)
LEMMA NoStep ==
  ASSUME UNCHANGED <<LoggedSteps, TouchedSteps, lost>>
  PROVE  [Log!Next]_Log!vars
BY DEF Log!vars

(* A record leaves the journal. *)
LEMMA ForgetStep ==
  ASSUME StateOK, NEW s \in Steps, Drop(s), UNCHANGED <<TouchedSteps, lost>>,
         s \notin TouchedSteps \/ s \in lost
  PROVE  [Log!Next]_Log!vars
<1>1. LoggedSteps' = LoggedSteps \ {s}
  BY DropLogged
<1>2. CASE s \in Reversible
  BY <1>1, <1>2 DEF Log!Next, Log!Forget
<1>3. CASE s \notin Reversible
  <2>1. LoggedSteps' = LoggedSteps
    BY <1>1, <1>3 DEF LoggedSteps
  <2> QED BY <2>1, NoStep
<1> QED BY <1>2, <1>3

(* Every step of the engine is a step of the undo log, or none. *)
LEMMA UndoLogStep ==
  ASSUME IInv, [Next]_vars PROVE [Log!Next]_Log!vars
<1> USE StepsAssumption DEF IInv
<1>1. ASSUME NEW p \in Plans, NEW v \in Versions, StartApply(p, v) PROVE [Log!Next]_Log!vars
  BY <1>1, LoggedFrame, TouchedFrame, NoStep DEF StartApply, host, state, history
<1>2. CASE FinishApply
  BY <1>2, LoggedFrame, TouchedFrame, NoStep DEF FinishApply, host, state, history
<1>3. ASSUME NEW f \in Files, FileUnchanged(f) PROVE [Log!Next]_Log!vars
  BY <1>3, LoggedFrame, TouchedFrame, NoStep DEF FileUnchanged, host, state, history
<1>4. ASSUME NEW f \in Files, BackUpFile(f) PROVE [Log!Next]_Log!vars
  BY <1>4, LoggedFrame, TouchedFrame, NoStep DEF BackUpFile, host, state, history
<1>5. ASSUME NEW f \in Files, TearBackup(f) PROVE [Log!Next]_Log!vars
  BY <1>5, LoggedFrame, TouchedFrame, NoStep DEF TearBackup, host, state, history
<1>6. ASSUME NEW f \in Files, JournalFile(f) PROVE [Log!Next]_Log!vars
  <2>0. PICK r \in FileRec : Put(f, r)
    BY <1>6 DEF JournalFile, TypeOK, StateOK, HostOK, ProcessOK, Journaled, FileRec, Contents, MissingDir
  <2>1. LoggedSteps' = LoggedSteps \cup {f}
    BY <2>0, PutLogged DEF Steps, Reversible, TypeOK
  <2>2. UNCHANGED TouchedSteps
    BY <1>6, TouchedFrame DEF JournalFile, host, history
  <2>3. lost' = lost \ {f} /\ f \in Reversible
    BY <1>6 DEF JournalFile, history, TypeOK, HistoryOK, Reversible, Steps
  <2> QED BY <2>1, <2>2, <2>3 DEF Log!Next, Log!Log
<1>7. ASSUME NEW f \in Files, MakeTemp(f) PROVE [Log!Next]_Log!vars
  BY <1>7, LoggedFrame, TouchedFrame, NoStep DEF MakeTemp, host, state, history
<1>8. ASSUME NEW f \in Files, RenameTemp(f) PROVE [Log!Next]_Log!vars
  <2>1. f \in LoggedSteps /\ f \notin lost /\ cur = f
    BY <1>8 DEF RenameTemp, IInv, FileInHand, LoggedSteps, Reversible, Steps, TypeOK, HistoryOK
  <2>2. OnlyAt(f)
    BY <1>8 DEF RenameTemp, OnlyAt, TouchedSteps, Reversible, Steps, IInv, TypeOK, HostOK, history
  <2>3. UNCHANGED LoggedSteps /\ lost' = lost
    BY <1>8, LoggedFrame DEF RenameTemp, state, history
  <2> QED BY <2>1, <2>2, <2>3, HostStep
<1>9. ASSUME NEW f \in Files, Relabel(f) PROVE [Log!Next]_Log!vars
  BY <1>9, LoggedFrame, TouchedFrame, NoStep DEF Relabel, host, state, history
<1>10. ASSUME NEW c \in Cmds, CmdAlreadyApplied(c) PROVE [Log!Next]_Log!vars
  BY <1>10, LoggedFrame, TouchedFrame, NoStep DEF CmdAlreadyApplied, host, state, history
<1>11. ASSUME NEW c \in Cmds, JournalCmd(c) PROVE [Log!Next]_Log!vars
  <2>0. PICK r \in CmdRec : Put(c, r) /\ r.undo = UndoOf(c)
    <3>1. [input |-> want, undo |-> UndoOf(c)] \in CmdRec
      BY DEF CmdRec, UndoOf, IInv, TypeOK, ProcessOK
    <3> QED BY <1>11, <3>1 DEF JournalCmd
  <2>1. UNCHANGED TouchedSteps
    BY <1>11, TouchedFrame DEF JournalCmd, host
  <2>2. CASE UndoOf(c)
    <3>1. c \in Reversible
      BY <2>2 DEF UndoOf, Reversible, Steps
    <3>2. LoggedSteps' = LoggedSteps \cup {c}
      BY <2>0, <2>2, <3>1, PutLogged DEF Steps, TypeOK
    <3>3. lost' = lost \ {c}
      BY <1>11, <2>2 DEF JournalCmd
    <3> QED BY <2>1, <3>1, <3>2, <3>3 DEF Log!Next, Log!Log
  <2>3. CASE ~UndoOf(c)
    <3>1. c \notin LoggedSteps
      BY <2>3 DEF UndoOf, LoggedSteps, Reversible, Steps
    <3>2. LoggedSteps' = LoggedSteps \ {c}
      BY <2>0, <2>3, PutLogged DEF Steps, TypeOK
    <3>3. lost' = lost
      BY <1>11, <2>3 DEF JournalCmd
    <3> QED BY <2>1, <3>1, <3>2, <3>3, NoStep
  <2> QED BY <2>2, <2>3
<1>12. ASSUME NEW c \in Cmds, RunCmd(c) PROVE [Log!Next]_Log!vars
  <2>1. UNCHANGED LoggedSteps /\ lost' = lost
    BY <1>12, LoggedFrame DEF RunCmd, state, history
  <2>2. CASE c \in NoUndo \/ effect[c] \in Versions \cup {Native}
    <3>1. UNCHANGED TouchedSteps
      BY <1>12, <2>2, ContentsAssumption, StepsAssumption
      DEF RunCmd, Advance, TouchedSteps, TypeOK, HostOK, ProcessOK, history
    <3> QED BY <2>1, <3>1, NoStep
  <2>3. CASE c \notin NoUndo /\ effect[c] = NoEffect
    <3>1. c \in LoggedSteps
      BY <1>12, <2>3 DEF RunCmd, IInv, CmdInHand, LoggedSteps, Reversible, Steps
    <3>2. TouchedSteps' = TouchedSteps \cup {c}
      BY <1>12, <2>3, ContentsAssumption, StepsAssumption
      DEF RunCmd, Advance, TouchedSteps, TypeOK, HostOK, ProcessOK, history, Native, NoEffect
    <3> QED BY <2>1, <3>1, <3>2 DEF Log!Next, Log!Touch, LoggedSteps
  <2> QED BY <2>2, <2>3 DEF TypeOK, HostOK
<1>13. ASSUME NEW c \in Cmds, RunCmdFails(c) PROVE [Log!Next]_Log!vars
  BY <1>13, LoggedFrame, TouchedFrame, NoStep DEF RunCmdFails, host, state, history
<1>14. ASSUME NEW u \in Units, UnitAlreadyApplied(u) PROVE [Log!Next]_Log!vars
  BY <1>14, LoggedFrame, TouchedFrame, NoStep DEF UnitAlreadyApplied, host, state, history
<1>15. ASSUME NEW u \in Units, JournalUnit(u) PROVE [Log!Next]_Log!vars
  <2>0. PICK r \in UnitRec : Put(u, r)
    BY <1>15, ContentsAssumption DEF JournalUnit, UnitRec, Answers, TypeOK, HostOK, UnitStates
  <2>1. LoggedSteps' = LoggedSteps \cup {u}
    BY <2>0, PutLogged DEF Steps, Reversible, TypeOK
  <2>2. UNCHANGED TouchedSteps
    BY <1>15, TouchedFrame DEF JournalUnit, host, history
  <2>3. lost' = lost \ {u} /\ u \in Reversible
    BY <1>15 DEF JournalUnit, history, TypeOK, HistoryOK, Reversible, Steps
  <2> QED BY <2>1, <2>2, <2>3 DEF Log!Next, Log!Log
<1>16. ASSUME NEW u \in Units, ResetUnit(u) PROVE [Log!Next]_Log!vars
  BY <1>16, LoggedFrame, TouchedFrame, NoStep DEF ResetUnit, host, state, history
<1>17. ASSUME NEW u \in Units, SetUnit(u) PROVE [Log!Next]_Log!vars
  <2>1. u \in LoggedSteps /\ u \notin lost
    BY <1>17, StepsAssumption
    DEF SetUnit, IInv, UnitInHand, LoggedSteps, Reversible, Steps, TypeOK, HistoryOK
  <2>2. OnlyAt(u)
    BY <1>17, StepsAssumption
    DEF SetUnit, SetTo, OnlyAt, TouchedSteps, Reversible, Steps, TypeOK, HostOK, history
  <2>3. UNCHANGED LoggedSteps /\ lost' = lost
    BY <1>17, LoggedFrame DEF SetUnit, state, history
  <2> QED BY <2>1, <2>2, <2>3, HostStep
<1>18. ASSUME NEW u \in Units, SetUnitFails(u) PROVE [Log!Next]_Log!vars
  BY <1>18, LoggedFrame, TouchedFrame, NoStep DEF SetUnitFails, host, state, history
<1>19. ASSUME NEW s \in Steps, RollBack(s) PROVE [Log!Next]_Log!vars
  <2>1. UNCHANGED TouchedSteps
    BY <1>19, TouchedFrame DEF RollBack, host
  <2>2. CASE s \in Cmds \ NoUndo /\ effect[s] \in Versions
    <3>1. s \in TouchedSteps /\ s \in Reversible
      BY <2>2 DEF TouchedSteps, Reversible
    <3>2. LoggedSteps' = LoggedSteps \ {s} /\ lost' = lost \cup {s}
      BY <1>19, <2>2, DropLogged DEF RollBack, TypeOK
    <3> QED BY <2>1, <3>1, <3>2 DEF Log!Next, Log!Forfeit
  <2>3. CASE ~(s \in Cmds \ NoUndo /\ effect[s] \in Versions)
    <3>1. s \notin TouchedSteps
      BY <1>19, <2>3, StepsAssumption DEF RollBack, TouchedSteps, IInv, LeavingInHand
    <3> QED BY <1>19, <2>1, <2>3, <3>1, ForgetStep DEF RollBack, TypeOK
  <2> QED BY <2>2, <2>3
<1>20. ASSUME NEW f \in BOOLEAN, NEW p \in BOOLEAN, StartUndo(f, p) PROVE [Log!Next]_Log!vars
  BY <1>20, LoggedFrame, TouchedFrame, NoStep DEF StartUndo, host, state, history
<1>21. ASSUME NEW s \in StepUndo, NEW f \in BOOLEAN, StartUndoStep(s, f) PROVE [Log!Next]_Log!vars
  BY <1>21, LoggedFrame, TouchedFrame, NoStep DEF StartUndoStep, host, state, history
<1>22. ASSUME NEW s \in Steps, KeepData(s) PROVE [Log!Next]_Log!vars
  BY <1>22, LoggedFrame, TouchedFrame, NoStep DEF KeepData, host, state, history
<1>23. ASSUME NEW f \in Files, KeepChanged(f) PROVE [Log!Next]_Log!vars
  BY <1>23, LoggedFrame, TouchedFrame, NoStep DEF KeepChanged, host, state, history
<1>24. ASSUME NEW f \in Files, RemoveFile(f) PROVE [Log!Next]_Log!vars
  <2>1. file'[f] = before'[f] /\ \A g \in Files \ {f} : file'[g] = file[g]
    <3>1. Journaled(f) /\ ~journal[f].existed
      BY <1>24 DEF RemoveFile, Restorable, Undoing, TypeOK, TodoOK, JournaledSteps
    <3> QED BY <1>24, <3>1 DEF RemoveFile, IInv, BackupHoldsOriginal, TypeOK, HostOK, history
  <2>2. OnlyAt(f) /\ f \notin TouchedSteps'
    BY <1>24, <2>1, StepsAssumption DEF RemoveFile, OnlyAt, TouchedSteps, Reversible, Steps, history
  <2>3. UNCHANGED LoggedSteps /\ lost' = lost \ {f}
    BY <1>24, LoggedFrame, StepsAssumption DEF RemoveFile, state, history, TypeOK, HistoryOK
  <2> QED BY <2>2, <2>3, BackStep
<1>25. ASSUME NEW f \in Files, SweepDir(f) PROVE [Log!Next]_Log!vars
  BY <1>25, LoggedFrame, TouchedFrame, NoStep DEF SweepDir, host, state, history
<1>26. ASSUME NEW f \in Files, RestoreFile(f) PROVE [Log!Next]_Log!vars
  BY <1>26, LoggedFrame, TouchedFrame, NoStep DEF RestoreFile, host, state, history
<1>27. ASSUME NEW c \in Cmds, NoUndoCmd(c) PROVE [Log!Next]_Log!vars
  BY <1>27, LoggedFrame, TouchedFrame, NoStep DEF NoUndoCmd, host, state, history
<1>28. ASSUME NEW c \in Cmds, UndoCmd(c) PROVE [Log!Next]_Log!vars
  <2>1. UNCHANGED LoggedSteps /\ lost' = lost \ {c}
    BY <1>28, LoggedFrame DEF UndoCmd, state
  <2>2. CASE c \in NoUndo
    <3>1. UNCHANGED TouchedSteps /\ lost' = lost
      BY <1>28, <2>2 DEF UndoCmd, TouchedSteps, TypeOK, HostOK, HistoryOK
    <3> QED BY <2>1, <3>1, NoStep
  <2>3. CASE c \notin NoUndo
    <3>1. OnlyAt(c) /\ c \notin TouchedSteps'
      BY <1>28, <2>3, ContentsAssumption, StepsAssumption
      DEF UndoCmd, OnlyAt, TouchedSteps, Reversible, Steps, TypeOK, HostOK
    <3> QED BY <2>1, <3>1, BackStep
  <2> QED BY <2>2, <2>3
<1>29. ASSUME NEW c \in Cmds, UndoCmdFails(c) PROVE [Log!Next]_Log!vars
  BY <1>29, LoggedFrame, TouchedFrame, NoStep DEF UndoCmdFails, host, state, history
<1>30. ASSUME NEW u \in Units, UndoUnit(u) PROVE [Log!Next]_Log!vars
  <2>0. unit'[u] = unitBefore[u] /\ \A v \in Units \ {u} : unit'[v] = unit[v]
    <3>1. journal[u] \in UnitRec /\ journal[u].prior = unitBefore[u]
      BY <1>30 DEF UndoUnit, Undoing, TypeOK, TodoOK, JournaledSteps, Journaled, IInv,
                   PriorIsOriginal, StateOK
    <3>2. unit[u] = "unknown" <=> unitBefore[u] = "unknown"
      BY DEF IInv, UnitInHand
    <3> QED BY <1>30, <3>1, <3>2 DEF UndoUnit, SetTo, TypeOK, HostOK
  <2>1. OnlyAt(u) /\ u \notin TouchedSteps'
    BY <1>30, <2>0, StepsAssumption DEF UndoUnit, OnlyAt, TouchedSteps, Reversible, Steps, history
  <2>2. UNCHANGED LoggedSteps /\ lost' = lost \ {u}
    BY <1>30, LoggedFrame, StepsAssumption DEF UndoUnit, state, history, TypeOK, HistoryOK
  <2> QED BY <2>1, <2>2, BackStep
<1>31. ASSUME NEW s \in Steps, Forget(s) PROVE [Log!Next]_Log!vars
  <2>1. UNCHANGED <<TouchedSteps, lost>>
    BY <1>31, TouchedFrame DEF Forget, host, history
  <2>2. s \notin TouchedSteps \/ s \in lost
    BY <1>31, StepsAssumption DEF Forget, TouchedSteps, IInv, LeavingInHand, Clean
  <2> QED BY <1>31, <2>1, <2>2, ForgetStep DEF Forget, TypeOK
<1>32. CASE FinishUndo
  BY <1>32, LoggedFrame, TouchedFrame, NoStep DEF FinishUndo, host, state, history
<1>33. CASE Stop
  BY <1>33, LoggedFrame, TouchedFrame, NoStep DEF Stop, host, state, history
<1>34. ASSUME NEW f \in Files, NEW x \in Foreign \cup {Absent}, EditFile(f, x) PROVE [Log!Next]_Log!vars
  <2>1. UNCHANGED LoggedSteps /\ lost' = lost
    BY <1>34, LoggedFrame DEF EditFile, state
  <2>2. CASE Journaled(f)
    <3>1. f \in LoggedSteps /\ f \notin lost
      BY <2>2, StepsAssumption DEF LoggedSteps, Reversible, Steps, TypeOK, HistoryOK
    <3>2. OnlyAt(f)
      BY <1>34, <2>2, StepsAssumption
      DEF EditFile, OnlyAt, TouchedSteps, Reversible, Steps, TypeOK, HostOK
    <3> QED BY <2>1, <3>1, <3>2, HostStep
  <2>3. CASE ~Journaled(f)
    <3>1. file[f] = before[f]
      BY <2>3 DEF IInv, WriteAhead, FilesLogged
    <3>2. UNCHANGED TouchedSteps
      BY <1>34, <2>3, <3>1 DEF EditFile, TouchedSteps, TypeOK, HostOK, HistoryOK
    <3> QED BY <2>1, <3>2, NoStep
  <2> QED BY <2>2, <2>3
<1>35. ASSUME NEW u \in Units, SwitchUnit(u) PROVE [Log!Next]_Log!vars
  <2>1. UNCHANGED LoggedSteps /\ lost' = lost
    BY <1>35, LoggedFrame DEF SwitchUnit, state
  <2>2. CASE Journaled(u)
    <3>1. u \in LoggedSteps /\ u \notin lost
      BY <2>2, StepsAssumption DEF LoggedSteps, Reversible, Steps, TypeOK, HistoryOK
    <3>2. OnlyAt(u)
      BY <1>35, <2>2, StepsAssumption
      DEF SwitchUnit, OnlyAt, TouchedSteps, Reversible, Steps, TypeOK, HostOK
    <3> QED BY <2>1, <3>1, <3>2, HostStep
  <2>3. CASE ~Journaled(u)
    <3>1. unit[u] = unitBefore[u]
      BY <2>3 DEF IInv, WriteAhead, UnitsLogged
    <3>2. UNCHANGED TouchedSteps
      BY <1>35, <2>3, <3>1 DEF SwitchUnit, TouchedSteps, TypeOK, HostOK, HistoryOK
    <3> QED BY <2>1, <3>2, NoStep
  <2> QED BY <2>2, <2>3
<1>36. ASSUME NEW c \in Cmds, LoseEffect(c) PROVE [Log!Next]_Log!vars
  <2>1. UNCHANGED LoggedSteps /\ lost' = lost \ {c}
    BY <1>36, LoggedFrame DEF LoseEffect, state
  <2>2. CASE c \in NoUndo
    <3>1. UNCHANGED TouchedSteps /\ lost' = lost
      BY <1>36, <2>2 DEF LoseEffect, TouchedSteps, TypeOK, HostOK, HistoryOK
    <3> QED BY <2>1, <3>1, NoStep
  <2>3. CASE c \notin NoUndo
    <3>1. OnlyAt(c) /\ c \notin TouchedSteps'
      BY <1>36, <2>3, ContentsAssumption, StepsAssumption
      DEF LoseEffect, OnlyAt, TouchedSteps, Reversible, Steps, TypeOK, HostOK
    <3> QED BY <2>1, <3>1, BackStep
  <2> QED BY <2>2, <2>3
<1>37. CASE UNCHANGED vars
  BY <1>37, LoggedFrame, TouchedFrame, NoStep DEF vars, host, state, history
<1> QED BY <1>1, <1>2, <1>3, <1>4, <1>5, <1>6, <1>7, <1>8, <1>9, <1>10,
     <1>11, <1>12, <1>13, <1>14, <1>15, <1>16, <1>17, <1>18, <1>19, <1>20,
     <1>21, <1>22, <1>23, <1>24, <1>25, <1>26, <1>27, <1>28, <1>29, <1>30,
     <1>31, <1>32, <1>33, <1>34, <1>35, <1>36, <1>37, NextActions

(* The engine keeps the promise of the undo log. *)
THEOREM Refinement == ASSUME SureReads PROVE Spec => ImplementsUndoLog
<1>1. Init => Log!Init
  BY ContentsAssumption DEF Init, Log!Init, LoggedSteps, TouchedSteps, Journaled, Reversible
<1>2. IInv /\ [Next]_vars => [Log!Next]_Log!vars
  BY UndoLogStep
<1> QED BY <1>1, <1>2, Invariance, PTL DEF Spec, ImplementsUndoLog, Log!Spec
=============================================================================
