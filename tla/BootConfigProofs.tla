-------------------------- MODULE BootConfigProofs --------------------------
(* Theorems about the kernel arguments, for every set of arguments and of  *)
(* entries.  The invariant relates three things that no single action      *)
(* sees together: what undo will take from a file, what the file carried   *)
(* of its own, and what it carries.                                        *)
EXTENDS BootConfig, TLAPS

(* The list that undo will use, once apply has made one. *)
UndoList == IF Journaled THEN record ELSE plan

DropOf(list, t) ==
  IF t \in list.named THEN list.lacks[t]
  ELSE IF t \in Entries THEN list.lacks[Cmdline] ELSE {}

(* The list is exact: of a file it names, it has everything that is not    *)
(* the file's own, and a file it does not name is a copy of the cmdline    *)
(* file.  Only without that file may the list know too little.             *)
Exact(list) ==
  /\ list.named \cap {Cmdline, Grub} = exists \cap {Cmdline, Grub}
  /\ \A t \in list.named : list.lacks[t] = Args \ had[t]
  /\ \A t \in Targets \ list.named : list.lacks[t] = {}
  /\ \A t \in exists : had[t] \cap DropOf(list, t) = {}
  /\ Cmdline \in exists => \A t \in exists : Args \ had[t] \subseteq DropOf(list, t)

ListExact == Journaled \/ pc = "planned" => Exact(UndoList)

(* What ours left is journaled; undo and apply have dealt with the files   *)
(* that they have left behind them.                                        *)
TracesJournaled == traces = "ours" => Journaled
RemovedSoFar ==
  pc = "removing" =>
    /\ ~intact /\ (~Journaled => todo = {})
    /\ \A t \in exists \ todo : Journaled => carries[t] \cap DropFrom(t) = {}
AddedSoFar == pc = "adding" => \A t \in exists \ todo : Args \subseteq carries[t]
NothingMissing ==
  pc = "planned" /\ ~Missing(plan) /\ Cmdline \in exists =>
    \A t \in exists : Args \subseteq carries[t]

(* Between the commands nothing is left to write. *)
TypeInv == TypeOK /\ (Quiet => todo = {})

Inv ==
  /\ TypeInv /\ ListExact /\ TracesJournaled /\ RemovedSoFar /\ AddedSoFar
  /\ NothingMissing /\ ArgsStay

-----------------------------------------------------------------------------
LEMMA TypeInit == Init => TypeInv
<1> SUFFICES ASSUME Init PROVE TypeInv
  OBVIOUS
<1>1. exists \subseteq Targets
  BY DEF Init, Targets
<1>2. NoList \in Lists /\ Journal(FALSE, NoList) \in Records
  BY DEF NoList, Lists, Journal, Records
<1> QED BY <1>1, <1>2 DEF Init, TypeInv, TypeOK

(* Every action keeps the types.                                            *)
LEMMA TypeStep == TypeInv /\ [Next]_vars => TypeInv'
<1> SUFFICES ASSUME TypeInv, [Next]_vars PROVE TypeInv'
  OBVIOUS
<1> USE DEF TypeInv, TypeOK, Quiet, Records, Lists, NoList, Journal, host, process, history
<1>1. \A t \in Targets : Absent(t) \subseteq Args
  BY DEF Absent
<1>2. Wanted \in Lists
  BY <1>1 DEF Wanted, BootTargets
<1>3. CASE PlanApply
  BY <1>2, <1>3 DEF PlanApply
<1>4. CASE AlreadyApplied
  BY <1>4 DEF AlreadyApplied
<1>5. CASE JournalArgs
  BY <1>5 DEF JournalArgs, BootTargets
<1>6. CASE FinishApply
  BY <1>6 DEF FinishApply
<1>7. CASE AddFails
  BY <1>7 DEF AddFails
<1>8. CASE StartUndo
  BY <1>8 DEF StartUndo, BootTargets
<1>9. CASE FinishUndo
  BY <1>9 DEF FinishUndo
<1>10. CASE Kill
  BY <1>10 DEF Kill
<1>11. ASSUME NEW t \in Targets, AddArgs(t) PROVE TypeInv'
  BY <1>1, <1>11 DEF AddArgs
<1>12. ASSUME NEW t \in Targets, RemoveArgs(t) PROVE TypeInv'
  BY <1>12 DEF RemoveArgs
<1>13. ASSUME NEW e \in Entries, InstallKernel(e) PROVE TypeInv'
  BY <1>13 DEF InstallKernel, Targets
<1>14. ASSUME NEW e \in Entries, RemoveKernel(e) PROVE TypeInv'
  BY <1>14 DEF RemoveKernel, Targets
<1>15. CASE Regenerate
  BY <1>15 DEF Regenerate, Targets
<1>16. ASSUME NEW t \in Targets, NEW a \in Args, DropByHand(t, a) PROVE TypeInv'
  BY <1>16 DEF DropByHand
<1>17. ASSUME NEW t \in Targets, EditByHand(t) PROVE TypeInv'
  BY <1>17 DEF EditByHand
<1>18. CASE Reboot
  BY <1>18 DEF Reboot, Targets
<1>19. CASE UNCHANGED vars
  BY <1>19 DEF vars
<1> HIDE DEF TypeInv
<1>20. CASE Environment
  BY <1>13, <1>14, <1>15, <1>16, <1>17, <1>18, <1>20 DEF Environment
<1> QED
  BY <1>3, <1>4, <1>5, <1>6, <1>7, <1>8, <1>9, <1>10, <1>11, <1>12, <1>19, <1>20 DEF Next

(* Every variable has its type, and what is to be written is there.        *)
THEOREM TypeCorrect == Spec => []TypeOK
<1>1. Init => TypeInv
  BY TypeInit
<1>2. TypeInv => TypeOK
  BY DEF TypeInv
<1> QED BY <1>1, <1>2, TypeStep, PTL DEF Spec

-----------------------------------------------------------------------------
(* The list of undo *)

(* What is wanted of a file is what it has not. *)
LEMMA WantedLacks ==
  /\ Wanted.named = exists
  /\ \A t \in Targets : Wanted.lacks[t] = IF t \in exists THEN Args \ carries[t] ELSE {}
BY DEF Wanted, BootTargets, Absent

(* Journaling a list keeps it. *)
LEMMA JournalKeeps ==
  ASSUME NEW b \in BOOLEAN, NEW list, Exact(list)
  PROVE  Exact(Journal(b, list))
BY DEF Exact, DropOf, Journal

(* A step that leaves the files, what they had, and the list. *)
LEMMA ListFrame ==
  ASSUME ListExact, UNCHANGED <<exists, had, record>>,
         pc' = "planned" => pc = "planned" /\ plan' = plan
  PROVE  ListExact'
BY DEF ListExact, UndoList, Journaled, Missing, Exact, DropOf

LEMMA ListStep == Inv /\ [Next]_vars => ListExact'
<1> SUFFICES ASSUME Inv, [Next]_vars PROVE ListExact'
  OBVIOUS
<1> USE DEF host, process, history
<1>1. CASE PlanApply
  <2>1. Journaled' = Journaled /\ plan' = Wanted
    BY <1>1 DEF PlanApply, Journaled, Missing
  <2>2. CASE Journaled
    BY <1>1, <2>1, <2>2 DEF PlanApply, Inv, ListExact, UndoList, Exact, DropOf
  <2>3. CASE ~Journaled
    <3>1. had' = carries /\ exists' = exists
      BY <1>1, <2>3 DEF PlanApply
    <3>2. exists \subseteq Targets
      BY DEF Inv, TypeInv, TypeOK
    <3> DEFINE list == Wanted
    <3>3. /\ list.named = exists
          /\ \A t \in Targets : list.lacks[t] = IF t \in exists THEN Args \ had'[t] ELSE {}
      BY <3>1, WantedLacks
    <3> HIDE DEF list
    <3>4. Exact(plan)'
      <4>1. plan' = list
        BY <2>1 DEF list
      <4>2. \A t \in exists' : DropOf(plan, t)' = Args \ had'[t]
        BY <3>1, <3>2, <3>3, <4>1 DEF DropOf
      <4> QED BY <3>1, <3>2, <3>3, <4>1, <4>2 DEF Exact
    <3> QED BY <2>1, <2>3, <3>4 DEF ListExact, UndoList
  <2> QED BY <2>2, <2>3
<1>2. CASE JournalArgs
  <2>1. UNCHANGED <<exists, had, plan>> /\ pc' = "adding"
    BY <1>2 DEF JournalArgs
  <2>2. CASE Journaled
    BY <1>2, <2>1, <2>2, ListFrame DEF JournalArgs, Inv
  <2>3. CASE ~Journaled
    <3>1. record' = Journal(TRUE, plan) /\ Exact(plan)
      BY <1>2, <2>3 DEF JournalArgs, Inv, ListExact, UndoList
    <3>2. Exact(Journal(TRUE, plan))
      BY <3>1, JournalKeeps
    <3>3. Exact(record)'
      BY <2>1, <3>1, <3>2 DEF Exact, DropOf
    <3> QED BY <2>1, <3>3 DEF ListExact, UndoList
  <2> QED BY <2>2, <2>3
<1>3. CASE AddFails \/ FinishUndo
  BY <1>3 DEF AddFails, FinishUndo, ListExact, Journaled, Journal
<1>4. ASSUME NEW e \in Entries, InstallKernel(e) PROVE ListExact'
  <2> DEFINE list == UndoList
  <2>1. list' = list /\ Journaled' = Journaled /\ pc' = pc
    BY <1>4 DEF InstallKernel, UndoList, Journaled, Missing
  <2>2. SUFFICES ASSUME Journaled \/ pc = "planned" PROVE Exact(list)'
    BY <2>1 DEF ListExact
  <2>3. Exact(list) /\ list.named \subseteq Targets /\ e \in Targets
    BY <2>2 DEF Inv, ListExact, TypeInv, TypeOK, UndoList, Records, Lists, Targets
  <2>4. e \notin {Cmdline, Grub} /\ exists' = exists \cup {e}
    BY <1>4, BootConfigAssumption DEF InstallKernel
  <2>5. had' = [had EXCEPT ![e] = IF e \in list.named THEN @
                                  ELSE IF Cmdline \in exists THEN had[Cmdline] ELSE liveHad]
    BY <1>4, <2>1 DEF InstallKernel, UndoList
  <2>6. \A t \in Targets \ {e} : had'[t] = had[t]
    BY <2>5 DEF Inv, TypeInv, TypeOK
  <2>7. e \in list.named => had'[e] = had[e]
    BY <2>3, <2>5 DEF Inv, TypeInv, TypeOK
  <2>8. e \notin list.named /\ Cmdline \in exists => had'[e] = had[Cmdline]
    BY <2>3, <2>5 DEF Inv, TypeInv, TypeOK
  <2> HIDE DEF list
  <2>9. \A t \in list.named : list.lacks[t] = Args \ had'[t]
    BY <2>3, <2>6, <2>7 DEF Exact
  <2>10. \A t \in Targets : DropOf(list, t)' = DropOf(list, t)
    BY <2>1 DEF DropOf
  <2>11. had'[e] \cap DropOf(list, e) = {}
    BY <2>3, <2>4, <2>6, <2>7, <2>8, <2>9 DEF Exact, DropOf, Targets
  <2>12. Cmdline \in exists => Args \ had'[e] \subseteq DropOf(list, e)
    BY <2>3, <2>4, <2>6, <2>7, <2>8, <2>9 DEF Exact, DropOf, Targets
  <2>13. \A t \in exists : t \in Targets
    BY DEF Inv, TypeInv, TypeOK
  <2>14. \A t \in exists' : had'[t] \cap DropOf(list, t) = {}
    BY <2>3, <2>4, <2>6, <2>11, <2>13, <1>4 DEF Exact, InstallKernel
  <2>15. Cmdline \in exists' => \A t \in exists' : Args \ had'[t] \subseteq DropOf(list, t)
    BY <2>3, <2>4, <2>6, <2>12, <2>13, <1>4 DEF Exact, InstallKernel
  <2> QED
    BY <2>1, <2>3, <2>4, <2>9, <2>10, <2>13, <2>14, <2>15 DEF Exact, DropOf
<1>5. ASSUME NEW e \in Entries, RemoveKernel(e) PROVE ListExact'
  <2>1. UNCHANGED <<record, plan, pc, had>> /\ exists' = exists \ {e}
    BY <1>5 DEF RemoveKernel
  <2>2. exists' \cap {Cmdline, Grub} = exists \cap {Cmdline, Grub}
    BY <2>1, BootConfigAssumption
  <2>3. Cmdline \in exists' => Cmdline \in exists
    BY <2>1
  <2> QED
    BY <2>1, <2>2, <2>3 DEF Inv, ListExact, UndoList, Journaled, Missing, Exact, DropOf
<1>6. CASE AlreadyApplied \/ FinishApply \/ StartUndo \/ Kill \/ Regenerate \/ Reboot
  BY <1>6, ListFrame
     DEF AlreadyApplied, FinishApply, StartUndo, Kill, Regenerate, Reboot, Inv
<1>7. ASSUME NEW t \in Targets,
             AddArgs(t) \/ RemoveArgs(t) \/ EditByHand(t) \/ \E a \in Args : DropByHand(t, a)
      PROVE  ListExact'
  BY <1>7, ListFrame DEF AddArgs, RemoveArgs, EditByHand, DropByHand, Inv
<1>8. CASE UNCHANGED vars
  BY <1>8, ListFrame DEF vars, Inv
<1>9. CASE Environment
  BY <1>4, <1>5, <1>6, <1>7, <1>9 DEF Environment
<1> QED
  BY <1>1, <1>2, <1>3, <1>6, <1>7, <1>8, <1>9 DEF Next

-----------------------------------------------------------------------------
(* What is done of a command *)

LEMMA TracesStep == Inv /\ [Next]_vars => TracesJournaled'
<1> SUFFICES ASSUME Inv, [Next]_vars PROVE TracesJournaled'
  OBVIOUS
<1> USE DEF host, process, history
<1>1. CASE JournalArgs
  BY <1>1 DEF JournalArgs, Inv, TracesJournaled, Journaled, Missing, Journal
<1>2. CASE AddFails \/ FinishUndo
  BY <1>2 DEF AddFails, FinishUndo, TracesJournaled, Inv, TypeInv, TypeOK
<1>3. CASE UNCHANGED <<record, traces>>
  BY <1>3 DEF Inv, TracesJournaled, Journaled, Missing
<1>4. CASE Environment
  BY <1>3, <1>4
     DEF Environment, InstallKernel, RemoveKernel, EditByHand, DropByHand, Regenerate, Reboot
<1>5. CASE PlanApply \/ AlreadyApplied \/ FinishApply \/ StartUndo \/ Kill \/ UNCHANGED vars
  BY <1>3, <1>5 DEF PlanApply, AlreadyApplied, FinishApply, StartUndo, Kill, vars
<1>6. ASSUME NEW t \in Targets, AddArgs(t) \/ RemoveArgs(t) PROVE TracesJournaled'
  BY <1>3, <1>6 DEF AddArgs, RemoveArgs
<1> QED BY <1>1, <1>2, <1>4, <1>5, <1>6 DEF Next

LEMMA RemovedStep == Inv /\ [Next]_vars => RemovedSoFar'
<1> SUFFICES ASSUME Inv, [Next]_vars, pc' = "removing" PROVE RemovedSoFar'
  BY DEF RemovedSoFar
<1> USE DEF host, process, history
<1>1. CASE StartUndo
  BY <1>1 DEF StartUndo, RemovedSoFar, Journaled, Missing, BootTargets
<1>2. ASSUME NEW t \in Targets, RemoveArgs(t) PROVE RemovedSoFar'
  <2>1. /\ UNCHANGED <<exists, record, intact>> /\ Journaled' = Journaled
        /\ \A u \in Targets : DropFrom(u)' = DropFrom(u)
    BY <1>2 DEF RemoveArgs, Journaled, Missing, DropFrom
  <2>2. /\ \A u \in Targets \ {t} : carries'[u] = carries[u]
        /\ carries'[t] = carries[t] \ DropFrom(t)
    BY <1>2 DEF RemoveArgs, Inv, TypeInv, TypeOK
  <2>3. todo' = todo \ {t} /\ exists \subseteq Targets /\ RemovedSoFar /\ pc = "removing"
    BY <1>2 DEF RemoveArgs, Inv, TypeInv, TypeOK
  <2> QED BY <2>1, <2>2, <2>3 DEF RemovedSoFar
<1>3. CASE UNCHANGED vars
  BY <1>3 DEF vars, Inv, RemovedSoFar, Journaled, Missing, DropFrom
<1>4. ~Environment
  BY DEF Environment, InstallKernel, RemoveKernel, EditByHand, DropByHand, Regenerate, Reboot, Quiet
<1>5. ~(PlanApply \/ AlreadyApplied \/ JournalArgs \/ FinishApply \/ AddFails \/ FinishUndo \/ Kill)
  BY DEF PlanApply, AlreadyApplied, JournalArgs, FinishApply, AddFails, FinishUndo, Kill
<1>6. \A t \in Targets : ~AddArgs(t)
  BY DEF AddArgs
<1> QED BY <1>1, <1>2, <1>3, <1>4, <1>5, <1>6 DEF Next

LEMMA AddedStep == Inv /\ [Next]_vars => AddedSoFar'
<1> SUFFICES ASSUME Inv, [Next]_vars, pc' = "adding" PROVE AddedSoFar'
  BY DEF AddedSoFar
<1> USE DEF host, process, history
<1>1. CASE JournalArgs
  BY <1>1 DEF JournalArgs, AddedSoFar, BootTargets
<1>2. ASSUME NEW t \in Targets, AddArgs(t) PROVE AddedSoFar'
  <2>1. /\ \A u \in Targets \ {t} : carries'[u] = carries[u]
        /\ Args \subseteq carries'[t]
    BY <1>2 DEF AddArgs, Absent, Inv, TypeInv, TypeOK
  <2>2. /\ exists' = exists /\ todo' = todo \ {t} /\ exists \subseteq Targets
        /\ AddedSoFar /\ pc = "adding"
    BY <1>2 DEF AddArgs, Inv, TypeInv, TypeOK
  <2> QED BY <2>1, <2>2 DEF AddedSoFar
<1>3. CASE UNCHANGED vars
  BY <1>3 DEF vars, Inv, AddedSoFar
<1>4. ~Environment
  BY DEF Environment, InstallKernel, RemoveKernel, EditByHand, DropByHand, Regenerate, Reboot, Quiet
<1>5. ~(PlanApply \/ AlreadyApplied \/ FinishApply \/ AddFails \/ StartUndo \/ FinishUndo \/ Kill)
  BY DEF PlanApply, AlreadyApplied, FinishApply, AddFails, StartUndo, FinishUndo, Kill
<1>6. \A t \in Targets : ~RemoveArgs(t)
  BY DEF RemoveArgs
<1> QED BY <1>1, <1>2, <1>3, <1>4, <1>5, <1>6 DEF Next

-----------------------------------------------------------------------------
(* What the host does to files that all have the arguments *)

Equipped == \A t \in exists : Args \subseteq carries[t]

LEMMA KernelsKeep ==
  ASSUME TypeOK, Equipped, NEW e \in Entries,
         \/ InstallKernel(e) /\ Cmdline \in exists
         \/ RemoveKernel(e)
  PROVE  Equipped'
<1>1. e \in Targets /\ exists \subseteq Targets
  BY DEF Targets, TypeOK
<1>2. \A t \in Targets \ {e} : carries'[t] = carries[t]
  BY DEF InstallKernel, RemoveKernel, TypeOK
<1>3. CASE InstallKernel(e) /\ Cmdline \in exists
  <2>1. carries'[e] = carries[Cmdline] /\ exists' = exists \cup {e}
    BY <1>1, <1>3 DEF InstallKernel, TypeOK
  <2> QED BY <1>1, <1>2, <1>3, <2>1 DEF Equipped
<1>4. CASE RemoveKernel(e)
  <2>1. exists' = exists \ {e}
    BY <1>4 DEF RemoveKernel
  <2> QED BY <1>1, <1>2, <2>1 DEF Equipped
<1> QED BY <1>3, <1>4

LEMMA RegenerateKeeps == ASSUME TypeOK, Equipped, Regenerate PROVE Equipped'
<1>1. exists' = exists /\ Grub \in exists /\ exists \subseteq Targets
  BY DEF Regenerate, TypeOK
<1>2. \A t \in exists : carries'[t] = carries[Grub]
  BY <1>1 DEF Regenerate
<1> QED BY <1>1, <1>2 DEF Equipped

LEMMA NothingMissingStep == Inv /\ [Next]_vars => NothingMissing'
<1> SUFFICES ASSUME Inv, [Next]_vars, pc' = "planned", ~Missing(plan'), (Cmdline \in exists)'
             PROVE  Equipped'
  BY DEF NothingMissing, Equipped, Missing
<1> USE DEF host, process, history
<1>1. CASE PlanApply
  <2>1. plan' = Wanted /\ UNCHANGED <<exists, carries>> /\ exists \subseteq Targets
    BY <1>1 DEF PlanApply, Inv, TypeInv, TypeOK
  <2> QED BY <2>1, WantedLacks DEF Missing, Equipped
<1>2. ASSUME plan' = plan, pc = "planned", Cmdline \in exists PROVE Equipped /\ TypeOK
  BY <1>2 DEF Inv, NothingMissing, Equipped, TypeInv, Missing
<1>3. ASSUME UNCHANGED <<plan, pc, exists, carries>> PROVE Equipped'
  BY <1>2, <1>3 DEF Equipped
<1>4. ASSUME NEW e \in Entries, InstallKernel(e) \/ RemoveKernel(e) PROVE Equipped'
  <2>1. plan' = plan /\ pc = "planned" /\ Cmdline \in exists
    BY <1>4, BootConfigAssumption DEF InstallKernel, RemoveKernel
  <2> QED BY <1>2, <1>4, <2>1, KernelsKeep
<1>5. CASE Regenerate
  <2>1. plan' = plan /\ pc = "planned" /\ Cmdline \in exists
    BY <1>5 DEF Regenerate
  <2> QED BY <1>2, <1>5, <2>1, RegenerateKeeps
<1>6. ASSUME NEW t \in Targets PROVE ~EditByHand(t) /\ \A a \in Args : ~DropByHand(t, a)
  BY DEF EditByHand, DropByHand
<1>7. ~Reboot
  BY DEF Reboot
<1>8. CASE Environment
  BY <1>4, <1>5, <1>6, <1>7, <1>8 DEF Environment
<1>9. ~(AlreadyApplied \/ JournalArgs \/ FinishApply \/ AddFails \/ StartUndo \/ FinishUndo \/ Kill)
  BY DEF AlreadyApplied, JournalArgs, FinishApply, AddFails, StartUndo, FinishUndo, Kill
<1>10. \A t \in Targets : ~AddArgs(t) /\ ~RemoveArgs(t)
  BY DEF AddArgs, RemoveArgs
<1>11. CASE UNCHANGED vars
  BY <1>3, <1>11 DEF vars
<1> QED BY <1>1, <1>8, <1>9, <1>10, <1>11 DEF Next

LEMMA ArgsStayStep == Inv /\ [Next]_vars => ArgsStay'
<1> SUFFICES ASSUME Inv, [Next]_vars, intact', (Cmdline \in exists)' PROVE Equipped'
  BY DEF ArgsStay, Equipped
<1> USE DEF host, process, history
<1>1. TypeOK
  BY DEF Inv, TypeInv
<1>2. ASSUME intact, Cmdline \in exists PROVE Equipped
  BY <1>2 DEF Inv, ArgsStay, Equipped
<1>3. ASSUME UNCHANGED <<intact, exists, carries>> PROVE Equipped'
  BY <1>2, <1>3 DEF Equipped
<1>4. CASE AlreadyApplied
  BY <1>4 DEF AlreadyApplied, Inv, NothingMissing, Equipped
<1>5. CASE FinishApply
  BY <1>5 DEF FinishApply, Inv, AddedSoFar, Equipped
<1>6. ASSUME NEW t \in Targets, AddArgs(t) PROVE Equipped'
  <2>1. /\ UNCHANGED <<intact, exists>> /\ exists \subseteq Targets
        /\ \A u \in Targets : carries[u] \subseteq carries'[u]
    BY <1>1, <1>6 DEF AddArgs, TypeOK
  <2> QED BY <1>2, <2>1 DEF Equipped
<1>7. ASSUME NEW t \in Targets PROVE ~RemoveArgs(t)
  BY DEF RemoveArgs, Inv, RemovedSoFar
<1>8. ASSUME NEW e \in Entries, InstallKernel(e) \/ RemoveKernel(e) PROVE Equipped'
  <2>1. intact /\ Cmdline \in exists
    BY <1>8, BootConfigAssumption DEF InstallKernel, RemoveKernel
  <2> QED BY <1>1, <1>2, <1>8, <2>1, KernelsKeep
<1>9. CASE Regenerate
  <2>1. intact /\ Cmdline \in exists
    BY <1>9 DEF Regenerate
  <2> QED BY <1>1, <1>2, <1>9, <2>1, RegenerateKeeps
<1>10. ASSUME NEW t \in Targets, NEW a \in Args PROVE ~DropByHand(t, a)
  BY DEF DropByHand
<1>11. ASSUME NEW t \in Targets, EditByHand(t) PROVE Equipped'
  BY <1>3, <1>11 DEF EditByHand
<1>12. CASE Environment
  BY <1>3, <1>8, <1>9, <1>10, <1>11, <1>12 DEF Environment, Reboot
<1>13. ~StartUndo
  BY DEF StartUndo
<1>14. CASE PlanApply \/ JournalArgs \/ AddFails \/ FinishUndo \/ Kill \/ UNCHANGED vars
  BY <1>3, <1>14 DEF PlanApply, JournalArgs, AddFails, FinishUndo, Kill, vars
<1> QED BY <1>4, <1>5, <1>6, <1>7, <1>12, <1>13, <1>14 DEF Next

-----------------------------------------------------------------------------
(* The theorems *)

LEMMA Invariance == Spec => []Inv
<1>1. Init => Inv
  <2> SUFFICES ASSUME Init PROVE Inv
    OBVIOUS
  <2>1. TypeInv
    BY TypeInit
  <2> QED
    BY <2>1 DEF Init, Inv, ListExact, Journaled, Journal, TracesJournaled, RemovedSoFar,
                AddedSoFar, NothingMissing, ArgsStay
<1>2. Inv /\ [Next]_vars => Inv'
  BY TypeStep, ListStep, TracesStep, RemovedStep, AddedStep, NothingMissingStep, ArgsStayStep
     DEF Inv
<1> QED BY <1>1, <1>2, PTL DEF Spec

(* Arguments that apply wrote stay through kernel updates and runs of      *)
(* grub2-mkconfig, whatever is killed in between.                          *)
THEOREM ArgsStayOn == Spec => []ArgsStay
<1>1. Inv => ArgsStay
  BY DEF Inv
<1> QED BY <1>1, Invariance, PTL

(* Undo leaves every file what it carried of its own.                      *)
THEOREM UndoSpares == Spec => UndoLeavesOwn
<1>1. Inv /\ [Next]_vars => [OwnArgsStay]_vars
  <2> SUFFICES ASSUME Inv, [Next]_vars, pc = "removing", NEW u \in exists
               PROVE  had[u] \cap carries[u] \subseteq carries'[u]
    BY DEF OwnArgsStay
  <2> USE DEF host, process, history
  <2>1. ASSUME NEW t \in Targets, RemoveArgs(t)
        PROVE  had[u] \cap carries[u] \subseteq carries'[u]
    <3>1. Journaled
      BY <2>1 DEF RemoveArgs, NextFile, Inv, RemovedSoFar
    <3>2. had[u] \cap DropFrom(u) = {}
      BY <3>1 DEF Inv, ListExact, UndoList, Exact, DropOf, DropFrom
    <3> QED BY <2>1, <3>2 DEF RemoveArgs, Inv, TypeInv, TypeOK
  <2>2. CASE UNCHANGED carries
    BY <2>2
  <2>3. CASE Environment
    BY <2>2, <2>3
       DEF Environment, InstallKernel, RemoveKernel, EditByHand, DropByHand, Regenerate, Reboot, Quiet
  <2>4. ~(PlanApply \/ AlreadyApplied \/ JournalArgs \/ FinishApply \/ AddFails \/ StartUndo)
    BY DEF PlanApply, AlreadyApplied, JournalArgs, FinishApply, AddFails, StartUndo
  <2>5. CASE FinishUndo \/ Kill \/ UNCHANGED vars
    BY <2>2, <2>5 DEF FinishUndo, Kill, vars
  <2>6. \A t \in Targets : ~AddArgs(t)
    BY DEF AddArgs
  <2> QED BY <2>1, <2>3, <2>4, <2>5, <2>6 DEF Next
<1> QED BY <1>1, Invariance, PTL DEF Spec, UndoLeavesOwn

(* A finished undo leaves nothing of ours, in entries made since either.   *)
THEOREM UndoCompletes == Spec => UndoTakesAll
<1>1. Inv => (Cmdline \in exists => TakenBack)
  <2> SUFFICES ASSUME Inv, Cmdline \in exists, FinishUndo, traces = "ours", NEW t \in exists
               PROVE  carries[t] \subseteq had[t]
    BY DEF TakenBack
  <2>1. Journaled /\ carries[t] \subseteq Args
    BY DEF Inv, TracesJournaled, TypeInv, TypeOK
  <2>2. carries[t] \cap DropFrom(t) = {}
    BY <2>1 DEF FinishUndo, Inv, RemovedSoFar
  <2>3. Args \ had[t] \subseteq DropFrom(t)
    BY <2>1 DEF Inv, ListExact, UndoList, Exact, DropOf, DropFrom
  <2> QED BY <2>1, <2>2, <2>3
<1>2. Inv => [(Cmdline \in exists => TakenBack)]_vars
  BY <1>1
<1> QED BY <1>2, Invariance, PTL DEF Spec, UndoTakesAll

(* A reboot that preflight asks for brings the arguments, whichever kernel *)
(* it is into: no file that the host boots from lacks one by then.         *)
THEOREM RebootDelivers == Spec => RebootSuffices
<1>1. TypeInv /\ [Next]_vars => [RebootBrings]_vars
  <2> SUFFICES ASSUME TypeInv, KernelArgsState = "pending-reboot", Understood, Reboot
               PROVE  Args \subseteq live'
    BY DEF RebootBrings
  <2>1. ~Missing(Wanted)
    BY DEF KernelArgsState
  <2>2. \A t \in exists : Args \subseteq carries[t]
    BY <2>1, WantedLacks DEF Missing, TypeInv, TypeOK
  <2> QED BY <2>2 DEF Reboot
<1> QED BY <1>1, TypeInit, TypeStep, PTL DEF Spec, RebootSuffices
=============================================================================
